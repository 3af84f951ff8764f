--------------------------- MODULE TopologyProofs ---------------------------
(***************************************************************************)
(* The index routes and defines as the topology lists, whatever it lists.  *)
(***************************************************************************)
EXTENDS TopologyIndex, SequenceTheorems, TLAPS

-----------------------------------------------------------------------------
(* The loops of NewUpdateServer as folds of SeqFold: a step for each loop, *)
(* and what an element adds to each map and takes from it.  A fact <<k, v>>*)
(* of githubPackages is that v is the package of id k, one of packageToHost*)
(* that v is among the hosts of id k.                                      *)
GithubStep(packages, pack, entry) == PutGithub(packages, pack)
PackStep(hosts, pack, entry)      == PutHost(hosts, pack.id, entry.name)
SkipStep(hosts, id, entry)        == PutHost(hosts, id, entry.name)
BaseStep(ix, pack, t)             == AddBaseline(ix, pack)
EntryStep(ix, entry, t)           == AddHostPackages(ix, entry)

Defines(packages, p)  == p[1] \in DOMAIN packages /\ packages[p[1]] = p[2]
Routes(hosts, p)      == p[1] \in DOMAIN hosts /\ p[2] \in hosts[p[1]]
IndexDefines(ix, p)   == Defines(ix.githubPackages, p)
IndexRoutes(ix, p)    == Routes(ix.packageToHost, p)

Redefines(pack, c, p)   == pack.github # NoRepo /\ p[1] = pack.id
PackDefines(pack, c, p) == Redefines(pack, c, p) /\ p[2] = pack
PackRoutes(pack, entry, p) == p[1] = pack.id /\ p[2] = entry.name
SkipRoutes(id, entry, p)   == p[1] = id /\ p[2] = entry.name
BaseRoutes(pack, t, p)     == p[1] = pack.id /\ p[2] = ALL_HOSTS
BaseReroutes(pack, t, p)   == p[1] = pack.id
Nothing(x, c, p) == FALSE

EntryDefines(entry, t, p) ==
  \E j \in 1..Len(entry.packages) :
    /\ PackDefines(entry.packages[j], 0, p)
    /\ \A i \in j + 1 .. Len(entry.packages) : ~Redefines(entry.packages[i], 0, p)
EntryRedefines(entry, t, p) ==
  \E j \in 1..Len(entry.packages) : Redefines(entry.packages[j], 0, p)
EntryRoutes(entry, t, p) ==
  \/ \E j \in 1..Len(entry.packages) : PackRoutes(entry.packages[j], entry, p)
  \/ \E j \in 1..Len(entry.skipped) : SkipRoutes(entry.skipped[j], entry, p)

GithubFold == INSTANCE SeqFold
  WITH Op <- GithubStep, Holds <- Defines, Adds <- PackDefines, Removes <- Redefines
PackFold == INSTANCE SeqFold
  WITH Op <- PackStep, Holds <- Routes, Adds <- PackRoutes, Removes <- Nothing
SkipFold == INSTANCE SeqFold
  WITH Op <- SkipStep, Holds <- Routes, Adds <- SkipRoutes, Removes <- Nothing
BaseDefFold == INSTANCE SeqFold
  WITH Op <- BaseStep, Holds <- IndexDefines, Adds <- PackDefines, Removes <- Redefines
BaseFold == INSTANCE SeqFold
  WITH Op <- BaseStep, Holds <- IndexRoutes, Adds <- BaseRoutes, Removes <- BaseReroutes
EntryDefFold == INSTANCE SeqFold
  WITH Op <- EntryStep, Holds <- IndexDefines, Adds <- EntryDefines,
       Removes <- EntryRedefines
EntryFold == INSTANCE SeqFold
  WITH Op <- EntryStep, Holds <- IndexRoutes, Adds <- EntryRoutes, Removes <- Nothing

-----------------------------------------------------------------------------
LEMMA MaxOf ==
  ASSUME NEW n \in Nat, NEW s \in SUBSET (1..n), s # {}
  PROVE  Max(s) \in s /\ \A y \in s : y <= Max(s)
<1> DEFINE T == {b \in 0..n : \A y \in s : y <= b}
<1>1. T \subseteq Nat /\ n \in T
  OBVIOUS
<1>2. PICK b \in T : \A x \in T : b <= x
  <2> HIDE DEF T
  <2>1. QED
    BY <1>1, GithubFold!LeastNat
<1>3. b \in s
  <2>1. SUFFICES ASSUME b \notin s PROVE FALSE
    OBVIOUS
  <2>2. \A y \in s : y <= b - 1 /\ b - 1 \in 0..n
    BY <2>1
  <2>3. b - 1 \in T
    BY <2>2
  <2>4. QED
    BY <1>2, <2>3
<1>4. \E x \in s : \A y \in s : x >= y
  BY <1>3
<1>5. Max(s) \in s /\ \A y \in s : Max(s) >= y
  BY <1>4 DEF Max
<1>6. QED
  BY <1>5

LEMMA ListFacts ==
  ASSUME NEW x, IsList(x)
  PROVE  /\ Len(x) \in Nat /\ DOMAIN x = 1..Len(x)
         /\ \A e : e \in ToSet(x) <=> \E i \in 1..Len(x) : x[i] = e
<1>1. Len(x) \in Nat /\ DOMAIN x = 1..Len(x)
  BY LenProperties DEF IsList
<1>2. QED
  BY <1>1 DEF ToSet

-----------------------------------------------------------------------------
(* What each loop leaves.                                                  *)
LEMMA GithubLoop ==
  ASSUME NEW q, IsList(q), NEW base, NEW p
  PROVE  Defines(FoldLeft(PutGithub, base, q), p)
           <=> \/ \E j \in 1..Len(q) : /\ PackDefines(q[j], 0, p)
                                       /\ \A i \in j + 1 .. Len(q) : ~Redefines(q[i], 0, p)
               \/ /\ Defines(base, p)
                  /\ \A i \in 1..Len(q) : ~Redefines(q[i], 0, p)
<1> DEFINE n == Len(q)
           mx == [s \in SUBSET (1..n) |-> Max(s)]
           G(g) == g = [s \in SUBSET (1..n) |->
                          IF s = {} THEN base ELSE PutGithub(g[s \ {Max(s)}], q[Max(s)])]
<1>1. n \in Nat /\ DOMAIN q = 1..n
  BY ListFacts
<1>2. GithubFold!Greatest(mx, n)
  BY <1>1, MaxOf DEF GithubFold!Greatest
<1>3. \A g : GithubFold!Folds(g, n, base, q, 0, mx) <=> G(g)
  BY <1>2 DEF GithubFold!Folds, GithubFold!Greatest, GithubStep
<1>4. FoldLeft(PutGithub, base, q) = (CHOOSE g : G(g))[1..n]
  BY <1>1 DEF FoldLeft, MapThenFoldSet
<1> HIDE DEF G, mx, n
<1>5. PICK g : g = (CHOOSE h : G(h)) /\ G(g)
  BY <1>1, <1>2, <1>3, GithubFold!FoldExists
<1>6. ASSUME NEW k \in 1..n, NEW x
      PROVE  Defines(GithubStep(x, q[k], 0), p)
               <=> PackDefines(q[k], 0, p) \/ (Defines(x, p) /\ ~Redefines(q[k], 0, p))
  BY DEF Defines, GithubStep, PutGithub, Assign, PackDefines, Redefines
<1>7. Defines(g[1..n], p)
        <=> \/ \E j \in 1..n : /\ PackDefines(q[j], 0, p)
                               /\ \A i \in j + 1 .. n : ~Redefines(q[i], 0, p)
            \/ /\ Defines(base, p)
               /\ \A i \in 1..n : ~Redefines(q[i], 0, p)
  BY <1>1, <1>2, <1>3, <1>5, <1>6, GithubFold!FoldFacts
<1>8. QED
  BY <1>4, <1>5, <1>7 DEF n

LEMMA PackLoop ==
  ASSUME NEW q, IsList(q), NEW base, NEW p, NEW entry
  PROVE  Routes(FoldLeft(LAMBDA hosts, pack : PutHost(hosts, pack.id, entry.name), base, q), p)
           <=> \/ \E j \in 1..Len(q) : PackRoutes(q[j], entry, p)
               \/ Routes(base, p)
<1> DEFINE n == Len(q)
           mx == [s \in SUBSET (1..n) |-> Max(s)]
           G(g) == g = [s \in SUBSET (1..n) |->
                          IF s = {} THEN base ELSE PutHost(g[s \ {Max(s)}], q[Max(s)].id, entry.name)]
<1>1. n \in Nat /\ DOMAIN q = 1..n
  BY ListFacts
<1>2. PackFold!Greatest(mx, n)
  BY <1>1, MaxOf DEF PackFold!Greatest
<1>3. \A g : PackFold!Folds(g, n, base, q, entry, mx) <=> G(g)
  BY <1>2 DEF PackFold!Folds, PackFold!Greatest, PackStep
<1>4. FoldLeft(LAMBDA hosts, pack : PutHost(hosts, pack.id, entry.name), base, q) = (CHOOSE g : G(g))[1..n]
  BY <1>1 DEF FoldLeft, MapThenFoldSet
<1> HIDE DEF G, mx, n
<1>5. PICK g : g = (CHOOSE h : G(h)) /\ G(g)
  BY <1>1, <1>2, <1>3, PackFold!FoldExists
<1>6. ASSUME NEW k \in 1..n, NEW x
      PROVE  Routes(PackStep(x, q[k], entry), p)
               <=> PackRoutes(q[k], entry, p) \/ (Routes(x, p) /\ ~Nothing(q[k], entry, p))
  BY DEF Routes, PackStep, PutHost, Assign, PackRoutes, Nothing
<1>7. Routes(g[1..n], p)
        <=> \/ \E j \in 1..n : PackRoutes(q[j], entry, p)
            \/ Routes(base, p)
  BY <1>1, <1>2, <1>3, <1>5, <1>6, PackFold!FoldFacts DEF Nothing
<1>8. QED
  BY <1>4, <1>5, <1>7 DEF n

LEMMA SkipLoop ==
  ASSUME NEW q, IsList(q), NEW base, NEW p, NEW entry
  PROVE  Routes(FoldLeft(LAMBDA hosts, id : PutHost(hosts, id, entry.name), base, q), p)
           <=> \/ \E j \in 1..Len(q) : SkipRoutes(q[j], entry, p)
               \/ Routes(base, p)
<1> DEFINE n == Len(q)
           mx == [s \in SUBSET (1..n) |-> Max(s)]
           G(g) == g = [s \in SUBSET (1..n) |->
                          IF s = {} THEN base ELSE PutHost(g[s \ {Max(s)}], q[Max(s)], entry.name)]
<1>1. n \in Nat /\ DOMAIN q = 1..n
  BY ListFacts
<1>2. SkipFold!Greatest(mx, n)
  BY <1>1, MaxOf DEF SkipFold!Greatest
<1>3. \A g : SkipFold!Folds(g, n, base, q, entry, mx) <=> G(g)
  BY <1>2 DEF SkipFold!Folds, SkipFold!Greatest, SkipStep
<1>4. FoldLeft(LAMBDA hosts, id : PutHost(hosts, id, entry.name), base, q) = (CHOOSE g : G(g))[1..n]
  BY <1>1 DEF FoldLeft, MapThenFoldSet
<1> HIDE DEF G, mx, n
<1>5. PICK g : g = (CHOOSE h : G(h)) /\ G(g)
  BY <1>1, <1>2, <1>3, SkipFold!FoldExists
<1>6. ASSUME NEW k \in 1..n, NEW x
      PROVE  Routes(SkipStep(x, q[k], entry), p)
               <=> SkipRoutes(q[k], entry, p) \/ (Routes(x, p) /\ ~Nothing(q[k], entry, p))
  BY DEF Routes, SkipStep, PutHost, Assign, SkipRoutes, Nothing
<1>7. Routes(g[1..n], p)
        <=> \/ \E j \in 1..n : SkipRoutes(q[j], entry, p)
            \/ Routes(base, p)
  BY <1>1, <1>2, <1>3, <1>5, <1>6, SkipFold!FoldFacts DEF Nothing
<1>8. QED
  BY <1>4, <1>5, <1>7 DEF n

LEMMA BaselineLoopDefines ==
  ASSUME NEW q, IsList(q), NEW base, NEW p
  PROVE  IndexDefines(FoldLeft(AddBaseline, base, q), p)
           <=> \/ \E j \in 1..Len(q) : /\ PackDefines(q[j], 0, p)
                              /\ \A i \in j + 1 .. Len(q) : ~Redefines(q[i], 0, p)
               \/ /\ IndexDefines(base, p)
                  /\ \A i \in 1..Len(q) : ~Redefines(q[i], 0, p)
<1> DEFINE n == Len(q)
           mx == [s \in SUBSET (1..n) |-> Max(s)]
           G(g) == g = [s \in SUBSET (1..n) |->
                          IF s = {} THEN base ELSE AddBaseline(g[s \ {Max(s)}], q[Max(s)])]
<1>1. n \in Nat /\ DOMAIN q = 1..n
  BY ListFacts
<1>2. BaseDefFold!Greatest(mx, n)
  BY <1>1, MaxOf DEF BaseDefFold!Greatest
<1>3. \A g : BaseDefFold!Folds(g, n, base, q, 0, mx) <=> G(g)
  BY <1>2 DEF BaseDefFold!Folds, BaseDefFold!Greatest, BaseStep
<1>4. FoldLeft(AddBaseline, base, q) = (CHOOSE g : G(g))[1..n]
  BY <1>1 DEF FoldLeft, MapThenFoldSet
<1> HIDE DEF G, mx, n
<1>5. PICK g : g = (CHOOSE h : G(h)) /\ G(g)
  BY <1>1, <1>2, <1>3, BaseDefFold!FoldExists
<1>6. ASSUME NEW k \in 1..n, NEW x
      PROVE  IndexDefines(BaseStep(x, q[k], 0), p)
               <=> PackDefines(q[k], 0, p) \/ (IndexDefines(x, p) /\ ~Redefines(q[k], 0, p))
  BY DEF IndexDefines, Defines, BaseStep, AddBaseline, PutGithub, Assign, PackDefines, Redefines
<1>7. IndexDefines(g[1..n], p)
        <=> \/ \E j \in 1..n : /\ PackDefines(q[j], 0, p)
                           /\ \A i \in j + 1 .. n : ~Redefines(q[i], 0, p)
            \/ /\ IndexDefines(base, p)
               /\ \A i \in 1..n : ~Redefines(q[i], 0, p)
  BY <1>1, <1>2, <1>3, <1>5, <1>6, BaseDefFold!FoldFacts
<1>8. QED
  BY <1>4, <1>5, <1>7 DEF n

LEMMA BaselineLoopRoutes ==
  ASSUME NEW q, IsList(q), NEW base, NEW p
  PROVE  IndexRoutes(FoldLeft(AddBaseline, base, q), p)
           <=> \/ \E j \in 1..Len(q) : /\ BaseRoutes(q[j], 0, p)
                              /\ \A i \in j + 1 .. Len(q) : ~BaseReroutes(q[i], 0, p)
               \/ /\ IndexRoutes(base, p)
                  /\ \A i \in 1..Len(q) : ~BaseReroutes(q[i], 0, p)
<1> DEFINE n == Len(q)
           mx == [s \in SUBSET (1..n) |-> Max(s)]
           G(g) == g = [s \in SUBSET (1..n) |->
                          IF s = {} THEN base ELSE AddBaseline(g[s \ {Max(s)}], q[Max(s)])]
<1>1. n \in Nat /\ DOMAIN q = 1..n
  BY ListFacts
<1>2. BaseFold!Greatest(mx, n)
  BY <1>1, MaxOf DEF BaseFold!Greatest
<1>3. \A g : BaseFold!Folds(g, n, base, q, 0, mx) <=> G(g)
  BY <1>2 DEF BaseFold!Folds, BaseFold!Greatest, BaseStep
<1>4. FoldLeft(AddBaseline, base, q) = (CHOOSE g : G(g))[1..n]
  BY <1>1 DEF FoldLeft, MapThenFoldSet
<1> HIDE DEF G, mx, n
<1>5. PICK g : g = (CHOOSE h : G(h)) /\ G(g)
  BY <1>1, <1>2, <1>3, BaseFold!FoldExists
<1>6. ASSUME NEW k \in 1..n, NEW x
      PROVE  IndexRoutes(BaseStep(x, q[k], 0), p)
               <=> BaseRoutes(q[k], 0, p) \/ (IndexRoutes(x, p) /\ ~BaseReroutes(q[k], 0, p))
  BY DEF IndexRoutes, Routes, BaseStep, AddBaseline, Assign, BaseRoutes, BaseReroutes
<1>7. IndexRoutes(g[1..n], p)
        <=> \/ \E j \in 1..n : /\ BaseRoutes(q[j], 0, p)
                           /\ \A i \in j + 1 .. n : ~BaseReroutes(q[i], 0, p)
            \/ /\ IndexRoutes(base, p)
               /\ \A i \in 1..n : ~BaseReroutes(q[i], 0, p)
  BY <1>1, <1>2, <1>3, <1>5, <1>6, BaseFold!FoldFacts
<1>8. QED
  BY <1>4, <1>5, <1>7 DEF n

\* What the loops over one host entry do to the maps.
LEMMA EntryEffect ==
  ASSUME NEW entry, IsList(entry.packages), IsList(entry.skipped), NEW x, NEW p
  PROVE  /\ IndexDefines(EntryStep(x, entry, 0), p)
              <=> \/ EntryDefines(entry, 0, p)
                  \/ IndexDefines(x, p) /\ ~EntryRedefines(entry, 0, p)
         /\ IndexRoutes(EntryStep(x, entry, 0), p)
              <=> EntryRoutes(entry, 0, p) \/ (IndexRoutes(x, p) /\ ~Nothing(entry, 0, p))
<1> DEFINE defined == FoldLeft(PutGithub, x.githubPackages, entry.packages)
           listed == FoldLeft(LAMBDA hosts, pack : PutHost(hosts, pack.id, entry.name),
                              x.packageToHost, entry.packages)
           routed == FoldLeft(LAMBDA hosts, id : PutHost(hosts, id, entry.name),
                              listed, entry.skipped)
<1>1. AddHostPackages(x, entry) = [githubPackages |-> defined, packageToHost |-> routed]
  BY DEF AddHostPackages
<1>2. Defines(defined, p)
        <=> \/ EntryDefines(entry, 0, p)
            \/ IndexDefines(x, p) /\ ~EntryRedefines(entry, 0, p)
  <2>1. Defines(defined, p)
          <=> \/ \E j \in 1..Len(entry.packages) :
                   /\ PackDefines(entry.packages[j], 0, p)
                   /\ \A i \in j + 1 .. Len(entry.packages) :
                        ~Redefines(entry.packages[i], 0, p)
              \/ /\ Defines(x.githubPackages, p)
                 /\ \A i \in 1..Len(entry.packages) : ~Redefines(entry.packages[i], 0, p)
    BY GithubLoop
  <2> HIDE DEF defined
  <2>2. QED
    BY <2>1 DEF EntryDefines, EntryRedefines, IndexDefines
<1>3. Routes(listed, p)
        <=> \/ \E j \in 1..Len(entry.packages) : PackRoutes(entry.packages[j], entry, p)
            \/ Routes(x.packageToHost, p)
  BY PackLoop
<1>4. Routes(routed, p)
        <=> \/ \E j \in 1..Len(entry.skipped) : SkipRoutes(entry.skipped[j], entry, p)
            \/ Routes(listed, p)
  <2> HIDE DEF listed
  <2>1. QED
    BY SkipLoop
<1> HIDE DEF defined, listed, routed
<1>5. QED
  BY <1>1, <1>2, <1>3, <1>4
     DEF EntryStep, IndexDefines, IndexRoutes, EntryRoutes, Nothing

LEMMA HostLoop ==
  ASSUME NEW q, IsList(q), NEW base, NEW p,
         \A e \in ToSet(q) : IsList(e.packages) /\ IsList(e.skipped)
  PROVE  /\ IndexDefines(FoldLeft(AddHostPackages, base, q), p)
              <=> \/ \E j \in 1..Len(q) :
                       /\ EntryDefines(q[j], 0, p)
                       /\ \A i \in j + 1 .. Len(q) : ~EntryRedefines(q[i], 0, p)
                  \/ /\ IndexDefines(base, p)
                     /\ \A i \in 1..Len(q) : ~EntryRedefines(q[i], 0, p)
         /\ IndexRoutes(FoldLeft(AddHostPackages, base, q), p)
              <=> \/ \E j \in 1..Len(q) : EntryRoutes(q[j], 0, p)
                  \/ IndexRoutes(base, p)
<1> DEFINE n == Len(q)
           mx == [s \in SUBSET (1..n) |-> Max(s)]
           G(g) == g = [s \in SUBSET (1..n) |->
                          IF s = {} THEN base
                          ELSE AddHostPackages(g[s \ {Max(s)}], q[Max(s)])]
<1>1. n \in Nat /\ DOMAIN q = 1..n /\ \A i \in 1..n : q[i] \in ToSet(q)
  BY ListFacts
<1>2. EntryFold!Greatest(mx, n) /\ EntryDefFold!Greatest(mx, n)
  BY <1>1, MaxOf DEF EntryFold!Greatest, EntryDefFold!Greatest
<1>3. \A g : /\ EntryFold!Folds(g, n, base, q, 0, mx) <=> G(g)
             /\ EntryDefFold!Folds(g, n, base, q, 0, mx) <=> G(g)
  BY <1>2 DEF EntryFold!Folds, EntryFold!Greatest, EntryDefFold!Folds, EntryStep
<1>4. FoldLeft(AddHostPackages, base, q) = (CHOOSE g : G(g))[1..n]
  BY <1>1 DEF FoldLeft, MapThenFoldSet
<1> HIDE DEF G, mx, n
<1>5. PICK g : g = (CHOOSE h : G(h)) /\ G(g)
  BY <1>1, <1>2, <1>3, EntryFold!FoldExists
<1>6. ASSUME NEW k \in 1..n, NEW x
      PROVE  /\ IndexDefines(EntryStep(x, q[k], 0), p)
                  <=> \/ EntryDefines(q[k], 0, p)
                      \/ IndexDefines(x, p) /\ ~EntryRedefines(q[k], 0, p)
             /\ IndexRoutes(EntryStep(x, q[k], 0), p)
                  <=> EntryRoutes(q[k], 0, p) \/ (IndexRoutes(x, p) /\ ~Nothing(q[k], 0, p))
  BY <1>1, EntryEffect
<1>7. IndexDefines(g[1..n], p)
        <=> \/ \E j \in 1..n : /\ EntryDefines(q[j], 0, p)
                               /\ \A i \in j + 1 .. n : ~EntryRedefines(q[i], 0, p)
            \/ /\ IndexDefines(base, p)
               /\ \A i \in 1..n : ~EntryRedefines(q[i], 0, p)
  BY <1>1, <1>2, <1>3, <1>5, <1>6, EntryDefFold!FoldFacts
<1>8. IndexRoutes(g[1..n], p)
        <=> (\E j \in 1..n : EntryRoutes(q[j], 0, p)) \/ IndexRoutes(base, p)
  BY <1>1, <1>2, <1>3, <1>5, <1>6, EntryFold!FoldFacts DEF Nothing
<1>9. QED
  BY <1>4, <1>5, <1>7, <1>8 DEF n

-----------------------------------------------------------------------------
(* What the index holds.                                                   *)
LEMMA NothingIndexed ==
  ASSUME NEW p
  PROVE  ~IndexDefines(EmptyIndex, p) /\ ~IndexRoutes(EmptyIndex, p)
<1>1. DOMAIN <<>> = {}
  OBVIOUS
<1>2. QED
  BY <1>1 DEF IndexDefines, IndexRoutes, Defines, Routes, EmptyIndex

LEMMA IndexRoutesTo ==
  ASSUME NEW t, IsTopology(t), NEW id, NEW name
  PROVE  IndexRoutes(Index(t), <<id, name>>)
           <=> \/ InBaseline(t, id) /\ name = ALL_HOSTS
               \/ ListedFor(t, id, name) \/ SkippedBy(t, id, name)
<1> DEFINE p == <<id, name>>
           b == FoldLeft(AddBaseline, EmptyIndex, t.baseline)
           q == t.baseline
           h == t.hosts
<1>1. /\ IsList(q) /\ IsList(h)
      /\ \A e \in ToSet(h) : IsList(e.packages) /\ IsList(e.skipped)
  BY DEF IsTopology
<1>2. p[1] = id /\ p[2] = name
  OBVIOUS
<1>3. IndexRoutes(b, p)
        <=> \E j \in 1..Len(q) : /\ BaseRoutes(q[j], 0, p)
                                 /\ \A i \in j + 1 .. Len(q) : ~BaseReroutes(q[i], 0, p)
  BY <1>1, BaselineLoopRoutes, NothingIndexed
<1>4. IndexRoutes(Index(t), p)
        <=> (\E j \in 1..Len(h) : EntryRoutes(h[j], 0, p)) \/ IndexRoutes(b, p)
  <2>1. Index(t) = FoldLeft(AddHostPackages, b, h)
    BY DEF Index
  <2> HIDE DEF b, h
  <2>2. QED
    BY <1>1, <2>1, HostLoop
<1>5. Len(q) \in Nat /\ DOMAIN q = 1..Len(q)
  BY <1>1, ListFacts
<1>6. IndexRoutes(b, p) <=> InBaseline(t, id) /\ name = ALL_HOSTS
  <2>1. ASSUME InBaseline(t, id), name = ALL_HOSTS
        PROVE  \E j \in 1..Len(q) : /\ BaseRoutes(q[j], 0, p)
                                    /\ \A i \in j + 1 .. Len(q) : ~BaseReroutes(q[i], 0, p)
    <3> DEFINE S == {i \in 1..Len(q) : q[i].id = id}
    <3>1. S \in SUBSET (1..Len(q)) /\ S # {}
      BY <2>1, <1>5 DEF InBaseline
    <3>2. PICK j \in S : \A y \in S : y <= j
      BY <3>1, <1>5, MaxOf
    <3>3. j \in 1..Len(q) /\ q[j].id = id /\ \A i \in j + 1 .. Len(q) : i \notin S
      BY <3>2, <1>5
    <3>4. QED
      BY <3>3, <1>2, <1>5, <2>1 DEF BaseRoutes, BaseReroutes
  <2>2. ASSUME NEW j \in 1..Len(q), BaseRoutes(q[j], 0, p)
        PROVE  InBaseline(t, id) /\ name = ALL_HOSTS
    BY <2>2, <1>2, <1>5 DEF BaseRoutes, InBaseline
  <2> HIDE DEF b, p, q
  <2>3. QED
    BY <1>3, <2>1, <2>2
<1>7. (\E j \in 1..Len(h) : EntryRoutes(h[j], 0, p))
        <=> ListedFor(t, id, name) \/ SkippedBy(t, id, name)
  <2>1. \A e : e \in ToSet(h) <=> \E j \in 1..Len(h) : h[j] = e
    BY <1>1, ListFacts
  <2>2. ASSUME NEW e \in ToSet(h)
        PROVE  EntryRoutes(e, 0, p)
                 <=> /\ e.name = name
                     /\ \/ \E pack \in ToSet(e.packages) : pack.id = id
                        \/ id \in ToSet(e.skipped)
    <3>1. /\ \A x : x \in ToSet(e.packages) <=> \E i \in 1..Len(e.packages) : e.packages[i] = x
          /\ \A x : x \in ToSet(e.skipped) <=> \E i \in 1..Len(e.skipped) : e.skipped[i] = x
      BY <1>1, <2>2, ListFacts
    <3>2. QED
      BY <3>1, <1>2 DEF EntryRoutes, PackRoutes, SkipRoutes
  <2>3. QED
    BY <2>1, <2>2 DEF ListedFor, SkippedBy
<1>8. QED
  BY <1>4, <1>6, <1>7

\* The index routes as the topology lists.
LEMMA RoutesAsListed ==
  ASSUME NEW t, IsTopology(t), NEW id, NEW host
  PROVE  RoutedTo(Index(t), id, host) <=> Listed(t, id, host)
<1>1. RoutedTo(Index(t), id, host)
        <=> IndexRoutes(Index(t), <<id, host>>) \/ IndexRoutes(Index(t), <<id, ALL_HOSTS>>)
  BY DEF RoutedTo, IndexRoutes, Routes
<1>2. QED
  BY <1>1, IndexRoutesTo DEF Listed

\* A place is in the baseline or in a host entry, ...
LEMMA PlaceIs ==
  ASSUME NEW t, IsTopology(t), NEW i, NEW k
  PROVE  <<i, k>> \in Places(t)
           <=> \/ i = 0 /\ k \in 1..Len(t.baseline)
               \/ i \in 1..Len(t.hosts) /\ k \in 1..Len(t.hosts[i].packages)
<1>1. /\ DOMAIN t.baseline = 1..Len(t.baseline)
      /\ DOMAIN t.hosts = 1..Len(t.hosts)
      /\ \A e : e \in ToSet(t.hosts) <=> \E j \in 1..Len(t.hosts) : t.hosts[j] = e
  BY ListFacts DEF IsTopology
<1>2. \A j \in 1..Len(t.hosts) :
        DOMAIN t.hosts[j].packages = 1..Len(t.hosts[j].packages)
  BY <1>1, ListFacts DEF IsTopology
<1>3. QED
  BY <1>1, <1>2 DEF Places

LEMMA PlaceIsPair ==
  ASSUME NEW t, IsTopology(t), NEW place \in Places(t)
  PROVE  place = <<place[1], place[2]>> /\ place[1] \in Nat /\ place[2] \in Nat
<1>1. /\ DOMAIN t.baseline = 1..Len(t.baseline)
      /\ DOMAIN t.hosts = 1..Len(t.hosts)
      /\ \A e : e \in ToSet(t.hosts) <=> \E j \in 1..Len(t.hosts) : t.hosts[j] = e
  BY ListFacts DEF IsTopology
<1>2. \A j \in 1..Len(t.hosts) :
        DOMAIN t.hosts[j].packages = 1..Len(t.hosts[j].packages)
  BY <1>1, ListFacts DEF IsTopology
<1>3. QED
  BY <1>1, <1>2 DEF Places

\* ... the ids in the map of packages are those that have a last definition,
\* and map to it.
LEMMA IndexDefinesLast ==
  ASSUME NEW t, IsTopology(t), NEW id, NEW pack
  PROVE  IndexDefines(Index(t), <<id, pack>>)
           <=> \E place \in Places(t) :
                 /\ IsLast(t, place)
                 /\ PackageAt(t, place) = pack /\ pack.id = id
<1> DEFINE p == <<id, pack>>
           b == FoldLeft(AddBaseline, EmptyIndex, t.baseline)
           q == t.baseline
           h == t.hosts
           P(i) == h[i].packages
<1>1. /\ IsList(q) /\ IsList(h)
      /\ \A e \in ToSet(h) : IsList(e.packages) /\ IsList(e.skipped)
      /\ Len(q) \in Nat /\ Len(h) \in Nat
      /\ \A i \in 1..Len(h) : Len(P(i)) \in Nat
  BY ListFacts DEF IsTopology
<1>2. p[1] = id /\ p[2] = pack
  OBVIOUS
<1>3. IndexDefines(b, p)
        <=> \E j \in 1..Len(q) : /\ PackDefines(q[j], 0, p)
                                 /\ \A i \in j + 1 .. Len(q) : ~Redefines(q[i], 0, p)
  BY <1>1, BaselineLoopDefines, NothingIndexed
<1>4. IndexDefines(Index(t), p)
        <=> \/ \E j \in 1..Len(h) : /\ EntryDefines(h[j], 0, p)
                                    /\ \A i \in j + 1 .. Len(h) : ~EntryRedefines(h[i], 0, p)
            \/ /\ IndexDefines(b, p)
               /\ \A i \in 1..Len(h) : ~EntryRedefines(h[i], 0, p)
  <2>1. Index(t) = FoldLeft(AddHostPackages, b, h)
    BY DEF Index
  <2> HIDE DEF b, h
  <2>2. QED
    BY <1>1, <2>1, HostLoop
<1>5. /\ \A k : PackageAt(t, <<0, k>>) = q[k]
      /\ \A i \in 1..Len(h) : \A k : PackageAt(t, <<i, k>>) = P(i)[k]
  BY DEF PackageAt
<1>6. \A i, k : <<i, k>> \in Places(t)
                  <=> \/ i = 0 /\ k \in 1..Len(q)
                      \/ i \in 1..Len(h) /\ k \in 1..Len(P(i))
  BY PlaceIs
<1>7. \A i, j, k, l : Later(<<j, l>>, <<i, k>>) <=> j > i \/ (j = i /\ l > k)
  BY DEF Later
\* A place defines p for good if its package does and none later redefines it.
<1> DEFINE Good(place) ==
             /\ PackDefines(PackageAt(t, place), 0, p)
             /\ \A other \in Places(t) :
                  Later(other, place) => ~Redefines(PackageAt(t, other), 0, p)
<1>8. ASSUME NEW place
      PROVE  Good(place) <=> IsLast(t, place) /\ PackageAt(t, place) = pack /\ pack.id = id
  BY <1>2 DEF IsLast, PackDefines, Redefines
<1> HIDE DEF p, b, q, h, P
<1>9. ASSUME NEW k \in 1..Len(q)
      PROVE  Good(<<0, k>>)
               <=> /\ PackDefines(q[k], 0, p)
                   /\ \A i \in k + 1 .. Len(q) : ~Redefines(q[i], 0, p)
                   /\ \A i \in 1..Len(h) : ~EntryRedefines(h[i], 0, p)
  <2>1. ASSUME Good(<<0, k>>), NEW i \in k + 1 .. Len(q)
        PROVE  ~Redefines(q[i], 0, p)
    <3>1. i \in 1..Len(q) /\ i > k
      BY <1>1
    <3>2. <<0, i>> \in Places(t)
      BY <3>1, <1>6
    <3>3. Later(<<0, i>>, <<0, k>>)
      BY <3>1, <1>7
    <3>4. QED
      BY <2>1, <3>2, <3>3, <1>5
  <2>2. ASSUME Good(<<0, k>>), NEW i \in 1..Len(h), NEW l \in 1..Len(P(i))
        PROVE  ~Redefines(P(i)[l], 0, p)
    <3>1. i > 0
      BY <1>1
    <3>2. <<i, l>> \in Places(t)
      BY <1>6
    <3>3. Later(<<i, l>>, <<0, k>>)
      BY <3>1, <1>7
    <3>4. QED
      BY <2>2, <3>2, <3>3, <1>5
  <2>3. ASSUME \A i \in k + 1 .. Len(q) : ~Redefines(q[i], 0, p),
               \A i \in 1..Len(h) : \A l \in 1..Len(P(i)) : ~Redefines(P(i)[l], 0, p),
               NEW other \in Places(t), Later(other, <<0, k>>)
        PROVE  ~Redefines(PackageAt(t, other), 0, p)
    <3>1. PICK j \in Nat, l \in Nat : other = <<j, l>>
      BY PlaceIsPair
    <3>2. \/ j = 0 /\ l \in 1..Len(q)
          \/ j \in 1..Len(h) /\ l \in 1..Len(P(j))
      BY <2>3, <3>1, <1>6
    <3>3. j > 0 \/ (j = 0 /\ l > k)
      BY <2>3, <3>1, <1>7
    <3>4. CASE j = 0
      <4>1. l \in k + 1 .. Len(q)
        BY <3>2, <3>3, <3>4, <1>1
      <4>2. QED
        BY <2>3, <3>1, <3>4, <4>1, <1>5
    <3>5. CASE j # 0
      <4>1. PackageAt(t, other) = P(j)[l]
        BY <3>1, <3>2, <3>5, <1>5
      <4>2. QED
        BY <2>3, <3>2, <3>5, <4>1
    <3>6. QED
      BY <3>4, <3>5
  <2>4. \A i \in 1..Len(h) :
          EntryRedefines(h[i], 0, p) <=> \E l \in 1..Len(P(i)) : Redefines(P(i)[l], 0, p)
    BY DEF EntryRedefines, P
  <2>5. PackageAt(t, <<0, k>>) = q[k]
    BY <1>5
  <2>6. QED
    BY <2>1, <2>2, <2>3, <2>4, <2>5
<1>10. ASSUME NEW j \in 1..Len(h), NEW k \in 1..Len(P(j))
       PROVE  Good(<<j, k>>)
                <=> /\ PackDefines(P(j)[k], 0, p)
                    /\ \A i \in k + 1 .. Len(P(j)) : ~Redefines(P(j)[i], 0, p)
                    /\ \A i \in j + 1 .. Len(h) : ~EntryRedefines(h[i], 0, p)
  <2>1. ASSUME Good(<<j, k>>), NEW i \in k + 1 .. Len(P(j))
        PROVE  ~Redefines(P(j)[i], 0, p)
    <3>1. i \in 1..Len(P(j)) /\ i > k
      BY <1>1
    <3>2. <<j, i>> \in Places(t)
      BY <3>1, <1>6
    <3>3. Later(<<j, i>>, <<j, k>>)
      BY <3>1, <1>7
    <3>4. QED
      BY <2>1, <3>2, <3>3, <1>5
  <2>2. ASSUME Good(<<j, k>>), NEW i \in j + 1 .. Len(h), NEW l \in 1..Len(P(i))
        PROVE  ~Redefines(P(i)[l], 0, p)
    <3>1. i \in 1..Len(h) /\ i > j
      BY <1>1
    <3>2. <<i, l>> \in Places(t)
      BY <3>1, <1>6
    <3>3. Later(<<i, l>>, <<j, k>>)
      BY <3>1, <1>7
    <3>4. QED
      BY <2>2, <3>1, <3>2, <3>3, <1>5
  <2>3. ASSUME \A i \in k + 1 .. Len(P(j)) : ~Redefines(P(j)[i], 0, p),
               \A i \in j + 1 .. Len(h) : \A l \in 1..Len(P(i)) : ~Redefines(P(i)[l], 0, p),
               NEW other \in Places(t), Later(other, <<j, k>>)
        PROVE  ~Redefines(PackageAt(t, other), 0, p)
    <3>1. PICK i \in Nat, l \in Nat : other = <<i, l>>
      BY PlaceIsPair
    <3>2. i > j \/ (i = j /\ l > k)
      BY <2>3, <3>1, <1>7
    <3>3. i \in 1..Len(h) /\ l \in 1..Len(P(i))
      <4>1. i # 0
        BY <3>2, <1>1
      <4>2. QED
        BY <2>3, <3>1, <4>1, <1>6
    <3>4. PackageAt(t, other) = P(i)[l]
      BY <3>1, <3>3, <1>5
    <3>5. CASE i = j
      <4>1. l \in k + 1 .. Len(P(j))
        BY <3>2, <3>3, <3>5, <1>1
      <4>2. QED
        BY <2>3, <3>4, <3>5, <4>1
    <3>6. CASE i # j
      <4>1. i \in j + 1 .. Len(h)
        BY <3>2, <3>3, <3>6, <1>1
      <4>2. QED
        BY <2>3, <3>3, <3>4, <4>1
    <3>7. QED
      BY <3>5, <3>6
  <2>4. \A i \in j + 1 .. Len(h) :
          EntryRedefines(h[i], 0, p) <=> \E l \in 1..Len(P(i)) : Redefines(P(i)[l], 0, p)
    BY DEF EntryRedefines, P
  <2>5. PackageAt(t, <<j, k>>) = P(j)[k]
    BY <1>5
  <2>6. QED
    BY <2>1, <2>2, <2>3, <2>4, <2>5
<1>11. ASSUME NEW j \in 1..Len(h)
       PROVE  EntryDefines(h[j], 0, p)
                <=> \E k \in 1..Len(P(j)) :
                      /\ PackDefines(P(j)[k], 0, p)
                      /\ \A i \in k + 1 .. Len(P(j)) : ~Redefines(P(j)[i], 0, p)
  BY DEF EntryDefines, P
<1> HIDE DEF Good
<1>12. IndexDefines(Index(t), p)
         <=> \/ \E k \in 1..Len(q) : Good(<<0, k>>)
             \/ \E j \in 1..Len(h) : \E k \in 1..Len(P(j)) : Good(<<j, k>>)
  BY <1>3, <1>4, <1>9, <1>10, <1>11
<1>13. (\E place \in Places(t) : Good(place))
         <=> \/ \E k \in 1..Len(q) : Good(<<0, k>>)
             \/ \E j \in 1..Len(h) : \E k \in 1..Len(P(j)) : Good(<<j, k>>)
  <2>1. ASSUME NEW place \in Places(t), Good(place)
        PROVE  \/ \E k \in 1..Len(q) : Good(<<0, k>>)
               \/ \E j \in 1..Len(h) : \E k \in 1..Len(P(j)) : Good(<<j, k>>)
    <3>1. PICK i \in Nat, k \in Nat : place = <<i, k>>
      BY PlaceIsPair
    <3>2. QED
      BY <2>1, <3>1, <1>6
  <2>2. QED
    BY <2>1, <1>6
<1>14. QED
  BY <1>8, <1>12, <1>13 DEF p

-----------------------------------------------------------------------------
(* One server start.                                                       *)
IndexInv == Indexed => maps = Index(decoded) /\ IsTopology(decoded)

LEMMA AlwaysIndexInv == IndexSpec => [](decoded \in Topologies /\ IndexInv)
<1>1. IndexInit => decoded \in Topologies /\ IndexInv
  BY DEF IndexInit, IndexInv, Indexed
<1>2. decoded \in Topologies /\ IndexInv /\ [IndexNext]_indexVars
        => (decoded \in Topologies /\ IndexInv)'
  BY TopologyIndexAssumption
     DEF TopologyIndexAssumption, IndexNext, NewUpdateServer, indexVars, IndexInv, Indexed
<1>3. QED
  BY <1>1, <1>2, PTL DEF IndexSpec

\* Whatever the file lists, in whatever order and however often: a package of
\* the baseline goes to every host, another to the hosts whose entries name
\* it, and to no other.
THEOREM RoutesHold == IndexSpec => []RoutedAsListed
<1>1. IndexInv => RoutedAsListed
  BY RoutesAsListed DEF IndexInv, RoutedAsListed
<1>2. QED
  BY <1>1, AlwaysIndexInv, PTL

LEMMA LastFromInv == IndexInv => LastDefinitionWins
<1>1. SUFFICES ASSUME IndexInv, Indexed PROVE LastDefinitionWins
  BY DEF LastDefinitionWins
<1> DEFINE G == maps.githubPackages
           last == {p \in Places(decoded) : IsLast(decoded, p)}
<1>2. ASSUME NEW id, NEW pack
      PROVE  id \in DOMAIN G /\ G[id] = pack
               <=> \E place \in last : /\ PackageAt(decoded, place) = pack
                                       /\ PackageAt(decoded, place).id = id
  <2>1. IndexDefines(maps, <<id, pack>>)
          <=> \E place \in last : /\ PackageAt(decoded, place) = pack
                                  /\ PackageAt(decoded, place).id = id
    BY <1>1, IndexDefinesLast DEF IndexInv
  <2>2. IndexDefines(maps, <<id, pack>>) <=> id \in DOMAIN G /\ G[id] = pack
    BY DEF IndexDefines, Defines
  <2> HIDE DEF G, last
  <2>3. QED
    BY <2>1, <2>2
<1> HIDE DEF G, last
<1>3. \A x : x \in {<<id, G[id]>> : id \in DOMAIN G}
               <=> x \in {<<PackageAt(decoded, p).id, PackageAt(decoded, p)>> : p \in last}
  BY <1>2
<1>4. {<<id, G[id]>> : id \in DOMAIN G}
        = {<<PackageAt(decoded, p).id, PackageAt(decoded, p)>> : p \in last}
  BY <1>3
<1>5. QED
  BY <1>4 DEF LastDefinitionWins, G, last

\* And of all packages with an id and a repository, the one listed last
\* decides which assets and which commands every host gets.
THEOREM LastHolds == IndexSpec => []LastDefinitionWins
BY LastFromInv, AlwaysIndexInv, PTL
=============================================================================
