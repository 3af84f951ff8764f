------------------------------- MODULE SeqFold -------------------------------
(***************************************************************************)
(* What folding a sequence from the left leaves of each of its elements.   *)
(* An element adds facts to what is folded and removes others; a fact      *)
(* holds at the end if some element added it, or it held at the start, and *)
(* nothing removed it after that.  The module is instantiated for each     *)
(* fold of Topology.                                                       *)
(***************************************************************************)
EXTENDS Integers, WellFoundedInduction, TLAPS

CONSTANTS Op(_, _, _),      \* what is folded, an element and a context
          Holds(_, _),      \* does this hold of what is folded?
          Adds(_, _, _),    \* does an element, in a context, add this?
          Removes(_, _, _)  \* or remove it?

LEMMA LeastNat ==
  ASSUME NEW T, T \subseteq Nat, T # {}
  PROVE  \E x \in T : \A y \in T : x <= y
<1>1. IsWellFoundedOn(OpToRel(<, Nat), Nat)
  BY NatLessThanWellFounded
<1>2. PICK x \in T : \A y \in T : <<y, x>> \notin OpToRel(<, Nat)
  BY <1>1, WFMin
<1>3. \A y \in T : ~(y < x)
  BY <1>2 DEF OpToRel
<1>4. QED
  BY <1>3

\* The function g by which a fold of the elements 1..n is defined, where mx
\* gives the greatest element of a set.
Folds(g, n, base, q, c, mx) ==
  g = [s \in SUBSET (1..n) |->
         IF s = {} THEN base ELSE Op(g[s \ {mx[s]}], q[mx[s]], c)]

Greatest(mx, n) ==
  \A s \in SUBSET (1..n) : s # {} => mx[s] \in s /\ \A y \in s : y <= mx[s]

\* There is one.
LEMMA FoldExists ==
  ASSUME NEW n \in Nat, NEW base, NEW q, NEW c, NEW mx, Greatest(mx, n)
  PROVE  \E g : Folds(g, n, base, q, c, mx)
<1> DEFINE T == {m \in 0..n : ~\E g : Folds(g, m, base, q, c, mx)}
<1>1. T = {}
  <2>1. SUFFICES ASSUME T # {} PROVE FALSE
    OBVIOUS
  <2>2. PICK m \in T : \A y \in T : m <= y
    <3>1. T \subseteq Nat
      OBVIOUS
    <3> HIDE DEF T
    <3>2. QED
      BY <2>1, <3>1, LeastNat
  <2>3. m \in Nat /\ m <= n /\ ~\E g : Folds(g, m, base, q, c, mx)
    OBVIOUS
  <2>4. CASE m = 0
    <3> DEFINE g == [s \in SUBSET (1..0) |-> base]
    <3>1. \A s \in SUBSET (1..0) : s = {}
      OBVIOUS
    <3>2. g = [s \in SUBSET (1..0) |->
                 IF s = {} THEN base ELSE Op(g[s \ {mx[s]}], q[mx[s]], c)]
      BY <3>1
    <3>3. Folds(g, m, base, q, c, mx)
      BY <2>4, <3>2 DEF Folds
    <3>4. QED
      BY <2>3, <3>3
  <2>5. CASE m # 0
    <3>1. m - 1 \in 0..n /\ ~(m <= m - 1)
      BY <2>3, <2>5
    <3>2. PICK h : Folds(h, m - 1, base, q, c, mx)
      BY <2>2, <3>1
    <3>3. \A s \in SUBSET (1 .. m - 1) :
            h[s] = IF s = {} THEN base ELSE Op(h[s \ {mx[s]}], q[mx[s]], c)
      BY <3>2 DEF Folds
    <3> DEFINE g == [s \in SUBSET (1..m) |-> IF m \in s THEN Op(h[s \ {m}], q[m], c) ELSE h[s]]
    <3>4. ASSUME NEW s \in SUBSET (1..m)
          PROVE  g[s] = IF s = {} THEN base ELSE Op(g[s \ {mx[s]}], q[mx[s]], c)
      <4>1. CASE m \in s
        <5>1. mx[s] \in s /\ m <= mx[s] /\ s \in SUBSET (1..n)
          BY <4>1, <2>3 DEF Greatest
        <5>2. mx[s] = m
          BY <5>1, <3>4, <2>3
        <5>3. s \ {m} \in SUBSET (1..m) /\ m \notin s \ {m}
          OBVIOUS
        <5>4. g[s \ {m}] = h[s \ {m}]
          BY <5>3
        <5>5. QED
          BY <4>1, <5>2, <5>4
      <4>2. CASE m \notin s
        <5>1. s \in SUBSET (1 .. m - 1)
          BY <4>2, <2>3
        <5>2. g[s] = h[s]
          BY <4>2
        <5>3. s \ {mx[s]} \in SUBSET (1..m) /\ m \notin s \ {mx[s]}
          BY <4>2
        <5>4. g[s \ {mx[s]}] = h[s \ {mx[s]}]
          BY <5>3
        <5>5. QED
          BY <3>3, <5>1, <5>2, <5>4
      <4>3. QED
        BY <4>1, <4>2
    <3>5. g = [s \in SUBSET (1..m) |-> g[s]]
      OBVIOUS
    <3> HIDE DEF g
    <3>6. g = [s \in SUBSET (1..m) |->
                 IF s = {} THEN base ELSE Op(g[s \ {mx[s]}], q[mx[s]], c)]
      BY <3>4, <3>5, Zenon
    <3>7. Folds(g, m, base, q, c, mx)
      BY <3>6 DEF Folds
    <3>8. QED
      BY <2>3, <3>7
  <2>6. QED
    BY <2>4, <2>5
<1>2. n \in 0..n
  OBVIOUS
<1>3. QED
  BY <1>1, <1>2

\* And what holds of its result.
LEMMA FoldFacts ==
  ASSUME NEW n \in Nat, NEW base, NEW q, NEW c, NEW mx, Greatest(mx, n),
         NEW g, Folds(g, n, base, q, c, mx),
         NEW p,
         \A k \in 1..n : \A x :
           Holds(Op(x, q[k], c), p)
             <=> Adds(q[k], c, p) \/ (Holds(x, p) /\ ~Removes(q[k], c, p))
  PROVE  Holds(g[1..n], p)
           <=> \/ \E j \in 1..n : /\ Adds(q[j], c, p)
                                  /\ \A i \in j + 1 .. n : ~Removes(q[i], c, p)
               \/ /\ Holds(base, p)
                  /\ \A i \in 1..n : ~Removes(q[i], c, p)
<1> DEFINE Right(k) ==
             \/ \E j \in 1..k : /\ Adds(q[j], c, p)
                                /\ \A i \in j + 1 .. k : ~Removes(q[i], c, p)
             \/ /\ Holds(base, p)
                /\ \A i \in 1..k : ~Removes(q[i], c, p)
           T == {k \in 0..n : ~(Holds(g[1..k], p) <=> Right(k))}
<1>1. \A s \in SUBSET (1..n) :
        g[s] = IF s = {} THEN base ELSE Op(g[s \ {mx[s]}], q[mx[s]], c)
  BY DEF Folds
<1>2. Holds(g[1..0], p) <=> Right(0)
  <2>1. 1..0 = {} /\ {} \in SUBSET (1..n)
    OBVIOUS
  <2>2. g[1..0] = base
    BY <2>1, <1>1
  <2>3. QED
    BY <2>1, <2>2
<1>3. ASSUME NEW k \in 1..n, Holds(g[1 .. k - 1], p) <=> Right(k - 1)
      PROVE  Holds(g[1..k], p) <=> Right(k)
  <2>1. k \in Nat /\ 1..k \in SUBSET (1..n) /\ k \in 1..k
    OBVIOUS
  <2>2. mx[1..k] \in 1..k /\ k <= mx[1..k]
    BY <2>1 DEF Greatest
  <2>3. mx[1..k] = k
    BY <2>1, <2>2
  <2>4. (1..k) \ {k} = 1 .. k - 1
    OBVIOUS
  <2>5. g[1..k] = Op(g[1 .. k - 1], q[k], c)
    BY <1>1, <2>1, <2>3, <2>4
  <2>6. Holds(g[1..k], p)
          <=> Adds(q[k], c, p) \/ (Holds(g[1 .. k - 1], p) /\ ~Removes(q[k], c, p))
    BY <2>5
  <2>7. Right(k) <=> Adds(q[k], c, p) \/ (Right(k - 1) /\ ~Removes(q[k], c, p))
    <3>1. \A i \in 1..k : i \in 1 .. k - 1 \/ i = k
      OBVIOUS
    <3>2. \A i \in 1 .. k - 1 : i \in 1..k /\ k \in i + 1 .. k
      OBVIOUS
    <3>3. \A j \in 1 .. k - 1 : \A i \in j + 1 .. k : i \in j + 1 .. k - 1 \/ i = k
      OBVIOUS
    <3>4. \A j \in 1 .. k - 1 : \A i \in j + 1 .. k - 1 : i \in j + 1 .. k
      OBVIOUS
    <3>5. \A i \in k + 1 .. k : FALSE
      OBVIOUS
    <3>6. QED
      BY <2>1, <3>1, <3>2, <3>3, <3>4, <3>5, Zenon
  <2>8. QED
    BY <1>3, <2>6, <2>7
<1>4. T = {}
  <2>1. SUFFICES ASSUME T # {} PROVE FALSE
    OBVIOUS
  <2>2. PICK k \in T : \A y \in T : k <= y
    <3>1. T \subseteq Nat
      OBVIOUS
    <3> HIDE DEF T
    <3>2. QED
      BY <2>1, <3>1, LeastNat
  <2>3. k \in 0..n /\ ~(Holds(g[1..k], p) <=> Right(k))
    OBVIOUS
  <2> HIDE DEF Right
  <2>4. k # 0
    BY <2>3, <1>2
  <2>5. k - 1 \in 0..n /\ k \in 1..n /\ ~(k <= k - 1)
    BY <2>3, <2>4
  <2>6. Holds(g[1 .. k - 1], p) <=> Right(k - 1)
    BY <2>2, <2>5
  <2>7. QED
    BY <2>3, <2>5, <2>6, <1>3
<1>5. n \in 0..n
  OBVIOUS
<1>6. Holds(g[1..n], p) <=> Right(n)
  BY <1>4, <1>5
<1>7. QED
  BY <1>6
=============================================================================
