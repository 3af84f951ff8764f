--------------------------- MODULE MonitorProofs ----------------------------
(***************************************************************************)
(* Proofs about what the program shows of other systems: the images of the *)
(* registry, the rules of the network's policy, and the machine's CPU.     *)
(***************************************************************************)
EXTENDS RegistryPage, DevicePolicy, Metrics, FiniteSetTheorems, SequenceTheorems,
        WellFoundedInduction, TLAPS

-----------------------------------------------------------------------------
(***************************************************************************)
(* The page of the registry.                                               *)
(***************************************************************************)

\* While the page is made its histories hold what there is now, and the tags
\* still to ask for were once there.
Followed ==
  /\ Asking => registry \in addresses /\ ImagesOf(images) \subseteq seen
  /\ page = "idle" => manifests = {} /\ tags = {}
  /\ \A t \in tags : \E a \in addresses : <<a, repo, t>> \in seen

IInv == PageTypeOK /\ Followed /\ ListedWasThere

-----------------------------------------------------------------------------
(* What registries hold, and how it changes.                               *)
LEMMA TagsAtType ==
  ASSUME NEW held \in Holding, NEW a, NEW r
  PROVE  TagsAt(held, a, r) \in SUBSET Tag
<1>1. CASE a \in Address
  <2>1. PICK C \in SUBSET Repo : held[a] \in [C -> SUBSET Tag]
    BY <1>1 DEF Holding
  <2>2. r \in DOMAIN held[a] => held[a][r] \in SUBSET Tag
    BY <2>1
  <2>3. QED
    BY <1>1, <2>2 DEF TagsAt
<1>2. CASE a \notin Address
  BY <1>2 DEF TagsAt
<1>3. QED
  BY <1>1, <1>2

LEMMA TagsAreImages ==
  ASSUME NEW held \in Holding, NEW a \in Address, NEW r \in Repo,
         NEW t \in TagsAt(held, a, r)
  PROVE  t \in Tag /\ <<a, r, t>> \in ImagesOf(held)
<1>1. t \in Tag
  BY TagsAtType
<1>2. QED
  BY <1>1 DEF ImagesOf

LEMMA ImagesOfType == ASSUME NEW held PROVE ImagesOf(held) \in SUBSET (Address \X Repo \X Tag)
BY DEF ImagesOf

LEMMA DeleteHolding ==
  ASSUME NEW held \in Holding, NEW a \in Address, NEW r, NEW t,
         t \in TagsAt(held, a, r)
  PROVE  [held EXCEPT ![a][r] = @ \ {t}] \in Holding
<1>1. PICK C \in SUBSET Repo : held[a] \in [C -> SUBSET Tag]
  BY DEF Holding
<1>2. r \in C
  BY <1>1 DEF TagsAt
<1>3. [held[a] EXCEPT ![r] = @ \ {t}] \in [C -> SUBSET Tag]
  BY <1>1, <1>2
<1>4. [held[a] EXCEPT ![r] = @ \ {t}] \in UNION {[D -> SUBSET Tag] : D \in SUBSET Repo}
  BY <1>3
<1>5. QED
  BY <1>4 DEF Holding

LEMMA PushHolding ==
  ASSUME NEW held \in Holding, NEW a \in Address, NEW r \in Repo, NEW t \in Tag
  PROVE  [held EXCEPT ![a] =
           [q \in DOMAIN @ \cup {r} |-> TagsAt(held, a, q) \cup {u \in {t} : q = r}]]
         \in Holding
<1>1. PICK C \in SUBSET Repo : held[a] \in [C -> SUBSET Tag]
  BY DEF Holding
<1> DEFINE g == [q \in DOMAIN held[a] \cup {r} |->
                   TagsAt(held, a, q) \cup {u \in {t} : q = r}]
<1>2. \A q : TagsAt(held, a, q) \cup {u \in {t} : q = r} \in SUBSET Tag
  BY TagsAtType
<1>3. g \in [C \cup {r} -> SUBSET Tag]
  BY <1>1, <1>2
<1> HIDE DEF g
<1>4. g \in UNION {[D -> SUBSET Tag] : D \in SUBSET Repo}
  BY <1>3
<1>5. [held EXCEPT ![a] = g] \in Holding
  BY <1>4 DEF Holding
<1>6. QED
  BY <1>5 DEF g

-----------------------------------------------------------------------------
(* Each step keeps the invariant: first those of the world around the page. *)
LEMMA InitHolds == PageInit => IInv
BY RegistryAssumption DEF PageInit, IInv, PageTypeOK, Followed, ListedWasThere, Asking

\* What happens to the histories when images or the client change.
LEMMA WatchHolds ==
  ASSUME IInv, NEW held \in Holding, NEW a \in Address \cup {Elsewhere},
         images' = held, registry' = a, Watch(held, a), registryPage' = registryPage,
         ~Asking => held = images
  PROVE  IInv'
<1>0. /\ page' = page /\ repos' = repos /\ repo' = repo
      /\ tags' = tags /\ manifests' = manifests
  BY DEF registryPage
<1>1. ImagesOf(held) \in SUBSET (Address \X Repo \X Tag)
  BY ImagesOfType
<1>2. /\ seen \subseteq seen' /\ addresses \subseteq addresses'
      /\ kept' \subseteq seen'
      /\ seen' \subseteq Address \X Repo \X Tag
      /\ addresses' \subseteq Address \cup {Elsewhere}
  BY <1>1 DEF Watch, asked, IInv, PageTypeOK
<1>3. PageTypeOK'
  BY <1>0, <1>2 DEF IInv, PageTypeOK
<1>4. Asking' => registry' \in addresses' /\ ImagesOf(images') \subseteq seen'
  BY <1>0 DEF Watch, Asking
<1>5. \A t \in tags' : \E b \in addresses' : <<b, repo', t>> \in seen'
  BY <1>0, <1>2 DEF IInv, Followed
<1>6. ListedWasThere'
  BY <1>0, <1>2 DEF IInv, ListedWasThere
<1>7. page' = "idle" => manifests' = {} /\ tags' = {}
  BY <1>0 DEF IInv, Followed
<1>8. QED
  BY <1>3, <1>4, <1>5, <1>6, <1>7 DEF IInv, Followed

LEMMA ReloadHolds ==
  ASSUME IInv, NEW a \in Address \cup {Elsewhere}, Reload(a)
  PROVE  IInv'
<1>1. images \in Holding
  BY DEF IInv, PageTypeOK
<1>2. /\ images' = images /\ registry' = a /\ Watch(images, a)
      /\ registryPage' = registryPage
  BY DEF Reload
<1>3. QED
  BY <1>1, <1>2, WatchHolds

LEMMA DeleteImageHolds ==
  ASSUME IInv, NEW i \in Image, DeleteImage(i[1], i[2], i[3])
  PROVE  IInv'
<1>1. i[1] \in Address /\ i[2] \in Repo /\ i[3] \in Tag
  BY RegistryAssumption
<1>2. /\ images \in Holding /\ registry \in Address \cup {Elsewhere}
  BY DEF IInv, PageTypeOK
<1>3. /\ Asking /\ i[3] \in TagsAt(images, i[1], i[2])
      /\ images' = [images EXCEPT ![i[1]][i[2]] = @ \ {i[3]}]
      /\ registry = i[1] /\ Watch(images', i[1])
      /\ registry' = registry /\ registryPage' = registryPage
  BY DEF DeleteImage
<1>4. images' \in Holding
  BY <1>1, <1>2, <1>3, DeleteHolding
<1>5. QED
  BY <1>2, <1>3, <1>4, WatchHolds

LEMMA PushImageHolds ==
  ASSUME IInv, NEW i \in Image, PushImage(i[1], i[2], i[3])
  PROVE  IInv'
<1>1. i[1] \in Address /\ i[2] \in Repo /\ i[3] \in Tag
  BY RegistryAssumption
<1>2. /\ images \in Holding /\ registry \in Address \cup {Elsewhere}
  BY DEF IInv, PageTypeOK
<1>3. /\ Asking
      /\ images' = [images EXCEPT ![i[1]] =
           [q \in DOMAIN @ \cup {i[2]} |->
              TagsAt(images, i[1], q) \cup {u \in {i[3]} : q = i[2]}]]
      /\ Watch(images', registry)
      /\ registry' = registry /\ registryPage' = registryPage
  BY DEF PushImage
<1>4. images' \in Holding
  BY <1>1, <1>2, <1>3, PushHolding
<1>5. QED
  BY <1>2, <1>3, <1>4, WatchHolds

-----------------------------------------------------------------------------
(* The steps of the page itself.                                           *)
LEMMA RequestFailsHolds == ASSUME IInv, RequestFails PROVE IInv'
<1>1. /\ page' = "error" /\ registry' = registry /\ images' = images
      /\ repos' = repos /\ repo' = repo /\ tags' = tags /\ manifests' = manifests
      /\ kept' = kept /\ seen' = seen /\ addresses' = addresses
  BY DEF RequestFails, asked
<1>2. QED
  BY <1>1 DEF IInv, PageTypeOK, Followed, ListedWasThere, Asking

LEMMA GetCatalogHolds == ASSUME IInv, GetCatalog PROVE IInv'
<1>1. /\ page = "idle" /\ registry \in Address /\ page' = "repos"
      /\ repos' = DOMAIN images[registry]
      /\ kept' = ImagesOf(images) /\ seen' = ImagesOf(images)
      /\ addresses' = {registry} /\ registry' = registry /\ images' = images
      /\ repo' = repo /\ tags' = tags /\ manifests' = manifests
  BY DEF GetCatalog
<1>2. tags = {} /\ manifests = {}
  BY <1>1 DEF IInv, Followed
<1>3. repos' \subseteq Repo
  <2>1. PICK C \in SUBSET Repo : images[registry] \in [C -> SUBSET Tag]
    BY <1>1 DEF IInv, PageTypeOK, Holding
  <2>2. QED
    BY <1>1, <2>1
<1>4. ImagesOf(images) \in SUBSET (Address \X Repo \X Tag)
  BY ImagesOfType
<1>5. PageTypeOK'
  BY <1>1, <1>2, <1>3, <1>4 DEF IInv, PageTypeOK
<1>6. Followed' /\ ListedWasThere'
  BY <1>1, <1>2 DEF Followed, ListedWasThere
<1>7. QED
  BY <1>5, <1>6 DEF IInv

LEMMA GetTagsHolds == ASSUME IInv, NEW r \in Repo, GetTags(r) PROVE IInv'
<1>1. /\ page = "repos" /\ registry \in Address /\ page' = "tags"
      /\ repos' = repos \ {r} /\ repo' = r /\ tags' = TagsAt(images, registry, r)
      /\ registry' = registry /\ images' = images /\ manifests' = manifests
      /\ kept' = kept /\ seen' = seen /\ addresses' = addresses
  BY DEF GetTags, asked
<1>2. images \in Holding
  BY DEF IInv, PageTypeOK
<1>3. tags' \subseteq Tag
  BY <1>1, <1>2, TagsAtType
<1>4. PageTypeOK'
  BY <1>1, <1>3 DEF IInv, PageTypeOK
<1>5. registry \in addresses /\ ImagesOf(images) \subseteq seen
  BY <1>1 DEF IInv, Followed, Asking
<1>6. \A t \in tags' : <<registry, repo', t>> \in seen'
  BY <1>1, <1>2, <1>5, TagsAreImages
<1>7. Followed'
  BY <1>1, <1>5, <1>6 DEF Followed
<1>8. ListedWasThere'
  BY <1>1 DEF IInv, ListedWasThere
<1>9. QED
  BY <1>4, <1>7, <1>8 DEF IInv

LEMMA GetManifestHolds == ASSUME IInv, NEW t \in Tag, GetManifest(t) PROVE IInv'
<1> DEFINE has == t \in TagsAt(images, registry, repo)
<1>1. /\ page = "tags" /\ t \in tags /\ page' = page
      /\ tags' = tags \ {t}
      /\ manifests' = manifests \cup {<<repo, t, has>>}
      /\ registry' = registry /\ images' = images /\ repos' = repos /\ repo' = repo
      /\ kept' = kept /\ seen' = seen /\ addresses' = addresses
  BY DEF GetManifest, asked
<1>2. has \in BOOLEAN
  OBVIOUS
<1> HIDE DEF has
<1>3. PageTypeOK'
  BY <1>1, <1>2 DEF IInv, PageTypeOK
<1>4. Followed'
  BY <1>1 DEF IInv, Followed, Asking
<1>5. \E a \in addresses : <<a, repo, t>> \in seen
  BY <1>1 DEF IInv, Followed
<1>6. ListedWasThere'
  BY <1>1, <1>5 DEF IInv, ListedWasThere
<1>7. QED
  BY <1>3, <1>4, <1>6 DEF IInv

LEMMA PageTurnHolds == ASSUME IInv, NextRepo \/ Render PROVE IInv'
<1>1. /\ page' \in {"repos", "listed", "broken"}
      /\ page' = "repos" => tags = {}
      /\ page \in {"repos", "tags"}
      /\ registry' = registry /\ images' = images
      /\ repos' = repos /\ repo' = repo /\ tags' = tags /\ manifests' = manifests
      /\ kept' = kept /\ seen' = seen /\ addresses' = addresses
  BY DEF NextRepo, Render, asked
<1>2. QED
  BY <1>1 DEF IInv, PageTypeOK, Followed, ListedWasThere, Asking

LEMMA PageStutterHolds == ASSUME IInv, UNCHANGED registryVars PROVE IInv'
BY DEF registryVars, registryPage, asked, IInv, PageTypeOK, Followed, ListedWasThere, Asking

(* The invariant holds in every reachable state.                           *)
LEMMA PageInvariant == PageSpec => []IInv
<1>1. IInv /\ [PageNext]_registryVars => IInv'
  BY ReloadHolds, RequestFailsHolds, GetCatalogHolds, GetTagsHolds, GetManifestHolds,
     PageTurnHolds, DeleteImageHolds, PushImageHolds, PageStutterHolds
     DEF PageNext
<1>2. QED
  BY InitHolds, <1>1, PTL DEF PageSpec

(* The page's state is always of its type, and what its histories call     *)
(* kept was seen (GetRegistry in views/registry.go).                       *)
THEOREM PageTypeCorrect == PageSpec => []PageTypeOK
BY PageInvariant, PTL DEF IInv

(* Whatever is pushed, deleted or saved while GetRegistry makes its        *)
(* requests, each row of the page was in a registry it asked at some       *)
(* moment since it began, for any number of registries and images.         *)
THEOREM ListedWasAlwaysThere == PageSpec => []ListedWasThere
BY PageInvariant, PTL DEF IInv

-----------------------------------------------------------------------------
(* For LastingImagesAreListed: an image that lasts is listed, or the page  *)
(* has yet to ask for its repository, or for its manifest.                 *)
Reached(i) ==
  \/ <<i[2], i[3], TRUE>> \in manifests
  \/ i[2] \in repos
  \/ page = "tags" /\ repo = i[2] /\ i[3] \in tags

Listing ==
  /\ IsFiniteSet(addresses)
  /\ Asking => kept \subseteq ImagesOf(images)
  /\ Done => repos = {}
  /\ Asking \/ Done =>
       \A b : addresses = {b} => \A i \in kept : i[1] = b => Reached(i)

LEMMA InitListing == PageInit => Listing
BY FS_EmptySet DEF PageInit, Listing, Asking, Done

\* The page does not move, and only images or the client change.
LEMMA WatchListing ==
  ASSUME IInv, Listing, NEW held, NEW a, images' = held, Watch(held, a),
         registryPage' = registryPage, ~Asking => held = images
  PROVE  Listing'
<1>0. /\ page' = page /\ repos' = repos /\ repo' = repo
      /\ tags' = tags /\ manifests' = manifests
  BY DEF registryPage
<1>1. CASE ~Asking
  <2>1. kept' = kept /\ addresses' = addresses
    BY <1>1 DEF Watch, asked
  <2>2. QED
    BY <1>0, <1>1, <2>1 DEF Listing, Asking, Done, Reached
<1>2. CASE Asking
  <2>1. kept' \subseteq kept /\ kept' \subseteq ImagesOf(images')
        /\ addresses' = addresses \cup {a}
    BY <1>2 DEF Watch
  <2>2. IsFiniteSet(addresses')
    BY <2>1, FS_AddElement DEF Listing
  <2>3. \A b : addresses' = {b} => addresses = {b}
    BY <1>2, <2>1 DEF IInv, Followed
  <2>4. \A i : Reached(i) => Reached(i)'
    BY <1>0 DEF Reached
  <2>5. \A b : addresses' = {b} => \A i \in kept' : i[1] = b => Reached(i)'
    BY <1>2, <2>1, <2>3, <2>4 DEF Listing
  <2>6. (Done => repos = {})'
    BY <1>0 DEF Listing, Done
  <2>7. QED
    BY <2>1, <2>2, <2>5, <2>6 DEF Listing
<1>3. QED
  BY <1>1, <1>2

LEMMA GetCatalogListing == ASSUME IInv, Listing, GetCatalog PROVE Listing'
<1>1. /\ registry \in Address /\ page' = "repos"
      /\ repos' = DOMAIN images[registry]
      /\ kept' = ImagesOf(images) /\ addresses' = {registry} /\ images' = images
  BY DEF GetCatalog
<1>2. \A i \in kept' : i[1] = registry => i[2] \in repos'
  BY <1>1 DEF ImagesOf, TagsAt
<1>3. IsFiniteSet(addresses')
  BY <1>1, FS_Singleton
<1>4. QED
  BY <1>1, <1>2, <1>3 DEF Listing, Asking, Done, Reached

LEMMA GetTagsListing == ASSUME IInv, Listing, NEW r \in Repo, GetTags(r) PROVE Listing'
<1>1. /\ page = "repos" /\ page' = "tags" /\ repos' = repos \ {r} /\ repo' = r
      /\ tags' = TagsAt(images, registry, r)
      /\ images' = images /\ manifests' = manifests
      /\ kept' = kept /\ addresses' = addresses
  BY DEF GetTags, asked
<1>2. Asking /\ registry \in addresses /\ kept \subseteq ImagesOf(images)
  BY <1>1 DEF Asking, IInv, Followed, Listing
<1>3. \A i \in kept : i[1] = registry /\ i[2] = r => i[3] \in tags'
  BY <1>1, <1>2 DEF ImagesOf
<1>4. ASSUME NEW b, addresses' = {b}, NEW i \in kept', i[1] = b
      PROVE  Reached(i)'
  <2>1. b = registry /\ Reached(i)
    BY <1>1, <1>2, <1>4 DEF Listing
  <2>2. QED
    BY <1>1, <1>3, <1>4, <2>1 DEF Reached
<1>5. QED
  BY <1>1, <1>2, <1>4 DEF Listing, Asking, Done

LEMMA GetManifestListing ==
  ASSUME IInv, Listing, NEW t \in Tag, GetManifest(t)
  PROVE  Listing'
<1> DEFINE has == t \in TagsAt(images, registry, repo)
<1>1. /\ page = "tags" /\ page' = page /\ repos' = repos /\ repo' = repo
      /\ tags' = tags \ {t} /\ manifests' = manifests \cup {<<repo, t, has>>}
      /\ images' = images /\ kept' = kept /\ addresses' = addresses
  BY DEF GetManifest, asked
<1>2. Asking /\ registry \in addresses /\ kept \subseteq ImagesOf(images)
  BY <1>1 DEF Asking, IInv, Followed, Listing
<1>3. \A i \in kept : i[1] = registry /\ i[2] = repo /\ i[3] = t => has
  BY <1>2 DEF ImagesOf
<1>4. has => <<repo, t, TRUE>> \in manifests'
  <2>1. CASE has
    <3>1. has = TRUE
      BY <2>1
    <3>2. QED
      BY <1>1, <3>1
  <2>2. QED
    BY <2>1
<1> HIDE DEF has
<1>5. ASSUME NEW b, addresses' = {b}, NEW i \in kept', i[1] = b
      PROVE  Reached(i)'
  <2>1. b = registry /\ Reached(i)
    BY <1>1, <1>2, <1>5 DEF Listing
  <2>2. manifests \subseteq manifests'
    BY <1>1
  <2>3. QED
    BY <1>1, <1>3, <1>4, <1>5, <2>1, <2>2 DEF Reached
<1>6. QED
  BY <1>1, <1>2, <1>5 DEF Listing, Asking, Done

LEMMA PageTurnListing ==
  ASSUME IInv, Listing, NextRepo \/ Render \/ RequestFails \/ UNCHANGED registryVars
  PROVE  Listing'
<1>1. /\ images' = images /\ repos' = repos /\ repo' = repo
      /\ tags' = tags /\ manifests' = manifests
      /\ kept' = kept /\ addresses' = addresses
  BY DEF NextRepo, Render, RequestFails, registryVars, registryPage, asked
<1>2. \/ page = "tags" /\ tags = {} /\ page' = "repos"
      \/ page = "repos" /\ repos = {} /\ page' \in {"listed", "broken"}
      \/ page' = "error"
      \/ page' = page
  BY DEF NextRepo, Render, RequestFails, registryVars, registryPage
<1>3. Asking' => Asking
  BY <1>2 DEF Asking
<1>4. Asking' \/ Done' => Asking \/ Done
  BY <1>2 DEF Asking, Done
<1>5. Done' => repos' = {}
  BY <1>1, <1>2 DEF Listing, Done
<1>6. \A i : Reached(i) => Reached(i)' \/ page' = "error"
  BY <1>1, <1>2 DEF Reached
<1>7. Asking' \/ Done' => page' # "error"
  BY DEF Asking, Done
<1>8. QED
  BY <1>1, <1>3, <1>4, <1>5, <1>6, <1>7 DEF Listing

LEMMA StepListing == ASSUME IInv, Listing, [PageNext]_registryVars PROVE Listing'
<1>1. ASSUME NEW a \in Address \cup {Elsewhere}, Reload(a) PROVE Listing'
  <2>1. images' = images /\ Watch(images, a) /\ registryPage' = registryPage
    BY <1>1 DEF Reload
  <2>2. QED
    BY <2>1, WatchListing
<1>2. ASSUME NEW i \in Image, DeleteImage(i[1], i[2], i[3]) PROVE Listing'
  <2>1. Asking /\ Watch(images', i[1]) /\ registryPage' = registryPage
    BY <1>2 DEF DeleteImage
  <2>2. QED
    BY <2>1, WatchListing
<1>3. ASSUME NEW i \in Image, PushImage(i[1], i[2], i[3]) PROVE Listing'
  <2>1. Asking /\ Watch(images', registry) /\ registryPage' = registryPage
    BY <1>3 DEF PushImage
  <2>2. QED
    BY <2>1, WatchListing
<1>4. QED
  BY <1>1, <1>2, <1>3, GetCatalogListing, GetTagsListing, GetManifestListing,
     PageTurnListing DEF PageNext

LEMMA ListedAtTheEnd == Listing => LastingImagesAreListed
<1> SUFFICES ASSUME Listing, Done, OneRegistry
             PROVE  \A i \in kept : i[1] \in addresses => <<i[2], i[3], TRUE>> \in manifests
  BY DEF LastingImagesAreListed
<1>1. PICK b : addresses = {b}
  BY FS_Singleton DEF Listing, OneRegistry
<1>2. repos = {} /\ page # "tags"
  BY DEF Listing, Done
<1>3. QED
  BY <1>1, <1>2 DEF Listing, Reached

(* However many images are pushed and deleted while GetRegistry makes its  *)
(* requests: a page made with one client shows every image that lasted, in *)
(* full.  Registries, repositories and tags may be any sets.               *)
THEOREM LastingAlwaysListed == PageSpec => []LastingImagesAreListed
<1>1. PageInit => IInv /\ Listing
  BY InitHolds, InitListing
<1>2. IInv /\ Listing /\ IInv' /\ [PageNext]_registryVars => (IInv /\ Listing)'
  BY StepListing
<1>3. Listing => LastingImagesAreListed
  BY ListedAtTheEnd
<1>4. QED
  BY PageInvariant, <1>1, <1>2, <1>3, PTL DEF PageSpec

-----------------------------------------------------------------------------
(***************************************************************************)
(* The page of a device.                                                   *)
(***************************************************************************)

-----------------------------------------------------------------------------
(* Induction: a set of numbers that is not empty has a least.              *)
LEMMA LeastNat ==
  ASSUME NEW T, T \subseteq Nat, T # {}
  PROVE  \E x \in T : \A y \in T : x <= y
<1>1. IsWellFoundedOn(OpToRel(<, Nat), Nat)
  BY NatLessThanWellFounded
<1>2. PICK x \in T : \A y \in T : <<y, x>> \notin OpToRel(<, Nat)
  BY <1>1, WFMin
<1>3. \A y \in T : ~(y < x)
  BY <1>2 DEF OpToRel
<1>4. QED
  BY <1>3

-----------------------------------------------------------------------------
(* What FlattenSeq makes of sequences: their elements.                     *)

\* g is what its recursion says of the first n.
Flattens(g, n, s) ==
  g = [i \in 1..n |-> IF i = 1 THEN s[i] ELSE g[i-1] \o s[i]]

LEMMA FlattensExists ==
  ASSUME NEW s, NEW n \in Nat
  PROVE  \E g : Flattens(g, n, s)
<1> DEFINE T == {m \in 0..n : ~\E g : Flattens(g, m, s)}
<1>1. 0 \notin T
  <2> DEFINE g == [i \in 1..0 |-> s[i]]
  <2>1. g = [i \in 1..0 |-> IF i = 1 THEN s[i] ELSE g[i-1] \o s[i]]
    BY \A i \in 1..0 : FALSE
  <2>2. Flattens(g, 0, s)
    BY <2>1 DEF Flattens
  <2>3. QED
    BY <2>2
<1>2. ASSUME NEW m \in 1..n, m - 1 \notin T PROVE m \notin T
  <2>1. m - 1 \in 0..n
    OBVIOUS
  <2>2. PICK h : Flattens(h, m - 1, s)
    BY <1>2, <2>1
  <2>3. \A i \in 1 .. m - 1 : h[i] = IF i = 1 THEN s[i] ELSE h[i-1] \o s[i]
    BY <2>2 DEF Flattens
  <2> DEFINE g == [i \in 1..m |-> IF i < m THEN h[i]
                                  ELSE IF i = 1 THEN s[i] ELSE h[i-1] \o s[i]]
  <2>4. ASSUME NEW i \in 1..m PROVE g[i] = IF i = 1 THEN s[i] ELSE g[i-1] \o s[i]
    <3>1. CASE i = 1
      BY <2>3, <3>1
    <3>2. CASE i # 1
      <4>1. i - 1 \in 1..m /\ i - 1 < m
        BY <3>2
      <4>2. g[i-1] = h[i-1]
        BY <4>1
      <4>3. g[i] = h[i-1] \o s[i]
        <5>1. CASE i < m
          <6>1. i \in 1 .. m - 1 /\ g[i] = h[i]
            BY <5>1
          <6>2. QED
            BY <2>3, <3>2, <6>1
        <5>2. CASE ~(i < m)
          BY <3>2, <5>2, Zenon
        <5>3. QED
          BY <5>1, <5>2
      <4>4. QED
        BY <3>2, <4>2, <4>3
    <3>3. QED
      BY <3>1, <3>2
  <2>5. g = [i \in 1..m |-> g[i]]
    OBVIOUS
  <2> HIDE DEF g
  <2>6. g = [i \in 1..m |-> IF i = 1 THEN s[i] ELSE g[i-1] \o s[i]]
    BY <2>4, <2>5, Zenon
  <2>7. Flattens(g, m, s)
    BY <2>6 DEF Flattens
  <2>8. QED
    BY <2>7
<1>3. T = {}
  <2>1. SUFFICES ASSUME T # {} PROVE FALSE
    OBVIOUS
  <2>2. T \subseteq 0..n /\ T \subseteq Nat
    OBVIOUS
  <2> HIDE DEF T
  <2>3. PICK m \in T : \A y \in T : m <= y
    BY <2>1, <2>2, LeastNat
  <2>4. m \in 1..n /\ m - 1 \in 0..n /\ ~(m <= m - 1)
    BY <2>2, <2>3, <1>1
  <2>5. QED
    BY <2>3, <2>4, <1>2
<1>4. QED
  BY <1>3

LEMMA FlattenIs ==
  ASSUME NEW S, NEW s \in Seq(Seq(S))
  PROVE  /\ FlattenSeq(s) \in Seq(S)
         /\ \A e : e \in ToSet(FlattenSeq(s)) <=> \E i \in 1..Len(s) : e \in ToSet(s[i])
<1> DEFINE n == Len(s)
           g == CHOOSE f : f = [i \in 1..n |-> IF i = 1 THEN s[i] ELSE f[i-1] \o s[i]]
           Right(i) == /\ g[i] \in Seq(S)
                       /\ \A e : e \in ToSet(g[i]) <=> \E k \in 1..i : e \in ToSet(s[k])
           T == {i \in 1..n : ~Right(i)}
<1>1. n \in Nat /\ \A i \in 1..n : s[i] \in Seq(S)
  BY LenProperties, ElementOfSeq
<1>2. FlattenSeq(s) = IF n = 0 THEN s ELSE g[n]
  BY DEF FlattenSeq
<1>3. Flattens(g, n, s)
  BY <1>1, FlattensExists DEF Flattens
<1> HIDE DEF g, n
<1>4. \A i \in 1..n : g[i] = IF i = 1 THEN s[i] ELSE g[i-1] \o s[i]
  BY <1>3 DEF Flattens
<1>5. 1 \in 1..n => Right(1)
  BY <1>1, <1>4
<1>6. ASSUME NEW i \in 2..n, Right(i - 1) PROVE Right(i)
  <2>1. i \in 1..n /\ i # 1 /\ i - 1 \in 1..n
    BY <1>1
  <2>2. g[i] = g[i-1] \o s[i] /\ s[i] \in Seq(S) /\ g[i-1] \in Seq(S)
    BY <1>1, <1>4, <1>6, <2>1
  <2> DEFINE a == g[i-1]
             b == s[i]
  <2>3. /\ a \o b \in Seq(S) /\ Len(a) \in Nat /\ Len(b) \in Nat
        /\ Len(a \o b) = Len(a) + Len(b)
        /\ \A k \in 1 .. Len(a) + Len(b) :
             (a \o b)[k] = IF k <= Len(a) THEN a[k] ELSE b[k - Len(a)]
    BY <2>2, ConcatProperties, LenProperties
  <2>4. /\ DOMAIN a = 1..Len(a) /\ DOMAIN b = 1..Len(b)
        /\ DOMAIN (a \o b) = 1 .. Len(a) + Len(b)
    BY <2>2, <2>3, LenProperties
  <2> HIDE DEF a, b
  <2>5. ASSUME NEW e PROVE e \in ToSet(a \o b) <=> e \in ToSet(a) \/ e \in ToSet(b)
    <3>1. ASSUME NEW k \in 1 .. Len(a) + Len(b)
          PROVE  (a \o b)[k] \in ToSet(a) \/ (a \o b)[k] \in ToSet(b)
      <4>1. CASE k <= Len(a)
        <5>1. k \in 1..Len(a) /\ (a \o b)[k] = a[k]
          BY <2>3, <4>1
        <5>2. QED
          BY <2>4, <5>1 DEF ToSet
      <4>2. CASE ~(k <= Len(a))
        <5>1. k - Len(a) \in 1..Len(b)
          BY <2>3, <4>2
        <5>2. QED
          BY <2>3, <2>4, <4>2, <5>1 DEF ToSet
      <4>3. QED
        BY <4>1, <4>2
    <3>2. ASSUME NEW k \in 1..Len(a) PROVE a[k] \in ToSet(a \o b)
      <4>1. k \in 1 .. Len(a) + Len(b) /\ (a \o b)[k] = a[k]
        BY <2>3
      <4>2. QED
        BY <2>4, <4>1 DEF ToSet
    <3>3. ASSUME NEW k \in 1..Len(b) PROVE b[k] \in ToSet(a \o b)
      <4>1. /\ Len(a) + k \in 1 .. Len(a) + Len(b) /\ ~(Len(a) + k <= Len(a))
            /\ (Len(a) + k) - Len(a) = k
        BY <2>3
      <4>2. (a \o b)[Len(a) + k] = b[k]
        BY <2>3, <4>1
      <4>3. QED
        BY <2>4, <4>1, <4>2 DEF ToSet
    <3>4. QED
      BY <2>4, <3>1, <3>2, <3>3 DEF ToSet
  <2>6. \A k \in 1..i : k \in 1 .. i - 1 \/ k = i
    OBVIOUS
  <2>7. \A k \in 1 .. i - 1 : k \in 1..i
    OBVIOUS
  <2>8. \A e : e \in ToSet(a) <=> \E k \in 1 .. i - 1 : e \in ToSet(s[k])
    BY <1>6 DEF a
  <2>9. g[i] = a \o b /\ b = s[i] /\ i \in 1..i
    BY <2>2 DEF a, b
  <2>10. QED
    BY <2>3, <2>5, <2>6, <2>7, <2>8, <2>9
<1>7. T = {}
  <2>1. SUFFICES ASSUME T # {} PROVE FALSE
    OBVIOUS
  <2>2. T \subseteq Nat /\ \A i \in T : i \in 1..n /\ ~Right(i)
    OBVIOUS
  <2>3. \A i \in 1..n : i \notin T => Right(i)
    OBVIOUS
  <2> HIDE DEF T, Right
  <2>4. PICK m \in T : \A y \in T : m <= y
    BY <2>1, <2>2, LeastNat
  <2>5. m \in 2..n /\ m - 1 \in 1..n /\ ~(m <= m - 1)
    BY <2>2, <2>4, <1>1, <1>5
  <2>6. QED
    BY <2>2, <2>3, <2>4, <2>5, <1>6
<1>8. CASE n = 0
  <2>1. s = <<>> /\ FlattenSeq(s) = <<>>
    BY <1>2, <1>8, EmptySeq DEF n
  <2>2. <<>> \in Seq(S) /\ \A e : e \notin ToSet(<<>>)
    BY EmptySeq DEF ToSet
  <2>3. \A i \in 1..Len(s) : FALSE
    BY <1>8 DEF n
  <2>4. QED
    BY <2>1, <2>2, <2>3
<1>9. CASE n # 0
  <2>1. n \in 1..n
    BY <1>1, <1>9
  <2>2. Right(n)
    BY <2>1, <1>7
  <2>3. QED
    BY <1>2, <1>9, <2>2 DEF n
<1>10. QED
  BY <1>8, <1>9

-----------------------------------------------------------------------------
(* The page: a rule is shown if and only if one of the device's tags       *)
(* matches it.                                                             *)
LEMMA SeqIs ==
  ASSUME NEW x, IsSeq(x)
  PROVE  /\ Len(x) \in Nat /\ DOMAIN x = 1..Len(x)
         /\ \A e : e \in ToSet(x) <=> \E i \in 1..Len(x) : x[i] = e
<1>1. Len(x) \in Nat /\ DOMAIN x = 1..Len(x)
  BY LenProperties DEF IsSeq
<1>2. QED
  BY <1>1 DEF ToSet

\* The two loops, where M has the places of the rules and tags that match.
LoopsOver(M) ==
  FlattenSeq([i \in 1..Len(policy) |->
    FlattenSeq([j \in 1..Len(device) |->
      IF <<i, j>> \in M THEN <<policy[i]>> ELSE <<>>])])

LEMMA LoopsShow ==
  ASSUME IsSeq(policy), IsSeq(device), NEW M
  PROVE  \A acl : acl \in ToSet(LoopsOver(M))
                  <=> \E i \in 1..Len(policy) : \E j \in 1..Len(device) :
                        policy[i] = acl /\ <<i, j>> \in M
<1> DEFINE S == ToSet(policy)
           m == Len(policy)
           n == Len(device)
           one(i, j) == IF <<i, j>> \in M THEN <<policy[i]>> ELSE <<>>
           inner(i) == [j \in 1..n |-> one(i, j)]
           outer == [i \in 1..m |-> FlattenSeq(inner(i))]
<1>1. m \in Nat /\ n \in Nat /\ \A i \in 1..m : policy[i] \in S
  BY SeqIs
<1> HIDE DEF S, m, n
<1>2. \A i, j : ToSet(one(i, j)) = IF <<i, j>> \in M THEN {policy[i]} ELSE {}
  <2>1. ASSUME NEW e PROVE ToSet(<<e>>) = {e}
    <3>1. DOMAIN <<e>> = {1} /\ <<e>>[1] = e
      OBVIOUS
    <3>2. QED
      BY <3>1 DEF ToSet
  <2>2. ToSet(<<>>) = {}
    BY EmptySeq DEF ToSet
  <2>3. QED
    BY <2>1, <2>2
<1>3. \A i \in 1..m : \A j \in 1..n : one(i, j) \in Seq(S)
  BY <1>1
<1> HIDE DEF one
<1>4. ASSUME NEW i \in 1..m
      PROVE  /\ FlattenSeq(inner(i)) \in Seq(S)
             /\ \A e : e \in ToSet(FlattenSeq(inner(i)))
                        <=> \E j \in 1..n : policy[i] = e /\ <<i, j>> \in M
  <2>1. inner(i) \in Seq(Seq(S)) /\ Len(inner(i)) = n
    BY <1>1, <1>3
  <2>2. \A j \in 1..n : inner(i)[j] = one(i, j)
    OBVIOUS
  <2> HIDE DEF inner
  <2>3. /\ FlattenSeq(inner(i)) \in Seq(S)
        /\ \A e : e \in ToSet(FlattenSeq(inner(i)))
                   <=> \E j \in 1..n : e \in ToSet(inner(i)[j])
    BY <2>1, FlattenIs
  <2>4. \A j \in 1..n : \A e :
          e \in ToSet(inner(i)[j]) <=> policy[i] = e /\ <<i, j>> \in M
    BY <2>2, <1>2
  <2>5. QED
    BY <2>3, <2>4
<1> HIDE DEF inner
<1>5. outer \in Seq(Seq(S)) /\ Len(outer) = m /\ \A i \in 1..m : outer[i] = FlattenSeq(inner(i))
  BY <1>1, <1>4
<1>6. LoopsOver(M) = FlattenSeq(outer)
  BY DEF LoopsOver, inner, one, m, n
<1> HIDE DEF outer
<1>7. \A e : e \in ToSet(FlattenSeq(outer)) <=> \E i \in 1..m : e \in ToSet(outer[i])
  BY <1>5, FlattenIs
<1>8. \A i \in 1..m : \A e : e \in ToSet(outer[i])
        <=> \E j \in 1..n : policy[i] = e /\ <<i, j>> \in M
  BY <1>4, <1>5
<1>9. ASSUME NEW e
      PROVE  e \in ToSet(FlattenSeq(outer))
               <=> \E i \in 1..m : \E j \in 1..n : policy[i] = e /\ <<i, j>> \in M
  BY <1>7, <1>8, Zenon
<1>10. QED
  BY <1>6, <1>9 DEF m, n

\* The rules the two matches let through, by rule and tag.
LEMMA SourceShows ==
  ASSUME IsSeq(policy), IsSeq(device)
  PROVE  ToSet(FilteredBy(SourceMatches))
           = {acl \in ToSet(policy) : \E tag \in ToSet(device) : SourceMatches(acl, tag)}
<1> DEFINE M == {k \in (1..Len(policy)) \X (1..Len(device)) :
                   SourceMatches(policy[k[1]], device[k[2]])}
<1>1. \A i \in 1..Len(policy) : \A j \in 1..Len(device) :
        <<i, j>> \in M <=> SourceMatches(policy[i], device[j])
  OBVIOUS
<1> HIDE DEF M
<1>2. FilteredBy(SourceMatches) = LoopsOver(M)
  BY <1>1 DEF FilteredBy, LoopsOver
<1>3. ASSUME NEW acl
      PROVE  acl \in ToSet(FilteredBy(SourceMatches))
               <=> /\ acl \in ToSet(policy)
                   /\ \E tag \in ToSet(device) : SourceMatches(acl, tag)
  <2>1. acl \in ToSet(FilteredBy(SourceMatches))
          <=> \E i \in 1..Len(policy) : \E j \in 1..Len(device) :
                policy[i] = acl /\ <<i, j>> \in M
    BY <1>2, LoopsShow
  <2>2. acl \in ToSet(policy) <=> \E i \in 1..Len(policy) : policy[i] = acl
    BY SeqIs
  <2>3. (\E tag \in ToSet(device) : SourceMatches(acl, tag))
          <=> \E j \in 1..Len(device) : SourceMatches(acl, device[j])
    BY SeqIs
  <2>4. QED
    BY <1>1, <2>1, <2>2, <2>3, Zenon
<1>4. QED
  BY <1>3

LEMMA DestShows ==
  ASSUME IsSeq(policy), IsSeq(device)
  PROVE  ToSet(FilteredBy(DestMatches))
           = {acl \in ToSet(policy) : \E tag \in ToSet(device) : DestMatches(acl, tag)}
<1> DEFINE M == {k \in (1..Len(policy)) \X (1..Len(device)) :
                   DestMatches(policy[k[1]], device[k[2]])}
<1>1. \A i \in 1..Len(policy) : \A j \in 1..Len(device) :
        <<i, j>> \in M <=> DestMatches(policy[i], device[j])
  OBVIOUS
<1> HIDE DEF M
<1>2. FilteredBy(DestMatches) = LoopsOver(M)
  BY <1>1 DEF FilteredBy, LoopsOver
<1>3. ASSUME NEW acl
      PROVE  acl \in ToSet(FilteredBy(DestMatches))
               <=> /\ acl \in ToSet(policy)
                   /\ \E tag \in ToSet(device) : DestMatches(acl, tag)
  <2>1. acl \in ToSet(FilteredBy(DestMatches))
          <=> \E i \in 1..Len(policy) : \E j \in 1..Len(device) :
                policy[i] = acl /\ <<i, j>> \in M
    BY <1>2, LoopsShow
  <2>2. acl \in ToSet(policy) <=> \E i \in 1..Len(policy) : policy[i] = acl
    BY SeqIs
  <2>3. (\E tag \in ToSet(device) : DestMatches(acl, tag))
          <=> \E j \in 1..Len(device) : DestMatches(acl, device[j])
    BY SeqIs
  <2>4. QED
    BY <1>1, <2>1, <2>2, <2>3, Zenon
<1>4. QED
  BY <1>3

PolicyInv ==
  /\ IsSeq(device) /\ IsSeq(policy)
  /\ shownDevice = "yes" => /\ sourcePolicy = FilteredBy(SourceMatches)
                            /\ destPolicy = FilteredBy(DestMatches)

LEMMA AlwaysPolicyInv == PolicySpec => []PolicyInv
<1>1. PolicyInit => PolicyInv
  BY DevicePolicyAssumption DEF DevicePolicyAssumption, PolicyInit, PolicyInv
<1>2. PolicyInv /\ [PolicyNext]_policyVars => PolicyInv'
  <2>1. SUFFICES ASSUME PolicyInv, [PolicyNext]_policyVars PROVE PolicyInv'
    OBVIOUS
  <2>2. device' = device /\ policy' = policy
    BY <2>1 DEF PolicyNext, GetDevice, policyVars
  <2>3. /\ FilteredBy(SourceMatches)' = FilteredBy(SourceMatches)
        /\ FilteredBy(DestMatches)' = FilteredBy(DestMatches)
    BY <2>2 DEF FilteredBy
  <2>4. shownDevice' = "yes" => /\ sourcePolicy' = FilteredBy(SourceMatches)
                                /\ destPolicy' = FilteredBy(DestMatches)
    BY <2>1 DEF PolicyInv, PolicyNext, GetDevice, policyVars
  <2>5. QED
    BY <2>1, <2>2, <2>3, <2>4 DEF PolicyInv, IsSeq
<1>3. QED
  BY <1>1, <1>2, PTL DEF PolicySpec

(* Whatever the tags of the device and the rules of the policy: the page   *)
(* shows the rules of which the device is a source, and those of which it  *)
(* is a destination; one more only when a tag begins another.              *)
THEOREM RulesAlwaysShown == PolicySpec => []RulesAreShown
<1>1. ASSUME PolicyInv, shownDevice = "yes" PROVE RulesAreShown
  <2>1. /\ ToSet(sourcePolicy) = {acl \in ToSet(policy) :
                                    \E tag \in Tags : SourceMatches(acl, tag)}
        /\ ToSet(destPolicy) = {acl \in ToSet(policy) :
                                  \E tag \in Tags : DestMatches(acl, tag)}
    BY <1>1, SourceShows, DestShows DEF PolicyInv, Tags
  <2>2. \A acl : (\E tag \in Tags : SourceMatches(acl, tag)) <=> acl.src \cap Tags # {}
    BY DEF SourceMatches
  <2>3. \A acl : acl.dst \cap Tags # {} => \E tag \in Tags : DestMatches(acl, tag)
    BY DEF DestMatches, HasPrefix
  <2>4. ASSUME NEW acl, NEW tag \in Tags, DestMatches(acl, tag), acl.dst \cap Tags = {}
        PROVE  \E p \in Prefix : p[1] \in Tags /\ p[2] \in acl.dst
    <3>1. PICK dest \in acl.dst : <<tag, dest>> \in Prefix
      BY <2>4 DEF DestMatches, HasPrefix
    <3>2. <<tag, dest>>[1] = tag /\ <<tag, dest>>[2] = dest
      OBVIOUS
    <3>3. QED
      BY <3>1, <3>2
  <2>5. QED
    BY <2>1, <2>2, <2>3, <2>4 DEF RulesAreShown
<1>2. PolicyInv => RulesAreShown
  BY <1>1 DEF RulesAreShown
<1>3. QED
  BY <1>2, AlwaysPolicyInv, PTL

-----------------------------------------------------------------------------
(***************************************************************************)
(* The metrics of the machine.                                             *)
(***************************************************************************)

-----------------------------------------------------------------------------
(* The arithmetic of uint64.                                               *)
LEMMA WIs == W \in Nat \ {0}
BY MetricsAssumption DEF MetricsAssumption

LEMMA ModSplit ==
  ASSUME NEW x \in Int
  PROVE  x % W \in 0 .. W - 1 /\ \E k \in Int : x = k * W + (x % W)
<1>1. x % W \in 0 .. W - 1
  BY WIs
<1>2. x = (x \div W) * W + (x % W)
  BY WIs
<1>3. x \div W \in Int
  BY WIs
<1>4. QED
  BY <1>1, <1>2, <1>3

LEMMA ModIs ==
  ASSUME NEW x \in Int, NEW v \in 0 .. W - 1, NEW k \in Int, x = k * W + v
  PROVE  x % W = v
<1> DEFINE r == x % W
<1>1. PICK j \in Int : x = j * W + r
  BY ModSplit
<1>2. r \in 0 .. W - 1
  BY ModSplit
<1> HIDE DEF r
<1>3. (k - j) * W = r - v
  BY <1>1, <1>2, WIs
<1>4. k - j = 0
  <2>1. k - j >= 1 => (k - j) * W >= W
    BY WIs
  <2>2. k - j <= -1 => (k - j) * W <= -W
    BY WIs
  <2>3. QED
    BY <1>2, <1>3, <2>1, <2>2, WIs
<1>5. r = v
  BY <1>2, <1>3, <1>4, WIs
<1>6. QED
  BY <1>5 DEF r

LEMMA ModSame ==
  ASSUME NEW x \in 0 .. W - 1 PROVE x % W = x
<1>1. x = 0 * W + x
  BY WIs
<1>2. QED
  BY <1>1, ModIs, WIs

-----------------------------------------------------------------------------
(* ParseUint64 as a fold: from the last element of raw, the digit of the   *)
(* highest order, to the first.                                            *)
Put(res, digit) == (res * 10 + digit) % W

FoldsFrom(g, low, n, raw) ==
  g = [s \in SUBSET (low .. n) |->
         IF s = {} THEN 0 ELSE Put(g[s \ {Min(s)}], raw[Min(s)])]

LEMMA MinOf ==
  ASSUME NEW T, T \subseteq Nat, T # {}
  PROVE  Min(T) \in T /\ \A y \in T : Min(T) <= y
BY LeastNat DEF Min

LEMMA MinIs ==
  ASSUME NEW T, T \subseteq Nat, NEW x \in T, \A y \in T : x <= y
  PROVE  Min(T) = x
<1> DEFINE m == Min(T)
<1>1. m \in T /\ m <= x
  BY MinOf
<1> HIDE DEF m
<1>2. x <= m /\ x \in Int /\ m \in Int
  BY <1>1
<1>3. m = x
  BY <1>1, <1>2
<1>4. QED
  BY <1>3 DEF m

LEMMA FoldExists ==
  ASSUME NEW n \in Nat, NEW raw
  PROVE  \E g : FoldsFrom(g, 1, n, raw)
<1> DEFINE Some(c) == \E g : FoldsFrom(g, n + 1 - c, n, raw)
           T == {c \in 0..n : ~Some(c)}
<1>1. Some(0)
  <2> DEFINE g == [s \in SUBSET (n + 1 .. n) |-> 0]
  <2>1. \A s \in SUBSET (n + 1 .. n) : s = {}
    OBVIOUS
  <2>2. g = [s \in SUBSET (n + 1 .. n) |->
               IF s = {} THEN 0 ELSE Put(g[s \ {Min(s)}], raw[Min(s)])]
    BY <2>1
  <2>3. n + 1 - 0 = n + 1
    OBVIOUS
  <2> HIDE DEF g
  <2>4. FoldsFrom(g, n + 1 - 0, n, raw)
    BY <2>2, <2>3 DEF FoldsFrom
  <2>5. QED
    BY <2>4
<1>2. ASSUME NEW c \in 1..n, Some(c - 1) PROVE Some(c)
  <2> DEFINE low == n + 1 - c
  <2>1. low \in 1..n /\ n + 1 - (c - 1) = low + 1
    OBVIOUS
  <2> HIDE DEF low
  <2>2. PICK h : FoldsFrom(h, low + 1, n, raw)
    BY <1>2, <2>1
  <2>3. \A s \in SUBSET (low + 1 .. n) :
          h[s] = IF s = {} THEN 0 ELSE Put(h[s \ {Min(s)}], raw[Min(s)])
    BY <2>2 DEF FoldsFrom
  <2> DEFINE g == [s \in SUBSET (low .. n) |->
                     IF low \in s THEN Put(h[s \ {low}], raw[low]) ELSE h[s]]
  <2>4. ASSUME NEW s \in SUBSET (low .. n)
        PROVE  g[s] = IF s = {} THEN 0 ELSE Put(g[s \ {Min(s)}], raw[Min(s)])
    <3>1. CASE low \in s
      <4>1. s \subseteq Nat /\ \A y \in s : low <= y
        BY <2>1
      <4>2. Min(s) = low
        BY <3>1, <4>1, MinIs
      <4>3. s \ {low} \in SUBSET (low .. n) /\ low \notin s \ {low}
        OBVIOUS
      <4>4. g[s \ {low}] = h[s \ {low}]
        BY <4>3
      <4>5. QED
        BY <3>1, <4>2, <4>4
    <3>2. CASE low \notin s
      <4>1. s \in SUBSET (low + 1 .. n)
        BY <2>1, <3>2
      <4>2. g[s] = h[s]
        BY <3>2
      <4>3. s \ {Min(s)} \in SUBSET (low .. n) /\ low \notin s \ {Min(s)}
        BY <3>2
      <4>4. g[s \ {Min(s)}] = h[s \ {Min(s)}]
        BY <4>3
      <4>5. QED
        BY <2>3, <4>1, <4>2, <4>4
    <3>3. QED
      BY <3>1, <3>2
  <2>5. g = [s \in SUBSET (low .. n) |-> g[s]]
    OBVIOUS
  <2> HIDE DEF g
  <2>6. g = [s \in SUBSET (low .. n) |->
               IF s = {} THEN 0 ELSE Put(g[s \ {Min(s)}], raw[Min(s)])]
    BY <2>4, <2>5, Zenon
  <2>7. FoldsFrom(g, low, n, raw)
    BY <2>6 DEF FoldsFrom
  <2>8. QED
    BY <2>7 DEF low
<1>3. T = {}
  <2>1. SUFFICES ASSUME T # {} PROVE FALSE
    OBVIOUS
  <2>2. T \subseteq Nat /\ \A c \in T : c \in 0..n /\ ~Some(c)
    OBVIOUS
  <2>3. \A c \in 0..n : c \notin T => Some(c)
    OBVIOUS
  <2> HIDE DEF T, Some
  <2>4. PICK c \in T : \A y \in T : c <= y
    BY <2>1, <2>2, LeastNat
  <2>5. c # 0
    BY <2>2, <2>4, <1>1
  <2>6. c \in 1..n /\ c - 1 \in 0..n /\ ~(c <= c - 1)
    BY <2>2, <2>4, <2>5
  <2>7. QED
    BY <2>2, <2>3, <2>4, <2>6, <1>2
<1>4. Some(n)
  <2>1. n \in 0..n
    OBVIOUS
  <2> HIDE DEF Some
  <2>2. QED
    BY <2>1, <1>3
<1>5. n + 1 - n = 1
  OBVIOUS
<1>6. QED
  BY <1>4, <1>5

\* The values on the way, of which the first is the result.
Chain(v, raw) ==
  /\ v[Len(raw) + 1] = 0
  /\ \A k \in 1..Len(raw) : v[k] = Put(v[k + 1], raw[k])

LEMMA ParseIs ==
  ASSUME NEW S, NEW raw \in Seq(S), NEW v, Chain(v, raw)
  PROVE  ParseUint64(raw) = v[1]
<1> DEFINE n == Len(raw)
           g == CHOOSE f : f = [s \in SUBSET (1..n) |->
                                  IF s = {} THEN 0 ELSE Put(f[s \ {Min(s)}], raw[Min(s)])]
           Right(c) == g[(n + 1 - c) .. n] = v[n + 1 - c]
           T == {c \in 0..n : ~Right(c)}
<1>1. n \in Nat /\ DOMAIN raw = 1..n
  BY LenProperties
<1>2. ParseUint64(raw) = g[1..n]
  BY <1>1 DEF ParseUint64, FoldRight, MapThenFoldSet, Put
<1>3. FoldsFrom(g, 1, n, raw)
  BY <1>1, FoldExists DEF FoldsFrom
<1>4. v[n + 1] = 0 /\ \A k \in 1..n : v[k] = Put(v[k + 1], raw[k])
  BY DEF Chain
<1> HIDE DEF g, n
<1>5. \A s \in SUBSET (1..n) : g[s] = IF s = {} THEN 0 ELSE Put(g[s \ {Min(s)}], raw[Min(s)])
  BY <1>3 DEF FoldsFrom
<1>6. Right(0)
  <2>1. n + 1 - 0 = n + 1 /\ (n + 1) .. n = {}
    BY <1>1
  <2>2. QED
    BY <2>1, <1>4, <1>5
<1>7. ASSUME NEW c \in 1..n, Right(c - 1) PROVE Right(c)
  <2> DEFINE k == n + 1 - c
  <2>1. k \in 1..n /\ n + 1 - (c - 1) = k + 1
    BY <1>1
  <2> HIDE DEF k
  <2>2. g[(k + 1) .. n] = v[k + 1]
    BY <1>7, <2>1
  <2>3. k..n \in SUBSET (1..n) /\ k..n \subseteq Nat /\ k \in k..n /\ \A y \in k..n : k <= y
    BY <1>1, <2>1
  <2>4. Min(k..n) = k
    BY <2>3, MinIs
  <2>5. (k..n) \ {k} = (k + 1) .. n
    BY <1>1, <2>1
  <2>6. g[k..n] = Put(g[(k + 1) .. n], raw[k])
    BY <1>5, <2>3, <2>4, <2>5
  <2>7. g[k..n] = v[k]
    BY <1>4, <2>1, <2>2, <2>6
  <2>8. QED
    BY <2>7 DEF k
<1>8. T = {}
  <2>1. SUFFICES ASSUME T # {} PROVE FALSE
    OBVIOUS
  <2>2. T \subseteq Nat /\ \A c \in T : c \in 0..n /\ ~Right(c)
    BY <1>1
  <2>3. \A c \in 0..n : c \notin T => Right(c)
    OBVIOUS
  <2> HIDE DEF T, Right
  <2>4. PICK c \in T : \A y \in T : c <= y
    BY <2>1, <2>2, LeastNat
  <2>5. c # 0
    BY <2>2, <2>4, <1>6
  <2>6. c \in 1..n /\ c - 1 \in 0..n /\ ~(c <= c - 1)
    BY <2>2, <2>4, <2>5, <1>1
  <2>7. QED
    BY <2>2, <2>3, <2>4, <2>6, <1>7
<1>9. Right(n)
  <2>1. n \in 0..n
    BY <1>1
  <2> HIDE DEF Right
  <2>2. QED
    BY <2>1, <1>8
<1>10. n + 1 - n = 1
  BY <1>1
<1>11. QED
  BY <1>2, <1>9, <1>10

-----------------------------------------------------------------------------
(* The digits of a number below W are read as that number.                 *)
Writes(g, n) ==
  g = [i \in 0..n |-> IF i < 10 THEN <<i>> ELSE <<i % 10>> \o g[i \div 10]]

LEMMA Tenth ==
  ASSUME NEW i \in Nat, ~(i < 10)
  PROVE  /\ i \div 10 \in Nat /\ i \div 10 < i /\ i \div 10 # 0
         /\ i % 10 \in 0..9 /\ i = (i \div 10) * 10 + (i % 10)
OBVIOUS

LEMMA WritesExists ==
  ASSUME NEW n \in Nat
  PROVE  \E g : Writes(g, n)
<1> DEFINE Some(c) == \E g : Writes(g, c)
           T == {c \in 0..n : ~Some(c)}
<1>1. Some(0)
  <2> DEFINE g == [i \in 0..0 |-> <<i>>]
  <2>1. \A i \in 0..0 : i < 10
    OBVIOUS
  <2>2. g = [i \in 0..0 |-> IF i < 10 THEN <<i>> ELSE <<i % 10>> \o g[i \div 10]]
    BY <2>1
  <2> HIDE DEF g
  <2>3. Writes(g, 0)
    BY <2>2 DEF Writes
  <2>4. QED
    BY <2>3
<1>2. ASSUME NEW c \in 1..n, Some(c - 1) PROVE Some(c)
  <2>1. PICK h : Writes(h, c - 1)
    BY <1>2
  <2>2. \A i \in 0 .. c - 1 : h[i] = IF i < 10 THEN <<i>> ELSE <<i % 10>> \o h[i \div 10]
    BY <2>1 DEF Writes
  <2> DEFINE g == [i \in 0..c |-> IF i < c THEN h[i]
                                  ELSE IF i < 10 THEN <<i>> ELSE <<i % 10>> \o h[i \div 10]]
  <2>3. ASSUME NEW i \in 0..c
        PROVE  g[i] = IF i < 10 THEN <<i>> ELSE <<i % 10>> \o g[i \div 10]
    <3>1. g[i] = IF i < 10 THEN <<i>> ELSE <<i % 10>> \o h[i \div 10]
      <4>1. CASE i < c
        <5>1. i \in 0 .. c - 1 /\ g[i] = h[i]
          BY <4>1
        <5>2. QED
          BY <2>2, <5>1
      <4>2. CASE ~(i < c)
        BY <4>2, Zenon
      <4>3. QED
        BY <4>1, <4>2
    <3>2. CASE i < 10
      BY <3>1, <3>2
    <3>3. CASE ~(i < 10)
      <4>1. i \div 10 \in 0..c /\ i \div 10 < c
        BY <3>3, Tenth
      <4>2. g[i \div 10] = h[i \div 10]
        BY <4>1, Zenon
      <4>3. QED
        BY <3>1, <3>3, <4>2, Zenon
    <3>4. QED
      BY <3>2, <3>3
  <2>4. g = [i \in 0..c |-> g[i]]
    OBVIOUS
  <2> HIDE DEF g
  <2>5. g = [i \in 0..c |-> IF i < 10 THEN <<i>> ELSE <<i % 10>> \o g[i \div 10]]
    BY <2>3, <2>4, Zenon
  <2>6. Writes(g, c)
    BY <2>5 DEF Writes
  <2>7. QED
    BY <2>6
<1>3. T = {}
  <2>1. SUFFICES ASSUME T # {} PROVE FALSE
    OBVIOUS
  <2>2. T \subseteq Nat /\ \A c \in T : c \in 0..n /\ ~Some(c)
    OBVIOUS
  <2>3. \A c \in 0..n : c \notin T => Some(c)
    OBVIOUS
  <2> HIDE DEF T, Some
  <2>4. PICK c \in T : \A y \in T : c <= y
    BY <2>1, <2>2, LeastNat
  <2>5. c # 0
    BY <2>2, <2>4, <1>1
  <2>6. c \in 1..n /\ c - 1 \in 0..n /\ ~(c <= c - 1)
    BY <2>2, <2>4, <2>5
  <2>7. QED
    BY <2>2, <2>3, <2>4, <2>6, <1>2
<1>4. QED
  <2>1. n \in 0..n
    OBVIOUS
  <2>2. Some(n)
    <3> HIDE DEF Some
    <3>1. QED
      BY <2>1, <1>3
  <2>3. QED
    BY <2>2

LEMMA DigitsAre ==
  \A i \in 0 .. W - 1 : Digits[i] = IF i < 10 THEN <<i>> ELSE <<i % 10>> \o Digits[i \div 10]
<1>1. W - 1 \in Nat
  BY WIs
<1>2. Writes(Digits, W - 1)
  BY <1>1, WritesExists DEF Writes, Digits
<1>3. QED
  BY <1>2 DEF Writes

LEMMA Prepended ==
  ASSUME NEW S, NEW d \in S, NEW q \in Seq(S)
  PROVE  /\ <<d>> \o q \in Seq(S) /\ Len(<<d>> \o q) = Len(q) + 1 /\ Len(q) \in Nat
         /\ (<<d>> \o q)[1] = d
         /\ \A k \in 1..Len(q) : (<<d>> \o q)[k + 1] = q[k]
<1>1. <<d>> \in Seq(S) /\ Len(<<d>>) = 1 /\ <<d>>[1] = d /\ Len(q) \in Nat
  BY LenProperties
<1>2. /\ <<d>> \o q \in Seq(S) /\ Len(<<d>> \o q) = 1 + Len(q)
      /\ \A k \in 1 .. 1 + Len(q) :
           (<<d>> \o q)[k] = IF k <= 1 THEN <<d>>[k] ELSE q[k - 1]
  BY <1>1, ConcatProperties
<1>3. ASSUME NEW k \in 1..Len(q) PROVE (<<d>> \o q)[k + 1] = q[k]
  <2>1. k + 1 \in 1 .. 1 + Len(q) /\ ~(k + 1 <= 1) /\ (k + 1) - 1 = k
    BY <1>1
  <2>2. QED
    BY <1>2, <2>1
<1>4. (<<d>> \o q)[1] = d
  <2>1. 1 \in 1 .. 1 + Len(q)
    BY <1>1
  <2>2. QED
    BY <1>1, <1>2, <2>1
<1>5. QED
  BY <1>1, <1>2, <1>3, <1>4

\* n is read back if there is a chain of values from 0 to n.
Reads(n) == Digits[n] \in Seq(0..9) /\ \E v : Chain(v, Digits[n]) /\ v[1] = n

LEMMA AlwaysReads == \A n \in 0 .. W - 1 : Reads(n)
<1> DEFINE T == {n \in 0 .. W - 1 : ~Reads(n)}
<1>1. ASSUME NEW n \in 0 .. W - 1, n < 10 PROVE Reads(n)
  <2>1. Digits[n] = <<n>>
    BY <1>1, DigitsAre, Zenon
  <2>2a. n \in 0..9
    BY <1>1, WIs
  <2>2. <<n>> \in Seq(0..9) /\ Len(<<n>>) = 1 /\ <<n>>[1] = n
    BY <2>2a
  <2> DEFINE v == [k \in 1..2 |-> IF k = 1 THEN n ELSE 0]
  <2>3. v[1] = n /\ v[2] = 0
    OBVIOUS
  <2> HIDE DEF v
  <2>4. Put(0, n) = n
    <3>1. 0 * 10 + n = n
      BY <1>1
    <3>2. QED
      BY <3>1, ModSame DEF Put
  <2>5. \A k \in 1..1 : k = 1
    OBVIOUS
  <2>6. 1 + 1 = 2
    OBVIOUS
  <2>7. Chain(v, <<n>>)
    BY <2>2, <2>3, <2>4, <2>5, <2>6 DEF Chain
  <2>8. QED
    BY <2>1, <2>2, <2>3, <2>7 DEF Reads
<1>2. ASSUME NEW n \in 0 .. W - 1, ~(n < 10), Reads(n \div 10) PROVE Reads(n)
  <2> DEFINE d == n % 10
             u == n \div 10
             q == Digits[u]
  <2>1. n = u * 10 + d /\ d \in 0..9
    BY <1>2, Tenth
  <2>2. Digits[n] = <<d>> \o q
    BY <1>2, DigitsAre
  <2>3. q \in Seq(0..9)
    BY <1>2 DEF Reads
  <2>4. PICK v : Chain(v, q) /\ v[1] = u
    BY <1>2 DEF Reads
  <2> HIDE DEF d, u, q
  <2> DEFINE p == <<d>> \o q
             w == [k \in 1 .. Len(q) + 2 |-> IF k = 1 THEN n ELSE v[k - 1]]
  <2>5. /\ p \in Seq(0..9) /\ Len(p) = Len(q) + 1 /\ Len(q) \in Nat
        /\ p[1] = d /\ \A k \in 1..Len(q) : p[k + 1] = q[k]
    BY <2>1, <2>3, Prepended
  <2>6. w[1] = n
    BY <2>5
  <2>7. \A k \in 2 .. Len(q) + 2 : w[k] = v[k - 1]
    BY <2>5
  <2> HIDE DEF p, w
  <2>8. w[Len(p) + 1] = 0
    <3>1. Len(p) + 1 \in 2 .. Len(q) + 2 /\ (Len(p) + 1) - 1 = Len(q) + 1
      BY <2>5
    <3>2. QED
      BY <2>4, <2>7, <3>1 DEF Chain
  <2>9. ASSUME NEW k \in 1..Len(p) PROVE w[k] = Put(w[k + 1], p[k])
    <3>1. CASE k = 1
      <4>1. k + 1 \in 2 .. Len(q) + 2 /\ (k + 1) - 1 = 1
        BY <2>5, <3>1
      <4>2. w[k + 1] = u
        BY <2>4, <2>7, <4>1
      <4>3. Put(u, d) = n
        BY <2>1, ModSame DEF Put
      <4>4. QED
        BY <2>5, <2>6, <3>1, <4>2, <4>3
    <3>2. CASE k # 1
      <4>1. /\ k - 1 \in 1..Len(q) /\ k \in 2 .. Len(q) + 2 /\ k + 1 \in 2 .. Len(q) + 2
            /\ (k - 1) + 1 = k /\ (k + 1) - 1 = k
        BY <2>5, <3>2
      <4>2. w[k] = v[k - 1] /\ w[k + 1] = v[k] /\ p[k] = q[k - 1]
        BY <2>5, <2>7, <4>1
      <4>3. v[k - 1] = Put(v[k], q[k - 1])
        BY <2>4, <4>1 DEF Chain
      <4>4. QED
        BY <4>2, <4>3
    <3>3. QED
      BY <3>1, <3>2
  <2>10. Chain(w, p)
    BY <2>8, <2>9 DEF Chain
  <2>11. Digits[n] = p
    BY <2>2 DEF p
  <2>12. QED
    BY <2>5, <2>6, <2>10, <2>11 DEF Reads
<1>3. T = {}
  <2>1. SUFFICES ASSUME T # {} PROVE FALSE
    OBVIOUS
  <2>2. T \subseteq Nat /\ \A n \in T : n \in 0 .. W - 1 /\ ~Reads(n)
    BY WIs
  <2>3. \A n \in 0 .. W - 1 : n \notin T => Reads(n)
    OBVIOUS
  <2> HIDE DEF T
  <2>4. PICK n \in T : \A y \in T : n <= y
    BY <2>1, <2>2, LeastNat
  <2>5. n \in Nat /\ n \in 0 .. W - 1 /\ ~(n < 10)
    BY <2>2, <2>4, <1>1
  <2>6. n \div 10 \in 0 .. W - 1 /\ ~(n <= n \div 10)
    BY <2>5, Tenth, WIs
  <2>7. QED
    BY <2>2, <2>3, <2>4, <2>5, <2>6, <1>2
<1>4. QED
  BY <1>3

\* So nothing is lost on the way from the kernel.
LEMMA ParseDigits ==
  ASSUME NEW n \in 0 .. W - 1
  PROVE  ParseUint64(Digits[n]) = n
BY AlwaysReads, ParseIs DEF Reads

-----------------------------------------------------------------------------
(* The counters wrap, their differences are right.                         *)
LEMMA BusyDifference ==
  ASSUME NEW before, NEW stat, NEW d,
         \A c \in Counter : /\ before[c] \in Int /\ d[c] \in Int
                            /\ stat[c] = (before[c] + d[c]) % W,
         d["user"] + d["nice"] + d["system"] \in 0 .. W - 1
  PROVE  Minus(TotalBusy(stat), TotalBusy(before)) = d["user"] + d["nice"] + d["system"]
<1> DEFINE a == before["user"]
           b == before["nice"]
           c == before["system"]
           x == d["user"]
           y == d["nice"]
           z == d["system"]
<1>1. "user" \in Counter /\ "nice" \in Counter /\ "system" \in Counter
  BY DEF Counter
<1>2. /\ a \in Int /\ b \in Int /\ c \in Int
      /\ x \in Int /\ y \in Int /\ z \in Int
      /\ x + y + z \in 0 .. W - 1
  BY <1>1
<1>3. /\ stat["user"] = (a + x) % W
      /\ stat["nice"] = (b + y) % W
      /\ stat["system"] = (c + z) % W
  BY <1>1
<1>4. SUFFICES Minus((stat["user"] + stat["nice"] + stat["system"]) % W, (a + b + c) % W)
                 = x + y + z
  BY DEF TotalBusy
<1> HIDE DEF a, b, c, x, y, z
<1> DEFINE a1 == stat["user"]
           b1 == stat["nice"]
           c1 == stat["system"]
           new == (a1 + b1 + c1) % W
           old == (a + b + c) % W
<1>5. PICK ka \in Int : a + x = ka * W + a1
  BY <1>2, <1>3, ModSplit
<1>6. PICK kb \in Int : b + y = kb * W + b1
  BY <1>2, <1>3, ModSplit
<1>7. PICK kc \in Int : c + z = kc * W + c1
  BY <1>2, <1>3, ModSplit
<1>8. a1 \in Int /\ b1 \in Int /\ c1 \in Int
  BY <1>2, <1>3, WIs
<1> HIDE DEF a1, b1, c1
<1>9. PICK kn \in Int : a1 + b1 + c1 = kn * W + new
  BY <1>8, ModSplit
<1>10. PICK ko \in Int : a + b + c = ko * W + old
  BY <1>2, ModSplit
<1>11. new \in Int /\ old \in Int
  BY <1>8, <1>2, WIs
<1> HIDE DEF new, old
<1> DEFINE k == ko - kn - ka - kb - kc
<1>12. k \in Int /\ k * W = ko * W - kn * W - ka * W - kb * W - kc * W
  BY WIs
<1>13. new - old = k * W + (x + y + z)
  <2> DEFINE A == ka * W
             B == kb * W
             C == kc * W
             N == kn * W
             O == ko * W
  <2>1. /\ A \in Int /\ B \in Int /\ C \in Int /\ N \in Int /\ O \in Int
        /\ k * W = O - N - A - B - C
        /\ a + x = A + a1 /\ b + y = B + b1 /\ c + z = C + c1
        /\ a1 + b1 + c1 = N + new /\ a + b + c = O + old
    BY <1>5, <1>6, <1>7, <1>9, <1>10, <1>12, WIs
  <2> HIDE DEF A, B, C, N, O, k
  <2>2. QED
    BY <2>1, <1>8, <1>11, <1>2
<1> HIDE DEF k
<1>14. (new - old) % W = x + y + z
  BY <1>11, <1>12, <1>13, <1>2, ModIs
<1>15. QED
  BY <1>14 DEF Minus, new, old, a1, b1, c1

LEMMA IdleDifference ==
  ASSUME NEW i \in Int, NEW j \in Int, NEW busy \in Int, busy + j \in 0 .. W - 1
  PROVE  (busy + Minus((i + j) % W, i)) % W = busy + j
<1> DEFINE i1 == (i + j) % W
           t == (i1 - i) % W
<1>1. PICK ki \in Int : i + j = ki * W + i1
  BY ModSplit
<1>2. i1 \in Int
  BY WIs
<1> HIDE DEF i1
<1>3. PICK kt \in Int : i1 - i = kt * W + t
  BY <1>2, ModSplit
<1>4. t \in Int
  BY <1>2, WIs
<1> HIDE DEF t
<1> DEFINE k == 0 - ki - kt
<1>5. k \in Int /\ k * W = 0 - (ki * W) - (kt * W)
  BY WIs
<1>6. busy + t = k * W + (busy + j)
  <2> DEFINE I == ki * W
             T == kt * W
  <2>1. I \in Int /\ T \in Int /\ k * W = 0 - I - T /\ i + j = I + i1 /\ i1 - i = T + t
    BY <1>1, <1>3, <1>5, WIs
  <2> HIDE DEF I, T, k
  <2>2. QED
    BY <2>1, <1>2, <1>4
<1> HIDE DEF k
<1>7. (busy + t) % W = busy + j
  BY <1>4, <1>5, <1>6, ModIs
<1>8. QED
  BY <1>7 DEF Minus, t, i1

-----------------------------------------------------------------------------
(* The loop.  A sample that is kept is what the counters still are.        *)
MetricsInv ==
  /\ cpu \in [Counter -> 0 .. W - 1]
  /\ last # NoStat => last = cpu
  /\ CpuGaugeIsLastInterval

LEMMA UsageIs ==
  ASSUME NEW counters \in [Counter -> 0 .. W - 1]
  PROVE  CpuUsage(counters) = counters
<1>1. \A c \in Counter : ParseUint64(Digits[counters[c]]) = counters[c]
  BY ParseDigits
<1>2. QED
  BY <1>1 DEF CpuUsage

LEMMA MetricsInvStep ==
  ASSUME MetricsInv, NEW d \in Advance, NEW read \in BOOLEAN, NEW m, NEW k, Tick(d, read, m, k)
  PROVE  MetricsInv'
<1> DEFINE cpus == [c \in Counter |-> (cpu[c] + d[c]) % W]
<1>1. d \in [Counter -> Int] /\ cpu \in [Counter -> 0 .. W - 1]
  BY MetricsAssumption DEF MetricsAssumption, MetricsInv
<1>2. ASSUME NEW c \in Counter
      PROVE  cpu[c] \in Int /\ d[c] \in Int /\ (cpu[c] + d[c]) % W \in 0 .. W - 1
  <2> DEFINE n == cpu[c]
             e == d[c]
  <2>1. n \in 0 .. W - 1 /\ e \in Int
    BY <1>1
  <2> HIDE DEF n, e
  <2>2. n \in Int /\ n + e \in Int
    BY <2>1, WIs
  <2>3. (n + e) % W \in 0 .. W - 1
    BY <2>2, WIs
  <2>4. QED
    BY <2>1, <2>2, <2>3 DEF n, e
<1>3. cpus \in [Counter -> 0 .. W - 1] /\ \A c \in Counter : cpus[c] = (cpu[c] + d[c]) % W
  BY <1>2
<1>4. /\ cpu' = cpus /\ passed' = d
      /\ last' = IF read THEN CpuUsage(cpus) ELSE NoStat
      /\ gauges'.cpu = IF last' = NoStat \/ last = NoStat THEN NoRecord
                       ELSE CpuPercent(last', last)
  BY DEF Tick, NextLast
<1> HIDE DEF cpus
<1>5. CpuUsage(cpus) = cpus
  BY <1>3, UsageIs
<1>6. ASSUME gauges'.cpu # NoRecord, Busy' \in 0 .. W - 1, (Busy + passed["idle"])' \in 0 .. W - 1
      PROVE  gauges'.cpu = <<Busy', (Busy + passed["idle"])'>>
  <2>1. gauges'.cpu = CpuPercent(cpus, cpu)
    BY <1>4, <1>5, <1>6 DEF MetricsInv
  <2> DEFINE x == d["user"]
             y == d["nice"]
             z == d["system"]
             j == d["idle"]
  <2>2. "user" \in Counter /\ "nice" \in Counter /\ "system" \in Counter /\ "idle" \in Counter
    BY DEF Counter
  <2>3. x \in Int /\ y \in Int /\ z \in Int /\ j \in Int
    BY <1>2, <2>2
  <2>4. Busy' = x + y + z /\ passed'["idle"] = j
    BY <1>4 DEF Busy
  <2> HIDE DEF x, y, z, j
  <2>5. Minus(TotalBusy(cpus), TotalBusy(cpu)) = x + y + z
    <3>1. d["user"] + d["nice"] + d["system"] \in 0 .. W - 1
      BY <1>6, <2>4 DEF x, y, z
    <3>2. QED
      BY <1>2, <1>3, <3>1, BusyDifference DEF x, y, z
  <2>6. ((x + y + z) + Minus(cpus["idle"], cpu["idle"])) % W = (x + y + z) + j
    <3>1. (x + y + z) + j \in 0 .. W - 1 /\ x + y + z \in Int
      BY <1>6, <2>3, <2>4
    <3>2. cpus["idle"] = (cpu["idle"] + j) % W
      BY <1>3, <2>2 DEF j
    <3>3. QED
      BY <1>2, <2>2, <2>3, <3>1, <3>2, IdleDifference
  <2>7. CpuPercent(cpus, cpu) = <<x + y + z, (x + y + z) + j>>
    BY <2>5, <2>6 DEF CpuPercent
  <2>8. QED
    BY <2>1, <2>4, <2>7
<1>7. last' # NoStat => last' = cpu'
  BY <1>4, <1>5
<1>8. QED
  BY <1>3, <1>4, <1>6, <1>7 DEF MetricsInv, CpuGaugeIsLastInterval

(* Counters of any width, that wrap at any time, and samples that fail:    *)
(* the CPU gauge is about the last interval and no other.                  *)
THEOREM CpuGaugeHolds == MetricsSpec => []CpuGaugeIsLastInterval
<1>1. MetricsInit => MetricsInv
  <2>1. SUFFICES ASSUME MetricsInit PROVE MetricsInv
    OBVIOUS
  <2>2. cpu \in [Counter -> 0 .. W - 1]
    BY <2>1, MetricsAssumption DEF MetricsInit, MetricsAssumption
  <2>3. last # NoStat => last = cpu
    BY <2>1, <2>2, UsageIs DEF MetricsInit
  <2>4. gauges.cpu = NoRecord
    BY <2>1 DEF MetricsInit
  <2>5. QED
    BY <2>2, <2>3, <2>4 DEF MetricsInv, CpuGaugeIsLastInterval
<1>2. MetricsInv /\ [MetricsNext]_metricsVars => MetricsInv'
  <2>1. ASSUME MetricsInv, UNCHANGED metricsVars PROVE MetricsInv'
    BY <2>1 DEF MetricsInv, metricsVars, CpuGaugeIsLastInterval, Busy
  <2>2. QED
    BY <2>1, MetricsInvStep DEF MetricsNext
<1>3. MetricsInv => CpuGaugeIsLastInterval
  BY DEF MetricsInv
<1>4. QED
  BY <1>1, <1>2, <1>3, PTL DEF MetricsSpec
=============================================================================
