---------------------------- MODULE RegistryPage ----------------------------
(***************************************************************************)
(* One GET /registry (pkg/mahogany/views/registry.go and sources/          *)
(* registry.go): the catalog, then the tags of each repository, then a     *)
(* manifest for each tag, one HTTP request after the other, each to the    *)
(* client v.registry is at that moment.  Meanwhile images are pushed and   *)
(* deleted, and saves of the settings replace the client (Settings.tla),   *)
(* of which only the address matters here.                                 *)
(*                                                                         *)
(* images is what the registries hold: for each address, the tags of each  *)
(* repository.  A repository stays in the catalog when its last tag goes.  *)
(* The status of an answer about tags or a manifest is not looked at: the  *)
(* JSON of an error decodes to no tags, or to a manifest without a digest. *)
(*                                                                         *)
(* Of the registries it is assumed that one answer holds a whole list: the *)
(* code asks for _catalog and for tags once, without n, and does not read  *)
(* the Link of an answer that was cut off.  A registry with more than fits *)
(* into one shows only its first page.  And that every manifest has a      *)
(* config digest, which a list of manifests has not.                       *)
(***************************************************************************)
EXTENDS Integers, FiniteSets

CONSTANTS Address,   \* the addresses at which there is a registry
          Elsewhere, \* an address at which there is none
          Repo, Tag,
          Image,     \* the images anyone pushes: <<address, repository, tag>>
          Held       \* what the registries may hold at first

\* What registries hold: the tags of each repository of their catalogs.
Holding == [Address -> UNION {[C -> SUBSET Tag] : C \in SUBSET Repo}]

ASSUME RegistryAssumption ==
  /\ Elsewhere \notin Address
  /\ Held \subseteq Holding
  /\ Image \subseteq Address \X Repo \X Tag

VARIABLES
  registry,   \* the address in v.registry
  images,     \* [Address -> [the catalog's repositories -> SUBSET Tag]]
  page,       \* where the handler is
  repos,      \* the repositories it has not asked for
  repo, tags, \* the repository it is at, and its tags still to ask for
  manifests,  \* view.Manifests, each with whether it has a digest
  kept,       \* history: the images that were there all the while,
  seen,       \*   and those that were there at some moment,
  addresses   \*   and the addresses of v.registry since the page began

registryPage == <<page, repos, repo, tags, manifests>>
asked        == <<kept, seen, addresses>>
registryVars == <<registry, images, registryPage, asked>>

\* The repositories, their tags and the manifests are of their types, and
\* what was there all the while was there.
PageTypeOK ==
  /\ registry \in Address \cup {Elsewhere}
  /\ images \in Holding
  /\ page \in {"idle", "repos", "tags", "listed", "broken", "error"}
  /\ repos \subseteq Repo
  /\ repo \in Repo
  /\ tags \subseteq Tag
  /\ page = "repos" => tags = {}
  /\ manifests \subseteq Repo \X Tag \X BOOLEAN
  /\ kept \subseteq seen
  /\ seen \subseteq Address \X Repo \X Tag
  /\ addresses \subseteq Address \cup {Elsewhere}

TagsAt(held, a, r) ==
  IF a \in Address THEN IF r \in DOMAIN held[a] THEN held[a][r] ELSE {} ELSE {}

ImagesOf(held) ==
  {i \in Address \X Repo \X Tag : i[3] \in TagsAt(held, i[1], i[2])}

PageInit ==
  /\ registry \in Address
  /\ images \in Held
  /\ page = "idle"
  /\ repos = {}
  /\ repo \in Repo
  /\ tags = {}
  /\ manifests = {}
  /\ kept = {}
  /\ seen = {}
  /\ addresses = {}

-----------------------------------------------------------------------------
Asking == page \in {"repos", "tags"}

\* What the histories become when images or the client change.
Watch(held, a) ==
  IF Asking
  THEN /\ kept' = kept \cap ImagesOf(held)
       /\ seen' = seen \cup ImagesOf(held)
       /\ addresses' = addresses \cup {a}
  ELSE UNCHANGED asked

\* Any of the three requests may fail, and does without an address.
RequestFails ==
  /\ page \in {"idle", "repos", "tags"}
  /\ page = "repos" => repos # {}
  /\ page = "tags" => tags # {}
  /\ page' = "error"
  /\ UNCHANGED <<registry, images, repos, repo, tags, manifests, asked>>

\* One request, whose answer is the whole catalog.
GetCatalog ==
  /\ page = "idle"
  /\ registry \in Address
  /\ page' = "repos"
  /\ repos' = DOMAIN images[registry]
  /\ kept' = ImagesOf(images)
  /\ seen' = ImagesOf(images)
  /\ addresses' = {registry}
  /\ UNCHANGED <<registry, images, repo, tags, manifests>>

\* Mutant: a repository whose tags cannot be had is left out of the page.
GetTagsSkipping(r) ==
  /\ page = "repos"
  /\ r \in repos
  /\ registry \in Address
  /\ repos' = repos \ {r}
  /\ repo' = r
  /\ \/ tags' = TagsAt(images, registry, r) /\ page' = "tags"
     \/ UNCHANGED <<tags, page>>
  /\ UNCHANGED <<registry, images, manifests, asked>>

\* Mutant: the tags are those of the repository before.
GetTagsBefore(r) ==
  /\ page = "repos"
  /\ r \in repos
  /\ registry \in Address
  /\ repos' = repos \ {r}
  /\ repo' = r
  /\ tags' = TagsAt(images, registry, repo)
  /\ page' = "tags"
  /\ UNCHANGED <<registry, images, manifests, asked>>

GetTags(r) ==
  /\ page = "repos"
  /\ r \in repos
  /\ registry \in Address
  /\ repos' = repos \ {r}
  /\ repo' = r
  /\ tags' = TagsAt(images, registry, r)
  /\ page' = "tags"
  /\ UNCHANGED <<registry, images, manifests, asked>>

\* Name and tag are those asked for, whatever the answer was.
GetManifest(t) ==
  /\ page = "tags"
  /\ t \in tags
  /\ registry \in Address
  /\ tags' = tags \ {t}
  /\ manifests' = manifests \cup {<<repo, t, t \in TagsAt(images, registry, repo)>>}
  /\ UNCHANGED <<registry, images, page, repos, repo, asked>>

\* Mutant: one tag of a repository is enough.
NextRepoEarly ==
  /\ page = "tags"
  /\ page' = "repos"
  /\ UNCHANGED <<registry, images, repos, repo, tags, manifests, asked>>

NextRepo ==
  /\ page = "tags"
  /\ tags = {}
  /\ page' = "repos"
  /\ UNCHANGED <<registry, images, repos, repo, tags, manifests, asked>>

\* The template slices each digest, which fails on an empty one.
Render ==
  /\ page = "repos"
  /\ repos = {}
  /\ page' = IF \A m \in manifests : m[3] THEN "listed" ELSE "broken"
  /\ UNCHANGED <<registry, images, repos, repo, tags, manifests, asked>>

\* DeleteRegistryImage, by another request.  What happens to the images
\* before the page is in Held, and what happens after does not matter.
DeleteImage(a, r, t) ==
  /\ Asking
  /\ registry = a
  /\ t \in TagsAt(images, a, r)
  /\ images' = [images EXCEPT ![a][r] = @ \ {t}]
  /\ Watch(images', a)
  /\ UNCHANGED <<registry, registryPage>>

PushImage(a, r, t) ==
  /\ Asking
  /\ t \notin TagsAt(images, a, r)
  /\ images' = [images EXCEPT ![a] =
       [q \in DOMAIN @ \cup {r} |-> TagsAt(images, a, q) \cup {u \in {t} : q = r}]]
  /\ Watch(images', registry)
  /\ UNCHANGED <<registry, registryPage>>

\* reload replaces v.registry, in the middle of a save.
Reload(a) ==
  /\ registry' = a
  /\ Watch(images, a)
  /\ UNCHANGED <<images, registryPage>>

PageNext ==
  \/ \E a \in Address \cup {Elsewhere} : Reload(a)
  \/ RequestFails
  \/ GetCatalog
  \/ \E r \in Repo : GetTags(r)
  \/ \E t \in Tag : GetManifest(t)
  \/ NextRepo
  \/ Render
  \/ \E i \in Image : DeleteImage(i[1], i[2], i[3]) \/ PushImage(i[1], i[2], i[3])

PageSpec == PageInit /\ [][PageNext]_registryVars

-----------------------------------------------------------------------------
Done == page \in {"listed", "broken"}

OneRegistry == Cardinality(addresses) = 1

(* A page that was made with one client, of a registry that answers with   *)
(* whole lists, shows every image that was there from its first request to *)
(* its last, with its digest: only an image that was deleted after its tag *)
(* was listed can break the page.                                          *)
LastingImagesAreListed ==
  Done /\ OneRegistry =>
    \A i \in kept : i[1] \in addresses => <<i[2], i[3], TRUE>> \in manifests

(* What a page lists was in a registry it asked, at some moment while the  *)
(* page was made, also when saves change the registry midway; the page may *)
(* then mix the two.                                                       *)
ListedWasThere ==
  \A m \in manifests : \E a \in addresses : <<a, m[1], m[2]>> \in seen
=============================================================================
