----------------------------- MODULE CloudStores -----------------------------
(***************************************************************************)
(* The stores that ask an API for clusters - of a cloud provider, of a     *)
(* Gardener, or for the secrets of a Kubernetes cluster, or the program    *)
(* kind: what their search announces for a cluster, what they remember,    *)
(* and how they find it when the kubeconfig at a path is asked for - in    *)
(* the same process, or in a later one that has only the path and the tags *)
(* of an index.                                                            *)
(*                                                                         *)
(* A cluster has an id, a name, and the scope it is listed in: a project,  *)
(* a resource group, a zone, a doctl context, a namespace.  A path is the  *)
(* sequence of the parts it is printed from, the tags are a set of ids.    *)
(***************************************************************************)
EXTENDS Naturals, Sequences, FiniteSets

CONSTANTS
  Cluster,      \* ids
  NameOf,       \* Cluster -> names
  ScopeOf,      \* Cluster -> scopes
  Separated,    \* names that contain the separator "--" of paths
  Hyphenated,   \* Cluster -> "<namespace>-<name>", which is not unique
  Seeds         \* Shoots of managed seeds: all in one namespace

Kind == {"gke", "eks", "azure", "digitalOcean", "exoscale", "scaleway",
         "ovh", "akamai", "rancher", "kubernetes", "capi", "kind", "gardener"}

\* No two clusters of one scope have the same name.
ASSUME NamesAssumption ==
  /\ \A c, d \in Cluster :
       NameOf[c] = NameOf[d] /\ ScopeOf[c] = ScopeOf[d] => c = d
  /\ Seeds \subseteq Cluster
  /\ \A c, d \in Seeds : ScopeOf[c] = ScopeOf[d]

VARIABLES
  kind,         \* of the store
  ready,        \* lazyInit: the client and what initialize loads are there
  known,        \* scopes that the initialisation has found
  discovered,   \* clusterCache: ids of the clusters the store remembers
  listing,      \* the search: state of each scope
  todo,         \* clusters of each scope that are listed and not yet sent
  search,       \* "idle", "running", "ended"
  reported,     \* the search has sent an error
  sent          \* results the search has sent

storeVars ==
  <<kind, ready, known, discovered, listing, todo, search, reported, sent>>

(***************************************************************************)
(* The lists a search asks for one by one.  For EKS they are the pages of  *)
(* one list; some stores answer everything at once, or nothing.            *)
(***************************************************************************)
AtOnce == {"akamai", "rancher", "kubernetes", "capi", "kind"}
ListOf(k, c) == IF k \in AtOnce THEN "all" ELSE ScopeOf[c]
Scope == {ScopeOf[c] : c \in Cluster} \cup {"all"}
Lists == {ListOf(kind, c) : c \in Cluster}

(***************************************************************************)
(* What StartSearch announces: the parts of the path, and the tags.  Names *)
(* of EKS clusters are unique in the region of the store, and labels of    *)
(* Akamai and of kind clusters altogether: the id stands for them.  A      *)
(* managed seed is taken to have the name of its Shoot (gardener.go:785).  *)
(***************************************************************************)
PathOf(k, c) ==
  CASE k \in {"gke", "azure", "digitalOcean", "exoscale", "kubernetes"}
            -> <<ScopeOf[c], NameOf[c]>>
    [] k \in {"scaleway", "ovh"} -> <<NameOf[c]>>
    [] k \in {"eks", "akamai", "rancher"} -> <<c, NameOf[c]>>
    [] k = "kind" -> <<c>>
    [] k = "capi" -> <<Hyphenated[c]>>
    [] k = "gardener" -> IF c \in Seeds THEN <<"seed", NameOf[c]>>
                         ELSE <<"shoot", ScopeOf[c], NameOf[c]>>

\* The stores that put what identifies the cluster into the tags.
Tagged == {"digitalOcean", "scaleway", "ovh", "akamai", "kubernetes", "capi",
           "kind"}

ResultOf(k, c) ==
  [path |-> PathOf(k, c), tags |-> IF k \in Tagged THEN {c} ELSE {}, for |-> c]
Result == {ResultOf(k, c) : k \in Kind, c \in Cluster}

(***************************************************************************)
(* parseIdentifier, parseEksIdentifier, parseAzureIdentifier, and          *)
(* ParseIdentifier of Gardener: a path must split into exactly the parts   *)
(* it was printed from.                                                    *)
(***************************************************************************)
Parsed(k, path) ==
  k \in {"gke", "eks", "azure", "gardener"}
    => \A i \in DOMAIN path : path[i] \notin Separated

(***************************************************************************)
(* The name of a context: GetContextPrefix and the name in the kubeconfig, *)
(* which is the name of the cluster.  Some stores print the whole path as  *)
(* the prefix, some the kind or id of the store.                           *)
(***************************************************************************)
Prefix(k, path) ==
  CASE k \in {"gke", "eks", "azure", "akamai", "rancher", "kind", "gardener"}
         -> path
    [] k = "digitalOcean"
         -> IF \E i \in DOMAIN path : path[i] \in Separated THEN <<>>
            ELSE <<path[1]>>
    [] k \in {"exoscale", "scaleway", "ovh", "kubernetes", "capi"} -> <<>>

ContextName(k, path, c) == Append(Prefix(k, path), NameOf[c])

(***************************************************************************)
(* The clusters that a path may lead to, for each way of looking it up.    *)
(***************************************************************************)
InCloud(k, path) == {c \in Cluster : PathOf(k, c) = path}

\* GKEStore.GetKubeconfigForPath: remembered, or looked up by its names.  The
\* id of the project is read from the map that the initialisation filled.
ResolveGKE(path) ==
  IF ~Parsed("gke", path) THEN {}
  ELSE {c \in InCloud("gke", path) : c \in discovered \/ ScopeOf[c] \in known}

\* EKSStore: the name is unique in the region the store is configured for.
ResolveEKS(path) == IF Parsed("eks", path) THEN InCloud("eks", path) ELSE {}

\* AzureStore: always asks for the resource group and the name.
ResolveAzure(path) ==
  IF Parsed("azure", path) THEN InCloud("azure", path) ELSE {}

\* DigitalOceanStore: only by the tags.
ResolveDigitalOcean(tags) == tags

\* ExoscaleStore: only among the clusters a search has found.
ResolveExoscale(path) ==
  {c \in discovered : PathOf("exoscale", c) = path}

\* ScalewayStore: by the tag, else among the clusters found.
ResolveScaleway(path, tags) ==
  IF tags # {} THEN tags
  ELSE {c \in discovered : PathOf("scaleway", c) = path}

\* Variant: by what a search has found, whatever the tags say.
ResolveFound(path, tags) == {c \in discovered : PathOf("ovh", c) = path}

\* OVHStore: by the tags, else among the clusters found.
ResolveOVH(path, tags) ==
  IF tags # {} THEN tags ELSE {c \in discovered : PathOf("ovh", c) = path}

\* AkamaiStore: by the tag.
ResolveAkamai(tags) == tags

\* RancherStore: the path is the id ("local" is printed as the id of the
\* store, and read back).
ResolveRancher(path) == InCloud("rancher", path)

\* KubernetesStore, KindStore: by the tags, or else from the path.
ResolveTagged(k, path, tags) == IF tags # {} THEN tags ELSE InCloud(k, path)

\* CapiStore: only by the tags.
ResolveCapi(tags) == tags

\* GardenerStore: the Shoot is remembered, or asked for by its names.
ResolveGardener(path) ==
  IF Parsed("gardener", path) THEN InCloud("gardener", path) ELSE {}

Resolve(r) ==
  CASE kind = "gke"          -> ResolveGKE(r.path)
    [] kind = "eks"          -> ResolveEKS(r.path)
    [] kind = "azure"        -> ResolveAzure(r.path)
    [] kind = "digitalOcean" -> ResolveDigitalOcean(r.tags)
    [] kind = "exoscale"     -> ResolveExoscale(r.path)
    [] kind = "scaleway"     -> ResolveScaleway(r.path, r.tags)
    [] kind = "ovh"          -> ResolveOVH(r.path, r.tags)
    [] kind = "akamai"       -> ResolveAkamai(r.tags)
    [] kind = "rancher"      -> ResolveRancher(r.path)
    [] kind = "capi"         -> ResolveCapi(r.tags)
    [] kind = "gardener"     -> ResolveGardener(r.path)
    [] kind \in {"kubernetes", "kind"} -> ResolveTagged(kind, r.path, r.tags)

(***************************************************************************)
(* What the search does with a scope that cannot be listed.                *)
(***************************************************************************)
StopsAtError == {"eks", "azure", "ovh", "gardener"} \cup AtOnce
SkipsSilently == {"exoscale"}

\* Stores that fetch a list in pieces, of which a later one can fail.
InPieces == {"azure", "ovh"}

\* Stores that list their scopes at once, in goroutines.
Parallel == {"digitalOcean"}

\* Stores that list all their scopes before they send a cluster.
ListsFirst == {"gardener"}

\* Stores that enter what the search finds into their clusterCache.
Remembers == {"gke", "azure", "exoscale", "scaleway", "ovh", "gardener"}

StoreInit ==
  /\ ready = FALSE
  /\ known = {}
  /\ discovered = {}
  /\ listing = [s \in Scope |-> "todo"]
  /\ todo = [s \in Scope |-> {}]
  /\ search = "idle"
  /\ reported = FALSE
  /\ sent = {}

(***************************************************************************)
(* ensure(initialize).  GKE lists the projects: when a page fails and the  *)
(* following login succeeds, the list is not repeated, and the projects    *)
(* found so far must do, if there is one.                                  *)
(***************************************************************************)
Initialize ==
  /\ ~ready
  /\ ready' = TRUE
  /\ IF kind = "gke" THEN known' \in (SUBSET Lists) \ {{}}
                     ELSE known' = Lists

\* StartSearch initialises the store ...
StartSearch ==
  /\ search = "idle"
  /\ search' = "running"
  /\ Initialize
  /\ UNCHANGED <<kind, discovered, listing, todo, reported, sent>>

\* ... or sends the error of the initialisation, and ends.
StartSearchFails ==
  /\ search = "idle" /\ ~ready
  /\ search' = "ended" /\ reported' = TRUE
  /\ UNCHANGED <<kind, ready, known, discovered, listing, todo, sent>>

Active == {s \in Scope : listing[s] = "listed"}

ListScope(s) ==
  /\ search = "running" /\ s \in known /\ listing[s] = "todo"
  /\ kind \in Parallel \cup ListsFirst \/ Active = {}
  /\ listing' = [listing EXCEPT ![s] = "listed"]
  /\ todo' = [todo EXCEPT ![s] = {c \in Cluster : ListOf(kind, c) = s}]
  /\ UNCHANGED <<kind, ready, known, discovered, search, reported, sent>>

\* Variant: a list that fails is skipped without a word.
ListScopeFailsSilently(s) ==
  /\ search = "running" /\ s \in known /\ listing[s] = "todo"
  /\ kind \in Parallel \cup ListsFirst \/ Active = {}
  /\ listing' = [listing EXCEPT ![s] = "failed"]
  /\ search' = IF kind \in StopsAtError THEN "ended" ELSE search
  /\ UNCHANGED <<kind, ready, known, discovered, todo, reported, sent>>

ListScopeFails(s) ==
  /\ search = "running" /\ s \in known /\ listing[s] = "todo"
  /\ kind \in Parallel \cup ListsFirst \/ Active = {}
  /\ listing' = [listing EXCEPT ![s] = "failed"]
  /\ reported' = (reported \/ kind \notin SkipsSilently)
  /\ search' = IF kind \in StopsAtError THEN "ended" ELSE search
  /\ UNCHANGED <<kind, ready, known, discovered, todo, sent>>

\* Gardener: a namespace that may not be listed is left out.
ListScopeForbidden(s) ==
  /\ kind = "gardener" /\ search = "running"
  /\ s \in known /\ listing[s] = "todo"
  /\ listing' = [listing EXCEPT ![s] = "failed"]
  /\ UNCHANGED <<kind, ready, known, discovered, todo, search, reported, sent>>

(***************************************************************************)
(* CAPI without a kubeconfig of its own is used with whatever cluster the  *)
(* user is connected to.  If that one does not know the resource, a result *)
(* without a path is sent, and no error.  (That result is left out here:   *)
(* the store has no kubeconfig for it, and the collector goes on.)         *)
(***************************************************************************)
ListScopeNoMatch(s) ==
  /\ kind = "capi" /\ search = "running"
  /\ s \in known /\ listing[s] = "todo"
  /\ listing' = [listing EXCEPT ![s] = "failed"]
  /\ search' = "ended"
  /\ UNCHANGED <<kind, ready, known, discovered, todo, reported, sent>>

\* The rest of a list cannot be fetched: what was sent before it stays.
ListScopeBreaks(s) ==
  /\ kind \in InPieces /\ search = "running"
  /\ listing[s] = "listed" /\ todo[s] # {}
  /\ listing' = [listing EXCEPT ![s] = "failed"]
  /\ reported' = TRUE
  /\ search' = "ended"
  /\ UNCHANGED <<kind, ready, known, discovered, todo, sent>>

\* A cluster is remembered, and then sent; whoever receives it may already
\* ask for its kubeconfig.
Send(s, c) ==
  /\ search = "running" /\ listing[s] = "listed" /\ c \in todo[s]
  /\ kind \in ListsFirst => \A t \in known : listing[t] # "todo"
  /\ todo' = [todo EXCEPT ![s] = @ \ {c}]
  /\ discovered' =
       IF kind \in Remembers THEN discovered \cup {c} ELSE discovered
  /\ sent' = sent \cup {ResultOf(kind, c)}
  /\ UNCHANGED <<kind, ready, known, listing, search, reported>>

EndScope(s) ==
  /\ search = "running" /\ listing[s] = "listed" /\ todo[s] = {}
  /\ listing' = [listing EXCEPT ![s] = "done"]
  /\ UNCHANGED <<kind, ready, known, discovered, todo, search, reported, sent>>

EndSearch ==
  /\ search = "running"
  /\ \A s \in known : listing[s] \in {"done", "failed"}
  /\ search' = "ended"
  /\ UNCHANGED
       <<kind, ready, known, discovered, listing, todo, reported, sent>>
-----------------------------------------------------------------------------
StoreTypeOK ==
  /\ kind \in Kind
  /\ ready \in BOOLEAN
  /\ known \subseteq Scope
  /\ discovered \subseteq Cluster
  /\ listing \in [Scope -> {"todo", "listed", "failed", "done"}]
  /\ todo \in [Scope -> SUBSET Cluster]
  /\ search \in {"idle", "running", "ended"}
  /\ reported \in BOOLEAN
  /\ sent \subseteq Result

(***************************************************************************)
(* A search that reports no error has announced every cluster: otherwise   *)
(* the index that is then written misses clusters until it expires.  Four  *)
(* stores do not have this: Exoscale skips a zone that it cannot list with *)
(* a warning, Gardener a namespace that it may not list, the               *)
(* initialisation of GKE may know part of the projects, and CAPI reports   *)
(* nothing if the cluster it asks has no such resource (capi.go:121).      *)
(***************************************************************************)
Silent == {"gke", "exoscale", "gardener", "capi"}

SilentSearchIsComplete ==
  search = "ended" /\ ~reported /\ kind \notin Silent
    => {r.for : r \in sent} = Cluster
=============================================================================
