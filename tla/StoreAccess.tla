----------------------------- MODULE StoreAccess -----------------------------
(***************************************************************************)
(* How a process gets at the kubeconfigs of a cloud store: a search        *)
(* announces clusters, the collector fetches the kubeconfig of each and    *)
(* fills an index, and the menu fetches what the user looks at; or a later *)
(* process takes the contexts from the index, and the store has to find    *)
(* the cluster without having searched.  Every fetch goes through a cache  *)
(* (KubeconfigCache) to the store (CloudStores).                           *)
(*                                                                         *)
(* What is collected, and the index, have one entry for the name of a      *)
(* context: of two clusters with one name the later takes the place.       *)
(***************************************************************************)
EXTENDS CloudStores

CONSTANTS
  Collector, Menu,  \* goroutines that fetch
  TTL, MaxTime      \* of the cache, and the bound on its clock

ASSUME CacheAssumption == TTL \in Nat /\ MaxTime \in Nat

VARIABLES
  cacheKind, clock, memo, entry, call, cleaner,  \* of the cache
  collected,    \* contexts of this process: results by name of the context
  index         \* the same, as a search of an earlier process has left it

Caller == {Collector, Menu}

Cache == INSTANCE KubeconfigCache WITH Request <- Result

cacheVars == <<cacheKind, clock, memo, entry, call, cleaner>>
vars == <<storeVars, cacheVars, collected, index>>
processVars == <<ready, known, discovered, listing, todo, search, reported,
                 sent>>
cacheMemory == <<cacheKind, clock, memo, entry, cleaner>>

Init ==
  /\ kind \in Kind
  /\ cacheKind \in {"memory", "file"}
  /\ StoreInit
  /\ Cache!CacheInit
  /\ collected = {}
  /\ index = {}

(***************************************************************************)
(* The search sends to an unbuffered channel: the collector takes the      *)
(* result and asks the cache for the kubeconfig.                           *)
(***************************************************************************)
Announce ==
  /\ call[Collector].pc \in {"idle", "failed"}
  /\ \E s \in Scope, c \in Cluster :
       /\ Send(s, c)
       /\ Cache!Call(Collector, ResultOf(kind, c))
  /\ UNCHANGED <<collected, index>>

Entry(r, c) == [name |-> ContextName(kind, r.path, c), result |-> r]

\* The collector has the kubeconfig: its context is now known by name.
Collect ==
  /\ search # "idle"
  /\ call[Collector].pc \in {"served", "answered"}
  /\ LET new == Entry(call[Collector].req, call[Collector].kc.of) IN
     collected' = {x \in collected : x.name # new.name} \cup {new}
  /\ call' = [call EXCEPT ![Collector] = Cache!Idle]
  /\ UNCHANGED <<storeVars, cacheMemory, index>>

SearchProceeds ==
  /\ index = {}
  /\ \/ StartSearch \/ StartSearchFails
     \/ \E s \in Scope : \/ ListScope(s) \/ ListScopeFails(s)
                        \/ ListScopeForbidden(s) \/ ListScopeNoMatch(s)
                        \/ ListScopeBreaks(s) \/ EndScope(s)
     \/ EndSearch
  /\ UNCHANGED <<cacheVars, collected, index>>

\* The search is over and everything collected: the index is written.
WriteIndex ==
  /\ search = "ended" /\ call[Collector].pc \in {"idle", "failed"}
  /\ collected # {} /\ index # collected
  /\ index' = collected
  /\ UNCHANGED <<storeVars, cacheVars, collected>>

\* A process that finds an index takes the contexts from there.
ReadIndex ==
  /\ index # {} /\ search = "idle" /\ collected = {}
  /\ collected' = index
  /\ UNCHANGED <<storeVars, cacheVars, index>>

\* The menu fetches what is selected and, without a search, another goroutine
\* fetches beside it.
Fetch ==
  /\ \E c \in Caller, x \in collected :
       /\ c = Collector => search = "idle"
       /\ Cache!Call(c, x.result)
  /\ UNCHANGED <<storeVars, collected, index>>

(***************************************************************************)
(* GetKubeconfigForPath of the store, called by the cache.  GKE, EKS and   *)
(* Gardener do without a request for a cluster they remember.  CAPI has no *)
(* client before a search, and does not look.                              *)
(***************************************************************************)
NeedsInit ==
  {"gke", "eks", "azure", "digitalOcean", "akamai", "rancher", "capi",
   "gardener"}
Initialized == ready \/ kind \notin NeedsInit
UsesRequest(c) == ~(kind \in {"gke", "eks", "gardener"} /\ c \in discovered)

EnsureInitialized(c) ==
  /\ call[c].pc = "ask" /\ ~Initialized /\ kind # "capi"
  /\ Initialize
  /\ UNCHANGED <<kind, discovered, listing, todo, search, reported, sent>>
  /\ UNCHANGED <<cacheVars, collected, index>>

InitializeFails(c) ==
  /\ ~Initialized /\ kind # "capi"
  /\ Cache!Refuse(c, "init")
  /\ UNCHANGED <<storeVars, collected, index>>

StoreAnswers(c) ==
  /\ Initialized /\ call[c].pc = "ask"
  /\ \E k \in Resolve(call[c].req) :
       /\ Cache!Answer(c, k)
       /\ discovered' =
            IF kind = "eks" THEN discovered \cup {k} ELSE discovered
  /\ UNCHANGED <<kind, ready, known, listing, todo, search, reported, sent>>
  /\ UNCHANGED <<collected, index>>

StoreRefuses(c) ==
  /\ Initialized /\ call[c].pc = "ask"
  /\ \/ Resolve(call[c].req) = {} /\ Cache!Refuse(c, "unknown")
     \/ /\ \E k \in Resolve(call[c].req) : UsesRequest(k)
        /\ Cache!Refuse(c, "request")
  /\ UNCHANGED <<storeVars, collected, index>>

AskStore(c) ==
  EnsureInitialized(c) \/ InitializeFails(c) \/ StoreAnswers(c)
    \/ StoreRefuses(c)

UseCache(c) ==
  /\ Cache!CallerStep(c)
  /\ UNCHANGED <<storeVars, collected, index>>

(***************************************************************************)
(* GetSearchPreview of EKS, Azure and Gardener, past the cache: it         *)
(* initialises the store in the background; EKS and Azure remember the     *)
(* cluster they have described.                                            *)
(***************************************************************************)
Preview ==
  /\ kind \in {"eks", "azure", "gardener"}
  /\ \E x \in collected :
       \/ /\ Initialize
          /\ UNCHANGED discovered
       \/ /\ ready /\ kind # "gardener"
          /\ discovered' = discovered \cup Resolve(x.result)
          /\ discovered' # discovered
          /\ UNCHANGED <<ready, known>>
  /\ UNCHANGED <<kind, listing, todo, search, reported, sent>>
  /\ UNCHANGED <<cacheVars, collected, index>>

CleanCache ==
  /\ Cache!Flush
  /\ UNCHANGED <<storeVars, collected, index>>

(***************************************************************************)
(* The process ends, at any step, and the next one begins.  It ends by     *)
(* itself if CAPI is asked before a search: the client is nil.             *)
(***************************************************************************)
Restart ==
  /\ Cache!Forget
  /\ ready' = FALSE /\ known' = {} /\ discovered' = {}
  /\ listing' = [s \in Scope |-> "todo"] /\ todo' = [s \in Scope |-> {}]
  /\ search' = "idle" /\ reported' = FALSE /\ sent' = {}
  /\ collected' = {}
  /\ UNCHANGED <<kind, cacheKind, clock, entry, cleaner, index>>

TimePasses ==
  /\ Cache!Tick
  /\ UNCHANGED <<storeVars, collected, index>>

SearchStep ==
  Announce \/ Collect \/ SearchProceeds \/ WriteIndex \/ ReadIndex

Next ==
  \/ SearchStep \/ Fetch \/ Preview \/ CleanCache \/ Restart \/ TimePasses
  \/ \E c \in Caller : AskStore(c) \/ UseCache(c)

(***************************************************************************)
(* A goroutine that may go on does; a request ends, because these stores   *)
(* make theirs under a deadline.  The others rely on their client          *)
(* libraries for one, so nothing is assumed of them.  (CAPI has one, and   *)
(* ends the process instead.)                                              *)
(***************************************************************************)
Deadline == {"gke", "eks", "azure", "akamai", "kubernetes", "gardener"}

Fairness ==
  /\ WF_vars(SearchStep /\ kind \in Deadline)
  /\ \A c \in Caller : /\ WF_vars(UseCache(c))
                       /\ WF_vars(AskStore(c) /\ kind \in Deadline)

Spec == Init /\ [][Next]_vars /\ Fairness
-----------------------------------------------------------------------------
\* The state of the store, of its cache, and of the contexts is well typed.
TypeOK ==
  LET Entries == [name : {ContextName(kind, r.path, r.for) : r \in Result},
                  result : Result] IN
  /\ StoreTypeOK
  /\ Cache!CacheTypeOK
  /\ collected \subseteq Entries
  /\ index \subseteq Entries

Got(c) == call[c].pc \in {"served", "answered"}
Namesakes(r) == {c \in Cluster : PathOf(kind, c) = r.path}

(***************************************************************************)
(* What a fetch returns belongs to a cluster with the path that was asked  *)
(* for; and if the store itself was asked and the result carries the id of *)
(* the cluster in its tags, it belongs to exactly that cluster, also when  *)
(* an earlier process has found it (scaleway.go:176, ovh.go:153).          *)
(***************************************************************************)
FetchedIsNamesake ==
  \A c \in Caller : Got(c) =>
    /\ call[c].kc.of \in Namesakes(call[c].req)
    /\ call[c].pc = "answered" /\ kind \in Tagged
         => call[c].kc.of = call[c].req.for

(***************************************************************************)
(* A cluster that was announced, by this process or by the one that wrote  *)
(* the index, can be found again.  Three cases are left: Exoscale finds    *)
(* only what this process has searched (exoscale.go:162), GKE only what is *)
(* in a project it has listed (gke.go:243), and a path with the separator  *)
(* within one of its parts, the name or the project, is announced, and     *)
(* then refused by parseIdentifier.                                        *)
(***************************************************************************)
KnownIsReachable ==
  \A c \in Caller :
    call[c].pc = "failed" /\ call[c].cause = "unknown" =>
      LET r == call[c].req IN
      \/ kind = "exoscale" /\ r.for \notin discovered
      \/ kind = "gke" /\ ScopeOf[r.for] \notin known
      \/ /\ kind \in {"gke", "eks", "azure", "gardener"}
         /\ \E j \in DOMAIN r.path : r.path[j] \in Separated

\* Every fetch reaches a cluster it may reach.
FetchReachesCluster == FetchedIsNamesake /\ KnownIsReachable

\* What the file cache hands out is no older than its TTL.
ServedIsFresh == Cache!ServedIsFresh

\* What a cache hands out is complete, which the code does not have.
ServedIsWhole == Cache!ServedIsWhole

(***************************************************************************)
(* A fetch returns what was announced.  Scaleway and OVH say so of         *)
(* clusters with the same name (scaleway.go:159, ovh.go:135), and ask for  *)
(* the cluster by its id; but the cache in front of them is asked for the  *)
(* path, which is the name: the second gets the kubeconfig of the first.   *)
(***************************************************************************)
FetchedIsAnnounced ==
  \A c \in Caller : Got(c) => call[c].kc.of = call[c].req.for

\* NOT a property of the code: CAPI is never asked without a client.
ClientIsThere ==
  \A c \in Caller : call[c].pc = "ask" /\ kind = "capi" => ready

(***************************************************************************)
(* Every fetch returns, and every search ends, of the stores that set a    *)
(* deadline, also when a kill or a failing write has left an entry torn.   *)
(***************************************************************************)
FetchReturns ==
  \A c \in Caller :
    kind \in Deadline /\ ~Cache!Resting(c) ~> Cache!Resting(c)
SearchEnds == kind \in Deadline /\ search = "running" ~> search # "running"
CallsReturn == FetchReturns /\ SearchEnds
=============================================================================
