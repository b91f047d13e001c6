-------------------------- MODULE StoreAccessProofs --------------------------
(***************************************************************************)
(* Theorems about StoreAccess, for any clusters, TTL and kind of store,    *)
(* with processes that end anywhere.  The argument: whatever lies in a     *)
(* cache under a path, or on its way there, leads to a cluster with that   *)
(* path (EntriesLead, CallsLead), since every request was announced for a  *)
(* cluster (Announced) and the store finds only clusters with its path.    *)
(* And an entry is as old as the kubeconfig in it (EntriesAge), since who  *)
(* writes one has asked the store at the same time (CallsAge).  A cluster  *)
(* that is not found was missed for a reason (ReachInv), and every list of *)
(* a search is on its way, announced or reported as failed (SilentInv).    *)
(***************************************************************************)
EXTENDS StoreAccess, TLAPS

\* A request as the search makes it.
Announced(r) ==
  /\ r \in Result /\ r.for \in Cluster
  /\ r.path = PathOf(kind, r.for)
  /\ r.tags = IF kind \in Tagged THEN {r.for} ELSE {}

\* A kubeconfig that a path may lead to.
Leads(kc, path) == kc.of \in Cluster /\ PathOf(kind, kc.of) = path

Holding == {"keep", "emit", "emitRest", "check", "served", "answered"}
Asked == {"keep", "emit", "emitRest", "answered"}

ContextsAnnounced == \A x \in collected \cup index : Announced(x.result)

EntriesLead ==
  \A p \in Cache!Path :
    /\ memo[p] # Cache!Nothing => Leads(memo[p], p)
    /\ entry[p] # Cache!Absent => Leads(entry[p].kc, p)

CallLeads(k) ==
  /\ k.pc # "idle" => Announced(k.req)
  /\ k.pc \in Holding => Leads(k.kc, k.req.path)
  /\ k.pc \in Asked /\ kind \in Tagged => k.kc.of = k.req.for

CallsLead == \A c \in Caller : CallLeads(call[c])

Shapes ==
  /\ kind \in Kind /\ discovered \subseteq Cluster
  /\ DOMAIN call = Caller
  /\ DOMAIN memo = Cache!Path /\ DOMAIN entry = Cache!Path

LeadInv == Shapes /\ ContextsAnnounced /\ EntriesLead /\ CallsLead

-----------------------------------------------------------------------------
\* A request that a search makes for a cluster.
LEMMA ResultIsAnnounced ==
  ASSUME kind \in Kind, NEW c \in Cluster
  PROVE  Announced(ResultOf(kind, c))
<1>1. ResultOf(kind, c) \in Result
  BY DEF Result
<1>2. QED
  BY <1>1 DEF Announced, ResultOf

\* The path of a request is one that a cache can be asked for.
LEMMA RequestHasPath ==
  ASSUME NEW r \in Result
  PROVE  r.path \in Cache!Path
  BY DEF Cache!Path

(***************************************************************************)
(* Whatever way a store looks a cluster up, it finds one with the path it  *)
(* was asked for, and by its tags exactly the one that was announced.      *)
(***************************************************************************)
LEMMA ResolveLeads ==
  ASSUME kind \in Kind, discovered \subseteq Cluster,
         NEW r, Announced(r), NEW k \in Resolve(r)
  PROVE  /\ k \in Cluster /\ PathOf(kind, k) = r.path
         /\ kind \in Tagged => k = r.for
<1>1. CASE kind \in Tagged
  <2>1. r.tags = {r.for}
    BY <1>1 DEF Announced
  <2>2. Resolve(r) \subseteq r.tags
    BY <1>1, <2>1 DEF Resolve, Tagged, ResolveDigitalOcean, ResolveScaleway,
         ResolveOVH, ResolveAkamai, ResolveCapi, ResolveTagged
  <2>3. QED
    BY <2>1, <2>2 DEF Announced
<1>2. CASE kind \notin Tagged
  <2>1. kind \in {"gke", "eks", "azure", "exoscale", "rancher", "gardener"}
    BY <1>2 DEF Kind, Tagged
  <2>2. CASE kind = "gke"
    BY <2>2 DEF Resolve, ResolveGKE, InCloud, Tagged
  <2>3. CASE kind = "eks"
    BY <2>3 DEF Resolve, ResolveEKS, InCloud, Tagged
  <2>4. CASE kind = "azure"
    BY <2>4 DEF Resolve, ResolveAzure, InCloud, Tagged
  <2>5. CASE kind = "exoscale"
    BY <2>5 DEF Resolve, ResolveExoscale, Tagged
  <2>6. CASE kind = "rancher"
    BY <2>6 DEF Resolve, ResolveRancher, InCloud, Tagged
  <2>7. CASE kind = "gardener"
    BY <2>7 DEF Resolve, ResolveGardener, InCloud, Tagged
  <2>8. QED
    BY <2>1, <2>2, <2>3, <2>4, <2>5, <2>6, <2>7
<1>3. QED
  BY <1>1, <1>2

-----------------------------------------------------------------------------
\* A step of one caller leaves the others where they are.
LEMMA OneCallChanges ==
  ASSUME LeadInv, NEW c \in Caller, NEW new, CallLeads(new),
         call' = [call EXCEPT ![c] = new], UNCHANGED kind
  PROVE  CallsLead' /\ DOMAIN call' = Caller
<1>1. ASSUME NEW d \in Caller PROVE CallLeads(call'[d])
  BY DEF LeadInv, Shapes, CallsLead
<1>2. ASSUME NEW d \in Caller PROVE CallLeads(call[d])'
  BY <1>1 DEF CallLeads, Announced, Leads
<1>3. QED
  BY <1>2 DEF CallsLead, LeadInv, Shapes

\* Where the request of a caller leads, in terms of its record.
LEMMA HoldsItsPath ==
  ASSUME LeadInv, NEW c \in Caller, call[c].pc # "idle"
  PROVE  /\ Announced(call[c].req)
         /\ call[c].req.path \in Cache!Path
         /\ call[c].pc \in Holding => Leads(call[c].kc, call[c].req.path)
         /\ call[c].pc \in Asked /\ kind \in Tagged
              => call[c].kc.of = call[c].req.for
  BY RequestHasPath DEF LeadInv, CallsLead, CallLeads, Announced

\* The memory cache.
LEMMA MemoryLeads ==
  ASSUME LeadInv, NEW c \in Caller,
         Cache!LookupMemo(c) \/ Cache!StoreMemo(c), UNCHANGED kind
  PROVE  /\ CallsLead' /\ EntriesLead' /\ DOMAIN call' = Caller
         /\ DOMAIN memo' = Cache!Path /\ DOMAIN entry' = Cache!Path
<1> DEFINE r == call[c].req
<1>1. CASE Cache!LookupMemo(c)
  <2>1. Announced(r) /\ r.path \in Cache!Path
    BY <1>1, HoldsItsPath DEF Cache!LookupMemo
  <2>2. PICK new : /\ call' = [call EXCEPT ![c] = new]
                   /\ \/ new = [pc |-> "ask", req |-> r]
                      \/ /\ memo[r.path] # Cache!Nothing
                         /\ new = [pc |-> "served", req |-> r,
                                   kc |-> memo[r.path], age |-> 0,
                                   replaced |-> FALSE]
    BY <1>1 DEF Cache!LookupMemo, Cache!Step
  <2>3. CallLeads(new)
    BY <2>1, <2>2 DEF CallLeads, Holding, Asked, LeadInv, EntriesLead
  <2>4. UNCHANGED <<memo, entry>>
    BY <1>1 DEF Cache!LookupMemo
  <2>5. QED
    BY <2>2, <2>3, <2>4, OneCallChanges
       DEF LeadInv, Shapes, EntriesLead, Leads
<1>2. CASE Cache!StoreMemo(c)
  <2>1. /\ Announced(r) /\ Leads(call[c].kc, r.path)
        /\ kind \in Tagged => call[c].kc.of = r.for
    BY <1>2, HoldsItsPath DEF Cache!StoreMemo, Holding, Asked
  <2> DEFINE new == [pc |-> "answered", req |-> r, kc |-> call[c].kc]
  <2>2. /\ call' = [call EXCEPT ![c] = new]
        /\ memo' = [memo EXCEPT ![r.path] = call[c].kc]
        /\ entry' = entry
    BY <1>2 DEF Cache!StoreMemo, Cache!Step
  <2>3. CallLeads(new)
    BY <2>1 DEF CallLeads, Holding, Asked
  <2>4. EntriesLead'
    BY <2>1, <2>2 DEF EntriesLead, LeadInv, Shapes, Leads
  <2> HIDE DEF new
  <2>5. QED
    BY <2>2, <2>3, <2>4, OneCallChanges DEF LeadInv, Shapes
<1>3. QED
  BY <1>1, <1>2

\* The file cache, reading: what parses comes from the entry.
LEMMA ReadingLeads ==
  ASSUME LeadInv, NEW c \in Caller,
         Cache!ReadEntry(c) \/ Cache!CheckEntry(c), UNCHANGED kind
  PROVE  /\ CallsLead' /\ EntriesLead' /\ DOMAIN call' = Caller
         /\ DOMAIN memo' = Cache!Path /\ DOMAIN entry' = Cache!Path
<1> DEFINE r == call[c].req
<1>1. UNCHANGED <<memo, entry>>
  BY DEF Cache!ReadEntry, Cache!CheckEntry
<1>2. Announced(r) /\ r.path \in Cache!Path
  BY HoldsItsPath DEF Cache!ReadEntry, Cache!CheckEntry
<1>3. CASE Cache!ReadEntry(c)
  <2>1. PICK new :
          /\ call' = [call EXCEPT ![c] = new]
          /\ \/ new = [pc |-> "ask", req |-> r]
             \/ \E kc : /\ Cache!Parses(entry[r.path], kc)
                        /\ new = [pc |-> "check", req |-> r, kc |-> kc,
                                  at |-> entry[r.path].at]
    BY <1>3 DEF Cache!ReadEntry, Cache!Step
  <2>2. CASE new = [pc |-> "ask", req |-> r]
    BY <1>1, <1>2, <2>1, <2>2, OneCallChanges
       DEF CallLeads, Holding, Asked, LeadInv, Shapes, EntriesLead, Leads
  <2>3. ASSUME NEW kc, Cache!Parses(entry[r.path], kc),
               new = [pc |-> "check", req |-> r, kc |-> kc,
                      at |-> entry[r.path].at]
        PROVE  CallLeads(new)
    <3>1. entry[r.path] # Cache!Absent
      BY <2>3 DEF Cache!Parses, Cache!Absent
    <3>2. kc.of = entry[r.path].kc.of
      BY <2>3 DEF Cache!Parses
    <3>3. Leads(kc, r.path)
      BY <1>2, <3>1, <3>2 DEF LeadInv, EntriesLead, Leads
    <3>4. QED
      BY <1>2, <2>3, <3>3 DEF CallLeads, Holding, Asked
  <2>4. QED
    BY <1>1, <2>1, <2>2, <2>3, OneCallChanges
       DEF LeadInv, Shapes, EntriesLead, Leads
<1>4. CASE Cache!CheckEntry(c)
  <2>1. Leads(call[c].kc, r.path)
    BY <1>4, HoldsItsPath DEF Cache!CheckEntry, Holding
  <2>2. PICK new :
          /\ call' = [call EXCEPT ![c] = new]
          /\ new \in {[pc |-> "ask", req |-> r],
                      Cache!Served(c, call[c].kc)}
    BY <1>4 DEF Cache!CheckEntry, Cache!Step
  <2>3. CallLeads(new)
    BY <1>2, <2>1, <2>2 DEF CallLeads, Holding, Asked, Cache!Served
  <2>4. QED
    BY <1>1, <2>2, <2>3, OneCallChanges
       DEF LeadInv, Shapes, EntriesLead, Leads
<1>5. QED
  BY <1>3, <1>4

\* The file cache, writing: the entry keeps the kubeconfig of its writer.
LEMMA WritingLeads ==
  ASSUME LeadInv, NEW c \in Caller,
         \/ Cache!TruncateEntry(c) \/ Cache!EmitPart(c)
         \/ Cache!EmitRest(c) \/ Cache!KeepFails(c),
         UNCHANGED kind
  PROVE  /\ CallsLead' /\ EntriesLead' /\ DOMAIN call' = Caller
         /\ DOMAIN memo' = Cache!Path /\ DOMAIN entry' = Cache!Path
<1> DEFINE r == call[c].req
<1>1. /\ memo' = memo /\ Announced(r) /\ r.path \in Cache!Path
      /\ Leads(call[c].kc, r.path)
      /\ kind \in Tagged => call[c].kc.of = r.for
  BY HoldsItsPath DEF Cache!TruncateEntry, Cache!EmitPart, Cache!EmitRest,
       Cache!KeepFails, Holding, Asked
<1>2. PICK new :
        /\ call' = [call EXCEPT ![c] = new]
        /\ \/ \E pc \in {"emit", "emitRest", "answered"} :
                new = [pc |-> pc, req |-> r, kc |-> call[c].kc]
           \/ new = [pc |-> "failed", req |-> r, cause |-> "write"]
  BY DEF Cache!TruncateEntry, Cache!EmitPart, Cache!EmitRest,
         Cache!KeepFails, Cache!Step
<1>3. CallLeads(new)
  BY <1>1, <1>2 DEF CallLeads, Holding, Asked
<1>4. \/ entry' = entry
      \/ \E f : /\ entry' = [entry EXCEPT ![r.path] = f]
                /\ \/ f.kc = call[c].kc
                   \/ entry[r.path] # Cache!Absent /\ f.kc = entry[r.path].kc
                   \/ f = Cache!Absent
  <2>1. CASE Cache!TruncateEntry(c)
    <3> DEFINE f == [form |-> "empty", kc |-> call[c].kc, at |-> clock,
                     writer |-> c, mixed |-> FALSE]
    <3>1. f.kc = call[c].kc
      OBVIOUS
    <3>2. entry' = [entry EXCEPT ![r.path] = f]
      BY <2>1 DEF Cache!TruncateEntry
    <3> HIDE DEF f
    <3>3. QED
      BY <3>1, <3>2
  <2>2. ASSUME NEW form PROVE
          LET f == Cache!Emitted(c, form) IN
          \/ entry[r.path] # Cache!Absent /\ f.kc = entry[r.path].kc
          \/ f = Cache!Absent
    BY DEF Cache!Emitted
  <2>3. CASE Cache!EmitPart(c) \/ Cache!EmitRest(c)
    <3>1. PICK form :
            entry' = [entry EXCEPT ![r.path] = Cache!Emitted(c, form)]
      BY <2>3 DEF Cache!EmitPart, Cache!EmitRest
    <3>2. QED
      BY <2>2, <3>1
  <2>4. CASE Cache!KeepFails(c)
    BY <2>4 DEF Cache!KeepFails
  <2>5. QED
    BY <2>1, <2>3, <2>4
<1>5. EntriesLead' /\ DOMAIN entry' = Cache!Path
  BY <1>1, <1>4 DEF LeadInv, Shapes, EntriesLead, Leads
<1>6. QED
  BY <1>1, <1>2, <1>3, <1>5, OneCallChanges DEF LeadInv, Shapes

\* Contexts stay announced while the kind of the store stays.
LEMMA ContextsStay ==
  ASSUME LeadInv, UNCHANGED <<kind, collected, index>>
  PROVE  ContextsAnnounced'
  BY DEF LeadInv, ContextsAnnounced, Announced

\* A caller uses the cache.
LEMMA UseCacheLeads ==
  ASSUME LeadInv, NEW c \in Caller, UseCache(c)
  PROVE  LeadInv'
<1>1. UNCHANGED <<kind, discovered, collected, index>>
  BY DEF UseCache, storeVars
<1>2. ContextsAnnounced'
  BY <1>1, ContextsStay
<1>3. /\ CallsLead' /\ EntriesLead' /\ DOMAIN call' = Caller
      /\ DOMAIN memo' = Cache!Path /\ DOMAIN entry' = Cache!Path
  BY <1>1, MemoryLeads, ReadingLeads, WritingLeads
     DEF UseCache, Cache!CallerStep
<1>4. QED
  BY <1>1, <1>2, <1>3 DEF LeadInv, Shapes

\* The store answers or refuses, after it has been initialised.
LEMMA AskStoreLeads ==
  ASSUME LeadInv, NEW c \in Caller, AskStore(c)
  PROVE  LeadInv'
<1>1. UNCHANGED <<kind, collected, index, memo, entry>>
  BY DEF AskStore, EnsureInitialized, InitializeFails, StoreAnswers,
         StoreRefuses, storeVars, cacheVars, Cache!Answer, Cache!Refuse
<1>2. ContextsAnnounced'
  BY <1>1, ContextsStay
<1>3. EntriesLead' /\ DOMAIN memo' = Cache!Path /\ DOMAIN entry' = Cache!Path
  BY <1>1 DEF LeadInv, EntriesLead, Leads, Shapes
<1>4. CASE EnsureInitialized(c)
  <2>1. UNCHANGED <<call, discovered>>
    BY <1>4 DEF EnsureInitialized, cacheVars
  <2>2. CallsLead'
    BY <1>1, <2>1 DEF LeadInv, CallsLead, CallLeads, Announced, Leads
  <2>3. QED
    BY <1>1, <1>2, <1>3, <2>1, <2>2 DEF LeadInv, Shapes
<1>5. CASE StoreAnswers(c)
  <2>1. PICK k \in Resolve(call[c].req) :
          /\ Cache!Answer(c, k)
          /\ discovered' \in {discovered, discovered \cup {k}}
    BY <1>5 DEF StoreAnswers
  <2>2. call[c].pc = "ask" /\ Announced(call[c].req)
    BY <1>5, HoldsItsPath DEF StoreAnswers
  <2>3. /\ k \in Cluster /\ PathOf(kind, k) = call[c].req.path
        /\ kind \in Tagged => k = call[c].req.for
    BY <2>2, ResolveLeads DEF LeadInv, Shapes
  <2> DEFINE new == [pc |-> "keep", req |-> call[c].req,
                     kc |-> [of |-> k, at |-> clock, whole |-> TRUE]]
  <2>4. call' = [call EXCEPT ![c] = new]
    BY <2>1 DEF Cache!Answer, Cache!Step
  <2>5. CallLeads(new)
    BY <2>2, <2>3 DEF CallLeads, Holding, Asked, Leads
  <2> HIDE DEF new
  <2>6. CallsLead' /\ DOMAIN call' = Caller
    BY <1>1, <2>4, <2>5, OneCallChanges
  <2>7. discovered' \subseteq Cluster
    BY <2>1, <2>3 DEF LeadInv, Shapes
  <2>8. QED
    BY <1>1, <1>2, <1>3, <2>6, <2>7 DEF LeadInv, Shapes
<1>6. ASSUME NEW cause, Cache!Refuse(c, cause), UNCHANGED discovered
      PROVE  LeadInv'
  <2>1. call[c].pc = "ask" /\ Announced(call[c].req)
    BY <1>6, HoldsItsPath DEF Cache!Refuse
  <2> DEFINE new == [pc |-> "failed", req |-> call[c].req, cause |-> cause]
  <2>2. call' = [call EXCEPT ![c] = new]
    BY <1>6 DEF Cache!Refuse, Cache!Step
  <2>3. CallLeads(new)
    BY <2>1 DEF CallLeads, Holding, Asked
  <2> HIDE DEF new
  <2>4. CallsLead' /\ DOMAIN call' = Caller
    BY <1>1, <2>2, <2>3, OneCallChanges
  <2>5. QED
    BY <1>1, <1>2, <1>3, <1>6, <2>4 DEF LeadInv, Shapes
<1>7. CASE InitializeFails(c) \/ StoreRefuses(c)
  <2>1. UNCHANGED discovered
    BY <1>7 DEF InitializeFails, StoreRefuses, storeVars
  <2>2. QED
    BY <1>6, <1>7, <2>1 DEF InitializeFails, StoreRefuses
<1>8. QED
  BY <1>4, <1>5, <1>7 DEF AskStore

\* A search announces a cluster and the collector asks for it; or a context
\* is fetched again.
LEMMA CallingLeads ==
  ASSUME LeadInv, Announce \/ Fetch
  PROVE  LeadInv'
<1>1. PICK c, r :
        /\ c \in Caller /\ Cache!Call(c, r) /\ Announced(r)
        /\ kind' = kind /\ discovered' \subseteq Cluster
  <2>1. CASE Announce
    <3>1. PICK s \in Scope, k \in Cluster :
            Send(s, k) /\ Cache!Call(Collector, ResultOf(kind, k))
      BY <2>1 DEF Announce
    <3>2. kind' = kind /\ discovered' \subseteq Cluster
      BY <3>1 DEF Send, LeadInv, Shapes
    <3>3. Announced(ResultOf(kind, k)) /\ Collector \in Caller
      BY ResultIsAnnounced DEF LeadInv, Shapes, Caller
    <3>4. QED
      BY <3>1, <3>2, <3>3
  <2>2. CASE Fetch
    <3>1. PICK c \in Caller, x \in collected : Cache!Call(c, x.result)
      BY <2>2 DEF Fetch
    <3>2. Announced(x.result)
      BY DEF LeadInv, ContextsAnnounced
    <3>3. kind' = kind /\ discovered' \subseteq Cluster
      BY <2>2 DEF Fetch, storeVars, LeadInv, Shapes
    <3>4. QED
      BY <3>1, <3>2, <3>3
  <2>3. QED
    BY <2>1, <2>2
<1>2. UNCHANGED <<collected, index, memo, entry>>
  BY <1>1 DEF Announce, Fetch, Cache!Call
<1>3. ContextsAnnounced'
  BY <1>1, <1>2, ContextsStay
<1>4. EntriesLead' /\ DOMAIN memo' = Cache!Path /\ DOMAIN entry' = Cache!Path
  BY <1>1, <1>2 DEF LeadInv, EntriesLead, Leads, Shapes
<1> DEFINE new == [pc |-> "lookup", req |-> r]
<1>5. call' = [call EXCEPT ![c] = new]
  BY <1>1 DEF Cache!Call, Cache!Step
<1>6. CallLeads(new)
  BY <1>1 DEF CallLeads, Holding, Asked
<1> HIDE DEF new
<1>7. CallsLead' /\ DOMAIN call' = Caller
  BY <1>1, <1>5, <1>6, OneCallChanges
<1>8. QED
  BY <1>1, <1>3, <1>4, <1>7 DEF LeadInv, Shapes

\* What has been fetched becomes a context; contexts go to the index and back.
LEMMA CollectingLeads ==
  ASSUME LeadInv, Collect \/ WriteIndex \/ ReadIndex
  PROVE  LeadInv'
<1>1. UNCHANGED <<kind, discovered, memo, entry>>
  BY DEF Collect, WriteIndex, ReadIndex, storeVars, cacheVars, cacheMemory
<1>2. EntriesLead' /\ DOMAIN memo' = Cache!Path /\ DOMAIN entry' = Cache!Path
  BY <1>1 DEF LeadInv, EntriesLead, Leads, Shapes
<1>3. CASE Collect
  <2> DEFINE new == Entry(call[Collector].req, call[Collector].kc.of)
  <2>1. Collector \in Caller /\ call[Collector].pc \in {"served", "answered"}
    BY <1>3 DEF Collect, Caller
  <2>2. Announced(call[Collector].req)
    BY <2>1, HoldsItsPath
  <2>3. Announced(new.result)
    BY <2>2 DEF Entry
  <2>4. collected' \subseteq collected \cup {new} /\ index' = index
    BY <1>3 DEF Collect
  <2> HIDE DEF new
  <2>5. ContextsAnnounced'
    BY <1>1, <2>3, <2>4 DEF LeadInv, ContextsAnnounced, Announced
  <2>6. call' = [call EXCEPT ![Collector] = Cache!Idle]
    BY <1>3 DEF Collect
  <2>7. CallLeads(Cache!Idle)
    BY DEF CallLeads, Cache!Idle, Holding, Asked
  <2>8. CallsLead' /\ DOMAIN call' = Caller
    BY <1>1, <2>1, <2>6, <2>7, OneCallChanges
  <2>9. QED
    BY <1>1, <1>2, <2>5, <2>8 DEF LeadInv, Shapes
<1>4. CASE WriteIndex \/ ReadIndex
  <2>1. /\ call' = call
        /\ collected' \subseteq collected \cup index
        /\ index' \subseteq collected \cup index
    BY <1>4 DEF WriteIndex, ReadIndex, cacheVars
  <2>2. ContextsAnnounced'
    BY <1>1, <2>1 DEF LeadInv, ContextsAnnounced, Announced
  <2>3. CallsLead'
    BY <1>1, <2>1 DEF LeadInv, CallsLead, CallLeads, Announced, Leads
  <2>4. QED
    BY <1>1, <1>2, <2>1, <2>2, <2>3 DEF LeadInv, Shapes
<1>5. QED
  BY <1>3, <1>4

\* The search, previews, `clean` and the clock touch no call.
LEMMA RestLeads ==
  ASSUME LeadInv, SearchProceeds \/ Preview \/ CleanCache \/ TimePasses
  PROVE  LeadInv'
<1>1. UNCHANGED <<kind, call, memo, collected, index>>
  BY DEF SearchProceeds, Preview, CleanCache, TimePasses, cacheVars,
         storeVars, StartSearch, StartSearchFails, ListScope, ListScopeFails,
         ListScopeForbidden, ListScopeNoMatch, ListScopeBreaks,
         EndScope, EndSearch, Cache!Flush,
         Cache!ListEntries, Cache!RemoveEntry, Cache!EndFlush, Cache!Tick
<1>2. ContextsAnnounced' /\ CallsLead'
  BY <1>1 DEF LeadInv, ContextsAnnounced, CallsLead, CallLeads, Announced,
              Leads
<1>3. \/ entry' = entry
      \/ \E p : entry' = [entry EXCEPT ![p] = Cache!Absent]
  <2>1. CASE CleanCache
    BY <2>1 DEF CleanCache, Cache!Flush, Cache!ListEntries,
         Cache!RemoveEntry, Cache!EndFlush
  <2>2. CASE SearchProceeds \/ Preview \/ TimePasses
    BY <2>2 DEF SearchProceeds, Preview, TimePasses, cacheVars, Cache!Tick
  <2>3. QED
    BY <2>1, <2>2
<1>4. EntriesLead' /\ DOMAIN memo' = Cache!Path /\ DOMAIN entry' = Cache!Path
  BY <1>1, <1>3 DEF LeadInv, EntriesLead, Leads, Shapes
<1>5. discovered' \subseteq Cluster
  <2>1. CASE Preview
    <3>1. PICK x \in collected :
            \/ discovered' = discovered
            \/ discovered' = discovered \cup Resolve(x.result)
      BY <2>1 DEF Preview
    <3>2. Resolve(x.result) \subseteq Cluster
      BY ResolveLeads DEF LeadInv, Shapes, ContextsAnnounced
    <3>3. QED
      BY <3>1, <3>2 DEF LeadInv, Shapes
  <2>2. CASE SearchProceeds \/ CleanCache \/ TimePasses
    BY <2>2 DEF SearchProceeds, CleanCache, TimePasses, storeVars,
         StartSearch, StartSearchFails, ListScope, ListScopeFails,
         ListScopeForbidden, ListScopeNoMatch, ListScopeBreaks,
         EndScope, EndSearch, LeadInv, Shapes
  <2>3. QED
    BY <2>1, <2>2
<1>6. QED
  BY <1>1, <1>2, <1>4, <1>5 DEF LeadInv, Shapes

\* A process ends and the next one starts, with an empty memory cache.
LEMMA RestartLeads ==
  ASSUME LeadInv, Restart
  PROVE  LeadInv'
<1>1. /\ UNCHANGED <<kind, entry, index>>
      /\ collected' = {} /\ discovered' = {}
      /\ memo' = [p \in Cache!Path |-> Cache!Nothing]
      /\ call' = [c \in Caller |-> Cache!Idle]
  BY DEF Restart, Cache!Forget
<1>2. ContextsAnnounced'
  BY <1>1 DEF LeadInv, ContextsAnnounced, Announced
<1>3. EntriesLead' /\ DOMAIN memo' = Cache!Path /\ DOMAIN entry' = Cache!Path
  BY <1>1 DEF LeadInv, EntriesLead, Leads, Shapes
<1>4. CallLeads(Cache!Idle)'
  BY DEF CallLeads, Cache!Idle, Holding, Asked
<1>5. CallsLead' /\ DOMAIN call' = Caller
  BY <1>1, <1>4 DEF CallsLead
<1>6. QED
  BY <1>1, <1>2, <1>3, <1>5 DEF LeadInv, Shapes

\* At first nothing is cached and nobody fetches.
LEMMA InitLeads == Init => LeadInv
<1> SUFFICES ASSUME Init PROVE LeadInv
  OBVIOUS
<1>1. Shapes
  BY DEF Init, StoreInit, Cache!CacheInit, Shapes
<1>2. ContextsAnnounced
  BY DEF Init, ContextsAnnounced
<1>3. EntriesLead
  BY DEF Init, Cache!CacheInit, EntriesLead
<1>4. CallsLead
  BY DEF Init, Cache!CacheInit, CallsLead, CallLeads, Cache!Idle, Holding,
         Asked
<1>5. QED
  BY <1>1, <1>2, <1>3, <1>4 DEF LeadInv

\* Every step keeps the invariant.
LEMMA NextLeads == LeadInv /\ [Next]_vars => LeadInv'
<1> SUFFICES ASSUME LeadInv, [Next]_vars PROVE LeadInv'
  OBVIOUS
<1>1. CASE SearchStep
  BY <1>1, CallingLeads, CollectingLeads, RestLeads DEF SearchStep
<1>2. CASE Fetch \/ Preview \/ CleanCache \/ Restart \/ TimePasses
  BY <1>2, CallingLeads, RestLeads, RestartLeads
<1>3. ASSUME NEW c \in Caller, AskStore(c) \/ UseCache(c) PROVE LeadInv'
  BY <1>3, AskStoreLeads, UseCacheLeads
<1>4. CASE UNCHANGED vars
  BY <1>4 DEF vars, storeVars, cacheVars, LeadInv, Shapes,
       ContextsAnnounced, EntriesLead, CallsLead, CallLeads, Announced, Leads
<1>5. QED
  BY <1>1, <1>2, <1>3, <1>4 DEF Next

(***************************************************************************)
(* Whatever a goroutine fetches - from a cache, from an entry that another *)
(* process has written, or from the store - leads to a cluster with the    *)
(* path that it asked for, and if the store was asked and goes by tags, to *)
(* the very cluster that was announced.                                    *)
(***************************************************************************)
THEOREM FetchedLeadsHome == Spec => []FetchedIsNamesake
<1>1. Init => LeadInv
  BY InitLeads
<1>2. LeadInv /\ [Next]_vars => LeadInv'
  BY NextLeads
<1>3. LeadInv => FetchedIsNamesake
  <2> SUFFICES ASSUME LeadInv, NEW c \in Caller, Got(c)
               PROVE  /\ call[c].kc.of \in Namesakes(call[c].req)
                      /\ call[c].pc = "answered" /\ kind \in Tagged
                           => call[c].kc.of = call[c].req.for
    BY DEF FetchedIsNamesake
  <2>1. QED
    BY HoldsItsPath DEF Got, Holding, Asked, Leads, Namesakes
<1>4. QED
  BY <1>1, <1>2, <1>3, PTL DEF Spec

-----------------------------------------------------------------------------
\* An entry is as old as the kubeconfig in it.
EntriesAge ==
  \A p \in Cache!Path :
    entry[p] # Cache!Absent =>
      entry[p].at \in Nat /\ entry[p].kc.at = entry[p].at

\* Who writes has asked the store just now; who checks knows what was read.
CallAges(k) ==
  /\ k.pc \in {"keep", "emit", "emitRest"} => k.kc.at = clock
  /\ k.pc \in {"emit", "emitRest"} =>
       \/ entry[k.req.path] = Cache!Absent
       \/ entry[k.req.path].at = clock
  /\ k.pc = "check" => k.at \in Nat /\ k.kc.at = k.at
  /\ k.pc = "served" /\ cacheKind = "file" /\ TTL > 0
       => k.age <= TTL \/ k.replaced

CallsAge == \A c \in Caller : CallAges(call[c])

AgeInv == clock \in Nat /\ EntriesAge /\ CallsAge

\* A step of one caller that writes nothing.
LEMMA OneCallAges ==
  ASSUME LeadInv, AgeInv, NEW c \in Caller, NEW new, CallAges(new),
         call' = [call EXCEPT ![c] = new],
         UNCHANGED <<clock, cacheKind, entry>>
  PROVE  AgeInv'
<1>1. ASSUME NEW d \in Caller PROVE CallAges(call'[d])
  BY DEF AgeInv, CallsAge, LeadInv, Shapes
<1>2. ASSUME NEW d \in Caller PROVE CallAges(call[d])'
  BY <1>1 DEF CallAges
<1>3. QED
  BY <1>2 DEF AgeInv, CallsAge, EntriesAge

\* The record of a caller that has just written the entry of a path.
HasWritten(k, p) ==
  /\ k.pc \in {"emit", "emitRest", "answered"}
  /\ k.req.path = p /\ k.kc.at = clock

\* A step of one caller that writes an entry, which is of now.
LEMMA OneWriteAges ==
  ASSUME LeadInv, AgeInv, NEW c \in Caller, NEW new, NEW f,
         NEW p \in Cache!Path,
         f = Cache!Absent \/ (f.at = clock /\ f.kc.at = clock),
         entry' = [entry EXCEPT ![p] = f], HasWritten(new, p),
         call' = [call EXCEPT ![c] = new], UNCHANGED <<clock, cacheKind>>
  PROVE  AgeInv'
<1>1. EntriesAge'
  BY DEF EntriesAge, AgeInv, LeadInv, Shapes
<1>2. ASSUME NEW d \in Caller \ {c} PROVE CallAges(call[d])'
  <2>1. CallAges(call[d]) /\ call'[d] = call[d]
    BY DEF AgeInv, CallsAge, LeadInv, Shapes
  <2>2. call[d].pc \in {"emit", "emitRest"} =>
          \/ entry'[call[d].req.path] = Cache!Absent
          \/ entry'[call[d].req.path].at = clock
    <3> SUFFICES ASSUME call[d].pc \in {"emit", "emitRest"}
                 PROVE  \/ entry'[call[d].req.path] = Cache!Absent
                        \/ entry'[call[d].req.path].at = clock
      OBVIOUS
    <3>1. call[d].req.path \in Cache!Path
      BY HoldsItsPath
    <3>2. CASE call[d].req.path = p
      BY <3>1, <3>2 DEF LeadInv, Shapes
    <3>3. CASE call[d].req.path # p
      BY <2>1, <3>1, <3>3 DEF CallAges, LeadInv, Shapes
    <3>4. QED
      BY <3>2, <3>3
  <2>3. QED
    BY <2>1, <2>2 DEF CallAges
<1>3. CallAges(call[c])'
  <2>1. call'[c] = new /\ entry'[p] = f
    BY DEF LeadInv, Shapes
  <2>2. QED
    BY <2>1 DEF CallAges, HasWritten
<1>4. QED
  BY <1>1, <1>2, <1>3 DEF AgeInv, CallsAge

\* A step that touches neither the calls nor the entries.
LEMMA NoCallAges ==
  ASSUME AgeInv, UNCHANGED <<clock, cacheKind, call, entry>>
  PROVE  AgeInv'
  BY DEF AgeInv, EntriesAge, CallsAge, CallAges

\* The entry is read, and its age looked at.
LEMMA ReadingAges ==
  ASSUME LeadInv, AgeInv, NEW c \in Caller,
         Cache!ReadEntry(c) \/ Cache!CheckEntry(c)
  PROVE  AgeInv'
<1> DEFINE r == call[c].req
<1>1. UNCHANGED <<clock, cacheKind, entry>>
  BY DEF Cache!ReadEntry, Cache!CheckEntry
<1>2. r.path \in Cache!Path
  BY HoldsItsPath DEF Cache!ReadEntry, Cache!CheckEntry
<1>3. CASE call' = [call EXCEPT ![c] = [pc |-> "ask", req |-> r]]
  BY <1>1, <1>3, OneCallAges DEF CallAges
<1>4. CASE Cache!ReadEntry(c)
  <2>1. ASSUME NEW kc, Cache!Parses(entry[r.path], kc),
               call' = [call EXCEPT ![c] = [pc |-> "check", req |-> r,
                          kc |-> kc, at |-> entry[r.path].at]]
        PROVE  AgeInv'
    <3>1. entry[r.path] # Cache!Absent /\ kc.at = entry[r.path].kc.at
      BY <2>1 DEF Cache!Parses, Cache!Absent
    <3>2. entry[r.path].at \in Nat /\ kc.at = entry[r.path].at
      BY <1>2, <3>1 DEF AgeInv, EntriesAge
    <3> DEFINE new == [pc |-> "check", req |-> r, kc |-> kc,
                       at |-> entry[r.path].at]
    <3>3. CallAges(new)
      BY <3>2 DEF CallAges
    <3>4. call' = [call EXCEPT ![c] = new]
      BY <2>1
    <3> HIDE DEF new
    <3>5. QED
      BY <1>1, <3>3, <3>4, OneCallAges
  <2>2. QED
    BY <1>3, <1>4, <2>1 DEF Cache!ReadEntry, Cache!Step
<1>5. CASE Cache!CheckEntry(c)
  <2> DEFINE f == entry[r.path]
             new == Cache!Served(c, call[c].kc)
  <2>1. ASSUME ~Cache!IsExpired(f), call' = [call EXCEPT ![c] = new]
        PROVE  AgeInv'
    <3>1. call[c].pc = "check" /\ call[c].at \in Nat
          /\ call[c].kc.at = call[c].at
      BY <1>5 DEF Cache!CheckEntry, AgeInv, CallsAge, CallAges
    <3>2. ASSUME TTL > 0, f.at = call[c].at
          PROVE  clock - call[c].kc.at <= TTL
      BY <2>1, <3>1, <3>2, CacheAssumption DEF Cache!IsExpired, AgeInv
    <3>3. /\ new.pc = "served" /\ new.age = clock - call[c].kc.at
          /\ new.replaced = (f = Cache!Absent \/ f.at # call[c].at)
      BY DEF Cache!Served
    <3>4. TTL > 0 => new.age <= TTL \/ new.replaced
      BY <3>2, <3>3
    <3>5. CallAges(new)
      BY <3>3, <3>4 DEF CallAges
    <3> HIDE DEF new
    <3>6. QED
      BY <1>1, <2>1, <3>5, OneCallAges
  <2>2. QED
    BY <1>3, <1>5, <2>1 DEF Cache!CheckEntry, Cache!Step
<1>6. QED
  BY <1>4, <1>5

\* The entry is truncated and written.
LEMMA WritingAges ==
  ASSUME LeadInv, AgeInv, NEW c \in Caller,
         \/ Cache!TruncateEntry(c) \/ Cache!EmitPart(c)
         \/ Cache!EmitRest(c) \/ Cache!KeepFails(c)
  PROVE  AgeInv'
<1> DEFINE r == call[c].req
           p == r.path
<1>1. /\ UNCHANGED <<clock, cacheKind>>
      /\ p \in Cache!Path /\ call[c].kc.at = clock
      /\ call[c].pc \in {"keep", "emit", "emitRest"}
  BY HoldsItsPath DEF Cache!TruncateEntry, Cache!EmitPart, Cache!EmitRest,
       Cache!KeepFails, AgeInv, CallsAge, CallAges
<1>2. ASSUME NEW pc \in {"emit", "emitRest", "answered"}
      PROVE  HasWritten([pc |-> pc, req |-> r, kc |-> call[c].kc], p)
  BY <1>1 DEF HasWritten
<1>3. CASE Cache!TruncateEntry(c)
  <2>1. PICK f : /\ f = [form |-> "empty", kc |-> call[c].kc, at |-> clock,
                         writer |-> c, mixed |-> FALSE]
                 /\ entry' = [entry EXCEPT ![p] = f]
    BY <1>3 DEF Cache!TruncateEntry
  <2>2. PICK new : /\ new = [pc |-> "emit", req |-> r, kc |-> call[c].kc]
                   /\ call' = [call EXCEPT ![c] = new]
    BY <1>3 DEF Cache!TruncateEntry, Cache!Step
  <2>3. f.at = clock /\ f.kc.at = clock
    BY <1>1, <2>1
  <2>4. HasWritten(new, p)
    BY <1>2, <2>2
  <2>5. QED
    BY <1>1, <2>1, <2>2, <2>3, <2>4, OneWriteAges
<1>4. CASE Cache!EmitPart(c) \/ Cache!EmitRest(c)
  <2>1. PICK form, f : /\ f = Cache!Emitted(c, form)
                       /\ entry' = [entry EXCEPT ![p] = f]
    BY <1>4 DEF Cache!EmitPart, Cache!EmitRest
  <2>2. PICK new :
          /\ \/ new = [pc |-> "emitRest", req |-> r, kc |-> call[c].kc]
             \/ new = [pc |-> "answered", req |-> r, kc |-> call[c].kc]
          /\ call' = [call EXCEPT ![c] = new]
    BY <1>4 DEF Cache!EmitPart, Cache!EmitRest, Cache!Step
  <2>3. entry[p] = Cache!Absent \/ entry[p].at = clock
    BY <1>4 DEF Cache!EmitPart, Cache!EmitRest, AgeInv, CallsAge, CallAges
  <2>4. entry[p] = Cache!Absent \/ entry[p].kc.at = clock
    BY <1>1, <2>3 DEF AgeInv, EntriesAge
  <2>5. entry[p] = Cache!Absent => f = Cache!Absent
    BY <2>1 DEF Cache!Emitted
  <2>6. entry[p] # Cache!Absent => f.at = clock /\ f.kc.at = clock
    BY <2>1, <2>4 DEF Cache!Emitted
  <2>7. f = Cache!Absent \/ (f.at = clock /\ f.kc.at = clock)
    BY <2>5, <2>6
  <2>8. HasWritten(new, p)
    BY <1>2, <2>2
  <2> HIDE DEF p
  <2>9. QED
    BY <1>1, <2>1, <2>2, <2>7, <2>8, OneWriteAges
<1>5. CASE Cache!KeepFails(c)
  <2>1. PICK new : /\ new = [pc |-> "failed", req |-> r, cause |-> "write"]
                   /\ call' = [call EXCEPT ![c] = new]
    BY <1>5 DEF Cache!KeepFails, Cache!Step
  <2>2. entry' = entry /\ CallAges(new)
    BY <1>5, <2>1 DEF Cache!KeepFails, CallAges
  <2>3. QED
    BY <1>1, <2>1, <2>2, OneCallAges
<1>6. QED
  BY <1>3, <1>4, <1>5

\* The memory cache, which has no age.
LEMMA MemoryAges ==
  ASSUME LeadInv, AgeInv, NEW c \in Caller,
         Cache!LookupMemo(c) \/ Cache!StoreMemo(c)
  PROVE  AgeInv'
<1> DEFINE r == call[c].req
<1>1. UNCHANGED <<clock, cacheKind, entry>> /\ cacheKind = "memory"
  BY DEF Cache!LookupMemo, Cache!StoreMemo
<1>2. PICK new : /\ \/ new = [pc |-> "ask", req |-> r]
                    \/ new = [pc |-> "served", req |-> r, kc |-> memo[r.path],
                              age |-> 0, replaced |-> FALSE]
                    \/ new = [pc |-> "answered", req |-> r, kc |-> call[c].kc]
                 /\ call' = [call EXCEPT ![c] = new]
  <2>1. CASE Cache!LookupMemo(c)
    BY <2>1 DEF Cache!LookupMemo, Cache!Step
  <2>2. CASE Cache!StoreMemo(c)
    BY <2>2 DEF Cache!StoreMemo, Cache!Step
  <2>3. QED
    BY <2>1, <2>2
<1>3. CallAges(new)
  BY <1>1, <1>2 DEF CallAges
<1>4. QED
  BY <1>1, <1>2, <1>3, OneCallAges

\* The store is asked, or asked for.
LEMMA AskingAges ==
  ASSUME LeadInv, AgeInv,
         \/ Announce \/ Fetch \/ Collect
         \/ \E c \in Caller : AskStore(c)
  PROVE  AgeInv'
<1>1. ASSUME NEW c \in Caller, NEW new, CallAges(new),
             call' = [call EXCEPT ![c] = new],
             UNCHANGED <<clock, cacheKind, entry>>
      PROVE  AgeInv'
  BY <1>1, OneCallAges
<1>2. ASSUME NEW c \in Caller, NEW r, Cache!Call(c, r) PROVE AgeInv'
  BY <1>1, <1>2 DEF Cache!Call, Cache!Step, CallAges
<1>3. ASSUME NEW c \in Caller, NEW cause, Cache!Refuse(c, cause)
      PROVE  AgeInv'
  BY <1>1, <1>3 DEF Cache!Refuse, Cache!Step, CallAges
<1>4. ASSUME NEW c \in Caller, NEW k, Cache!Answer(c, k) PROVE AgeInv'
  BY <1>1, <1>4 DEF Cache!Answer, Cache!Step, CallAges
<1>5. CASE Announce \/ Fetch
  BY <1>2, <1>5 DEF Announce, Fetch, Caller
<1>6. CASE Collect
  BY <1>1, <1>6 DEF Collect, Caller, cacheMemory, Cache!Idle, CallAges
<1>7. ASSUME NEW c \in Caller, AskStore(c) PROVE AgeInv'
  <2>1. CASE EnsureInitialized(c)
    BY <2>1, NoCallAges DEF EnsureInitialized, cacheVars
  <2>2. CASE InitializeFails(c) \/ StoreRefuses(c)
    BY <1>3, <2>2 DEF InitializeFails, StoreRefuses
  <2>3. CASE StoreAnswers(c)
    BY <1>4, <2>3 DEF StoreAnswers
  <2>4. QED
    BY <1>7, <2>1, <2>2, <2>3 DEF AskStore
<1>8. QED
  BY <1>5, <1>6, <1>7

\* A caller uses the cache.
LEMMA UseCacheAges ==
  ASSUME LeadInv, AgeInv, NEW c \in Caller, UseCache(c)
  PROVE  AgeInv'
  BY MemoryAges, ReadingAges, WritingAges DEF UseCache, Cache!CallerStep

\* The search and its index, and previews, touch neither calls nor entries.
LEMMA SearchAges ==
  ASSUME AgeInv, SearchProceeds \/ WriteIndex \/ ReadIndex \/ Preview
  PROVE  AgeInv'
  BY NoCallAges DEF SearchProceeds, WriteIndex, ReadIndex, Preview, cacheVars

\* `clean` removes an entry; whoever is writing it goes on nameless.
LEMMA CleaningAges ==
  ASSUME LeadInv, AgeInv, CleanCache
  PROVE  AgeInv'
<1>1. UNCHANGED <<clock, cacheKind, call>>
  BY DEF CleanCache, Cache!Flush, Cache!ListEntries, Cache!RemoveEntry,
         Cache!EndFlush
<1>2. \A q \in Cache!Path :
        entry'[q] = entry[q] \/ entry'[q] = Cache!Absent
  BY DEF CleanCache, Cache!Flush, Cache!ListEntries, Cache!RemoveEntry,
         Cache!EndFlush, LeadInv, Shapes
<1>3. EntriesAge'
  BY <1>2 DEF AgeInv, EntriesAge
<1>4. ASSUME NEW c \in Caller PROVE CallAges(call[c])'
  <2>1. CallAges(call[c])
    BY DEF AgeInv, CallsAge
  <2>2. call[c].pc \in {"emit", "emitRest"} =>
          \/ entry'[call[c].req.path] = Cache!Absent
          \/ entry'[call[c].req.path].at = clock
    BY <1>2, <2>1, HoldsItsPath DEF CallAges
  <2>3. QED
    BY <1>1, <2>1, <2>2 DEF CallAges
<1>5. QED
  BY <1>1, <1>3, <1>4 DEF AgeInv, CallsAge

\* Time passes only while nobody writes or checks.
LEMMA TimeAges ==
  ASSUME AgeInv, TimePasses
  PROVE  AgeInv'
<1>1. /\ UNCHANGED <<cacheKind, call, entry>>
      /\ clock' = clock + 1
      /\ \A c \in Caller : call[c].pc \notin Cache!Hurries
  BY DEF TimePasses, Cache!Tick
<1>2. EntriesAge' /\ clock' \in Nat
  BY <1>1 DEF AgeInv, EntriesAge
<1>3. ASSUME NEW c \in Caller PROVE CallAges(call[c])'
  <2>1. CallAges(call[c]) /\ call[c].pc \notin Cache!Hurries
    BY <1>1 DEF AgeInv, CallsAge
  <2>2. QED
    BY <1>1, <2>1 DEF CallAges, Cache!Hurries
<1>4. QED
  BY <1>2, <1>3 DEF AgeInv, CallsAge

\* The next process has no calls; the entries stay.
LEMMA RestartAges ==
  ASSUME AgeInv, Restart
  PROVE  AgeInv'
<1>1. /\ UNCHANGED <<clock, cacheKind, entry>>
      /\ call' = [c \in Caller |-> Cache!Idle]
  BY DEF Restart, Cache!Forget
<1>2. CallAges(Cache!Idle)'
  BY DEF CallAges, Cache!Idle
<1>3. QED
  BY <1>1, <1>2 DEF AgeInv, EntriesAge, CallsAge

\* At first there are no entries and no calls.
LEMMA InitAges == Init => AgeInv
  BY DEF Init, Cache!CacheInit, AgeInv, EntriesAge, CallsAge, CallAges,
         Cache!Idle

\* Every step keeps the ages.
LEMMA NextAges == LeadInv /\ AgeInv /\ [Next]_vars => AgeInv'
<1> SUFFICES ASSUME LeadInv, AgeInv, [Next]_vars PROVE AgeInv'
  OBVIOUS
<1>1. CASE SearchStep
  BY <1>1, AskingAges, SearchAges DEF SearchStep
<1>2. CASE Fetch \/ Preview \/ CleanCache \/ Restart \/ TimePasses
  BY <1>2, AskingAges, SearchAges, CleaningAges, RestartAges, TimeAges
<1>3. ASSUME NEW c \in Caller, AskStore(c) \/ UseCache(c) PROVE AgeInv'
  BY <1>3, AskingAges, UseCacheAges
<1>4. CASE UNCHANGED vars
  BY <1>4, NoCallAges DEF vars, cacheVars
<1>5. QED
  BY <1>1, <1>2, <1>3, <1>4 DEF Next

(***************************************************************************)
(* Whatever goroutines and processes have written, torn, mixed, used and   *)
(* removed the entries of the file cache, what is served from one is no    *)
(* older than the TTL - unless the entry was replaced between the read and *)
(* the look at its age (fileCache.go:177).                                 *)
(***************************************************************************)
THEOREM ServedStaysFresh == Spec => []ServedIsFresh
<1>1. Init => LeadInv /\ AgeInv
  BY InitLeads, InitAges
<1>2. LeadInv /\ AgeInv /\ [Next]_vars => (LeadInv /\ AgeInv)'
  BY NextLeads, NextAges
<1>3. AgeInv => ServedIsFresh
  BY DEF AgeInv, CallsAge, CallAges, ServedIsFresh, Cache!ServedIsFresh
<1>4. QED
  BY <1>1, <1>2, <1>3, PTL DEF Spec

-----------------------------------------------------------------------------
\* Why a cluster that was announced may not be found.
Missed(r) ==
  \/ kind = "exoscale" /\ r.for \notin discovered /\ index # {}
  \/ kind = "gke" /\ ready /\ ScopeOf[r.for] \notin known
  \/ /\ kind \in {"gke", "eks", "azure", "gardener"}
     /\ \E j \in DOMAIN r.path : r.path[j] \in Separated

\* Without an index, Exoscale has found whatever is asked for.
CallReaches(k) ==
  /\ kind = "exoscale" /\ index = {} /\ k.pc # "idle"
       => k.req.for \in discovered
  /\ k.pc = "failed" /\ k.cause = "unknown" => Missed(k.req)

ContextReaches(x) ==
  kind = "exoscale" /\ index = {} => x.result.for \in discovered

ReachInv ==
  /\ index # {} => search # "running"
  /\ \A x \in collected : ContextReaches(x)
  /\ \A c \in Caller : CallReaches(call[c])

\* A store that does not find a cluster has one of the reasons.
LEMMA UnfoundIsMissed ==
  ASSUME kind \in Kind, NEW r, Announced(r), Resolve(r) = {}, Initialized,
         kind = "exoscale" /\ index = {} => r.for \in discovered
  PROVE  Missed(r)
<1>1. CASE kind \in Tagged
  <2>1. r.tags = {r.for}
    BY <1>1 DEF Announced
  <2>2. Resolve(r) = r.tags
    BY <1>1, <2>1 DEF Resolve, Tagged, ResolveDigitalOcean, ResolveScaleway,
         ResolveOVH, ResolveAkamai, ResolveCapi, ResolveTagged
  <2>3. QED
    BY <2>1, <2>2
<1>2. CASE kind \notin Tagged
  <2>1. kind \in {"gke", "eks", "azure", "exoscale", "rancher", "gardener"}
    BY <1>2 DEF Kind, Tagged
  <2>2. r.for \in Cluster /\ r.path = PathOf(kind, r.for)
    BY DEF Announced
  <2>3. r.for \in InCloud(kind, r.path)
    BY <2>2 DEF InCloud
  <2>4. ASSUME ~Parsed(kind, r.path) PROVE Missed(r)
    BY <2>4 DEF Parsed, Missed
  <2>5. CASE kind = "gke"
    BY <2>3, <2>4, <2>5 DEF Resolve, ResolveGKE, Missed, Initialized,
         NeedsInit
  <2>6. CASE kind = "eks"
    BY <2>3, <2>4, <2>6 DEF Resolve, ResolveEKS
  <2>7. CASE kind = "azure"
    BY <2>3, <2>4, <2>7 DEF Resolve, ResolveAzure
  <2>8. CASE kind = "exoscale"
    BY <2>2, <2>8 DEF Resolve, ResolveExoscale, Missed
  <2>9. CASE kind = "rancher"
    BY <2>3, <2>9 DEF Resolve, ResolveRancher
  <2>10. CASE kind = "gardener"
    BY <2>3, <2>4, <2>10 DEF Resolve, ResolveGardener
  <2>11. QED
    BY <2>1, <2>5, <2>6, <2>7, <2>8, <2>9, <2>10
<1>3. QED
  BY <1>1, <1>2

(***************************************************************************)
(* What the steps have in common: the store forgets nothing, learns        *)
(* nothing from a search when there is an index, and lists the projects    *)
(* once.                                                                   *)
(***************************************************************************)
LEMMA ReachStep ==
  ASSUME ReachInv, UNCHANGED kind,
         index # {} => index' # {},
         index' # {} => search' # "running",
         discovered \subseteq discovered',
         kind = "exoscale" /\ index # {} => discovered' = discovered,
         ready => ready' /\ known' = known,
         \A x \in collected' : x \in collected \/ ContextReaches(x)',
         \A c \in Caller : call'[c] = call[c] \/ CallReaches(call[c])'
  PROVE  ReachInv'
<1>1. ASSUME NEW r, Missed(r) PROVE Missed(r)'
  BY <1>1 DEF Missed
<1>2. ASSUME NEW c \in Caller PROVE CallReaches(call[c])'
  <2>1. CASE call'[c] = call[c]
    <3>1. CallReaches(call[c])
      BY DEF ReachInv
    <3>2. QED
      BY <1>1, <2>1, <3>1 DEF CallReaches
  <2>2. QED
    BY <2>1
<1>3. ASSUME NEW x \in collected' PROVE ContextReaches(x)'
  <2>1. CASE x \in collected
    BY <2>1 DEF ReachInv, ContextReaches
  <2>2. QED
    BY <2>1
<1>4. QED
  BY <1>2, <1>3 DEF ReachInv

\* One caller goes on, and may.
LEMMA OneCallReaches ==
  ASSUME LeadInv, NEW c \in Caller, NEW new, CallReaches(new)',
         call' = [call EXCEPT ![c] = new]
  PROVE  \A d \in Caller : call'[d] = call[d] \/ CallReaches(call[d])'
<1> SUFFICES ASSUME NEW d \in Caller
             PROVE  call'[d] = call[d] \/ CallReaches(call[d])'
  OBVIOUS
<1>1. call'[d] = call[d] \/ call'[d] = new
  BY DEF LeadInv, Shapes
<1>2. QED
  BY <1>1 DEF CallReaches, Missed

\* Steps of the cache: what is asked for stays, and the cause is the write.
LEMMA CacheReaches ==
  ASSUME LeadInv, ReachInv, NEW c \in Caller, UseCache(c)
  PROVE  ReachInv'
<1>1. UNCHANGED <<kind, index, search, discovered, ready, known, collected>>
  BY DEF UseCache, storeVars
<1>2. PICK new : /\ call' = [call EXCEPT ![c] = new]
                 /\ new.pc # "failed" \/ new.cause = "write"
                 /\ new.req = call[c].req
  <2>1. CASE Cache!LookupMemo(c) \/ Cache!StoreMemo(c)
    BY <2>1 DEF Cache!LookupMemo, Cache!StoreMemo, Cache!Step
  <2>2. CASE Cache!ReadEntry(c)
    BY <2>2 DEF Cache!ReadEntry, Cache!Step
  <2>3. CASE Cache!CheckEntry(c)
    BY <2>3 DEF Cache!CheckEntry, Cache!Step, Cache!Served
  <2>4. CASE Cache!TruncateEntry(c) \/ Cache!EmitPart(c)
    BY <2>4 DEF Cache!TruncateEntry, Cache!EmitPart, Cache!Step
  <2>5. CASE Cache!EmitRest(c) \/ Cache!KeepFails(c)
    BY <2>5 DEF Cache!EmitRest, Cache!KeepFails, Cache!Step
  <2>6. QED
    BY <2>1, <2>2, <2>3, <2>4, <2>5 DEF UseCache, Cache!CallerStep
<1>3. call[c].pc # "idle"
  BY DEF UseCache, Cache!CallerStep, Cache!LookupMemo, Cache!StoreMemo,
         Cache!ReadEntry, Cache!CheckEntry, Cache!TruncateEntry,
         Cache!EmitPart, Cache!EmitRest, Cache!KeepFails
<1>4. CallReaches(new)'
  BY <1>1, <1>2, <1>3 DEF ReachInv, CallReaches
<1>5. \A d \in Caller : call'[d] = call[d] \/ CallReaches(call[d])'
  BY <1>2, <1>4, OneCallReaches
<1>6. QED
  BY <1>1, <1>5, ReachStep DEF ReachInv

\* The store answers, or refuses for a reason.
LEMMA AskingReaches ==
  ASSUME LeadInv, ReachInv, NEW c \in Caller, AskStore(c)
  PROVE  ReachInv'
<1>1. CASE EnsureInitialized(c)
  <2>1. /\ UNCHANGED <<kind, index, search, discovered, collected, call>>
        /\ ~ready
    BY <1>1 DEF EnsureInitialized, Initialize, cacheVars
  <2>2. QED
    BY <2>1, ReachStep DEF ReachInv
<1>2. ASSUME NEW new, call' = [call EXCEPT ![c] = new], CallReaches(new)',
             UNCHANGED <<kind, index, search, ready, known, collected>>,
             discovered \subseteq discovered',
             kind # "eks" => discovered' = discovered
      PROVE  ReachInv'
  <2>1. \A d \in Caller : call'[d] = call[d] \/ CallReaches(call[d])'
    BY <1>2, OneCallReaches
  <2>2. QED
    BY <1>2, <2>1, ReachStep DEF ReachInv
<1>3. ASSUME call[c].pc = "ask"
      PROVE  /\ Announced(call[c].req)
             /\ kind = "exoscale" /\ index = {}
                  => call[c].req.for \in discovered
  BY <1>3, HoldsItsPath DEF ReachInv, CallReaches
<1>4. ASSUME NEW cause, Cache!Refuse(c, cause),
             UNCHANGED <<storeVars, collected, index>>,
             cause = "unknown" => Missed(call[c].req)
      PROVE  ReachInv'
  <2>1. PICK new : /\ new = [pc |-> "failed", req |-> call[c].req,
                             cause |-> cause]
                   /\ call' = [call EXCEPT ![c] = new]
    BY <1>4 DEF Cache!Refuse, Cache!Step
  <2>2. CallReaches(new)'
    BY <1>3, <1>4, <2>1
       DEF CallReaches, Missed, storeVars, Cache!Refuse
  <2>3. QED
    BY <1>2, <1>4, <2>1, <2>2 DEF storeVars
<1>5. CASE InitializeFails(c)
  BY <1>4, <1>5 DEF InitializeFails
<1>6. CASE StoreRefuses(c)
  <2>1. ASSUME Resolve(call[c].req) = {} PROVE Missed(call[c].req)
    BY <1>3, <1>6, <2>1, UnfoundIsMissed DEF StoreRefuses, LeadInv, Shapes
  <2>2. QED
    BY <1>4, <1>6, <2>1 DEF StoreRefuses
<1>7. CASE StoreAnswers(c)
  <2>1. PICK k : /\ Cache!Answer(c, k)
                 /\ discovered' = IF kind = "eks" THEN discovered \cup {k}
                                  ELSE discovered
    BY <1>7 DEF StoreAnswers
  <2>2. PICK new : /\ new = [pc |-> "keep", req |-> call[c].req,
                       kc |-> [of |-> k, at |-> clock, whole |-> TRUE]]
                   /\ call' = [call EXCEPT ![c] = new]
    BY <2>1 DEF Cache!Answer, Cache!Step
  <2>3. new.pc = "keep" /\ new.req = call[c].req
    BY <2>2
  <2>4. CallReaches(new)'
    BY <1>3, <1>7, <2>1, <2>3 DEF CallReaches, StoreAnswers
  <2>5. QED
    BY <1>2, <1>7, <2>1, <2>2, <2>4 DEF StoreAnswers
<1>8. QED
  BY <1>1, <1>5, <1>6, <1>7 DEF AskStore

\* A cluster is remembered before it is announced.
LEMMA CallingReaches ==
  ASSUME LeadInv, ReachInv, Announce \/ Fetch
  PROVE  ReachInv'
<1>1. ASSUME NEW c \in Caller, NEW r, Cache!Call(c, r),
             UNCHANGED <<kind, index, search, ready, known, collected>>,
             discovered \subseteq discovered',
             kind = "exoscale" /\ index # {} => discovered' = discovered,
             kind = "exoscale" /\ index = {} => r.for \in discovered'
      PROVE  ReachInv'
  <2>1. PICK new : /\ new = [pc |-> "lookup", req |-> r]
                   /\ call' = [call EXCEPT ![c] = new]
    BY <1>1 DEF Cache!Call, Cache!Step
  <2>2. CallReaches(new)'
    BY <1>1, <2>1 DEF CallReaches
  <2>3. \A d \in Caller : call'[d] = call[d] \/ CallReaches(call[d])'
    BY <1>1, <2>1, <2>2, OneCallReaches
  <2>4. QED
    BY <1>1, <2>3, ReachStep DEF ReachInv
<1>2. CASE Announce
  <2>1. PICK s \in Scope, k \in Cluster :
          Send(s, k) /\ Cache!Call(Collector, ResultOf(kind, k))
    BY <1>2 DEF Announce
  <2>2. /\ UNCHANGED <<kind, index, search, ready, known, collected>>
        /\ search = "running" /\ discovered \subseteq discovered'
        /\ kind = "exoscale" => k \in discovered'
    BY <1>2, <2>1 DEF Send, Announce, Remembers
  <2>3. ResultOf(kind, k).for = k /\ Collector \in Caller
    BY DEF ResultOf, Caller
  <2>4. index = {}
    BY <2>2 DEF ReachInv
  <2>5. QED
    BY <1>1, <2>1, <2>2, <2>3, <2>4
<1>3. CASE Fetch
  <2>1. PICK c \in Caller, x \in collected : Cache!Call(c, x.result)
    BY <1>3 DEF Fetch
  <2>2. QED
    BY <1>1, <1>3, <2>1 DEF Fetch, storeVars, ReachInv, ContextReaches
<1>4. QED
  BY <1>2, <1>3

\* Contexts are collected, written to the index and read from it.
LEMMA CollectingReaches ==
  ASSUME LeadInv, ReachInv, Collect \/ WriteIndex \/ ReadIndex
  PROVE  ReachInv'
<1>1. UNCHANGED <<kind, search, ready, known, discovered>>
  BY DEF Collect, WriteIndex, ReadIndex, storeVars
<1>2. CASE Collect
  <2>1. PICK x : /\ x.result = call[Collector].req
                 /\ collected' \subseteq collected \cup {x}
    BY <1>2 DEF Collect, Entry
  <2>2. /\ index' = index /\ call[Collector].pc # "idle"
        /\ call' = [call EXCEPT ![Collector] = Cache!Idle]
    BY <1>2 DEF Collect
  <2>3. ContextReaches(x)'
    BY <1>1, <2>1, <2>2 DEF ContextReaches, ReachInv, CallReaches, Caller
  <2>4. CallReaches(Cache!Idle)'
    BY DEF CallReaches, Cache!Idle
  <2>5. \A d \in Caller : call'[d] = call[d] \/ CallReaches(call[d])'
    BY <2>2, <2>4, OneCallReaches DEF Caller
  <2>6. \A y \in collected' : y \in collected \/ ContextReaches(y)'
    BY <2>1, <2>3
  <2>7. QED
    BY <1>1, <2>2, <2>5, <2>6, ReachStep DEF ReachInv
<1>3. CASE WriteIndex
  <2>1. /\ UNCHANGED <<call, collected>>
        /\ search = "ended" /\ index' # {}
    BY <1>3 DEF WriteIndex, cacheVars
  <2>2. QED
    BY <1>1, <2>1, ReachStep DEF ReachInv
<1>4. CASE ReadIndex
  <2>1. UNCHANGED <<call, index>> /\ search = "idle" /\ index # {}
    BY <1>4 DEF ReadIndex, cacheVars
  <2>2. \A x \in collected' : ContextReaches(x)'
    BY <2>1 DEF ContextReaches
  <2>3. QED
    BY <1>1, <2>1, <2>2, ReachStep DEF ReachInv
<1>5. QED
  BY <1>2, <1>3, <1>4

\* A search begins only without an index; previews, `clean` and the clock
\* make no requests.
LEMMA RestReaches ==
  ASSUME LeadInv, ReachInv,
         SearchProceeds \/ Preview \/ CleanCache \/ TimePasses
  PROVE  ReachInv'
<1>1. UNCHANGED <<kind, call, collected, index>>
  BY DEF SearchProceeds, Preview, CleanCache, TimePasses, cacheVars,
         storeVars, StartSearch, StartSearchFails, ListScope, ListScopeFails,
         ListScopeForbidden, ListScopeNoMatch, ListScopeBreaks,
         EndScope, EndSearch, Cache!Flush,
         Cache!ListEntries, Cache!RemoveEntry, Cache!EndFlush, Cache!Tick
<1>2. ready => ready' /\ known' = known
  BY DEF SearchProceeds, Preview, CleanCache, TimePasses, Initialize,
         storeVars, StartSearch, StartSearchFails, ListScope, ListScopeFails,
         ListScopeForbidden, ListScopeNoMatch, ListScopeBreaks,
         EndScope, EndSearch
<1>3. /\ discovered \subseteq discovered'
      /\ kind = "exoscale" => discovered' = discovered
  BY DEF SearchProceeds, Preview, CleanCache, TimePasses,
         storeVars, StartSearch, StartSearchFails, ListScope, ListScopeFails,
         ListScopeForbidden, ListScopeNoMatch, ListScopeBreaks,
         EndScope, EndSearch
<1>4. index' # {} => search' # "running"
  BY <1>1 DEF SearchProceeds, Preview, CleanCache, TimePasses, storeVars,
         ReachInv
<1>5. QED
  BY <1>1, <1>2, <1>3, <1>4, ReachStep

\* Every step keeps the reasons.
LEMMA NextReaches == LeadInv /\ ReachInv /\ [Next]_vars => ReachInv'
<1> SUFFICES ASSUME LeadInv, ReachInv, [Next]_vars PROVE ReachInv'
  OBVIOUS
<1>1. CASE SearchStep
  BY <1>1, CallingReaches, CollectingReaches, RestReaches DEF SearchStep
<1>2. CASE Restart
  <2>1. /\ search' = "idle" /\ collected' = {}
        /\ call' = [c \in Caller |-> Cache!Idle]
    BY <1>2 DEF Restart, Cache!Forget
  <2>2. CallReaches(Cache!Idle)'
    BY DEF CallReaches, Cache!Idle
  <2>3. QED
    BY <2>1, <2>2 DEF ReachInv
<1>3. CASE Fetch \/ Preview \/ CleanCache \/ TimePasses
  BY <1>3, CallingReaches, RestReaches
<1>4. ASSUME NEW c \in Caller, AskStore(c) \/ UseCache(c) PROVE ReachInv'
  BY <1>4, AskingReaches, CacheReaches
<1>5. CASE UNCHANGED vars
  BY <1>5 DEF vars, storeVars, cacheVars, ReachInv, CallReaches, Missed,
       ContextReaches
<1>6. QED
  BY <1>1, <1>2, <1>3, <1>4, <1>5 DEF Next

(***************************************************************************)
(* Every fetch reaches a cluster it may reach, and fails to find one that  *)
(* was announced only where the code does not look: Exoscale without a     *)
(* search, GKE in a project that was not listed, and a path that does not  *)
(* split into its parts.                                                   *)
(***************************************************************************)
THEOREM FetchesReachClusters == Spec => []FetchReachesCluster
<1>1. Init => LeadInv /\ ReachInv
  <2>1. Init => ReachInv
    BY DEF Init, StoreInit, Cache!CacheInit, ReachInv, CallReaches,
           Cache!Idle
  <2>2. QED
    BY <2>1, InitLeads
<1>2. LeadInv /\ ReachInv /\ [Next]_vars => (LeadInv /\ ReachInv)'
  BY NextLeads, NextReaches
<1>3. ReachInv => KnownIsReachable
  BY DEF ReachInv, CallReaches, Missed, KnownIsReachable
<1>4. Spec => []FetchedIsNamesake
  BY FetchedLeadsHome
<1>5. QED
  BY <1>1, <1>2, <1>3, <1>4, PTL DEF Spec, FetchReachesCluster

-----------------------------------------------------------------------------
\* The clusters of a list are announced, or will be.
Handed(s) ==
  \A c \in Cluster :
    ListOf(kind, c) = s => c \in todo[s] \/ ResultOf(kind, c) \in sent

\* A store that was initialised knows what to list; GKE may know less.
ListsKnown ==
  /\ search = "running" => ready
  /\ ready /\ kind # "gke" => known = Lists

\* The stores of which a list may fail without a report.
Unreported == {"exoscale", "gardener", "capi"}

\* A list that failed was reported.
ListsHanded ==
  \A s \in Scope :
    /\ listing[s] \in {"listed", "done"} => Handed(s)
    /\ listing[s] = "done" => todo[s] = {}
    /\ listing[s] = "failed" /\ kind \notin Unreported
         => reported

\* A search that ends without an error has been through every list.
EndIsEarned ==
  search = "ended" /\ ~reported /\ kind \notin Unreported =>
    ready /\ \A s \in known : listing[s] \in {"done", "failed"}

Announcements == \A r \in sent : r.for \in Cluster

SilentInv ==
  /\ DOMAIN listing = Scope /\ DOMAIN todo = Scope
  /\ ListsKnown /\ ListsHanded /\ EndIsEarned /\ Announcements

searchVars == <<kind, ready, known, listing, todo, search, reported, sent>>

\* The store is initialised, by a search or by a fetch.
LEMMA InitializeSilent ==
  ASSUME SilentInv, Initialize,
         UNCHANGED <<kind, listing, todo, reported, sent>>,
         search' = search \/ search' = "running"
  PROVE  SilentInv'
<1>1. ListsKnown'
  BY DEF Initialize, ListsKnown, Lists
<1>2. ListsHanded' /\ Announcements'
  BY DEF SilentInv, ListsHanded, Handed, Announcements
<1>3. EndIsEarned'
  BY DEF SilentInv, EndIsEarned, Initialize
<1>4. QED
  BY <1>1, <1>2, <1>3 DEF SilentInv

\* A list is asked for, and cannot be had, or not all of it.
LEMMA ListFailsSilent ==
  ASSUME SilentInv, NEW s \in Scope,
         \/ ListScopeFails(s) \/ ListScopeForbidden(s)
         \/ ListScopeNoMatch(s) \/ ListScopeBreaks(s)
  PROVE  SilentInv'
<1>1. /\ UNCHANGED <<kind, ready, known, todo, sent>>
      /\ listing' = [listing EXCEPT ![s] = "failed"]
      /\ search = "running" /\ search' \in {"running", "ended"}
  BY DEF ListScopeFails, ListScopeForbidden, ListScopeNoMatch,
         ListScopeBreaks
<1>2. /\ reported => reported'
      /\ kind \notin Unreported => reported'
  <2>1. CASE ListScopeFails(s)
    <3>1. reported' = (reported \/ kind \notin {"exoscale"})
      BY <2>1 DEF ListScopeFails, SkipsSilently
    <3>2. QED
      BY <3>1 DEF Unreported
  <2>2. CASE ListScopeForbidden(s) \/ ListScopeNoMatch(s)
    BY <2>2 DEF ListScopeForbidden, ListScopeNoMatch, Unreported
  <2>3. CASE ListScopeBreaks(s)
    BY <2>3 DEF ListScopeBreaks
  <2>4. QED
    BY <2>1, <2>2, <2>3
<1>3. ListsKnown'
  BY <1>1 DEF SilentInv, ListsKnown, Lists
<1>4. ListsHanded'
  <2> SUFFICES ASSUME NEW t \in Scope
               PROVE  /\ listing'[t] \in {"listed", "done"} => Handed(t)'
                      /\ listing'[t] = "done" => todo'[t] = {}
                      /\ /\ listing'[t] = "failed"
                         /\ kind' \notin Unreported
                         => reported'
    BY DEF ListsHanded
  <2>1. listing'[t] = listing[t] \/ listing'[t] = "failed"
    BY <1>1 DEF SilentInv
  <2>2. Handed(t) => Handed(t)'
    BY <1>1 DEF Handed
  <2>3. QED
    BY <1>1, <1>2, <2>1, <2>2 DEF SilentInv, ListsHanded
<1>5. EndIsEarned' /\ Announcements'
  BY <1>1, <1>2 DEF SilentInv, EndIsEarned, Announcements
<1>6. QED
  BY <1>1, <1>3, <1>4, <1>5 DEF SilentInv

\* A list arrives, with all its clusters; or all of it was sent.
LEMMA ListSilent ==
  ASSUME SilentInv, NEW s \in Scope, ListScope(s) \/ EndScope(s)
  PROVE  SilentInv'
<1>1. /\ UNCHANGED <<kind, ready, known, search, reported, sent>>
      /\ search = "running"
  BY DEF ListScope, EndScope
<1>2. ListsKnown' /\ EndIsEarned' /\ Announcements'
  BY <1>1 DEF SilentInv, ListsKnown, Lists, EndIsEarned, Announcements
<1>3. ASSUME NEW t \in Scope, t # s
      PROVE  listing'[t] = listing[t] /\ todo'[t] = todo[t]
  BY <1>3 DEF ListScope, EndScope, SilentInv
<1>4. ASSUME NEW t \in Scope, t # s PROVE Handed(t) => Handed(t)'
  BY <1>1, <1>3, <1>4 DEF Handed
<1>5. CASE ListScope(s)
  <2>1. /\ listing'[s] = "listed"
        /\ todo'[s] = {c \in Cluster : ListOf(kind, c) = s}
    BY <1>5 DEF ListScope, SilentInv
  <2>2. Handed(s)'
    BY <1>1, <2>1 DEF Handed
  <2>3. ListsHanded'
    BY <1>1, <1>3, <1>4, <2>1, <2>2 DEF SilentInv, ListsHanded
  <2>4. DOMAIN listing' = Scope /\ DOMAIN todo' = Scope
    BY <1>5 DEF ListScope, SilentInv
  <2>5. QED
    BY <1>2, <2>3, <2>4 DEF SilentInv
<1>6. CASE EndScope(s)
  <2>1. /\ listing'[s] = "done" /\ listing[s] = "listed"
        /\ todo' = todo /\ todo[s] = {}
    BY <1>6 DEF EndScope, SilentInv
  <2>2. Handed(s)'
    BY <1>1, <2>1 DEF Handed, SilentInv, ListsHanded
  <2>3. ListsHanded'
    BY <1>1, <1>3, <1>4, <2>1, <2>2 DEF SilentInv, ListsHanded
  <2>4. DOMAIN listing' = Scope /\ DOMAIN todo' = Scope
    BY <1>6 DEF EndScope, SilentInv
  <2>5. QED
    BY <1>2, <2>3, <2>4 DEF SilentInv
<1>7. QED
  BY <1>5, <1>6

\* A cluster leaves the list when it is announced.
LEMMA SendSilent ==
  ASSUME SilentInv, NEW s \in Scope, NEW k \in Cluster, Send(s, k)
  PROVE  SilentInv'
<1>1. /\ UNCHANGED <<kind, ready, known, listing, search, reported>>
      /\ sent' = sent \cup {ResultOf(kind, k)}
      /\ todo' = [todo EXCEPT ![s] = @ \ {k}]
      /\ search = "running" /\ listing[s] = "listed"
  BY DEF Send
<1>2. ListsKnown' /\ EndIsEarned'
  BY <1>1 DEF SilentInv, ListsKnown, Lists, EndIsEarned
<1>3. Announcements'
  BY <1>1 DEF SilentInv, Announcements, ResultOf
<1>4. ASSUME NEW t \in Scope, Handed(t) PROVE Handed(t)'
  <2> SUFFICES ASSUME NEW c \in Cluster, ListOf(kind, c) = t
               PROVE  c \in todo'[t] \/ ResultOf(kind, c) \in sent'
    BY <1>1 DEF Handed
  <2>1. c \in todo[t] \/ ResultOf(kind, c) \in sent
    BY <1>4 DEF Handed
  <2>2. todo'[t] = todo[t] \/ todo'[t] = todo[t] \ {k}
    BY <1>1 DEF SilentInv
  <2>3. QED
    BY <1>1, <2>1, <2>2
<1>5. ASSUME NEW t \in Scope, listing[t] = "done"
      PROVE  todo'[t] = todo[t]
  BY <1>1, <1>5 DEF SilentInv
<1>6. ListsHanded'
  BY <1>1, <1>4, <1>5 DEF SilentInv, ListsHanded
<1>7. QED
  BY <1>1, <1>2, <1>3, <1>6 DEF SilentInv

\* A search begins with an error, or ends.
LEMMA EndSilent ==
  ASSUME SilentInv, StartSearchFails \/ EndSearch
  PROVE  SilentInv'
<1>1. /\ UNCHANGED <<kind, ready, known, listing, todo, sent>>
      /\ search' = "ended" /\ (reported => reported')
  BY DEF StartSearchFails, EndSearch
<1>2. ListsKnown' /\ Announcements'
  BY <1>1 DEF SilentInv, ListsKnown, Lists, Announcements
<1>3. ListsHanded'
  BY <1>1 DEF SilentInv, ListsHanded, Handed
<1>4. EndIsEarned'
  BY <1>1 DEF StartSearchFails, EndSearch, SilentInv, EndIsEarned, ListsKnown
<1>5. QED
  BY <1>1, <1>2, <1>3, <1>4 DEF SilentInv

\* Whatever leaves the search alone.
LEMMA FrameSilent ==
  ASSUME SilentInv, UNCHANGED searchVars
  PROVE  SilentInv'
  BY DEF searchVars, SilentInv, ListsKnown, Lists, ListsHanded, Handed,
         EndIsEarned, Announcements

\* The next process has not searched.
LEMMA FreshSilent ==
  ASSUME ready = FALSE, known = {}, search = "idle", sent = {},
         listing = [s \in Scope |-> "todo"], todo = [s \in Scope |-> {}]
  PROVE  SilentInv
  BY DEF SilentInv, ListsKnown, ListsHanded, EndIsEarned, Announcements

\* Every step keeps it.
LEMMA NextSilent == SilentInv /\ [Next]_vars => SilentInv'
<1> SUFFICES ASSUME SilentInv, [Next]_vars PROVE SilentInv'
  OBVIOUS
<1>1. CASE Announce
  BY <1>1, SendSilent DEF Announce
<1>2. CASE SearchProceeds
  <2>1. CASE StartSearch
    BY <2>1, InitializeSilent DEF StartSearch
  <2>2. QED
    BY <1>2, <2>1, ListFailsSilent, ListSilent, EndSilent DEF SearchProceeds
<1>3. CASE Collect \/ WriteIndex \/ ReadIndex \/ Fetch \/ CleanCache
           \/ TimePasses
  BY <1>3, FrameSilent DEF Collect, WriteIndex, ReadIndex, Fetch, CleanCache,
     TimePasses, searchVars, storeVars
<1>4. CASE Preview
  <2>1. UNCHANGED <<kind, listing, todo, search, reported, sent>>
    BY <1>4 DEF Preview
  <2>2. Initialize \/ UNCHANGED <<ready, known>>
    BY <1>4 DEF Preview
  <2>3. QED
    BY <2>1, <2>2, InitializeSilent, FrameSilent DEF searchVars
<1>5. CASE Restart
  <2>1. /\ ready' = FALSE /\ known' = {} /\ search' = "idle" /\ sent' = {}
        /\ listing' = [s \in Scope |-> "todo"]
        /\ todo' = [s \in Scope |-> {}]
    BY <1>5 DEF Restart
  <2>2. QED
    BY <2>1 DEF SilentInv, ListsKnown, ListsHanded, EndIsEarned,
       Announcements
<1>6. ASSUME NEW c \in Caller, AskStore(c) \/ UseCache(c) PROVE SilentInv'
  <2>1. CASE EnsureInitialized(c)
    BY <2>1, InitializeSilent DEF EnsureInitialized
  <2>2. CASE InitializeFails(c) \/ StoreAnswers(c) \/ StoreRefuses(c)
             \/ UseCache(c)
    BY <2>2, FrameSilent DEF InitializeFails, StoreAnswers, StoreRefuses,
       UseCache, searchVars, storeVars
  <2>3. QED
    BY <1>6, <2>1, <2>2 DEF AskStore
<1>7. CASE UNCHANGED vars
  BY <1>7, FrameSilent DEF vars, storeVars, searchVars
<1>8. QED
  BY <1>1, <1>2, <1>3, <1>4, <1>5, <1>6, <1>7 DEF Next, SearchStep

(***************************************************************************)
(* A search that reports no error has announced every cluster, whatever    *)
(* lists it asks for, one by one, at once or in pieces, and whether the    *)
(* store was initialised by it or by a preview before - for all kinds of   *)
(* store but GKE, Exoscale, Gardener and CAPI, which leave out clusters    *)
(* without a word.                                                         *)
(***************************************************************************)
THEOREM SilentSearchesAreComplete == Spec => []SilentSearchIsComplete
<1>1. Init => SilentInv
  BY FreshSilent DEF Init, StoreInit
<1>2. SilentInv /\ [Next]_vars => SilentInv'
  BY NextSilent
<1>3. SilentInv => SilentSearchIsComplete
  <2> SUFFICES ASSUME SilentInv, search = "ended", ~reported,
                      kind \notin Silent
               PROVE  {r.for : r \in sent} = Cluster
    BY DEF SilentSearchIsComplete
  <2>1. known = Lists /\ \A s \in known : listing[s] \in {"done", "failed"}
    BY DEF SilentInv, EndIsEarned, ListsKnown, Silent, Unreported
  <2>2. ASSUME NEW c \in Cluster PROVE \E r \in sent : r.for = c
    <3>1. ListOf(kind, c) \in Lists /\ ListOf(kind, c) \in Scope
      BY DEF Lists, Scope, ListOf
    <3>2. listing[ListOf(kind, c)] = "done"
      BY <2>1, <3>1 DEF SilentInv, ListsHanded, Silent, Unreported
    <3>3. ResultOf(kind, c) \in sent
      BY <3>1, <3>2 DEF SilentInv, ListsHanded, Handed
    <3>4. QED
      BY <3>3 DEF ResultOf
  <2>3. QED
    BY <2>2 DEF SilentInv, Announcements
<1>4. QED
  BY <1>1, <1>2, <1>3, PTL DEF Spec

-----------------------------------------------------------------------------
\* What a context may be called, and stand for.
Contexts ==
  [name : {ContextName(kind, r.path, r.for) : r \in Result}, result : Result]

\* What was read was not written in the future.
CallTyped(k) == k \in Cache!CallType /\ (k.pc = "check" => k.at <= clock)

EntriesPast ==
  \A p \in Cache!Path :
    entry[p] # Cache!Absent => entry[p].at <= clock

FilesTyped ==
  /\ memo \in [Cache!Path -> Cache!Kubeconfig \cup {Cache!Nothing}]
  /\ entry \in [Cache!Path -> Cache!File \cup {Cache!Absent}]
  /\ EntriesPast
  /\ cleaner \in [pc : {"idle", "flush"}, list : SUBSET Cache!Path]

TimeTyped == cacheKind \in {"memory", "file"} /\ clock \in Cache!Time

CallsTyped == \A c \in Caller : CallTyped(call[c])

ContextsTyped == collected \subseteq Contexts /\ index \subseteq Contexts

TypesInv == StoreTypeOK /\ TimeTyped /\ FilesTyped /\ CallsTyped
              /\ ContextsTyped

\* What the record of a call says of its fields.
LEMMA CallFields ==
  ASSUME NEW k \in Cache!CallType
  PROVE  /\ k.pc # "idle" => k.req \in Result
         /\ k.pc \in Holding => k.kc \in Cache!Kubeconfig
         /\ k.pc = "check" => k.at \in Cache!Time
<1>1. CASE k = Cache!Idle
  BY <1>1 DEF Cache!Idle, Holding
<1>2. CASE k \in [pc : {"lookup", "ask"}, req : Result]
  BY <1>2 DEF Holding
<1>3. CASE k \in [pc : {"keep", "emit", "emitRest", "answered"},
                  req : Result, kc : Cache!Kubeconfig]
  BY <1>3 DEF Holding
<1>4. CASE k \in [pc : {"check"}, req : Result, kc : Cache!Kubeconfig,
                  at : Cache!Time]
  BY <1>4 DEF Holding
<1>5. CASE k \in [pc : {"served"}, req : Result, kc : Cache!Kubeconfig,
                  age : Cache!Time, replaced : BOOLEAN]
  BY <1>5 DEF Holding
<1>6. CASE k \in [pc : {"failed"}, req : Result, cause : Cache!Cause]
  BY <1>6 DEF Holding
<1>7. QED
  BY <1>1, <1>2, <1>3, <1>4, <1>5, <1>6 DEF Cache!CallType

\* The records that the steps make.
LEMMA NewCalls ==
  ASSUME NEW r \in Result
  PROVE  /\ CallTyped(Cache!Idle)
         /\ CallTyped([pc |-> "lookup", req |-> r])
         /\ CallTyped([pc |-> "ask", req |-> r])
<1>1. CallTyped(Cache!Idle)
  BY DEF CallTyped, Cache!CallType, Cache!Idle
<1>2. ASSUME NEW pc \in {"lookup", "ask"}
      PROVE  CallTyped([pc |-> pc, req |-> r])
  BY DEF CallTyped, Cache!CallType
<1>3. QED
  BY <1>1, <1>2

\* The record of a call that holds a kubeconfig.
LEMMA NewHolders ==
  ASSUME NEW r \in Result, NEW kc \in Cache!Kubeconfig,
         NEW pc \in {"keep", "emit", "emitRest", "answered"}
  PROVE  CallTyped([pc |-> pc, req |-> r, kc |-> kc])
  BY DEF CallTyped, Cache!CallType

\* The record of a call that has read an entry of the past.
LEMMA NewCheck ==
  ASSUME NEW r \in Result, NEW kc \in Cache!Kubeconfig,
         NEW at \in Cache!Time, at <= clock
  PROVE  CallTyped([pc |-> "check", req |-> r, kc |-> kc, at |-> at])
  BY DEF CallTyped, Cache!CallType

\* The record of a call that a cache has served.
LEMMA NewServed ==
  ASSUME NEW r \in Result, NEW kc \in Cache!Kubeconfig,
         NEW age \in Cache!Time, NEW replaced \in BOOLEAN
  PROVE  CallTyped([pc |-> "served", req |-> r, kc |-> kc, age |-> age,
                    replaced |-> replaced])
<1> DEFINE k == [pc |-> "served", req |-> r, kc |-> kc, age |-> age,
                 replaced |-> replaced]
<1>1. k \in [pc : {"served"}, req : Result, kc : Cache!Kubeconfig,
             age : Cache!Time, replaced : BOOLEAN]
  OBVIOUS
<1>2. k.pc # "check"
  OBVIOUS
<1> HIDE DEF k
<1>3. CallTyped(k)
  BY <1>1, <1>2 DEF CallTyped, Cache!CallType
<1>4. QED
  BY <1>3 DEF k

\* The record of a call that failed.
LEMMA NewFailed ==
  ASSUME NEW r \in Result, NEW cause \in Cache!Cause
  PROVE  CallTyped([pc |-> "failed", req |-> r, cause |-> cause])
  BY DEF CallTyped, Cache!CallType

\* A call that goes on.
LEMMA OneCallTyped ==
  ASSUME LeadInv, CallsTyped, NEW c \in Caller, NEW new, CallTyped(new),
         call' = [call EXCEPT ![c] = new], UNCHANGED clock
  PROVE  CallsTyped'
<1>1. ASSUME NEW d \in Caller PROVE CallTyped(call'[d])
  BY DEF CallsTyped, LeadInv, Shapes
<1>2. ASSUME NEW d \in Caller PROVE CallTyped(call[d])'
  BY <1>1 DEF CallTyped
<1>3. QED
  BY <1>2 DEF CallsTyped

\* Steps that only one call sees.
LEMMA CallAlone ==
  ASSUME LeadInv, TypesInv, NEW c \in Caller, NEW new, CallTyped(new),
         call' = [call EXCEPT ![c] = new],
         UNCHANGED <<cacheKind, clock, memo, entry, cleaner>>
  PROVE  CallsTyped' /\ FilesTyped' /\ TimeTyped'
<1>1. CallsTyped'
  BY OneCallTyped DEF TypesInv
<1>2. QED
  BY <1>1 DEF TypesInv, FilesTyped, EntriesPast, TimeTyped

\* The steps of the memory cache.
LEMMA MemoryTyped ==
  ASSUME LeadInv, TypesInv, NEW c \in Caller,
         Cache!LookupMemo(c) \/ Cache!StoreMemo(c)
  PROVE  CallsTyped' /\ FilesTyped' /\ TimeTyped'
<1> DEFINE r == call[c].req
<1>1. /\ r \in Result /\ r.path \in Cache!Path
      /\ call[c].pc \in Holding => call[c].kc \in Cache!Kubeconfig
  BY CallFields, RequestHasPath
     DEF TypesInv, CallsTyped, CallTyped, Cache!LookupMemo, Cache!StoreMemo
<1>2. CASE Cache!LookupMemo(c)
  <2>1. UNCHANGED <<cacheKind, clock, memo, entry, cleaner>>
    BY <1>2 DEF Cache!LookupMemo
  <2>2. CASE memo[r.path] = Cache!Nothing
    <3>1. call' = [call EXCEPT ![c] = [pc |-> "ask", req |-> r]]
      BY <1>2, <2>2 DEF Cache!LookupMemo, Cache!Step
    <3>2. CallTyped([pc |-> "ask", req |-> r])
      BY <1>1, NewCalls
    <3>3. QED
      BY <2>1, <3>1, <3>2, CallAlone
  <2>3. CASE memo[r.path] # Cache!Nothing
    <3>1. PICK new : /\ new = [pc |-> "served", req |-> r,
                               kc |-> memo[r.path], age |-> 0,
                               replaced |-> FALSE]
                     /\ call' = [call EXCEPT ![c] = new]
      BY <1>2, <2>3 DEF Cache!LookupMemo, Cache!Step
    <3>2. memo[r.path] \in Cache!Kubeconfig /\ 0 \in Cache!Time
      BY <1>1, <2>3, CacheAssumption DEF TypesInv, FilesTyped, Cache!Time
    <3>3. CallTyped(new)
      BY <1>1, <3>1, <3>2, NewServed
    <3>4. QED
      BY <2>1, <3>1, <3>3, CallAlone
  <2>4. QED
    BY <2>2, <2>3
<1>3. CASE Cache!StoreMemo(c)
  <2>1. call[c].kc \in Cache!Kubeconfig
    BY <1>1, <1>3 DEF Cache!StoreMemo, Holding
  <2>2. /\ memo' = [memo EXCEPT ![r.path] = call[c].kc]
        /\ call' = [call EXCEPT ![c] =
             [pc |-> "answered", req |-> r, kc |-> call[c].kc]]
        /\ UNCHANGED <<cacheKind, clock, entry, cleaner>>
    BY <1>3 DEF Cache!StoreMemo, Cache!Step
  <2>3. CallTyped([pc |-> "answered", req |-> r, kc |-> call[c].kc])
    BY <1>1, <2>1, NewHolders
  <2>4. CallsTyped'
    BY <2>2, <2>3, OneCallTyped DEF TypesInv
  <2>5. FilesTyped' /\ TimeTyped'
    BY <1>1, <2>1, <2>2 DEF TypesInv, FilesTyped, EntriesPast, TimeTyped
  <2>6. QED
    BY <2>4, <2>5
<1>4. QED
  BY <1>2, <1>3

\* An entry is read, and its age looked at: it is of the past.
LEMMA ReadingTyped ==
  ASSUME LeadInv, AgeInv, TypesInv, NEW c \in Caller,
         Cache!ReadEntry(c) \/ Cache!CheckEntry(c)
  PROVE  CallsTyped' /\ FilesTyped' /\ TimeTyped'
<1> DEFINE r == call[c].req
           f == entry[r.path]
<1>1. r \in Result /\ r.path \in Cache!Path
  BY CallFields, RequestHasPath
     DEF TypesInv, CallsTyped, CallTyped, Cache!ReadEntry, Cache!CheckEntry
<1>2. UNCHANGED <<cacheKind, clock, memo, entry, cleaner>>
  BY DEF Cache!ReadEntry, Cache!CheckEntry
<1>3. CASE call' = [call EXCEPT ![c] = [pc |-> "ask", req |-> r]]
  <2>1. CallTyped([pc |-> "ask", req |-> r])
    BY <1>1, NewCalls
  <2>2. QED
    BY <1>2, <1>3, <2>1, CallAlone
<1>4. ASSUME NEW kc \in Cache!Kubeconfig, Cache!Parses(f, kc),
             call' = [call EXCEPT ![c] =
                [pc |-> "check", req |-> r, kc |-> kc, at |-> f.at]]
      PROVE  CallsTyped' /\ FilesTyped' /\ TimeTyped'
  <2>1. f # Cache!Absent
    BY <1>4 DEF Cache!Parses, Cache!Absent
  <2>2. f \in Cache!File /\ f.at <= clock
    BY <1>1, <2>1 DEF TypesInv, FilesTyped, EntriesPast
  <2>3. f.at \in Cache!Time
    BY <2>2 DEF Cache!File
  <2>4. CallTyped([pc |-> "check", req |-> r, kc |-> kc, at |-> f.at])
    BY <1>1, <1>4, <2>2, <2>3, NewCheck
  <2>5. QED
    BY <1>2, <1>4, <2>4, CallAlone
<1>5. ASSUME call[c].pc = "check",
             call' = [call EXCEPT ![c] = Cache!Served(c, call[c].kc)]
      PROVE  CallsTyped' /\ FilesTyped' /\ TimeTyped'
  <2>1. /\ call[c].kc \in Cache!Kubeconfig /\ call[c].at \in Cache!Time
        /\ call[c].at <= clock
    BY <1>5, CallFields DEF TypesInv, CallsTyped, CallTyped, Holding
  <2>2. call[c].kc.at = call[c].at
    BY <1>5 DEF AgeInv, CallsAge, CallAges
  <2>3. clock - call[c].kc.at \in Cache!Time
    BY <2>1, <2>2, CacheAssumption DEF TypesInv, TimeTyped, Cache!Time
  <2>4. PICK new : new = Cache!Served(c, call[c].kc)
    OBVIOUS
  <2>5. CallTyped(new)
    <3>1. PICK replaced \in BOOLEAN :
            new = [pc |-> "served", req |-> r, kc |-> call[c].kc,
                   age |-> clock - call[c].kc.at, replaced |-> replaced]
      BY <2>4 DEF Cache!Served
    <3>2. QED
      BY <1>1, <2>1, <2>3, <3>1, NewServed
  <2>6. QED
    BY <1>2, <1>5, <2>4, <2>5, CallAlone
<1>6. CASE Cache!ReadEntry(c)
  BY <1>3, <1>4, <1>6 DEF Cache!ReadEntry, Cache!Step
<1>7. CASE Cache!CheckEntry(c)
  BY <1>3, <1>5, <1>7 DEF Cache!CheckEntry, Cache!Step
<1>8. QED
  BY <1>6, <1>7

\* An entry is written.
LEMMA WritingTyped ==
  ASSUME LeadInv, TypesInv, NEW c \in Caller,
         \/ Cache!TruncateEntry(c) \/ Cache!EmitPart(c)
         \/ Cache!EmitRest(c) \/ Cache!KeepFails(c)
  PROVE  CallsTyped' /\ FilesTyped' /\ TimeTyped'
<1> DEFINE r == call[c].req
           p == r.path
<1>1. call[c].pc \in {"keep", "emit", "emitRest"}
  BY DEF Cache!TruncateEntry, Cache!EmitPart, Cache!EmitRest,
         Cache!KeepFails
<1>2. /\ r \in Result /\ p \in Cache!Path
      /\ call[c].kc \in Cache!Kubeconfig
  BY <1>1, CallFields, RequestHasPath DEF TypesInv, CallsTyped, CallTyped,
     Holding
<1>3. CASE Cache!KeepFails(c)
  <2>1. /\ call' = [call EXCEPT ![c] =
              [pc |-> "failed", req |-> r, cause |-> "write"]]
        /\ UNCHANGED <<cacheKind, clock, memo, entry, cleaner>>
    BY <1>3 DEF Cache!KeepFails, Cache!Step
  <2>2. CallTyped([pc |-> "failed", req |-> r, cause |-> "write"])
    <3>1. "write" \in Cache!Cause
      BY DEF Cache!Cause
    <3>2. QED
      BY <1>2, <3>1, NewFailed
  <2>3. QED
    BY <2>1, <2>2, CallAlone
<1>4. ASSUME NEW f, f = Cache!Absent \/ (f \in Cache!File /\ f.at = clock),
             entry' = [entry EXCEPT ![p] = f],
             NEW pc \in {"emit", "emitRest", "answered"},
             call' = [call EXCEPT ![c] =
                        [pc |-> pc, req |-> r, kc |-> call[c].kc]],
             UNCHANGED <<cacheKind, clock, memo, cleaner>>
      PROVE  CallsTyped' /\ FilesTyped' /\ TimeTyped'
  <2>1. CallTyped([pc |-> pc, req |-> r, kc |-> call[c].kc])
    BY <1>2, NewHolders
  <2>2. CallsTyped' /\ TimeTyped'
    BY <1>4, <2>1, OneCallTyped DEF TypesInv, TimeTyped
  <2>3. entry' \in [Cache!Path -> Cache!File \cup {Cache!Absent}]
    BY <1>2, <1>4 DEF TypesInv, FilesTyped
  <2>4. clock \in Nat
    BY DEF TypesInv, TimeTyped, Cache!Time
  <2>5. EntriesPast'
    BY <1>2, <1>4, <2>4 DEF TypesInv, FilesTyped, EntriesPast
  <2>6. QED
    BY <1>4, <2>2, <2>3, <2>5 DEF TypesInv, FilesTyped
<1>5. clock \in Cache!Time
  BY DEF TypesInv, TimeTyped
<1>6. CASE Cache!TruncateEntry(c)
  <2>1. PICK f : /\ f = [form |-> "empty", kc |-> call[c].kc, at |-> clock,
                         writer |-> c, mixed |-> FALSE]
                 /\ entry' = [entry EXCEPT ![p] = f]
    BY <1>6 DEF Cache!TruncateEntry
  <2>2. f \in Cache!File /\ f.at = clock
    BY <1>2, <1>5, <2>1 DEF Cache!File
  <2>3. /\ call' = [call EXCEPT ![c] =
                      [pc |-> "emit", req |-> r, kc |-> call[c].kc]]
        /\ UNCHANGED <<cacheKind, clock, memo, cleaner>>
    BY <1>6 DEF Cache!TruncateEntry, Cache!Step
  <2>4. QED
    BY <1>4, <2>1, <2>2, <2>3
<1>7. ASSUME NEW form \in {"torn", "whole"}, NEW f,
             f = Cache!Emitted(c, form)
      PROVE  f = Cache!Absent \/ (f \in Cache!File /\ f.at = clock)
  <2>1. CASE entry[p] = Cache!Absent
    BY <1>7, <2>1 DEF Cache!Emitted
  <2>2. CASE entry[p] # Cache!Absent
    <3>1. entry[p] \in Cache!File
      BY <1>2, <2>2 DEF TypesInv, FilesTyped
    <3>2. /\ entry[p].kc \in Cache!Kubeconfig /\ entry[p].writer \in Caller
          /\ entry[p].mixed \in BOOLEAN
      BY <3>1 DEF Cache!File
    <3>3. PICK g \in {"torn", "whole"}, mixed \in BOOLEAN :
            f = [form |-> g, kc |-> entry[p].kc, at |-> clock,
                 writer |-> entry[p].writer, mixed |-> mixed]
      BY <1>7, <2>2 DEF Cache!Emitted
    <3>4. QED
      BY <1>5, <3>2, <3>3 DEF Cache!File
  <2>3. QED
    BY <2>1, <2>2
<1>8. CASE Cache!EmitPart(c)
  <2>1. PICK f : /\ f = Cache!Emitted(c, "torn")
                 /\ entry' = [entry EXCEPT ![p] = f]
    BY <1>8 DEF Cache!EmitPart
  <2>2. /\ call' = [call EXCEPT ![c] =
                      [pc |-> "emitRest", req |-> r, kc |-> call[c].kc]]
        /\ UNCHANGED <<cacheKind, clock, memo, cleaner>>
    BY <1>8 DEF Cache!EmitPart, Cache!Step
  <2>3. QED
    BY <1>4, <1>7, <2>1, <2>2
<1>9. CASE Cache!EmitRest(c)
  <2>1. PICK form \in {"torn", "whole"} :
          entry' = [entry EXCEPT ![p] = Cache!Emitted(c, form)]
    BY <1>9 DEF Cache!EmitRest
  <2>2. PICK f : f = Cache!Emitted(c, form)
    OBVIOUS
  <2>3. /\ call' = [call EXCEPT ![c] =
                      [pc |-> "answered", req |-> r, kc |-> call[c].kc]]
        /\ UNCHANGED <<cacheKind, clock, memo, cleaner>>
    BY <1>9 DEF Cache!EmitRest, Cache!Step
  <2>4. QED
    BY <1>4, <1>7, <2>1, <2>2, <2>3
<1>10. QED
  BY <1>3, <1>6, <1>8, <1>9

\* A caller uses the cache.
LEMMA UseCacheTyped ==
  ASSUME LeadInv, AgeInv, TypesInv, NEW c \in Caller, UseCache(c)
  PROVE  CallsTyped' /\ FilesTyped' /\ TimeTyped'
  BY MemoryTyped, ReadingTyped, WritingTyped DEF UseCache, Cache!CallerStep

\* The cache is asked for a request.
LEMMA CallTypes ==
  ASSUME LeadInv, TypesInv, NEW c \in Caller, NEW r \in Result,
         Cache!Call(c, r)
  PROVE  CallsTyped' /\ FilesTyped' /\ TimeTyped'
<1>1. /\ call' = [call EXCEPT ![c] = [pc |-> "lookup", req |-> r]]
      /\ UNCHANGED <<cacheKind, clock, memo, entry, cleaner>>
  BY DEF Cache!Call, Cache!Step
<1>2. CallTyped([pc |-> "lookup", req |-> r])
  BY NewCalls
<1>3. QED
  BY <1>1, <1>2, CallAlone

\* The store is asked, by a goroutine that waits for it.
LEMMA AskStoreTyped ==
  ASSUME LeadInv, TypesInv, NEW c \in Caller, AskStore(c)
  PROVE  CallsTyped' /\ FilesTyped' /\ TimeTyped'
<1>1. CASE EnsureInitialized(c)
  BY <1>1 DEF EnsureInitialized, cacheVars, TypesInv, CallsTyped, CallTyped,
     FilesTyped, EntriesPast, TimeTyped
<1>2. ASSUME call[c].pc = "ask" PROVE call[c].req \in Result
  BY <1>2, CallFields DEF TypesInv, CallsTyped, CallTyped
<1>3. ASSUME NEW cause \in Cache!Cause, Cache!Refuse(c, cause)
      PROVE  CallsTyped' /\ FilesTyped' /\ TimeTyped'
  <2>1. /\ call[c].pc = "ask"
        /\ call' = [call EXCEPT ![c] =
             [pc |-> "failed", req |-> call[c].req, cause |-> cause]]
        /\ UNCHANGED <<cacheKind, clock, memo, entry, cleaner>>
    BY <1>3 DEF Cache!Refuse, Cache!Step
  <2>2. CallTyped([pc |-> "failed", req |-> call[c].req, cause |-> cause])
    BY <1>2, <2>1, NewFailed
  <2>3. QED
    BY <2>1, <2>2, CallAlone
<1>4. CASE InitializeFails(c) \/ StoreRefuses(c)
  <2>1. {"init", "unknown", "request"} \subseteq Cache!Cause
    BY DEF Cache!Cause
  <2>2. QED
    BY <1>3, <1>4, <2>1 DEF InitializeFails, StoreRefuses
<1>5. CASE StoreAnswers(c)
  <2>1. PICK k \in Resolve(call[c].req) : Cache!Answer(c, k)
    BY <1>5 DEF StoreAnswers
  <2>2. call[c].pc = "ask" /\ Announced(call[c].req)
    BY <1>5, HoldsItsPath DEF StoreAnswers
  <2>3. k \in Cluster
    BY <2>2, ResolveLeads DEF LeadInv, Shapes
  <2> DEFINE kc == [of |-> k, at |-> clock, whole |-> TRUE]
  <2>4. kc \in Cache!Kubeconfig
    BY <2>3 DEF TypesInv, TimeTyped, Cache!Kubeconfig
  <2>5. /\ call' = [call EXCEPT ![c] =
             [pc |-> "keep", req |-> call[c].req, kc |-> kc]]
        /\ UNCHANGED <<cacheKind, clock, memo, entry, cleaner>>
    BY <2>1 DEF Cache!Answer, Cache!Step
  <2> HIDE DEF kc
  <2>6. CallTyped([pc |-> "keep", req |-> call[c].req, kc |-> kc])
    BY <1>2, <2>2, <2>4, NewHolders
  <2>7. QED
    BY <2>5, <2>6, CallAlone
<1>6. QED
  BY <1>1, <1>4, <1>5 DEF AskStore

\* `clean` lists the entries and removes them.
LEMMA CleaningTyped ==
  ASSUME TypesInv, CleanCache
  PROVE  CallsTyped' /\ FilesTyped' /\ TimeTyped'
<1>1. UNCHANGED <<cacheKind, clock, memo, call>>
  BY DEF CleanCache, Cache!Flush, Cache!ListEntries, Cache!RemoveEntry,
         Cache!EndFlush
<1>2. CallsTyped' /\ TimeTyped'
  BY <1>1 DEF TypesInv, CallsTyped, CallTyped, TimeTyped
<1>3. cleaner' \in [pc : {"idle", "flush"}, list : SUBSET Cache!Path]
  <2>1. CASE Cache!ListEntries
    BY <2>1 DEF Cache!ListEntries
  <2>2. CASE Cache!RemoveEntry
    BY <2>2 DEF Cache!RemoveEntry, TypesInv, FilesTyped
  <2>3. CASE Cache!EndFlush
    BY <2>3 DEF Cache!EndFlush, TypesInv, FilesTyped
  <2>4. QED
    BY <2>1, <2>2, <2>3 DEF CleanCache, Cache!Flush
<1>4. \/ entry' = entry
      \/ \E p : entry' = [entry EXCEPT ![p] = Cache!Absent]
  BY DEF CleanCache, Cache!Flush, Cache!ListEntries, Cache!RemoveEntry,
         Cache!EndFlush
<1>5. entry' \in [Cache!Path -> Cache!File \cup {Cache!Absent}]
  BY <1>4 DEF TypesInv, FilesTyped
<1>6. EntriesPast'
  BY <1>1, <1>4 DEF TypesInv, FilesTyped, EntriesPast
<1>7. QED
  BY <1>1, <1>2, <1>3, <1>5, <1>6 DEF TypesInv, FilesTyped

\* Time goes on.
LEMMA TimeTypes ==
  ASSUME TypesInv, TimePasses
  PROVE  CallsTyped' /\ FilesTyped' /\ TimeTyped'
<1>1. /\ UNCHANGED <<cacheKind, memo, entry, call, cleaner>>
      /\ clock' = clock + 1 /\ clock < MaxTime
      /\ \A c \in Caller : call[c].pc \notin Cache!Hurries
  BY DEF TimePasses, Cache!Tick
<1>2. clock \in Nat /\ TimeTyped'
  BY <1>1, CacheAssumption DEF TypesInv, TimeTyped, Cache!Time
<1>3. CallsTyped'
  <2>1. ASSUME NEW c \in Caller PROVE CallTyped(call[c])'
    BY <1>1 DEF TypesInv, CallsTyped, CallTyped, Cache!Hurries
  <2>2. QED
    BY <2>1 DEF CallsTyped
<1>4. EntriesPast'
  <2>1. ASSUME NEW p \in Cache!Path, entry[p] # Cache!Absent
        PROVE  entry[p].at <= clock + 1
    <3>1. entry[p] \in Cache!File /\ entry[p].at <= clock
      BY <2>1 DEF TypesInv, FilesTyped, EntriesPast
    <3>2. entry[p].at \in Nat
      BY <3>1 DEF Cache!File, Cache!Time
    <3>3. QED
      BY <1>2, <3>1, <3>2
  <2>2. QED
    BY <1>1, <2>1 DEF EntriesPast
<1>5. QED
  BY <1>1, <1>2, <1>3, <1>4 DEF TypesInv, FilesTyped

\* A process starts, with no calls and an empty memory cache.
LEMMA FreshTyped ==
  ASSUME TypesInv, Restart
  PROVE  CallsTyped' /\ FilesTyped' /\ TimeTyped'
<1>1. /\ UNCHANGED <<cacheKind, clock, entry, cleaner>>
      /\ memo' = [p \in Cache!Path |-> Cache!Nothing]
      /\ call' = [c \in Caller |-> Cache!Idle]
  BY DEF Restart, Cache!Forget
<1>2. CallTyped(Cache!Idle)'
  BY DEF CallTyped, Cache!CallType, Cache!Idle
<1>3. QED
  BY <1>1, <1>2 DEF TypesInv, CallsTyped, FilesTyped, EntriesPast, TimeTyped

\* Contexts are named after the cluster a kubeconfig leads to, which is one
\* that could have been announced.
LEMMA EntryTyped ==
  ASSUME LeadInv, TypesInv, NEW c \in Caller, Got(c)
  PROVE  Entry(call[c].req, call[c].kc.of) \in Contexts
<1> DEFINE r == call[c].req
           k == call[c].kc.of
<1>1. r \in Result
  BY CallFields DEF TypesInv, CallsTyped, CallTyped, Got
<1>2. k \in Cluster /\ PathOf(kind, k) = r.path
  BY HoldsItsPath DEF Got, Holding, Leads
<1>3. /\ ResultOf(kind, k) \in Result /\ ResultOf(kind, k).for = k
      /\ ResultOf(kind, k).path = r.path
  BY <1>2 DEF ResultOf, Result, LeadInv, Shapes
<1>4. ContextName(kind, r.path, k) \in
        {ContextName(kind, q.path, q.for) : q \in Result}
  BY <1>3
<1>5. QED
  BY <1>1, <1>4 DEF Entry, Contexts

\* The contexts of a step.
LEMMA ContextsTypes ==
  ASSUME LeadInv, TypesInv, [Next]_vars
  PROVE  ContextsTyped'
<1>1. kind' = kind
  BY DEF Next, SearchStep, Announce, Send, Collect, SearchProceeds,
     StartSearch, StartSearchFails, ListScope, ListScopeFails,
     ListScopeForbidden, ListScopeNoMatch, ListScopeBreaks,
     EndScope, EndSearch, WriteIndex, ReadIndex, Fetch,
     Preview, CleanCache, Restart, TimePasses, AskStore, EnsureInitialized,
     InitializeFails, StoreAnswers, StoreRefuses, UseCache, storeVars, vars
<1>2. Contexts' = Contexts
  BY <1>1 DEF Contexts
<1>3. CASE Collect
  <2>1. Entry(call[Collector].req, call[Collector].kc.of) \in Contexts
    BY <1>3, EntryTyped DEF Collect, Got, Caller
  <2>2. QED
    BY <1>2, <1>3, <2>1 DEF Collect, TypesInv, ContextsTyped
<1>4. CASE ~Collect
  <2>1. /\ collected' \subseteq collected \cup index
        /\ index' \subseteq collected \cup index
    BY <1>4 DEF Next, SearchStep, Announce, SearchProceeds, WriteIndex,
       ReadIndex, Fetch, Preview, CleanCache, Restart, TimePasses, AskStore,
       EnsureInitialized, InitializeFails, StoreAnswers, StoreRefuses,
       UseCache, vars
  <2>2. QED
    BY <1>2, <2>1 DEF TypesInv, ContextsTyped
<1>5. QED
  BY <1>3, <1>4

\* The store's own variables.
LEMMA StoreTypes ==
  ASSUME LeadInv, LeadInv', TypesInv, [Next]_vars
  PROVE  StoreTypeOK'
<1>1. /\ kind' \in Kind /\ discovered' \subseteq Cluster
      /\ kind \in Kind
  BY DEF LeadInv, Shapes
<1>2. /\ ready \in BOOLEAN /\ known \subseteq Scope
      /\ listing \in [Scope -> {"todo", "listed", "failed", "done"}]
      /\ todo \in [Scope -> SUBSET Cluster]
      /\ search \in {"idle", "running", "ended"}
      /\ reported \in BOOLEAN /\ sent \subseteq Result
  BY DEF TypesInv, StoreTypeOK
<1>3. CASE UNCHANGED <<ready, known, listing, todo, search, reported, sent>>
  BY <1>1, <1>2, <1>3 DEF StoreTypeOK
<1>4. Initialize => ready' \in BOOLEAN /\ known' \subseteq Scope
  <2>1. Lists \subseteq Scope
    BY DEF Lists, Scope, ListOf
  <2>2. QED
    BY <2>1 DEF Initialize
<1>5. CASE Announce
  <2>1. PICK s \in Scope, c \in Cluster : Send(s, c)
    BY <1>5 DEF Announce
  <2>2. ResultOf(kind, c) \in Result
    BY <1>1 DEF Result
  <2>3. todo' \in [Scope -> SUBSET Cluster]
    BY <1>2, <2>1 DEF Send
  <2>4. QED
    BY <1>1, <1>2, <2>1, <2>2, <2>3 DEF Send, StoreTypeOK
<1>6. CASE SearchProceeds
  <2>1. CASE StartSearch
    BY <1>1, <1>2, <1>4, <2>1 DEF StartSearch, StoreTypeOK
  <2>2. CASE StartSearchFails \/ EndSearch
    BY <1>1, <1>2, <2>2 DEF StartSearchFails, EndSearch, StoreTypeOK
  <2>3. ASSUME NEW s \in Scope, ListScope(s) PROVE StoreTypeOK'
    <3>1. {c \in Cluster : ListOf(kind, c) = s} \in SUBSET Cluster
      OBVIOUS
    <3>2. todo' \in [Scope -> SUBSET Cluster]
      BY <1>2, <2>3, <3>1 DEF ListScope
    <3>3. QED
      BY <1>1, <1>2, <2>3, <3>2 DEF ListScope, StoreTypeOK
  <2>4. ASSUME NEW s \in Scope, ListScopeFails(s) PROVE StoreTypeOK'
    <3>1. reported' \in BOOLEAN
      <4>1. reported' = (reported \/ kind \notin SkipsSilently)
        BY <2>4 DEF ListScopeFails
      <4>2. QED
        BY <4>1
    <3>2. /\ listing' = [listing EXCEPT ![s] = "failed"]
          /\ search' \in {"running", "ended"}
          /\ UNCHANGED <<ready, known, todo, sent>>
      BY <2>4 DEF ListScopeFails
    <3>3. QED
      BY <1>1, <1>2, <3>1, <3>2 DEF StoreTypeOK
  <2>5. ASSUME NEW s \in Scope,
               \/ ListScopeForbidden(s) \/ ListScopeNoMatch(s)
               \/ ListScopeBreaks(s) \/ EndScope(s)
        PROVE  StoreTypeOK'
    BY <1>1, <1>2, <2>5 DEF ListScopeForbidden, ListScopeNoMatch,
       ListScopeBreaks, EndScope, StoreTypeOK
  <2>6. QED
    BY <1>6, <2>1, <2>2, <2>3, <2>4, <2>5 DEF SearchProceeds
<1>7. CASE Preview
  BY <1>1, <1>2, <1>4, <1>7 DEF Preview, StoreTypeOK
<1>8. CASE Restart
  BY <1>1, <1>8 DEF Restart, StoreTypeOK
<1>9. ASSUME NEW c \in Caller, AskStore(c) \/ UseCache(c)
      PROVE  StoreTypeOK'
  <2>1. CASE EnsureInitialized(c)
    BY <1>1, <1>2, <1>4, <2>1 DEF EnsureInitialized, StoreTypeOK
  <2>2. QED
    BY <1>3, <1>9, <2>1 DEF AskStore, InitializeFails, StoreAnswers,
       StoreRefuses, UseCache, storeVars
<1>10. CASE \/ Collect \/ WriteIndex \/ ReadIndex \/ Fetch \/ CleanCache
            \/ TimePasses \/ UNCHANGED vars
  BY <1>3, <1>10 DEF Collect, WriteIndex, ReadIndex, Fetch, CleanCache,
     TimePasses, storeVars, vars
<1>11. QED
  BY <1>5, <1>6, <1>7, <1>8, <1>9, <1>10 DEF Next, SearchStep

\* The calls and the caches in every step.
LEMMA CacheTypes ==
  ASSUME LeadInv, AgeInv, TypesInv, [Next]_vars
  PROVE  CallsTyped' /\ FilesTyped' /\ TimeTyped'
<1>1. CASE Announce
  <2>1. PICK c \in Cluster : Cache!Call(Collector, ResultOf(kind, c))
    BY <1>1 DEF Announce
  <2>2. ResultOf(kind, c) \in Result /\ Collector \in Caller
    BY DEF Result, Caller, LeadInv, Shapes
  <2>3. QED
    BY <2>1, <2>2, CallTypes
<1>2. CASE Fetch
  <2>1. PICK c \in Caller, x \in collected : Cache!Call(c, x.result)
    BY <1>2 DEF Fetch
  <2>2. x.result \in Result
    BY DEF LeadInv, ContextsAnnounced, Announced
  <2>3. QED
    BY <2>1, <2>2, CallTypes
<1>3. CASE Collect
  <2>1. /\ call' = [call EXCEPT ![Collector] = Cache!Idle]
        /\ UNCHANGED <<cacheKind, clock, memo, entry, cleaner>>
        /\ Collector \in Caller
    BY <1>3 DEF Collect, cacheMemory, Caller
  <2>2. CallTyped(Cache!Idle)
    BY DEF CallTyped, Cache!CallType, Cache!Idle
  <2>3. QED
    BY <2>1, <2>2, CallAlone
<1>4. CASE UNCHANGED cacheVars
  BY <1>4 DEF cacheVars, TypesInv, CallsTyped, CallTyped, FilesTyped,
     EntriesPast, TimeTyped
<1>5. CASE SearchProceeds \/ WriteIndex \/ ReadIndex \/ Preview
           \/ UNCHANGED vars
  BY <1>4, <1>5 DEF SearchProceeds, WriteIndex, ReadIndex, Preview, vars
<1>6. ASSUME NEW c \in Caller, AskStore(c) \/ UseCache(c)
      PROVE  CallsTyped' /\ FilesTyped' /\ TimeTyped'
  BY <1>6, AskStoreTyped, UseCacheTyped
<1>7. QED
  BY <1>1, <1>2, <1>3, <1>5, <1>6, CleaningTyped, FreshTyped, TimeTypes
     DEF Next, SearchStep

\* Everything has its type at first.
LEMMA InitTyped == Init => TypesInv
<1> SUFFICES ASSUME Init PROVE TypesInv
  OBVIOUS
<1>1. StoreTypeOK
  BY DEF Init, StoreInit, StoreTypeOK
<1>2. TimeTyped
  BY CacheAssumption DEF Init, Cache!CacheInit, TimeTyped, Cache!Time
<1>3. FilesTyped
  BY DEF Init, Cache!CacheInit, FilesTyped, EntriesPast
<1>4. CallTyped(Cache!Idle)
  BY DEF CallTyped, Cache!CallType, Cache!Idle
<1>5. CallsTyped
  BY <1>4 DEF Init, Cache!CacheInit, CallsTyped
<1>6. QED
  BY <1>1, <1>2, <1>3, <1>5 DEF Init, TypesInv, ContextsTyped

(***************************************************************************)
(* The state of the store, of its cache and of the contexts is well typed: *)
(* so every age is one, which needs that what was read is not of the       *)
(* future, and a context has the name of a cluster that can be announced,  *)
(* although it is named after the kubeconfig, which may be of a namesake.  *)
(***************************************************************************)
THEOREM StoreAccessTypes == Spec => []TypeOK
<1>1. Init => LeadInv /\ AgeInv /\ TypesInv
  BY InitLeads, InitAges, InitTyped
<1>2. LeadInv /\ AgeInv /\ TypesInv /\ [Next]_vars
        => (LeadInv /\ AgeInv /\ TypesInv)'
  <2>1. LeadInv /\ AgeInv /\ [Next]_vars => LeadInv' /\ AgeInv'
    BY NextLeads, NextAges
  <2>2. LeadInv /\ LeadInv' /\ AgeInv /\ TypesInv /\ [Next]_vars => TypesInv'
    BY StoreTypes, CacheTypes, ContextsTypes DEF TypesInv
  <2>3. QED
    BY <2>1, <2>2
<1>3. TypesInv => TypeOK
  BY DEF TypesInv, TimeTyped, FilesTyped, CallsTyped, CallTyped,
     ContextsTyped, Contexts, TypeOK, Cache!CacheTypeOK
<1>4. QED
  BY <1>1, <1>2, <1>3, PTL DEF Spec
=============================================================================
