---------------------------- MODULE SearchProofs ----------------------------
(***************************************************************************)
(* Theorems about Search, for every number of stores and whatever the      *)
(* stores offer.  The argument: every store holds exactly one WaitGroup    *)
(* slot until its worker is "skipped" or "done" (SlotInv); the closer      *)
(* closes the channel only when no slot is left, after every store has     *)
(* been handled (CloseInv); a worker that gave its slot back has nothing   *)
(* left to send (WorkerInv); and what was decided to be sent is either     *)
(* still in an outbox or has been received (FlowInv).                      *)
(***************************************************************************)
EXTENDS Search, FiniteSetTheorems, TLAPS

\* Types, without the range of the WaitGroup counter that SlotInv gives.
Types ==
    /\ command \in Commands
    /\ pc \in {"start", "loop", "returned", "failed"}
    /\ next \in 1..NumStores + 1
    /\ contextToAlias \in [Contexts -> Aliases \cup {None}]
    /\ aliasFiles \in [Aliases -> Contexts \cup {None}]
    /\ indexFile \in [Stores -> {"absent", "stale", "fresh", "corrupt",
                                 "corruptState"}]
    /\ index \in [Stores -> [Contexts -> Found \cup {None}]]
    /\ searcher \in [Stores -> {"idle", "searching", "closed"}]
    /\ offered \in [Stores -> SUBSET SearchResult]
    /\ worker \in [Stores -> {"idle", "skipped", "replaying", "collecting",
                              "finishing", "done"}]
    /\ inbox \in [Stores -> SearchResult \cup {None}]
    /\ outbox \in [Stores -> SUBSET Message]
    /\ local \in [Stores -> [Contexts -> Found \cup {None}]]
    /\ wg \in Int
    /\ closed \in BOOLEAN
    /\ consumer \in {"calling", "ranging", "stopped", "drained"}
    /\ delivered \in SUBSET Message
    /\ produced \in [Stores -> SUBSET Message]
    /\ storeFailed \in [Stores -> BOOLEAN]
    /\ stdout \in {"terminal", "devnull"}

\* The loop has not reached the stores from next on, and all of them are
\* handled when the channel is returned.
LoopInv ==
    /\ pc = "start" => next = 1
    /\ pc = "returned" => next = NumStores + 1
    /\ \A s \in Stores : (worker[s] = "idle") <=> (s >= next)

SlotInv == wg = Cardinality(Pending)

\* Only a running worker holds something to send, only a collector something
\* to process, never both at once, and a searcher never outlives its collector.
WorkerInv ==
    \A s \in Stores :
        /\ worker[s] \notin {"replaying", "collecting"} => outbox[s] = {}
        /\ worker[s] # "collecting" => inbox[s] = None /\ searcher[s] # "searching"
        /\ inbox[s] # None => outbox[s] = {}
        /\ worker[s] = "idle" => produced[s] = {}

CloseInv ==
    /\ closed => pc = "returned" /\ wg = 0
    /\ consumer = "drained" => closed
    /\ consumer \in {"ranging", "drained"} => pc = "returned"

\* Messages are named after their store and flow from produced to delivered.
FlowInv ==
    /\ \A s \in Stores : \A m \in produced[s] : m.store = s
    /\ \A s \in Stores : outbox[s] \subseteq produced[s]
    /\ \A s \in Stores : produced[s] \subseteq delivered \cup outbox[s]
    /\ delivered \subseteq UNION {produced[s] : s \in Stores}

IInv == Types /\ LoopInv /\ SlotInv /\ WorkerInv /\ CloseInv /\ FlowInv

-----------------------------------------------------------------------------
(* Lemmas about the operators of Search.                                   *)

\* Only finitely many stores hold a slot, so they can be counted.
LEMMA PendingFinite == IsFiniteSet(Pending) /\ Cardinality(Pending) \in Nat
  <1>1. IsFiniteSet(Stores)
    BY FS_Interval, SearchAssumption DEF Stores
  <1>2. IsFiniteSet(Pending)
    BY <1>1, FS_Subset DEF Pending
  <1> QED  BY <1>2, FS_CardinalityType

\* Giving a slot back removes exactly one store from Pending.
LEMMA PendingShrinks ==
    ASSUME NEW s \in Stores, NEW st \in {"skipped", "done"}, Types,
           worker[s] \notin {"skipped", "done"},
           worker' = [worker EXCEPT ![s] = st]
    PROVE  Cardinality(Pending') = Cardinality(Pending) - 1
  <1>1. s \in Pending
    BY DEF Pending
  <1>2. Pending' = Pending \ {s}
    BY DEF Pending, Types
  <1> QED  BY <1>1, <1>2, PendingFinite, FS_RemoveElement

\* Any other move of a worker leaves Pending alone.
LEMMA PendingStays ==
    ASSUME NEW s \in Stores, NEW st, st \notin {"skipped", "done"}, Types,
           worker[s] \notin {"skipped", "done"},
           worker' = [worker EXCEPT ![s] = st]
    PROVE  Pending' = Pending
  BY DEF Pending, Types

\* No slot taken means that every store has ended.
LEMMA NoSlotNoPending ==
    ASSUME SlotInv, wg = 0
    PROVE  Pending = {}
  BY PendingFinite, FS_EmptySet DEF SlotInv

\* The contexts of a kubeconfig are announced as messages of its store.
LEMMA AnnounceType ==
    ASSUME NEW s \in Stores, NEW names \in SUBSET Contexts, NEW found \in Found,
           contextToAlias \in [Contexts -> Aliases \cup {None}]
    PROVE  /\ Announce(s, names, found) \in SUBSET Message
           /\ \A m \in Announce(s, names, found) : m.store = s
  <1>1. ASSUME NEW n \in names
        PROVE  DisplayAliases(n, found) \subseteq Aliases \cup {None}
    BY SearchAssumption DEF DisplayAliases, Found
  <1>2. ASSUME NEW m \in Announce(s, names, found)
        PROVE  m \in ContextMsg /\ m.store = s
    <2>1. PICK n \in names :
             m \in [store : {s}, name : {n}, at : {found},
                    alias : DisplayAliases(n, found)]
      BY <1>2 DEF Announce
    <2> QED  BY <2>1, <1>1 DEF ContextMsg
  <1> QED  BY <1>2 DEF Message

\* So are the contexts of an index.
LEMMA ReplayType ==
    ASSUME NEW s \in Stores, Types
    PROVE  /\ Replay(s) \in SUBSET Message
           /\ \A m \in Replay(s) : m.store = s
  <1>1. ASSUME NEW n \in Indexed(s)
        PROVE  /\ Announce(s, {n}, index[s][n]) \in SUBSET Message
               /\ \A m \in Announce(s, {n}, index[s][n]) : m.store = s
    <2>1. n \in Contexts /\ index[s][n] \in Found
      BY <1>1 DEF Indexed, Types
    <2>2. contextToAlias \in [Contexts -> Aliases \cup {None}]
      BY DEF Types
    <2> QED  BY <2>1, <2>2, AnnounceType
  <1> QED  BY <1>1 DEF Replay

-----------------------------------------------------------------------------
(* The steps of doSearch itself.                                           *)

\* The invariant holds at the start: all slots are taken, nothing is sent.
LEMMA InitIInv == Init => IInv
  <1> SUFFICES ASSUME Init PROVE IInv
    OBVIOUS
  <1>0. NumStores \in Nat
    BY SearchAssumption
  <1>1. Types
    <2>1. offered \in [Stores -> SUBSET SearchResult]
      BY SearchAssumption DEF Init, SearchResult
    <2>2. next \in 1..NumStores + 1 /\ wg \in Int
      BY <1>0 DEF Init
    <2> QED  BY <2>1, <2>2 DEF Init, Types
  <1>2. LoopInv /\ WorkerInv /\ CloseInv /\ FlowInv
    BY <1>0 DEF Init, LoopInv, WorkerInv, CloseInv, FlowInv, Stores
  <1>3. SlotInv
    <2>1. Pending = 1..NumStores
      BY DEF Init, Pending, Stores
    <2>2. Cardinality(1..NumStores) = NumStores
      BY <1>0, FS_Interval
    <2> QED  BY <2>1, <2>2 DEF Init, SlotInv
  <1> QED  BY <1>1, <1>2, <1>3 DEF IInv

\* Loading the alias mapping does not touch the goroutines.
LEMMA LoadAliasesIInv == ASSUME IInv, LoadAliases PROVE IInv'
  <1> USE DEF IInv, LoadAliases, ReturnError, workerVars, indexVars
  <1>1. Types'
    BY DEF Types, LoadedMappings
  <1>2. LoopInv' /\ WorkerInv' /\ CloseInv' /\ FlowInv'
    BY DEF Types, LoopInv, WorkerInv, CloseInv, FlowInv
  <1>3. SlotInv'
    BY DEF SlotInv, Pending
  <1> QED  BY <1>1, <1>2, <1>3

\* Skipping an optional store gives its slot back without a worker.
LEMMA SkipOptionalStoreIInv == ASSUME IInv, SkipOptionalStore PROVE IInv'
  <1> USE SearchAssumption DEF IInv, SkipOptionalStore, sendVars, indexVars
  <1>1. next \in Stores /\ worker[next] = "idle"
    BY DEF LoopInv, Types, Stores
  <1>2. Types'
    BY <1>1 DEF Types, Stores
  <1>3. LoopInv'
    BY <1>1 DEF Types, LoopInv, Stores
  <1>4. WorkerInv' /\ CloseInv' /\ FlowInv'
    BY <1>1 DEF Types, WorkerInv, CloseInv, FlowInv
  <1>5. SlotInv'
    BY <1>1, PendingShrinks DEF SlotInv
  <1> QED  BY <1>2, <1>3, <1>4, <1>5

\* An early error return leaves the workers that run as they are.
LEMMA AbandonSearchIInv == ASSUME IInv, AbandonSearch PROVE IInv'
  <1> USE DEF IInv, AbandonSearch, ReturnError, workerVars, indexVars
  <1>1. Types' /\ SlotInv'
    BY DEF Types, SlotInv, Pending
  <1>2. LoopInv' /\ WorkerInv' /\ CloseInv' /\ FlowInv'
    BY DEF Types, LoopInv, WorkerInv, CloseInv, FlowInv
  <1> QED  BY <1>1, <1>2

\* The goroutine that replays an index has the slot of its store.
LEMMA LaunchReplayIInv == ASSUME IInv, LaunchReplay PROVE IInv'
  <1> USE SearchAssumption DEF IInv, LaunchReplay, sendVars, indexVars
  <1>1. next \in Stores /\ worker[next] = "idle"
    BY DEF LoopInv, Types, Stores
  <1>2. /\ Replay(next) \in SUBSET Message
        /\ \A m \in Replay(next) : m.store = next
    BY <1>1, ReplayType
  <1>3. produced[next] = {}
    BY <1>1 DEF WorkerInv
  <1>4. Types'
    BY <1>1, <1>2 DEF Types, Stores
  <1>5. LoopInv'
    BY <1>1 DEF Types, LoopInv, Stores
  <1>6. WorkerInv' /\ CloseInv'
    BY <1>1 DEF Types, WorkerInv, CloseInv
  <1>7. FlowInv'
    BY <1>1, <1>2, <1>3 DEF Types, FlowInv
  <1>8. SlotInv'
    BY <1>1, PendingStays DEF SlotInv
  <1> QED  BY <1>4, <1>5, <1>6, <1>7, <1>8

\* So has the collector of a store that is searched.
LEMMA LaunchSearchIInv == ASSUME IInv, LaunchSearch PROVE IInv'
  <1> USE SearchAssumption DEF IInv, LaunchSearch, sendVars, indexVars
  <1>1. next \in Stores /\ worker[next] = "idle"
    BY DEF LoopInv, Types, Stores
  <1>2. Types'
    BY <1>1 DEF Types, Stores
  <1>3. LoopInv'
    BY <1>1 DEF Types, LoopInv, Stores
  <1>4. WorkerInv' /\ CloseInv' /\ FlowInv'
    BY <1>1 DEF Types, WorkerInv, CloseInv, FlowInv
  <1>5. SlotInv'
    BY <1>1, PendingStays DEF SlotInv
  <1> QED  BY <1>2, <1>3, <1>4, <1>5

\* The channel is returned when every store has been handled.
LEMMA ReturnChannelIInv == ASSUME IInv, ReturnChannel PROVE IInv'
  <1> USE DEF IInv, ReturnChannel, workerVars, indexVars
  <1>1. Types' /\ SlotInv'
    BY DEF Types, SlotInv, Pending
  <1>2. LoopInv' /\ WorkerInv' /\ CloseInv' /\ FlowInv'
    BY DEF Types, LoopInv, WorkerInv, CloseInv, FlowInv
  <1> QED  BY <1>1, <1>2

-----------------------------------------------------------------------------
(* The steps of one store's goroutines.                                    *)

\* A searcher hands a result to a collector that holds none.
LEMMA SendResultIInv ==
    ASSUME IInv, NEW s \in Stores, SendResult(s) PROVE IInv'
  <1> USE DEF IInv, SendResult, CollectorReady, mainVars, indexVars, sendVars
  <1>1. Types'
    BY DEF Types
  <1>2. SlotInv' /\ LoopInv' /\ CloseInv' /\ FlowInv'
    BY DEF SlotInv, Pending, LoopInv, CloseInv, FlowInv
  <1>3. WorkerInv'
    BY DEF Types, WorkerInv
  <1> QED  BY <1>1, <1>2, <1>3

\* A searcher that ends closes the channel to its collector only.
LEMMA FinishSearchIInv ==
    ASSUME IInv, NEW s \in Stores, FinishSearch(s) PROVE IInv'
  <1> USE DEF IInv, FinishSearch, mainVars, workerVars, indexVars, sendVars
  <1>1. Types'
    BY DEF Types
  <1>2. SlotInv' /\ LoopInv' /\ CloseInv' /\ FlowInv'
    BY DEF SlotInv, Pending, LoopInv, CloseInv, FlowInv
  <1>3. WorkerInv'
    BY DEF Types, WorkerInv
  <1> QED  BY <1>1, <1>2, <1>3

\* What a collector does with a result, whatever it decides to send.
LEMMA CollectIInv ==
    ASSUME IInv, NEW s \in Stores, inbox[s] # None,
           NEW msgs \in SUBSET Message, \A m \in msgs : m.store = s,
           Send(s, msgs),
           aliasFiles' \in [Aliases -> Contexts \cup {None}],
           UNCHANGED <<mainVars, indexVars, searcher, offered, worker, local,
                       wg, sendVars, storeFailed>>
    PROVE  IInv'
  <1> USE DEF IInv, Send, mainVars, indexVars, sendVars
  <1>1. worker[s] = "collecting"
    BY DEF WorkerInv
  <1>2. Types'
    BY DEF Types
  <1>3. SlotInv' /\ LoopInv' /\ CloseInv'
    BY DEF SlotInv, Pending, LoopInv, CloseInv
  <1>4. WorkerInv'
    BY <1>1 DEF Types, WorkerInv
  <1>5. FlowInv'
    BY <1>1 DEF Types, FlowInv, WorkerInv
  <1> QED  BY <1>2, <1>3, <1>4, <1>5

\* A collector turns a result into messages of its own store.
LEMMA CollectStepIInv ==
    ASSUME IInv, NEW s \in Stores, Collect(s) PROVE IInv'
  <1> USE SearchAssumption DEF IInv
  <1>1. CASE CollectError(s)
    <2>1. inbox[s] # None
      BY <1>1 DEF CollectError
    <2>2. ASSUME NEW e \in {"search", "parse"}
          PROVE  [store |-> s, error |-> e] \in Message
      BY DEF Message, ErrorMsg
    <2>3. aliasFiles' \in [Aliases -> Contexts \cup {None}]
      BY <1>1 DEF CollectError, Types
    <2> QED  BY <1>1, <2>1, <2>2, <2>3, CollectIInv DEF CollectError
  <1>2. CASE CollectUnusable(s)
    <2>1. inbox[s] # None
      BY <1>2 DEF CollectUnusable
    <2>2. ASSUME NEW e \in {"search", "parse"}
          PROVE  [store |-> s, error |-> e] \in Message
      BY DEF Message, ErrorMsg
    <2>3. aliasFiles' \in [Aliases -> Contexts \cup {None}]
      BY <1>2 DEF CollectUnusable, Types
    <2> QED  BY <1>2, <2>1, <2>2, <2>3, CollectIInv DEF CollectUnusable
  <1>3. CASE CollectKubeconfig(s)
    <2>1. inbox[s] # None /\ inbox[s] \in Found
      BY <1>3 DEF CollectKubeconfig
    <2>2. PICK names \in SUBSET Contexts :
             /\ AutoAlias(inbox[s].label, names)
             /\ Send(s, Announce(s, names, inbox[s]))
      BY <1>3 DEF CollectKubeconfig
    <2>3. aliasFiles' \in [Aliases -> Contexts \cup {None}]
      BY <2>1, <2>2 DEF AutoAlias, Types
    <2>4. /\ Announce(s, names, inbox[s]) \in SUBSET Message
          /\ \A m \in Announce(s, names, inbox[s]) : m.store = s
      BY <2>1, AnnounceType DEF Types
    <2> QED  BY <1>3, <2>1, <2>2, <2>3, <2>4, CollectIInv DEF CollectKubeconfig
  <1> QED  BY <1>1, <1>2, <1>3 DEF Collect

\* What is remembered of a context has the path it was just found at, and the
\* tags it has there, or those it had before.
LEMMA RememberedIs ==
    ASSUME NEW old \in Found \cup {None}, NEW found \in Found,
           NEW entry \in Remembered(old, found)
    PROVE  /\ entry \in Found
           /\ entry # None
           /\ entry.path = found.path
           /\ \/ entry.label = found.label /\ entry.aliases = found.aliases
              \/ /\ old # None
                 /\ entry.label = old.label /\ entry.aliases = old.aliases
  <1>1. CASE entry = found
    BY <1>1, SearchAssumption
  <1>2. CASE old # None /\ entry = [old EXCEPT !.path = found.path]
    <2>1. entry \in Found /\ entry.path = found.path
      BY <1>2 DEF Found
    <2>2. entry.label = old.label /\ entry.aliases = old.aliases
      BY <1>2 DEF Found
    <2> QED  BY <1>2, <2>1, <2>2, SearchAssumption
  <1> QED  BY <1>1, <1>2 DEF Remembered

\* How a collector of s records a message that it has sent.
Records(s, m) ==
    IF worker[s] = "collecting" /\ ~IsError(m)
    THEN \E entry \in Remembered(local[s][m.name], m.at) :
             local' = [local EXCEPT ![s][m.name] = entry]
    ELSE UNCHANGED local

\* A message that is delivered moves from the outbox to the consumer.
LEMMA DeliverIInv == ASSUME IInv, NEW s \in Stores, Deliver(s) PROVE IInv'
  <1> USE DEF IInv, mainVars, indexVars
  <1>1. PICK m \in outbox[s] :
           /\ outbox' = [outbox EXCEPT ![s] = @ \ {m}]
           /\ delivered' = delivered \cup {m}
           /\ Records(s, m)
           /\ consumer' = IF ~IsError(m) /\ m.name \in command.wanted
                          THEN "stopped" ELSE consumer
    BY DEF Deliver, Records
  <1>2. m \in Message
    BY DEF Types
  <1>3. ~IsError(m) => m.name \in Contexts /\ m.at \in Found
    BY <1>2 DEF IsError, Message, ContextMsg, ErrorMsg
  <1>4. local' \in [Stores -> [Contexts -> Found \cup {None}]]
    <2>1. local \in [Stores -> [Contexts -> Found \cup {None}]]
      BY DEF Types
    <2>2. CASE worker[s] = "collecting" /\ ~IsError(m)
      <3>1. PICK entry \in Remembered(local[s][m.name], m.at) :
                local' = [local EXCEPT ![s][m.name] = entry]
        BY <1>1, <2>2 DEF Records
      <3>2. local[s][m.name] \in Found \cup {None} /\ m.at \in Found
        BY <1>3, <2>1, <2>2
      <3>3. entry \in Found
        BY <3>2, RememberedIs
      <3> QED  BY <1>3, <2>1, <2>2, <3>1, <3>3
    <2>3. CASE ~(worker[s] = "collecting" /\ ~IsError(m))
      BY <1>1, <2>1, <2>3 DEF Records
    <2> QED  BY <2>2, <2>3
  <1>5. Types'
    BY <1>1, <1>2, <1>4 DEF Types, Deliver
  <1>6. SlotInv' /\ LoopInv' /\ CloseInv'
    BY <1>1 DEF SlotInv, Pending, LoopInv, CloseInv, Deliver
  <1>7. WorkerInv'
    BY <1>1 DEF Types, WorkerInv, Deliver
  <1>8. FlowInv'
    BY <1>1 DEF Types, FlowInv, Deliver
  <1> QED  BY <1>5, <1>6, <1>7, <1>8

\* The index is written by a collector with nothing left to send.
LEMMA WriteIndexIInv ==
    ASSUME IInv, NEW s \in Stores, WriteIndex(s) PROVE IInv'
  <1> USE DEF IInv, WriteIndex, CollectorReady, mainVars, indexVars, sendVars
  <1>1. Types'
    <2>1. index' \in [Stores -> [Contexts -> Found \cup {None}]]
      BY DEF Types
    <2>2. indexFile' \in [Stores -> {"absent", "stale", "fresh", "corrupt",
                                    "corruptState"}]
      BY DEF Types
    <2> QED  BY <2>1, <2>2 DEF Types
  <1>2. SlotInv'
    BY PendingStays DEF SlotInv
  <1>3. LoopInv' /\ CloseInv' /\ FlowInv'
    BY DEF Types, LoopInv, CloseInv, FlowInv
  <1>4. WorkerInv'
    BY DEF Types, WorkerInv
  <1> QED  BY <1>1, <1>2, <1>3, <1>4

\* A worker that gives its slot back has nothing left to send.
LEMMA WorkerDoneIInv ==
    ASSUME IInv, NEW s \in Stores, WorkerDone(s) PROVE IInv'
  <1> USE DEF IInv, WorkerDone, mainVars, indexVars, sendVars
  <1>1. Types'
    BY DEF Types
  <1>2. SlotInv'
    BY PendingShrinks DEF SlotInv
  <1>3. LoopInv' /\ FlowInv'
    BY DEF Types, LoopInv, FlowInv
  <1>4. ~closed
    <2>1. s \in Pending
      BY DEF Pending
    <2> QED  BY <2>1, NoSlotNoPending DEF CloseInv
  <1>5. CloseInv'
    BY <1>4 DEF CloseInv
  <1>6. WorkerInv'
    BY DEF Types, WorkerInv
  <1> QED  BY <1>1, <1>2, <1>3, <1>5, <1>6

-----------------------------------------------------------------------------
(* The closer goroutine and the consumer; the invariant of every behaviour. *)

\* The closer finds no slot taken, and the consumer then sees the end.
LEMMA ConsumerIInv == ASSUME IInv, CloseResults \/ FinishRange PROVE IInv'
  <1> USE DEF IInv, CloseResults, FinishRange, mainVars, indexVars, workerVars
  <1>1. Types'
    BY DEF Types
  <1>2. SlotInv' /\ LoopInv' /\ CloseInv'
    BY DEF SlotInv, Pending, LoopInv, CloseInv
  <1>3. WorkerInv' /\ FlowInv'
    BY DEF WorkerInv, FlowInv
  <1> QED  BY <1>1, <1>2, <1>3

\* A stuttering step changes nothing.
LEMMA StutterIInv == ASSUME IInv, UNCHANGED vars PROVE IInv'
  BY DEF IInv, vars, Types, SlotInv, Pending, LoopInv, WorkerInv, CloseInv,
         FlowInv

\* Every step of the search keeps the invariant.
LEMMA NextIInv == IInv /\ [Next]_vars => IInv'
  <1> SUFFICES ASSUME IInv, [Next]_vars PROVE IInv'
    OBVIOUS
  <1>1. CASE MainStep
    BY <1>1, LoadAliasesIInv, SkipOptionalStoreIInv, AbandonSearchIInv,
       LaunchReplayIInv, LaunchSearchIInv, ReturnChannelIInv DEF MainStep
  <1>2. ASSUME NEW s \in Stores, StoreStep(s) PROVE IInv'
    BY <1>2, SendResultIInv, FinishSearchIInv, CollectStepIInv, DeliverIInv,
       WriteIndexIInv, WorkerDoneIInv DEF StoreStep
  <1>3. CASE CloseResults \/ FinishRange
    BY <1>3, ConsumerIInv
  <1>4. CASE Finished \/ UNCHANGED vars
    BY <1>4, StutterIInv DEF Finished
  <1> QED  BY <1>1, <1>2, <1>3, <1>4 DEF Next

\* The inductive invariant holds in every state of every search.
THEOREM SearchInvariant == Spec => []IInv
  BY InitIInv, NextIInv, PTL DEF Spec

-----------------------------------------------------------------------------
(* The properties TLC checks on small instances, for every instance.       *)

\* Every variable keeps its type; in particular the WaitGroup counter never
\* becomes negative, which would panic in Done().
THEOREM SearchTypes == Spec => []TypeOK
  <1>1. IInv => TypeOK
    <2> SUFFICES ASSUME IInv PROVE TypeOK
      OBVIOUS
    <2>1. wg \in Nat
      BY PendingFinite DEF IInv, SlotInv
    <2>2. wg <= NumStores
      <3>1. IsFiniteSet(Stores) /\ Cardinality(Stores) = NumStores
        BY FS_Interval, SearchAssumption DEF Stores
      <3>2. Pending \subseteq Stores
        BY DEF Pending
      <3> QED  BY <3>1, <3>2, FS_Subset DEF IInv, SlotInv
    <2> QED  BY <2>1, <2>2, SearchAssumption DEF IInv, Types, TypeOK
  <1> QED  BY <1>1, SearchInvariant, PTL

\* The slots of wgResultChannel are exactly the stores that have not ended.
THEOREM SlotsBalanced == Spec => []WaitGroupBalanced
  <1>1. IInv => WaitGroupBalanced
    BY DEF IInv, SlotInv, WaitGroupBalanced
  <1> QED  BY <1>1, SearchInvariant, PTL

\* No worker is left that could send on the closed result channel.
THEOREM ClosedIsQuiet == Spec => []NoSendAfterClose
  <1>1. IInv => NoSendAfterClose
    BY NoSlotNoPending DEF IInv, CloseInv, WorkerInv, Pending, NoSendAfterClose
  <1> QED  BY <1>1, SearchInvariant, PTL

\* A drained channel has carried everything the stores reported.
THEOREM DrainedIsComplete == Spec => []NothingLost
  <1>1. IInv => NothingLost
    <2> SUFFICES ASSUME IInv, consumer = "drained"
                 PROVE  delivered = UNION {produced[s] : s \in Stores}
      BY DEF NothingLost
    <2>1. \A s \in Stores : outbox[s] = {}
      BY NoSlotNoPending DEF IInv, CloseInv, WorkerInv, Pending
    <2> QED  BY <2>1 DEF IInv, FlowInv
  <1> QED  BY <1>1, SearchInvariant, PTL

\* A drained search leaves neither a searcher nor a worker running.
THEOREM DrainedIsFinished == Spec => []NothingLeftBehind
  <1>1. IInv => NothingLeftBehind
    BY NoSlotNoPending
    DEF IInv, CloseInv, WorkerInv, Pending, NothingLeftBehind
  <1> QED  BY <1>1, SearchInvariant, PTL

\* Together: nothing is sent on the closed results, nothing is missing from
\* them, and nobody is left behind that would still work on them.
THEOREM SearchEndsCleanly == Spec => []EndsCleanly
  <1>1. NoSendAfterClose /\ NothingLost /\ NothingLeftBehind => EndsCleanly
    BY DEF EndsCleanly
  <1> QED
    BY <1>1, ClosedIsQuiet, DrainedIsComplete, DrainedIsFinished, PTL

-----------------------------------------------------------------------------
(* Refinement: doSearch implements ResultStream.                           *)

\* The initial states of the search are those of the stream.
LEMMA StreamInit == Init => Stream!Init
  <1> SUFFICES ASSUME Init PROVE Stream!Init
    OBVIOUS
  <1>1. ChannelState = "none" /\ delivered = {}
    BY DEF Init, ChannelState
  <1>2. Pending = Stores
    BY DEF Init, Pending
  <1> QED  BY <1>1, <1>2 DEF Stream!Init

\* A step that leaves the visible part of the search alone is a stutter.
LEMMA StreamStutter ==
    ASSUME pc' = pc \/ (pc = "start" /\ pc' = "loop"),
           UNCHANGED <<closed, delivered>>, Pending' = Pending
    PROVE  UNCHANGED Stream!vars
  BY DEF Stream!vars, ChannelState

\* A store that gives its slot back is a store that ends in the stream.
LEMMA StreamStoreEnds ==
    ASSUME IInv, NEW s \in Stores, NEW st \in {"skipped", "done"},
           worker[s] \notin {"skipped", "done"},
           worker' = [worker EXCEPT ![s] = st],
           UNCHANGED <<pc, closed, delivered>>
    PROVE  Stream!StoreEnds(s)
  <1>1. s \in Pending /\ Pending' = Pending \ {s}
    BY DEF IInv, Types, Pending
  <1> QED  BY <1>1 DEF Stream!StoreEnds, ChannelState

\* A step of doSearch itself opens or refuses the stream, ends a store that
\* is skipped, or is not visible.
LEMMA StreamMain ==
    ASSUME IInv, MainStep PROVE [Stream!Next]_(Stream!vars)
  <1> USE DEF IInv, CloseInv
  <1>1. CASE LoadAliases
    <2>1. Pending' = Pending
      BY <1>1 DEF LoadAliases, Pending, workerVars
    <2>2. CASE pc' = "loop"
      BY <1>1, <2>1, <2>2, StreamStutter DEF LoadAliases
    <2>3. CASE pc' = "failed"
      <3>1. Stream!Refuse
        BY <1>1, <2>1, <2>3 DEF LoadAliases, Stream!Refuse, ChannelState
      <3> QED  BY <3>1 DEF Stream!Next
    <2> QED  BY <1>1, <2>2, <2>3 DEF LoadAliases, ReturnError
  <1>2. CASE SkipOptionalStore
    <2>1. next \in Stores /\ worker[next] = "idle"
      BY <1>2, SearchAssumption
      DEF SkipOptionalStore, LoopInv, Types, Stores
    <2>2. Stream!StoreEnds(next)
      BY <1>2, <2>1, StreamStoreEnds DEF SkipOptionalStore, sendVars
    <2> QED  BY <2>1, <2>2 DEF Stream!Next
  <1>3. CASE AbandonSearch
    <2>1. Pending' = Pending
      BY <1>3 DEF AbandonSearch, Pending, workerVars
    <2>2. Stream!Refuse
      BY <1>3, <2>1
      DEF AbandonSearch, ReturnError, Stream!Refuse, ChannelState
    <2> QED  BY <2>2 DEF Stream!Next
  <1>4. CASE LaunchReplay \/ LaunchSearch
    <2>1. next \in Stores /\ worker[next] = "idle"
      BY <1>4 DEF LaunchReplay, LaunchSearch, LoopInv, Types, Stores
    <2>2. Pending' = Pending
      BY <1>4, <2>1, PendingStays DEF LaunchReplay, LaunchSearch
    <2> QED  BY <1>4, <2>2, StreamStutter DEF LaunchReplay, LaunchSearch, sendVars
  <1>5. CASE ReturnChannel
    <2>1. Pending' = Pending
      BY <1>5 DEF ReturnChannel, Pending, workerVars
    <2>2. Stream!Open
      BY <1>5, <2>1 DEF ReturnChannel, Stream!Open, ChannelState
    <2> QED  BY <2>2 DEF Stream!Next
  <1> QED  BY <1>1, <1>2, <1>3, <1>4, <1>5 DEF MainStep

\* A step of a goroutine is a message, the end of a store, or not visible.
LEMMA StreamStore ==
    ASSUME IInv, NEW s \in Stores, StoreStep(s)
    PROVE  [Stream!Next]_(Stream!vars)
  <1>1. CASE SendResult(s) \/ FinishSearch(s) \/ Collect(s)
    <2>1. Pending' = Pending
      BY <1>1 DEF SendResult, FinishSearch, Collect, CollectError,
         CollectUnusable, CollectKubeconfig, Pending, workerVars
    <2> QED  BY <1>1, <2>1, StreamStutter
             DEF SendResult, FinishSearch, Collect, CollectError,
                 CollectUnusable, CollectKubeconfig, mainVars, sendVars
  <1>2. CASE Deliver(s)
    <2>1. PICK m \in outbox[s] : delivered' = delivered \cup {m}
      BY <1>2 DEF Deliver
    <2>2. m \in Message /\ m.store = s /\ s \in Pending
      BY <2>1 DEF IInv, Types, FlowInv, WorkerInv, Pending
    <2>3. pc = "returned" /\ ~closed
      BY <1>2, <2>2, NoSlotNoPending DEF IInv, CloseInv, Deliver
    <2>4. Pending' = Pending
      BY <1>2 DEF Deliver, Pending
    <2>5. Stream!Receive(m)
      BY <1>2, <2>1, <2>2, <2>3, <2>4
      DEF Deliver, Stream!Receive, ChannelState, mainVars
    <2> QED  BY <2>2, <2>5 DEF Stream!Next
  <1>3. CASE WriteIndex(s)
    <2>1. Pending' = Pending
      BY <1>3, PendingStays DEF WriteIndex, CollectorReady, IInv
    <2> QED  BY <1>3, <2>1, StreamStutter DEF WriteIndex, mainVars, sendVars
  <1>4. CASE WorkerDone(s)
    <2>1. Stream!StoreEnds(s)
      BY <1>4, StreamStoreEnds DEF WorkerDone, mainVars, sendVars
    <2> QED  BY <2>1 DEF Stream!Next
  <1> QED  BY <1>1, <1>2, <1>3, <1>4 DEF StoreStep

\* Every step of the search is a step of the stream or is not visible.
LEMMA StreamNext == IInv /\ [Next]_vars => [Stream!Next]_(Stream!vars)
  <1> SUFFICES ASSUME IInv, [Next]_vars PROVE [Stream!Next]_(Stream!vars)
    OBVIOUS
  <1>1. CASE CloseResults
    <2>1. Pending = {} /\ Pending' = Pending
      BY <1>1, NoSlotNoPending DEF IInv, CloseResults, Pending, workerVars
    <2>2. Stream!Close
      BY <1>1, <2>1 DEF CloseResults, Stream!Close, ChannelState, mainVars
    <2> QED  BY <2>2 DEF Stream!Next
  <1>2. CASE FinishRange \/ Finished \/ UNCHANGED vars
    <2>1. Pending' = Pending
      BY <1>2 DEF FinishRange, Finished, Pending, workerVars, vars
    <2> QED  BY <1>2, <2>1, StreamStutter DEF FinishRange, Finished, mainVars, vars
  <1> QED  BY <1>1, <1>2, StreamMain, StreamStore DEF Next

\* Whatever the stores do, a command sees a ResultStream: nothing is received
\* from a store after its slot was released or after a failed call, and the
\* channel closes when every store has ended.
THEOREM SearchImplementsStream == Spec => ImplementsStream
  <1>1. Spec => Stream!Spec
    BY StreamInit, StreamNext, SearchInvariant, PTL DEF Spec, Stream!Spec
  <1> QED  BY <1>1 DEF ImplementsStream

-----------------------------------------------------------------------------
(* The index: a collector's mappings follow what it has sent.              *)

\* Messages about the context n at the path, or with the tags, of an entry.
HasPath(m, n, entry) == ~IsError(m) /\ m.name = n /\ m.at.path = entry.path
HasTags(m, n, entry) ==
    /\ ~IsError(m) /\ m.name = n
    /\ m.at.label = entry.label /\ m.at.aliases = entry.aliases

\* An entry was announced, the path and the tags perhaps one by one.
Announced(s, n, entry, msgs) ==
    /\ \E m \in produced[s] \cap msgs : HasPath(m, n, entry)
    /\ \E m \in produced[s] \cap msgs : HasTags(m, n, entry)

\* Of an announced context the collector records a path exactly when it has
\* been delivered.
LocalInv ==
    /\ \A s \in Stores : worker[s] = "collecting" =>
          \A m \in produced[s] \ outbox[s] :
              ~IsError(m) => local[s][m.name] # None
    /\ \A s \in Stores : \A n \in Contexts : local[s][n] # None =>
          Announced(s, n, local[s][n], delivered)
    /\ pc # "returned" => delivered = {}

\* Nothing has been collected at the start.
LEMMA LocalInit == Init => LocalInv
  BY DEF Init, LocalInv

\* doSearch itself collects nothing.
LEMMA LocalMain == ASSUME IInv, LocalInv, MainStep PROVE LocalInv'
  <1>1. CASE LoadAliases \/ AbandonSearch \/ ReturnChannel
    BY <1>1 DEF LocalInv, LoadAliases, AbandonSearch, ReturnChannel,
                ReturnError, workerVars, Announced, HasPath, HasTags, IsError
  <1>2. CASE SkipOptionalStore
    BY <1>2 DEF IInv, Types, LocalInv, SkipOptionalStore, sendVars,
                Announced, HasPath, HasTags, IsError
  <1>3. CASE LaunchReplay \/ LaunchSearch
    <2>1. next \in Stores /\ produced[next] = {} /\ outbox[next] = {}
      BY <1>3 DEF LaunchReplay, LaunchSearch, IInv, LoopInv, WorkerInv,
                  Types, Stores
    <2>2. /\ UNCHANGED <<pc, local, delivered>>
          /\ \A t \in Stores : t # next =>
                /\ produced'[t] = produced[t] /\ outbox'[t] = outbox[t]
                /\ worker'[t] = worker[t]
          /\ produced[next] \subseteq produced'[next]
          /\ produced'[next] = outbox'[next]
      <3>1. /\ produced \in [Stores -> SUBSET Message]
            /\ outbox \in [Stores -> SUBSET Message]
            /\ DOMAIN worker = Stores
        BY DEF IInv, Types
      <3>2. CASE LaunchReplay
        BY <2>1, <3>1, <3>2 DEF LaunchReplay, sendVars
      <3>3. CASE LaunchSearch
        BY <2>1, <3>1, <3>3 DEF LaunchSearch, sendVars
      <3> QED  BY <1>3, <3>2, <3>3
    <2>3. \A t \in Stores : produced[t] \subseteq produced'[t]
      BY <2>2
    <2>4. \A t \in Stores : \A n \in Contexts : local[t][n] # None =>
              Announced(t, n, local[t][n], delivered)'
      BY <2>2, <2>3 DEF LocalInv, Announced, HasPath, HasTags, IsError
    <2> QED  BY <2>2, <2>4 DEF LocalInv
  <1> QED  BY <1>1, <1>2, <1>3 DEF MainStep

\* What a collector decides to announce is recorded when it is delivered.
LEMMA LocalCollect ==
    ASSUME IInv, LocalInv, NEW s \in Stores, inbox[s] # None,
           NEW msgs, Send(s, msgs),
           UNCHANGED <<pc, worker, local, delivered>>
    PROVE  LocalInv'
  <1>1. \A t \in Stores : produced[t] \subseteq produced'[t]
    BY DEF IInv, Types, Send
  <1>2. \A t \in Stores : worker[t] = "collecting" =>
            produced'[t] \ outbox'[t] \subseteq produced[t] \ outbox[t]
    BY DEF IInv, Types, WorkerInv, Send
  <1>3. \A t \in Stores : \A n \in Contexts : local[t][n] # None =>
            Announced(t, n, local[t][n], delivered)'
    BY <1>1 DEF LocalInv, Announced, HasPath, HasTags, IsError
  <1> QED  BY <1>2, <1>3 DEF LocalInv

\* A context that is delivered is recorded for the index in the same step.
LEMMA LocalDeliver ==
    ASSUME IInv, LocalInv, NEW s \in Stores, Deliver(s) PROVE LocalInv'
  <1>1. PICK m \in outbox[s] :
           /\ outbox' = [outbox EXCEPT ![s] = @ \ {m}]
           /\ delivered' = delivered \cup {m}
           /\ Records(s, m)
    BY DEF Deliver, Records
  <1>2. m \in produced[s]
    BY DEF IInv, FlowInv
  <1>3. ~IsError(m) => m.name \in Contexts /\ m.at \in Found
    BY DEF IInv, Types, IsError, Message, ContextMsg, ErrorMsg
  <1>4. pc = "returned" /\ UNCHANGED <<pc, produced, worker>>
    BY DEF Deliver, IInv, CloseInv, mainVars
  <1>5. ASSUME NEW t \in Stores, worker[t] = "collecting",
               NEW k \in produced[t] \ outbox'[t], ~IsError(k)
        PROVE  local'[t][k.name] # None
    <2>1. k.name \in Contexts
      BY <1>5 DEF IInv, Types, IsError, Message, ContextMsg, ErrorMsg
    <2>2. local \in [Stores -> [Contexts -> Found \cup {None}]]
      BY DEF IInv, Types
    <2>3. CASE worker[s] = "collecting" /\ ~IsError(m)
      <3>1. PICK entry \in Remembered(local[s][m.name], m.at) :
                local' = [local EXCEPT ![s][m.name] = entry]
        BY <1>1, <2>3 DEF Records
      <3>2. entry # None
        BY <1>3, <2>2, <2>3, RememberedIs
      <3>3. CASE t = s /\ k.name = m.name
        BY <2>1, <2>2, <3>1, <3>2, <3>3
      <3>4. CASE ~(t = s /\ k.name = m.name)
        <4>1. local'[t][k.name] = local[t][k.name]
          BY <1>3, <2>1, <2>2, <2>3, <3>1, <3>4
        <4>2. k \in produced[t] \ outbox[t]
          BY <1>1, <1>5, <3>4 DEF IInv, Types
        <4> QED  BY <1>5, <4>1, <4>2 DEF LocalInv
      <3> QED  BY <3>3, <3>4
    <2>4. CASE ~(worker[s] = "collecting" /\ ~IsError(m))
      <3>1. local' = local /\ ~(t = s /\ k = m)
        BY <1>1, <1>5, <2>4 DEF Records
      <3>2. k \in produced[t] \ outbox[t]
        BY <1>1, <1>5, <3>1 DEF IInv, Types
      <3> QED  BY <1>5, <3>1, <3>2 DEF LocalInv
    <2> QED  BY <2>3, <2>4
  <1>6. ASSUME NEW t \in Stores, NEW n \in Contexts, local'[t][n] # None
        PROVE  Announced(t, n, local[t][n], delivered)'
    <2>0. produced[t] \cap delivered \subseteq produced'[t] \cap delivered'
      BY <1>1, <1>4
    <2>1. CASE local'[t][n] = local[t][n]
      <3>1. Announced(t, n, local[t][n], delivered)
        BY <1>6, <2>1 DEF LocalInv
      <3> QED  BY <2>0, <2>1, <3>1 DEF Announced, HasPath, HasTags, IsError
    <2>2. CASE local'[t][n] # local[t][n]
      <3>0. local \in [Stores -> [Contexts -> Found \cup {None}]]
        BY DEF IInv, Types
      <3>1. worker[s] = "collecting" /\ ~IsError(m)
        BY <1>1, <2>2 DEF Records
      <3>2. PICK entry \in Remembered(local[s][m.name], m.at) :
                local' = [local EXCEPT ![s][m.name] = entry]
        BY <1>1, <3>1 DEF Records
      <3>3. t = s /\ n = m.name /\ local'[t][n] = entry
        BY <1>3, <2>2, <3>0, <3>1, <3>2
      <3>4. m \in produced'[t] \cap delivered'
        BY <1>1, <1>2, <1>4, <3>3
      <3> DEFINE old == local[s][m.name]
      <3>5. /\ old \in Found \cup {None} /\ m.at \in Found
            /\ entry \in Remembered(old, m.at) /\ old = local[t][n]
        BY <1>3, <3>0, <3>1, <3>2, <3>3
      <3> HIDE DEF old
      <3>6. entry.path = m.at.path
        BY <3>5, RememberedIs
      <3>7. \/ entry.label = m.at.label /\ entry.aliases = m.at.aliases
            \/ /\ old # None
               /\ entry.label = old.label /\ entry.aliases = old.aliases
        BY <3>5, RememberedIs
      <3>8. HasPath(m, n, entry)
        BY <3>1, <3>3, <3>6 DEF HasPath
      <3>9. \E k \in produced'[t] \cap delivered' : HasTags(k, n, entry)
        <4>1. CASE entry.label = m.at.label /\ entry.aliases = m.at.aliases
          BY <3>1, <3>3, <3>4, <4>1 DEF HasTags
        <4>2. CASE /\ old # None
                   /\ entry.label = old.label /\ entry.aliases = old.aliases
          <5>1. PICK k \in produced[t] \cap delivered : HasTags(k, n, old)
            BY <3>5, <4>2 DEF LocalInv, Announced
          <5> QED  BY <2>0, <4>2, <5>1 DEF HasTags
        <4> QED  BY <3>7, <4>1, <4>2
      <3>10. local'[t][n] = entry
        BY <3>3
      <3> QED  BY <3>4, <3>8, <3>9, <3>10
               DEF Announced, HasPath, HasTags, IsError
    <2> QED  BY <2>1, <2>2
  <1> QED  BY <1>4, <1>5, <1>6 DEF LocalInv

\* What has been collected for the index stays what has been announced.
LEMMA LocalNext == IInv /\ LocalInv /\ [Next]_vars => LocalInv'
  <1> SUFFICES ASSUME IInv, LocalInv, [Next]_vars PROVE LocalInv'
    OBVIOUS
  <1>1. ASSUME NEW s \in Stores, StoreStep(s) PROVE LocalInv'
    <2>1. CASE SendResult(s) \/ FinishSearch(s)
      BY <2>1 DEF SendResult, FinishSearch, LocalInv, mainVars, workerVars,
                  sendVars, Announced, HasPath, HasTags, IsError
    <2>2. CASE CollectError(s)
      <3>1. inbox[s] # None
        BY <2>2, SearchAssumption DEF CollectError
      <3> QED  BY <2>2, <3>1, LocalCollect DEF CollectError, mainVars, sendVars
    <2>3. CASE CollectUnusable(s) \/ CollectKubeconfig(s)
      <3>1. inbox[s] # None
        BY <2>3, SearchAssumption DEF CollectUnusable, CollectKubeconfig
      <3> QED  BY <2>3, <3>1, LocalCollect
               DEF CollectUnusable, CollectKubeconfig, mainVars, sendVars
    <2>4. CASE Deliver(s)
      BY <2>4, LocalDeliver
    <2>5. CASE WriteIndex(s) \/ WorkerDone(s)
      <3>1. UNCHANGED <<pc, outbox, produced, local, delivered>>
        BY <2>5 DEF WriteIndex, WorkerDone, mainVars, sendVars
      <3>2. ASSUME NEW t \in Stores, worker'[t] = "collecting"
            PROVE  worker[t] = "collecting"
        BY <2>5, <3>2 DEF WriteIndex, WorkerDone, IInv, Types
      <3> QED  BY <3>1, <3>2 DEF LocalInv, Announced, HasPath, HasTags,
                                 IsError
    <2> QED  BY <1>1, <2>1, <2>2, <2>3, <2>4, <2>5 DEF StoreStep, Collect
  <1>2. CASE CloseResults \/ FinishRange \/ Finished \/ UNCHANGED vars
    BY <1>2 DEF CloseResults, FinishRange, Finished, LocalInv, mainVars,
                workerVars, vars, Announced, HasPath, HasTags, IsError
  <1> QED  BY <1>1, <1>2, LocalMain DEF Next

\* Both invariants hold in every reachable state.
LEMMA LocalCorrect == Spec => [](IInv /\ LocalInv)
  BY InitIInv, NextIInv, LocalInit, LocalNext, PTL DEF Spec

\* A step that changes an index is a WriteIndex of that store.
LEMMA IndexChange ==
    ASSUME IInv, [Next]_vars, NEW s \in Stores, index'[s] # index[s]
    PROVE  /\ WriteIndex(s)
           /\ index'[s] = local[s]
  <1>1. CASE MainStep
    BY <1>1 DEF MainStep, LoadAliases, SkipOptionalStore, AbandonSearch,
                LaunchReplay, LaunchSearch, ReturnChannel, indexVars
  <1>2. ASSUME NEW t \in Stores, StoreStep(t)
        PROVE  WriteIndex(s) /\ index'[s] = local[s]
    <2>1. WriteIndex(t)
      BY <1>2 DEF StoreStep, SendResult, FinishSearch, Collect, CollectError,
                  CollectUnusable, CollectKubeconfig, Deliver, WorkerDone,
                  indexVars
    <2>2. t = s /\ index'[s] = local[s]
      BY <2>1 DEF WriteIndex, IInv, Types, indexVars
    <2> QED  BY <2>1, <2>2
  <1>3. CASE CloseResults \/ FinishRange \/ Finished \/ UNCHANGED vars
    BY <1>3 DEF CloseResults, FinishRange, Finished, indexVars, vars
  <1> QED  BY <1>1, <1>2, <1>3 DEF Next

\* An index is replaced only by the complete result of a finished search of
\* its store, all of it received by the consumer: never truncated by a command
\* that stops early.
THEOREM IndexesAreComplete == Spec => IndexIsComplete
  <1>1. ASSUME IInv, LocalInv, [Next]_vars, NEW s \in Stores,
               index'[s] # index[s]
        PROVE  CompleteReplacement(s)
    <2>1. WriteIndex(s) /\ index'[s] = local[s]
      BY <1>1, IndexChange
    <2>2. /\ searcher[s] = "closed"
          /\ worker[s] = "collecting"
          /\ outbox[s] = {}
      BY <2>1 DEF WriteIndex, CollectorReady
    <2>3. produced[s] \subseteq delivered
      BY <1>1, <2>2 DEF IInv, FlowInv
    <2>4. \A m \in ContextsOf(produced[s]) :
              m.name \in Contexts /\ local[s][m.name] # None
      BY <1>1, <2>2 DEF LocalInv, ContextsOf, IInv, Types, IsError, Message,
                        ContextMsg, ErrorMsg
    <2>5. \A n \in Contexts : local[s][n] # None =>
              /\ \E m \in ContextsOf(produced[s]) :
                    m.name = n /\ m.at.path = local[s][n].path
              /\ \E m \in ContextsOf(produced[s]) :
                    /\ m.name = n
                    /\ m.at.label = local[s][n].label
                    /\ m.at.aliases = local[s][n].aliases
      BY <1>1 DEF LocalInv, ContextsOf, Announced, HasPath, HasTags
    <2> QED  BY <2>1, <2>2, <2>3, <2>4, <2>5 DEF CompleteReplacement
  <1>2. IInv /\ LocalInv /\ [Next]_vars =>
            \A s \in Stores : index'[s] # index[s] => CompleteReplacement(s)
    BY <1>1
  <1> QED  BY <1>2, LocalCorrect, PTL DEF IndexIsComplete, Spec

\* The goroutines that outlive a failed call never touch an index or its state.
THEOREM AbandonedSearchIsInert == Spec => AbandonedKeepsIndex
  <1>1. ASSUME IInv, LocalInv, [Next]_vars, pc = "failed"
        PROVE  UNCHANGED indexVars
    <2>1. ASSUME NEW s \in Stores, WriteIndex(s)
          PROVE  UNCHANGED indexVars
      <3>1. \A n \in Contexts : local[s][n] = None
        BY <1>1 DEF LocalInv, Announced
      <3> QED  BY <2>1, <3>1 DEF WriteIndex
    <2>2. ASSUME NEW s \in Stores, StoreStep(s)
          PROVE  UNCHANGED indexVars
      BY <2>1, <2>2 DEF StoreStep, SendResult, FinishSearch, Collect,
         CollectError, CollectUnusable, CollectKubeconfig, Deliver, WorkerDone,
         indexVars
    <2>3. CASE MainStep
      BY <1>1, <2>3 DEF MainStep, LoadAliases, SkipOptionalStore,
         AbandonSearch, LaunchReplay, LaunchSearch, ReturnChannel, indexVars
    <2>4. CASE CloseResults \/ FinishRange \/ Finished \/ UNCHANGED vars
      BY <2>4 DEF CloseResults, FinishRange, Finished, indexVars, vars
    <2> QED  BY <1>1, <2>2, <2>3, <2>4 DEF Next
  <1> QED  BY <1>1, LocalCorrect, PTL DEF AbandonedKeepsIndex, Spec

\* Both: an index that changes is the complete result of a search that is
\* over, and none changes in a command that has failed.
THEOREM IndexesStaySound == Spec => IndexesAreSound
  <1> DEFINE Complete == \A s \in Stores :
                           index'[s] # index[s] => CompleteReplacement(s)
             Inert    == pc = "failed" => UNCHANGED indexVars
  <1>1. [Complete]_vars /\ [Inert]_vars => [Complete /\ Inert]_vars
    OBVIOUS
  <1>2. Spec => [][Complete]_vars
    BY IndexesAreComplete DEF IndexIsComplete
  <1>3. Spec => [][Inert]_vars
    BY AbandonedSearchIsInert DEF AbandonedKeepsIndex
  <1>4. Spec => [][Complete /\ Inert]_vars
    BY <1>1, <1>2, <1>3, PTL
  <1> QED  BY <1>4, PTL DEF IndexesAreSound
=============================================================================
