----------------------------- MODULE StoreProofs -----------------------------
(***************************************************************************)
(* Theorems about what goes on in one store: the search through a plugin   *)
(* (PluginStream), for every number of results, the lazy initialisation    *)
(* (LazyInit), for any callers, fields and attempts, and the index on disk *)
(* (SearchIndex), for any clock and any refreshIndexAfter.                 *)
(***************************************************************************)
EXTENDS PluginStream, LazyInit, SearchIndex, TLAPS

(***************************************************************************)
(* PluginStream.  The argument (InOrder): what the collector has received, *)
(* the path the client holds, the paths on the wire and the result the     *)
(* server holds are, one after the other, of the results 1, 2, ... that    *)
(* the plugin has sent.  When the stream ends without a death nothing is held  *)
(* and nothing is on the wire (Control), so that all results have been     *)
(* received.                                                               *)
(***************************************************************************)

\* How many results the client, or the server, holds.
Holds(result) == IF result = NoResult THEN 0 ELSE 1

\* Every result is in its place.
InOrder ==
    LET r == Len(received)
        m == Holds(message)
        s == Len(stream)
        h == Holds(held)
    IN  /\ \A i \in 1..r : received[i] = PathIn(i)
        /\ message # NoResult => message = PathIn(r + 1)
        /\ \A j \in 1..s : stream[j] = PathIn(r + m + j)
        /\ held # NoResult => held = r + m + s + 1
        /\ sent = r + m + s + h

\* What the phases of the two processes imply for each other.
Control ==
    /\ server = "idle" => /\ impl = "idle" /\ sent = 0 /\ held = NoResult
                          /\ implClosed = FALSE /\ stream = <<>>
    /\ client \in {"init", "call"} => server = "idle" /\ received = <<>>
    /\ client # "send" <=> message = NoResult
    /\ client # "returned" => closes = 0 /\ searcher = "searching"
    /\ client = "returned" /\ closes = 0 => received = <<SearchError>>
    /\ implClosed => sent = NumResults /\ impl = "returned"
    /\ server = "returned" => held = NoResult /\ implClosed

\* Either the call has failed, or the results come in order.
Flow ==
    \/ received = <<SearchError>> /\ client = "returned" /\ server = "idle"
    \/ InOrder

\* The type invariant without its Boolean variable.
Types ==
    /\ impl \in {"idle", "running", "returned"}
    /\ sent \in 0..NumResults
    /\ held \in 1..NoResult
    /\ server \in {"idle", "ranging", "returned", "dead"}
    /\ stream \in Seq(Paths)
    /\ client \in {"init", "call", "recv", "send", "returned"}
    /\ message \in Paths \cup {NoResult}
    /\ closes \in 0..1
    /\ searcher \in {"searching", "ended", "panicked"}
    /\ received \in Seq(Paths \cup {SearchError})

StreamInv ==
    /\ Types /\ implClosed \in BOOLEAN /\ Control /\ Flow
    /\ NothingLostOnStream

-----------------------------------------------------------------------------
\* The initial state.
LEMMA StreamInitHolds == StreamInit => StreamInv
<1> SUFFICES ASSUME StreamInit PROVE StreamInv
  OBVIOUS
<1> USE DEF StreamInit, NoResult
<1>1. Types
  BY PluginAssumption DEF Types
<1>2. Control
  BY DEF Control
<1>3. Flow
  BY DEF Flow, InOrder, Holds
<1>4. NothingLostOnStream
  BY DEF NothingLostOnStream
<1>5. implClosed = FALSE
  OBVIOUS
<1>6. QED
  BY <1>1, <1>2, <1>3, <1>4, <1>5 DEF StreamInv

\* An error that is reported is well typed.
LEMMA ReportIsTyped ==
    ASSUME NEW q \in Seq(Paths \cup {SearchError})
    PROVE  Append(q, SearchError) \in Seq(Paths \cup {SearchError})
  OBVIOUS

\* A message has a path, which is none of the marks for "no result".
LEMMA PathsArePaths ==
    /\ NoResult \notin Paths
    /\ \A i \in 1..NumResults : PathIn(i) \in Paths
  BY PluginAssumption DEF PathIn, Paths, NoResult, EmptyPath

\* The client opens the stream, or reports that it could not.
LEMMA CallKeeps ==
    ASSUME StreamInv, InitializePluginStore \/ OpenStream \/ OpenFails
    PROVE  StreamInv'
<1> USE DEF StreamInv
<1>1. CASE InitializePluginStore
  <2> USE <1>1 DEF InitializePluginStore, Report, pluginVars
  <2>1. Types'
    <3>1. \/ received' = received
          \/ received' = Append(received, SearchError)
      OBVIOUS
    <3>2. received' \in Seq(Paths \cup {SearchError})
      BY <3>1, ReportIsTyped DEF Types
    <3>3. QED
      BY <3>2 DEF Types
  <2>2. Control'
    BY DEF Control
  <2>3. Flow'
    BY DEF Flow, InOrder, Holds, Control
  <2>4. QED
    BY <2>1, <2>2, <2>3 DEF NothingLostOnStream, Control
<1>2. CASE OpenStream
  <2> USE <1>2 DEF OpenStream
  <2>1. Types'
    BY DEF Types
  <2>2. Control'
    BY DEF Control
  <2>3. Flow'
    BY DEF Flow, InOrder, Holds, Control
  <2>4. QED
    BY <2>1, <2>2, <2>3 DEF NothingLostOnStream, Control
<1>3. CASE OpenFails
  <2> USE <1>3 DEF OpenFails, Report, pluginVars
  <2>1. Types'
    BY ReportIsTyped DEF Types
  <2>2. Control'
    BY DEF Control
  <2>3. Flow'
    BY DEF Flow, Control
  <2>4. QED
    BY <2>1, <2>2, <2>3 DEF NothingLostOnStream, Control
<1>4. QED
  BY <1>1, <1>2, <1>3

\* Outside of the failed call the results are in order.
LEMMA OnceOpen ==
    ASSUME StreamInv, client \in {"recv", "send"} \/ server # "idle"
    PROVE  InOrder
  BY DEF StreamInv, Flow, Control

\* The client receives a path, and passes it on.
LEMMA TransferKeeps ==
    ASSUME StreamInv, Recv \/ Forward
    PROVE  StreamInv'
<1> USE DEF StreamInv
<1>0. NoResult \notin Paths
  BY PathsArePaths
<1>1. CASE Recv
  <2> USE <1>1 DEF Recv, pluginVars
  <2>1. Types'
    BY DEF Types
  <2>2. InOrder
    BY OnceOpen
  <2>3. message = NoResult /\ Len(received) \in Nat
    BY DEF Control, Types
  <2>4. Head(stream) = PathIn(Len(received) + 1)
    <3>1. stream[1] = PathIn(Len(received) + 0 + 1)
      BY <2>2, <2>3 DEF InOrder, Holds, Types
    <3>2. QED
      BY <3>1, <2>3 DEF Types
  <2>5. message' # NoResult
    BY <1>0 DEF Types
  <2>6. Control'
    BY <2>5 DEF Control
  <2>7. InOrder'
    <3>1. /\ Holds(message) = 0 /\ Holds(message') = 1
          /\ Holds(held) \in Nat /\ Holds(held') = Holds(held)
          /\ Len(stream') = Len(stream) - 1 /\ Len(stream) \in Nat
          /\ \A k \in 1..Len(stream') : stream'[k] = stream[k + 1]
      BY <2>3, <2>5 DEF Holds, Types
    <3>2. \A k \in 1..Len(stream') :
            stream'[k] = PathIn(Len(received) + 1 + k)
      <4>1. TAKE k \in 1..Len(stream')
      <4>2. /\ k + 1 \in 1..Len(stream)
            /\ Len(received) + 0 + (k + 1) = Len(received) + 1 + k
        BY <3>1, <2>3
      <4>3. stream[k + 1] = PathIn(Len(received) + 0 + (k + 1))
        BY <2>2, <3>1, <4>2 DEF InOrder
      <4>4. QED
        BY <3>1, <4>2, <4>3
    <3>3. /\ message' = PathIn(Len(received) + 1)
          /\ \A i \in 1..Len(received) : received[i] = PathIn(i)
          /\ held # NoResult =>
               held = Len(received) + 0 + Len(stream) + 1
          /\ sent = Len(received) + 0 + Len(stream) + Holds(held)
      BY <2>2, <2>4, <3>1 DEF InOrder
    <3>4. /\ held # NoResult =>
               held = Len(received) + 1 + Len(stream') + 1
          /\ sent = Len(received) + 1 + Len(stream') + Holds(held)
      BY ONLY <3>1, <3>3, <2>3
    <3>5. QED
      BY <3>1, <3>2, <3>3, <3>4 DEF InOrder
  <2>8. QED
    BY <2>1, <2>6, <2>7 DEF Flow, NothingLostOnStream, Control
<1>2. CASE Forward
  <2> USE <1>2 DEF Forward, pluginVars
  <2>1. InOrder /\ message # NoResult
    BY OnceOpen DEF Control
  <2>2. Types'
    BY <2>1 DEF Types
  <2>3. Control'
    BY DEF Control
  <2>4. InOrder'
    <3>1. /\ Holds(message) = 1 /\ Holds(message') = 0
          /\ Holds(held) \in Nat /\ Holds(held') = Holds(held)
          /\ Len(stream) \in Nat /\ Len(received) \in Nat
          /\ Len(received') = Len(received) + 1
          /\ received'[Len(received) + 1] = message
          /\ \A k \in 1..Len(received) : received'[k] = received[k]
      BY <2>1 DEF Holds, Types
    <3>2. QED
      BY <2>1, <3>1 DEF InOrder
  <2>5. QED
    BY <2>2, <2>3, <2>4 DEF Flow, NothingLostOnStream, Control
<1>3. QED
  BY <1>1, <1>2

\* The stream is over: what has been received is all there is.
LEMMA EndKeeps ==
    ASSUME StreamInv, RecvFails \/ SearcherEnds
    PROVE  StreamInv'
<1> USE DEF StreamInv, NoResult
<1>1. CASE RecvFails
  <2> USE <1>1 DEF RecvFails, pluginVars
  <2>1. InOrder
    BY OnceOpen
  <2>2. Types' /\ Control'
    BY DEF Types, Control
  <2>3. Flow'
    BY <2>1 DEF Flow, InOrder, Holds
  <2>4. ASSUME server # "dead" PROVE received = Messages
    <3>1. Len(received) = NumResults
      BY <2>1, <2>4, PluginAssumption DEF InOrder, Holds, Control, Types
    <3>2. \A i \in 1..Len(received) : received[i] = PathIn(i)
      BY <2>1 DEF InOrder
    <3>3. QED
      BY <3>1, <3>2 DEF Types, Messages
  <2>5. QED
    BY <2>2, <2>3, <2>4 DEF NothingLostOnStream
<1>2. CASE SearcherEnds
  <2> USE <1>2 DEF SearcherEnds, pluginVars
  <2>1. Types' /\ Control'
    BY DEF Types, Control
  <2>2. Flow'
    BY DEF Flow, InOrder, Holds
  <2>3. closes = 0 => received = <<SearchError>>
    BY DEF Control
  <2>4. QED
    BY <2>1, <2>2, <2>3 DEF NothingLostOnStream, Types
<1>3. QED
  BY <1>1, <1>2

-----------------------------------------------------------------------------
\* The plugin sends a result, and the server takes and passes it on.
LEMMA ServingKeeps ==
    ASSUME StreamInv, ImplSends \/ ServerSends
    PROVE  StreamInv'
<1> USE DEF StreamInv
<1>1. InOrder
  BY OnceOpen DEF ImplSends, ServerSends
<1>2. CASE ImplSends
  <2> USE <1>2 DEF ImplSends, clientVars
  <2>1. /\ held' = sent + 1 /\ sent + 1 \in 1..NumResults
        /\ held' # NoResult
    BY PluginAssumption DEF Types, NoResult
  <2>2. Types'
    BY <2>1, PluginAssumption DEF Types, NoResult
  <2>3. Control'
    BY <2>1, PluginAssumption DEF Control, Types
  <2>4. /\ Holds(held) = 0 /\ Holds(held') = 1
        /\ Holds(message) \in Nat /\ Holds(message') = Holds(message)
        /\ Len(stream) \in Nat /\ Len(received) \in Nat
    BY <2>1 DEF Holds, Types
  <2>5. InOrder'
    BY <1>1, <2>1, <2>4 DEF InOrder
  <2>6. QED
    BY <2>2, <2>3, <2>5 DEF Flow, NothingLostOnStream
<1>3. CASE ServerSends
  <2> USE <1>3 DEF ServerSends, clientVars
  <2>1. held \in 1..NumResults /\ PathIn(held) \in Paths
    BY PluginAssumption, PathsArePaths DEF Types, NoResult
  <2>2. Types'
    BY <2>1, PluginAssumption DEF Types, NoResult
  <2>3. Control'
    BY DEF Control
  <2>4. /\ Len(stream') = Len(stream) + 1
        /\ stream'[Len(stream) + 1] = PathIn(held)
        /\ \A j \in 1..Len(stream) : stream'[j] = stream[j]
    BY <2>1 DEF Types
  <2>5. /\ Holds(held) = 1 /\ Holds(held') = 0
        /\ Holds(message) \in Nat /\ Holds(message') = Holds(message)
        /\ Len(stream) \in Nat /\ Len(received) \in Nat
    BY DEF Holds, Types
  <2>6. held = Len(received) + Holds(message) + (Len(stream) + 1)
    BY <1>1, <2>5 DEF InOrder
  <2>7. InOrder'
    BY <1>1, <2>4, <2>5, <2>6 DEF InOrder
  <2>8. QED
    BY <2>2, <2>3, <2>7 DEF Flow, NothingLostOnStream
<1>4. QED
  BY <1>2, <1>3

\* The plugin, or the handler, ends; or their process dies.
LEMMA ReturningKeeps ==
    ASSUME StreamInv, ImplReturns \/ ServerReturns \/ Die
    PROVE  StreamInv'
<1> USE DEF StreamInv, ImplReturns, ServerReturns, Die, clientVars
<1>1. Types'
  BY DEF Types
<1>2. implClosed' \in BOOLEAN
  BY PluginAssumption
<1>3. Control'
  BY DEF Control
<1>4. Flow'
  BY DEF Flow, InOrder, Holds, Control
<1>5. NothingLostOnStream'
  BY DEF NothingLostOnStream
<1>6. QED
  BY <1>1, <1>2, <1>3, <1>4, <1>5

\* Every step keeps the invariant.
LEMMA StreamStepKeeps == StreamInv /\ [StreamNext]_streamVars => StreamInv'
<1> SUFFICES ASSUME StreamInv, [StreamNext]_streamVars PROVE StreamInv'
  OBVIOUS
<1>1. CASE HostStep
  BY <1>1, CallKeeps, TransferKeeps, EndKeeps DEF HostStep
<1>2. CASE PluginStep \/ Die
  BY <1>2, ServingKeeps, ReturningKeeps DEF PluginStep
<1>3. CASE Ended \/ UNCHANGED streamVars
  <2>1. UNCHANGED streamVars
    BY <1>3 DEF Ended
  <2>2. Types' /\ implClosed' = implClosed
    BY <2>1 DEF streamVars, StreamInv, Types
  <2>3. Control' /\ Flow'
    BY <2>1 DEF streamVars, StreamInv, Control, Flow, InOrder, Holds
  <2>4. NothingLostOnStream'
    BY <2>1 DEF streamVars, StreamInv, NothingLostOnStream
  <2>5. QED
    BY <2>2, <2>3, <2>4 DEF StreamInv
<1>4. QED
  BY <1>1, <1>2, <1>3 DEF StreamNext

\* What the invariant says of the results that have been received.
LEMMA InOrderIsPrefix == StreamInv => ReceivedInOrder
<1> SUFFICES ASSUME StreamInv, InOrder PROVE IsPrefix(received, Messages)
  BY DEF StreamInv, Flow, ReceivedInOrder
<1>1. Len(received) \in 0..NumResults
  <2>1. /\ Holds(message) \in Nat /\ Holds(held) \in Nat
        /\ Len(stream) \in Nat /\ Len(received) \in Nat
        /\ sent \in 0..NumResults
    BY DEF Holds, StreamInv, Types
  <2>2. sent = Len(received) + Holds(message) + Len(stream) + Holds(held)
    BY DEF InOrder
  <2>3. QED
    BY <2>1, <2>2, PluginAssumption
<1>2. \A i \in 1..Len(received) : received[i] = PathIn(i)
  BY DEF InOrder
<1>3. QED
  BY <1>1, <1>2, PluginAssumption DEF StreamInv, Types, IsPrefix, Messages

(***************************************************************************)
(* The state of both processes and of the stream is well typed.            *)
(***************************************************************************)
THEOREM StreamTypes == StreamSpec => []StreamTypeOK
<1>1. StreamInit => StreamInv
  BY StreamInitHolds
<1>2. StreamInv /\ [StreamNext]_streamVars => StreamInv'
  BY StreamStepKeeps
<1>3. StreamInv => StreamTypeOK
  BY DEF StreamInv, Types, StreamTypeOK
<1>4. QED
  BY <1>1, <1>2, <1>3, PTL DEF StreamSpec

(***************************************************************************)
(* The collector gets a message for each result of the plugin, in their    *)
(* order, none twice, none skipped; and for all of them, unless the plugin *)
(* dies.  For a result that is an error it is a message without a path.    *)
(***************************************************************************)
THEOREM StreamIsFaithful == StreamSpec => []DeliveredInOrder
<1>1. StreamInit => StreamInv
  BY StreamInitHolds
<1>2. StreamInv /\ [StreamNext]_streamVars => StreamInv'
  BY StreamStepKeeps
<1>3. StreamInv => DeliveredInOrder
  BY InOrderIsPrefix DEF StreamInv, DeliveredInOrder
<1>4. QED
  BY <1>1, <1>2, <1>3, PTL DEF StreamSpec

-----------------------------------------------------------------------------
(***************************************************************************)
(* LazyInit.  The mutex keeps the others out while a caller initialises,   *)
(* and the flag is set only after the last field.                          *)
(***************************************************************************)
\* The mutex is held exactly from Lock to Unlock or Fail.
MutexInv ==
    \A c \in Callers : caller[c] \in {"recheck", "init", "unlock"} => mu = c

\* The running attempt has assigned the first "position" fields.
ProgressInv ==
    (\E c \in Callers : caller[c] = "init") =>
        /\ ~ready
        /\ attempts > 0
        /\ \A f \in Fields : f <= position => fields[f] = attempts

\* Once the flag is set all fields come from the last attempt.
ReadyInv == ready => \A f \in Fields : fields[f] = attempts

\* Whoever is past ensure() has seen the flag.
UserInv == \A c \in Callers : caller[c] \in {"using", "unlock"} => ready

LazyInv == LazyTypeOK /\ MutexInv /\ ProgressInv /\ ReadyInv /\ UserInv

\* At the start nobody is inside ensure() and no field is assigned.
LEMMA LazyInitHolds == EnsureInit => LazyInv
<1> SUFFICES ASSUME EnsureInit PROVE LazyInv
  OBVIOUS
<1>1. LazyTypeOK
  <2>1. 0 \in 0..MaxAttempts /\ 0 \in 0..NumFields
    BY LazyInitAssumption
  <2>2. fields \in [Fields -> 0..MaxAttempts]
    BY <2>1 DEF EnsureInit
  <2>3. ready \in BOOLEAN /\ mu \in Callers \cup {NoCaller}
    BY DEF EnsureInit
  <2>4. caller \in [Callers -> {"idle", "load", "lock", "recheck", "init",
                            "unlock", "using", "failed"}]
    BY DEF EnsureInit
  <2> QED
    BY <2>1, <2>2, <2>3, <2>4 DEF EnsureInit, LazyTypeOK
<1>2. \A c \in Callers : caller[c] = "idle"
  BY DEF EnsureInit
<1>3. MutexInv /\ ProgressInv /\ UserInv
  BY <1>2 DEF MutexInv, ProgressInv, UserInv
<1>4. ReadyInv
  BY DEF EnsureInit, ReadyInv
<1> QED
  BY <1>1, <1>3, <1>4 DEF LazyInv

\* Every step of every caller keeps the invariant, whether the attempt to
\* initialise fails or succeeds.
LEMMA LazyStepKeeps == LazyInv /\ [EnsureNext]_ensureVars => LazyInv'
<1> SUFFICES ASSUME LazyInv, [EnsureNext]_ensureVars PROVE LazyInv'
  OBVIOUS
<1> USE LazyInitAssumption
   DEF LazyInv, LazyTypeOK, MutexInv, ProgressInv, ReadyInv, UserInv, Fields, Reach
<1>1. CASE UNCHANGED ensureVars
  BY <1>1 DEF ensureVars
<1>2. ASSUME NEW c \in Callers, Done(c) PROVE LazyInv'
  BY <1>2 DEF Done
<1>3. ASSUME NEW c \in Callers, Ensure(c) PROVE LazyInv'
  BY <1>3 DEF Ensure
<1>4. ASSUME NEW c \in Callers, Load(c) PROVE LazyInv'
  BY <1>4 DEF Load
<1>5. ASSUME NEW c \in Callers, Lock(c) PROVE LazyInv'
  BY <1>5 DEF Lock
<1>6. ASSUME NEW c \in Callers, Recheck(c) PROVE LazyInv'
  <2>1. CASE ~ready /\ StartInit(c)
    BY <2>1 DEF StartInit
  <2>2. CASE caller[c] = "recheck" /\ ready
    BY <1>6, <2>2 DEF Recheck
  <2> QED
    BY <1>6, <2>1, <2>2 DEF Recheck
<1>7. ASSUME NEW c \in Callers, Assign(c) PROVE LazyInv'
  BY <1>7 DEF Assign
<1>8. ASSUME NEW c \in Callers, Fail(c) PROVE LazyInv'
  BY <1>8 DEF Fail
<1>9. ASSUME NEW c \in Callers, Publish(c) PROVE LazyInv'
  BY <1>9 DEF Publish
<1>10. ASSUME NEW c \in Callers, Unlock(c) PROVE LazyInv'
  BY <1>10 DEF Unlock
<1>11. ASSUME NEW c \in Callers, Return(c) PROVE LazyInv'
  BY <1>11 DEF Return
<1> QED
  BY <1>1, <1>2, <1>3, <1>4, <1>5, <1>6, <1>7, <1>8, <1>9, <1>10, <1>11
  DEF EnsureNext, Advance

\* The invariant holds in every reachable state.
LEMMA LazyInvHolds == EnsureSpec => []LazyInv
<1>1. EnsureInit => LazyInv
  BY LazyInitHolds
<1>2. LazyInv /\ [EnsureNext]_ensureVars => LazyInv'
  BY LazyStepKeeps
<1> QED
  BY <1>1, <1>2, PTL DEF EnsureSpec

\* The variables of lazyInit and of the store keep their types.
THEOREM LazyInitTypes == EnsureSpec => []LazyTypeOK
<1>1. LazyInv => LazyTypeOK
  BY DEF LazyInv
<1> QED
  BY <1>1, LazyInvHolds, PTL

\* initialize() is run by one goroutine at a time, the holder of the mutex.
THEOREM Serialised == EnsureSpec => []InitIsSerial
<1>1. LazyInv => InitIsSerial
  BY DEF LazyInv, MutexInv, InitIsSerial
<1> QED
  BY <1>1, LazyInvHolds, PTL

\* No caller of ensure() or done() ever uses a half-populated store, however
\* many attempts have failed before.
THEOREM FullyPopulated == EnsureSpec => []UsersSeeOneInit
<1>1. LazyInv => UsersSeeOneInit
  BY DEF LazyInv, ReadyInv, UserInv, UsersSeeOneInit
<1> QED
  BY <1>1, LazyInvHolds, PTL

\* After a success the fields never change again: users need no lock.
THEOREM OnceOnly == EnsureSpec => InitHappensOnce
<1>1. LazyInv /\ [EnsureNext]_ensureVars =>
        [ready => UNCHANGED <<ready, fields, attempts>>]_ensureVars
  <2> SUFFICES ASSUME LazyInv, EnsureNext, ready
               PROVE  UNCHANGED <<ready, fields, attempts>>
    BY DEF ensureVars
  <2>1. PICK c \in Callers : Done(c) \/ Ensure(c) \/ Advance(c) \/ Return(c)
    BY DEF EnsureNext
  <2>2. caller[c] # "init"
    BY DEF LazyInv, ProgressInv
  <2> QED
    BY <2>1, <2>2
    DEF Done, Ensure, Advance, Return, Load, Lock, Recheck, StartInit,
        Assign, Fail, Publish, Unlock
<1> QED
  BY <1>1, LazyInvHolds, PTL DEF EnsureSpec, InitHappensOnce

-----------------------------------------------------------------------------
(***************************************************************************)
(* SearchIndex.  Types hold of any number of invocations; that kills do no *)
(* harm and that a used index is as new as its state holds of invocations  *)
(* that follow one another, each killed or failing to write anywhere: two  *)
(* that write at once may mix their contents.                              *)
(***************************************************************************)

\* What is written, overwritten or torn is a file.
LEMMA FileTypes ==
  ASSUME NEW t \in 0..MaxTime, NEW of \in 0..MaxTime, NEW form \in Forms
  PROVE  /\ Blank(form) \in File /\ Index(t) \in File /\ State(t, of) \in File
         /\ \A file \in File : Overwrite(file, Index(t)) \subseteq File
         /\ PrefixesOf(Index(t)) \subseteq File
BY IndexAssumption DEF Blank, Index, State, Overwrite, PrefixesOf, File, Forms

\* What a step leaves in the files and in memory is of its type.
LEMMA TypesStep ==
  ASSUME TypeOK, [Next]_vars
  PROVE  TypeOK'
<1>1. now \in 0..MaxTime /\ 0 \in 0..MaxTime
  BY IndexAssumption DEF TypeOK
<1>2. {"absent", "empty", "torn", "corrupt", "whole"} = Forms
  BY DEF Forms
<1>3. CASE UNCHANGED vars
  BY <1>3 DEF TypeOK, vars
<1>4. CASE Tick
  BY <1>4, IndexAssumption DEF TypeOK, Tick, files
<1>5. ASSUME NEW p \in Procs, Step(p) PROVE TypeOK'
  <2>1. CASE Start(p)
    BY <2>1 DEF TypeOK, Start, Goto, files, Modes
  <2>2. CASE New(p)
    BY <2>2 DEF TypeOK, New, Goto, files
  <2>3. CASE Decide(p)
    BY <2>3 DEF TypeOK, Decide, Goto, files
  <2>4. CASE EndSearch(p)
    BY <2>4 DEF TypeOK, EndSearch, Goto, files
  <2>5. CASE CreateIndex(p)
    BY <2>5, <1>1, <1>2, FileTypes DEF TypeOK, CreateIndex, Goto
  <2>6. CASE WriteIndex(p) \/ TearIndex(p)
    <3>1. indexFile' \in File
      BY <2>6, <1>1, <1>2, FileTypes DEF TypeOK, WriteIndex, TearIndex
    <3>2. QED
      BY <2>6, <3>1 DEF TypeOK, WriteIndex, TearIndex, Goto
  <2>7. CASE CreateState(p)
    BY <2>7, <1>1, <1>2, FileTypes DEF TypeOK, CreateState, Goto
  <2>8. CASE WriteState(p) \/ TearState(p)
    <3>1. stateFile' \in File
      BY <2>8, <1>1, <1>2, FileTypes DEF TypeOK, WriteState, TearState
    <3>2. QED
      BY <2>8, <3>1 DEF TypeOK, WriteState, TearState, Goto
  <2>9. CASE Exit(p)
    BY <2>9, <1>1, <1>2, FileTypes DEF TypeOK, Exit, Goto, files
  <2>10. QED
    BY <1>5, <2>1, <2>2, <2>3, <2>4, <2>5, <2>6, <2>7, <2>8, <2>9 DEF Step
<1>6. QED
  BY <1>3, <1>4, <1>5 DEF Next

(***************************************************************************)
(* Type correctness: any number of invocations, whatever they overwrite or *)
(* tear.                                                                   *)
(***************************************************************************)
THEOREM IndexTypes == Spec => []TypeOK
<1>1. Init => TypeOK
  <2>1. 0 \in 0..MaxTime /\ "absent" \in Forms
    BY IndexAssumption DEF Forms
  <2>2. Blank("absent") \in File
    BY <2>1, FileTypes
  <2>3. QED
    BY <2>1, <2>2 DEF Init, TypeOK, Modes
<1>2. QED
  BY <1>1, TypesStep, PTL DEF Spec

(***************************************************************************)
(* Invocations that follow one another.  Without a write that failed, what *)
(* is in a file or in memory is absent, empty or whole.                    *)
(***************************************************************************)
OneByOne == \E p : Procs = {p}

IsWholeOrNone(file) == file.form \in {"absent", "empty", "whole"}

WholeInv ==
  \A p \in Procs :
    /\ pc[p] = "write" => indexFile.form = "empty"
    /\ pc[p] = "use" => HasContentOfKind(p)
    /\ \/ damaged
       \/ /\ IsWholeOrNone(indexFile) /\ IsWholeOrNone(stateFile)
          /\ IsWholeOrNone(loaded[p]) /\ pc[p] # "failed"

\* Every step of the one invocation keeps the files whole, or absent.
LEMMA WholeStep ==
  ASSUME OneByOne, TypeOK, WholeInv, [Next]_vars
  PROVE  WholeInv'
<1>1. PICK p : Procs = {p}
  BY DEF OneByOne
<1>2. /\ pc = [q \in {p} |-> pc[q]] /\ loaded = [q \in {p} |-> loaded[q]]
      /\ damaged \in BOOLEAN
  BY <1>1 DEF TypeOK
<1>3. CASE UNCHANGED vars \/ Tick
  BY <1>3 DEF WholeInv, vars, Tick, files, HasContentOfKind
<1>4. CASE Step(p)
  <2>1. CASE Start(p)
    BY <2>1, <1>1, <1>2 DEF WholeInv, Start, Goto, files
  <2>2. CASE New(p)
    BY <2>2, <1>1, <1>2 DEF WholeInv, New, Goto, files, IsWholeOrNone
  <2>3. CASE Decide(p)
    <3>1. PICK to \in {"search", "use", "failed"} :
            /\ Goto(p, to)
            /\ to = "failed" => stateFile.form = "corrupt"
            /\ to = "use" => HasContentOfKind(p)
      BY <2>3 DEF Decide
    <3>2. QED
      BY <2>3, <3>1, <1>1, <1>2
      DEF WholeInv, Decide, Goto, files, IsWholeOrNone, HasContentOfKind
  <2>4. CASE EndSearch(p)
    BY <2>4, <1>1, <1>2 DEF WholeInv, EndSearch, Goto, files
  <2>5. CASE CreateIndex(p)
    BY <2>5, <1>1, <1>2
    DEF WholeInv, CreateIndex, Goto, Blank, IsWholeOrNone
  <2>6. CASE WriteIndex(p)
    BY <2>6, <1>1, <1>2
    DEF WholeInv, WriteIndex, Goto, Overwrite, Index, IsWholeOrNone
  <2>7. CASE TearIndex(p) \/ TearState(p)
    BY <2>7, <1>1, <1>2 DEF WholeInv, TearIndex, TearState, Goto
  <2>8. CASE CreateState(p) \/ WriteState(p)
    BY <2>8, <1>1, <1>2
    DEF WholeInv, CreateState, WriteState, Goto, Blank, State, IsWholeOrNone
  <2>9. CASE Exit(p)
    BY <2>9, <1>1, <1>2 DEF WholeInv, Exit, Goto, Blank, IsWholeOrNone, files
  <2>10. QED
    BY <1>4, <2>1, <2>2, <2>3, <2>4, <2>5, <2>6, <2>7, <2>8, <2>9 DEF Step
<1>5. QED
  BY <1>1, <1>3, <1>4 DEF Next

(***************************************************************************)
(* Of invocations that follow one another, whatever is killed at whatever  *)
(* step: each reads files it can use, and what it replays from an index is *)
(* the whole result of one search.                                         *)
(***************************************************************************)
THEOREM KillsDoNoHarm ==
  ASSUME OneByOne
  PROVE  Spec => []KillsAreHarmless
<1>1. Init => WholeInv
  <2> SUFFICES ASSUME Init PROVE WholeInv
    OBVIOUS
  <2>1. IsWholeOrNone(Blank("absent"))
    BY DEF IsWholeOrNone, Blank
  <2>2. \A p \in Procs : pc[p] = "idle" /\ loaded[p] = Blank("absent")
    BY DEF Init
  <2>3. QED
    BY <2>1, <2>2 DEF Init, WholeInv
<1>2. TypeOK /\ WholeInv /\ [Next]_vars => WholeInv'
  BY OneByOne, WholeStep
<1>3. WholeInv => KillsAreHarmless
  <2> SUFFICES ASSUME WholeInv, ~damaged, NEW p \in Procs
               PROVE  /\ pc[p] = "use" => loaded[p].form = "whole"
                      /\ pc[p] # "failed"
    BY DEF KillsAreHarmless, UsedIndexIsWhole, NeverUnreadable
  <2>1. IsWholeOrNone(loaded[p]) /\ pc[p] # "failed"
    BY DEF WholeInv
  <2>2. pc[p] = "use" => HasContentOfKind(p)
    BY DEF WholeInv
  <2>3. QED
    BY <2>1, <2>2 DEF IsWholeOrNone, HasContentOfKind
<1>4. QED
  BY <1>1, <1>2, <1>3, IndexTypes, PTL DEF Spec

(***************************************************************************)
(* The times.  Nothing is of the future, and the index on disk or in the   *)
(* memory of who is to decide is no older than the state says.             *)
(***************************************************************************)
HasTime(file) == file.form \in {"torn", "whole"}
Searching ==
  {"search", "create", "write", "createState", "writeState"}

TimeInv ==
  /\ stateFile.of <= now
  /\ HasTime(indexFile) => indexFile.at >= stateFile.of
  /\ \A p \in Procs :
       /\ pc[p] = "write" => indexFile.form = "empty"
       /\ pc[p] = "decide" /\ HasTime(loaded[p]) =>
            loaded[p].at >= stateFile.of
       /\ began[p] <= now
       /\ pc[p] \in Searching => began[p] >= stateFile.of
       /\ pc[p] \in {"createState", "writeState"} =>
            indexFile.at = began[p]

\* Every step of the one invocation keeps the times in order.
LEMMA TimeStep ==
  ASSUME OneByOne, TypeOK, TimeInv, [Next]_vars
  PROVE  TimeInv'
<1>1. PICK p : Procs = {p}
  BY DEF OneByOne
<1>2. /\ now \in Nat /\ began[p] \in Nat
      /\ stateFile.of \in Nat /\ stateFile.at \in Nat
      /\ indexFile.at \in Nat /\ loaded[p].at \in Nat
  BY <1>1, IndexAssumption DEF TypeOK, File
<1>3. /\ DOMAIN pc = {p} /\ DOMAIN loaded = {p} /\ DOMAIN began = {p}
  BY <1>1 DEF TypeOK
<1>4. CASE UNCHANGED vars
  BY <1>4 DEF TimeInv, vars
<1>5. CASE Tick
  BY <1>1, <1>2, <1>5 DEF TimeInv, Tick, files
<1>6. CASE Step(p)
  <2>1. CASE Start(p)
    BY <2>1, <1>1, <1>3 DEF TimeInv, Start, Goto, files, Searching
  <2>2. CASE New(p)
    BY <2>2, <1>1, <1>3 DEF TimeInv, New, Goto, files, Searching
  <2>3. CASE Decide(p)
    <3>1. PICK to \in {"search", "use", "failed"} : Goto(p, to)
      BY <2>3 DEF Decide
    <3>2. began' = [began EXCEPT ![p] = now]
          /\ UNCHANGED <<now, files, loaded>>
      BY <2>3 DEF Decide
    <3>3. QED
      BY <3>1, <3>2, <1>1, <1>2, <1>3 DEF TimeInv, Goto, files, Searching
  <2>4. CASE EndSearch(p)
    BY <2>4, <1>1, <1>3 DEF TimeInv, EndSearch, Goto, files, Searching
  <2>5. CASE CreateIndex(p)
    BY <2>5, <1>1, <1>3
    DEF TimeInv, CreateIndex, Goto, Blank, Searching, HasTime
  <2>6. CASE WriteIndex(p)
    <3>1. /\ pc[p] = "write" /\ Goto(p, "createState")
          /\ indexFile' = Index(began[p])
          /\ UNCHANGED <<now, stateFile, loaded, began>>
      BY <2>6, <1>1 DEF TimeInv, WriteIndex, Overwrite
    <3>2. QED
      BY <3>1, <1>1, <1>2, <1>3
      DEF TimeInv, Goto, Index, Searching, HasTime
  <2>7. CASE TearIndex(p)
    <3>1. /\ Goto(p, "done") /\ UNCHANGED <<now, stateFile, loaded, began>>
          /\ HasTime(indexFile') => indexFile'.at = began[p]
      BY <2>7 DEF TearIndex, PrefixesOf, Index, Blank, HasTime
    <3>2. pc[p] \in Searching
      BY <2>7 DEF TearIndex, Searching
    <3>3. QED
      BY <3>1, <3>2, <1>1, <1>2, <1>3 DEF TimeInv, Goto, Searching
  <2>8. CASE CreateState(p) \/ TearState(p)
    <3>1. stateFile'.of = 0 /\ UNCHANGED <<now, indexFile, loaded, began>>
      BY <2>8 DEF CreateState, TearState, Blank
    <3>2. CASE pc[p] = "createState" /\ Goto(p, "writeState")
      <4>1. pc'[p] = "writeState" /\ indexFile.at = began[p]
        BY <3>2, <1>1, <1>3 DEF Goto, TimeInv
      <4>2. QED
        BY <3>1, <4>1, <1>1, <1>2 DEF TimeInv, Searching
    <3>3. CASE Goto(p, "done")
      <4>1. pc'[p] = "done"
        BY <3>3, <1>3 DEF Goto
      <4>2. QED
        BY <3>1, <4>1, <1>1, <1>2 DEF TimeInv, Searching
    <3>4. QED
      BY <2>8, <3>2, <3>3 DEF CreateState, TearState
  <2>9. CASE WriteState(p)
    BY <2>9, <1>1, <1>2, <1>3
    DEF TimeInv, WriteState, Goto, State, Searching, HasTime
  <2>10. CASE Exit(p)
    BY <2>10, <1>1, <1>2, <1>3
    DEF TimeInv, Exit, Goto, Blank, Searching, files, HasTime
  <2>11. QED
    BY <1>6, <2>1, <2>2, <2>3, <2>4, <2>5, <2>6, <2>7, <2>8, <2>9, <2>10
    DEF Step
<1>7. QED
  BY <1>1, <1>4, <1>5, <1>6 DEF Next

(***************************************************************************)
(* Of invocations that follow one another, each killed or failing to write *)
(* anywhere: an index is only replayed while its state is young enough,    *)
(* and it is the index the state was written for or a later one.           *)
(***************************************************************************)
THEOREM GateIsHonest ==
  ASSUME OneByOne
  PROVE  Spec => GatedUseIsDescribed
<1>1. Init => TimeInv
  <2> SUFFICES ASSUME Init PROVE TimeInv
    OBVIOUS
  <2>1. Blank("absent").form = "absent" /\ Blank("absent").of = 0
    BY DEF Blank
  <2>2. \A p \in Procs : pc[p] = "idle" /\ began[p] = 0
    BY DEF Init
  <2>3. QED
    BY <2>1, <2>2 DEF Init, TimeInv, HasTime, Searching
<1>2. TypeOK /\ TimeInv /\ [Next]_vars => TimeInv'
  BY OneByOne, TimeStep
<1>3. TypeOK /\ TimeInv /\ [Next]_vars =>
        [\A p \in Procs :
           pc[p] = "decide" /\ pc'[p] = "use" /\ mode[p] = "gate" =>
             /\ stateFile.form = "whole"
             /\ now < stateFile.at + RefreshAfter
             /\ loaded[p].at >= stateFile.of]_vars
  <2> SUFFICES ASSUME TypeOK, TimeInv, Next, NEW p \in Procs,
                      pc[p] = "decide", pc'[p] = "use", mode[p] = "gate"
               PROVE  /\ stateFile.form = "whole"
                      /\ now < stateFile.at + RefreshAfter
                      /\ loaded[p].at >= stateFile.of
    BY DEF vars
  <2>1. Step(p)
    BY OneByOne DEF Next, Tick, OneByOne
  <2>2. Decide(p)
    BY <2>1 DEF Step, Start, New, EndSearch, CreateIndex, WriteIndex,
         TearIndex, CreateState, WriteState, TearState, Exit, Goto, TypeOK
  <2>3. HasContentOfKind(p) /\ ShouldBeUsed
    BY <2>2 DEF Decide, Goto, TypeOK
  <2>4. QED
    BY <2>3 DEF HasContentOfKind, ShouldBeUsed, TimeInv, HasTime
<1>4. QED
  BY <1>1, <1>2, <1>3, IndexTypes, PTL DEF Spec, GatedUseIsDescribed
=============================================================================
