------------------------------- MODULE Search -------------------------------
(***************************************************************************)
(* One call of doSearch (pkg/search.go) and the command that consumes its  *)
(* result channel.  For every configured store doSearch launches either    *)
(* one goroutine that replays the store's index, or a pair: a searcher     *)
(* that runs store.StartSearch and a collector that reads the discovered   *)
(* kubeconfigs, forwards their contexts and finally writes the index.  All *)
(* of them share one unbuffered result channel; a WaitGroup with one slot  *)
(* per store tells the closer goroutine when that channel may be closed.   *)
(*                                                                         *)
(* Both channels are unbuffered, so a send and its receive are one step.   *)
(* What a kubeconfig contains is chosen when it is fetched; the order of   *)
(* the contexts inside one kubeconfig (and Go's map order when an index is *)
(* replayed) is left open.                                                 *)
(***************************************************************************)
EXTENDS Integers, FiniteSets

CONSTANTS
    NumStores,     \* len(stores); a store is its position in that slice
    Optional,      \* stores configured with "required: false"
    EnvAndFlag,    \* stores whose id is filesystem.env-and-flag
    Contexts,      \* context names
    Aliases,       \* alias names
    Paths,         \* paths of kubeconfigs
    Offers,        \* Offers[s]: the results StartSearch of s may send
    ErrorsAllowed, \* stores whose StartSearch may also send an error result
    Commands,      \* command lines, see Command
    SearchError,   \* a SearchResult whose Error is set
    None           \* no alias, no result, no index entry

Stores == 1..NumStores

\* Successful search results: a path with the tags that a search looks at, the
\* cluster-name label and the aliases of the store.
Found == [path : Paths, label : Aliases \cup {None}, aliases : SUBSET Aliases]

\* A command that searches.  It uses the indexes as the refresh gate allows
\* (DoSearch), ignores them (DoSearch with --no-index) or uses whatever index
\* there is (DoSearchFromIndex); and it returns at the first wanted context,
\* or drains the channel if it wants none in particular.
Command == [uses : {"gate", "none", "any"}, wanted : SUBSET Contexts]

ASSUME SearchAssumption ==
    /\ NumStores \in Nat
    /\ Optional \subseteq Stores
    /\ EnvAndFlag \subseteq Stores
    /\ Offers \in [Stores -> SUBSET Found]
    /\ ErrorsAllowed \subseteq Stores
    /\ Commands \subseteq Command
    /\ None \notin Aliases \cup Contexts \cup Found \cup {SearchError}
    /\ SearchError \notin Found

VARIABLES
    command,     \* the command that is run
    pc,          \* where doSearch is
    next,        \* the store the loop of doSearch is at
    contextToAlias, \* alias mapping loaded once, at the start of the search
    aliasFiles,  \* the alias directory: alias name -> context
    indexFile,   \* what the store's index and index state files allow
    index,       \* the content of the store's index file
    searcher,    \* goroutine running StartSearch
    offered,     \* results StartSearch has not sent yet
    worker,      \* goroutine that sends on the result channel for a store
    inbox,       \* result a collector has received and not processed yet
    outbox,      \* messages the worker still has to send
    local,       \* localContextToPathMapping and localContextToTagsMapping:
                 \* the path and the tags of each context
    wg,          \* counter of wgResultChannel
    closed,      \* the result channel is closed
    consumer,    \* the command ranging over the result channel
    delivered,   \* messages the consumer has received
    produced,    \* history: every message a worker has decided to send
    storeFailed, \* history: StartSearch of the store has sent an error
    stdout       \* where os.Stdout points: "terminal" or "devnull"

vars == <<command, pc, next, contextToAlias, aliasFiles, indexFile, index,
          searcher, offered, worker, inbox, outbox, local, wg, closed, consumer,
          delivered, produced, storeFailed, stdout>>

mainVars   == <<command, pc, next, contextToAlias, stdout>>
indexVars  == <<indexFile, index>>
workerVars == <<worker, inbox, outbox, local, produced>>
sendVars   == <<consumer, delivered, closed>>

-----------------------------------------------------------------------------
(* Messages: DiscoveredContext values.                                     *)

ContextMsg == [store : Stores, name : Contexts, at : Found,
               alias : Aliases \cup {None}]
ErrorMsg   == [store : Stores, error : {"search", "parse"}]
Message    == ContextMsg \cup ErrorMsg

IsError(m) == "error" \in DOMAIN m

SearchResult == Found \cup {SearchError}

\* The names a context is shown under: its persistent alias, else the aliases
\* the store tagged the path with, else just its own name.
DisplayAliases(name, found) ==
    IF contextToAlias[name] # None THEN {contextToAlias[name]}
    ELSE IF found.aliases # {} THEN found.aliases ELSE {None}

\* The DiscoveredContexts of a set of contexts found at one path.
Announce(s, names, found) ==
    UNION {[store : {s}, name : {n}, at : {found},
            alias : DisplayAliases(n, found)] : n \in names}

Indexed(s) == {n \in Contexts : index[s][n] # None}

\* The DiscoveredContexts a replay of the index of s announces.
Replay(s) == UNION {Announce(s, {n}, index[s][n]) : n \in Indexed(s)}

\* The mappings loadFromDir can return: one alias for each aliased context.
LoadedMappings ==
    {f \in [Contexts -> Aliases \cup {None}] :
        \A n \in Contexts :
            LET names == {a \in Aliases : aliasFiles[a] = n}
            IN  f[n] \in (IF names = {} THEN {None} ELSE names)}

-----------------------------------------------------------------------------
(* doSearch decides per store where its contexts come from.                *)

\* "absent" also stands for an empty index file or one of another kind:
\* HasContent() && HasKind() is false for all of them.
HasUsableIndex(s) == indexFile[s] \in {"stale", "fresh", "corruptState"}

\* shouldReadFromIndex, its error being handled by IndexError.
ShouldReadFromIndex(s) == s \notin EnvAndFlag /\ indexFile[s] = "fresh"

ReadFromIndex(s) ==
    \/ command.uses # "none" /\ ShouldReadFromIndex(s)
    \/ command.uses = "any" /\ HasUsableIndex(s)

\* index.New cannot parse the index, or ShouldBeUsed the state file.
IndexError(s) ==
    \/ indexFile[s] = "corrupt"
    \/ /\ indexFile[s] = "corruptState"
       /\ command.uses = "gate"
       /\ s \notin EnvAndFlag

Init ==
    /\ command \in Commands
    /\ pc = "start"
    /\ next = 1
    /\ contextToAlias = [n \in Contexts |-> None]
    /\ aliasFiles \in [Aliases -> Contexts \cup {None}]
    /\ indexFile \in [Stores -> {"absent", "stale", "fresh", "corrupt",
                                 "corruptState"}]
    /\ index \in [Stores -> [Contexts -> Found \cup {None}]]
    /\ \A s \in Stores :
           /\ indexFile[s] \in {"absent", "corrupt"} => Indexed(s) = {}
           /\ \A n \in Indexed(s) : index[s][n] \in Offers[s]
    /\ searcher = [s \in Stores |-> "idle"]
    /\ offered = [s \in Stores |->
                    Offers[s] \cup (IF s \in ErrorsAllowed THEN {SearchError}
                                                           ELSE {})]
    /\ worker = [s \in Stores |-> "idle"]
    /\ inbox = [s \in Stores |-> None]
    /\ outbox = [s \in Stores |-> {}]
    /\ local = [s \in Stores |-> [n \in Contexts |-> None]]
    /\ wg = NumStores
    /\ closed = FALSE
    /\ consumer = "calling"
    /\ delivered = {}
    /\ produced = [s \in Stores |-> {}]
    /\ storeFailed = [s \in Stores |-> FALSE]
    /\ stdout = "terminal"

\* Variant: the caller ignores the error and ranges over the channel.
ReturnChannelAndError ==
    /\ pc' = "failed"
    /\ stdout' = "terminal"
    /\ consumer' = "ranging"

\* An early "return nil, err": the deferred function restores os.Stdout.
ReturnError ==
    /\ pc' = "failed"
    /\ stdout' = "terminal"
    /\ consumer' = "stopped"

\* os.Stdout is silenced and the aliases are loaded; reading them may fail.
LoadAliases ==
    /\ pc = "start"
    /\ \/ /\ pc' = "loop"
          /\ stdout' = "devnull"
          /\ contextToAlias' \in LoadedMappings
          /\ UNCHANGED consumer
       \/ /\ ReturnError
          /\ UNCHANGED contextToAlias
    /\ UNCHANGED <<command, next, aliasFiles, indexVars, searcher, offered,
                   workerVars, wg, closed, delivered, storeFailed>>

\* Variant: "continue" without wgResultChannel.Done().
SkipWithoutDone ==
    /\ pc = "loop"
    /\ next \in Optional
    /\ worker' = [worker EXCEPT ![next] = "skipped"]
    /\ next' = next + 1
    /\ UNCHANGED <<command, pc, contextToAlias, stdout, aliasFiles, indexVars,
                   searcher, offered, inbox, outbox, local, produced, wg,
                   sendVars, storeFailed>>

\* Variant: the verification is tried again, each time with a Done().
SkipAndRetry ==
    /\ pc = "loop"
    /\ next \in Optional
    /\ wg' = wg - 1
    /\ UNCHANGED <<mainVars, aliasFiles, indexVars, searcher, offered,
                   workerVars, sendVars, storeFailed>>

\* VerifyKubeconfigPaths fails for an optional store: its slot is released.
SkipOptionalStore ==
    /\ pc = "loop"
    /\ next \in Optional
    /\ worker' = [worker EXCEPT ![next] = "skipped"]
    /\ wg' = wg - 1
    /\ next' = next + 1
    /\ UNCHANGED <<command, pc, contextToAlias, stdout, aliasFiles, indexVars,
                   searcher, offered, inbox, outbox, local, produced, sendVars,
                   storeFailed>>

\* VerifyKubeconfigPaths fails for a required store, or its index cannot be
\* read: doSearch returns although goroutines of earlier stores are running.
AbandonSearch ==
    /\ pc = "loop"
    /\ next \in Stores
    /\ next \notin Optional \/ IndexError(next)
    /\ ReturnError
    /\ UNCHANGED <<command, next, contextToAlias, aliasFiles, indexVars,
                   searcher, offered, workerVars, wg, closed, delivered,
                   storeFailed>>

\* The index is used: a goroutine replays it.
LaunchReplay ==
    /\ pc = "loop"
    /\ next \in Stores
    /\ ~IndexError(next)
    /\ ReadFromIndex(next)
    /\ worker' = [worker EXCEPT ![next] = "replaying"]
    /\ outbox' = [outbox EXCEPT ![next] = Replay(next)]
    /\ produced' = [produced EXCEPT ![next] = Replay(next)]
    /\ next' = next + 1
    /\ UNCHANGED <<command, pc, contextToAlias, stdout, aliasFiles, indexVars,
                   searcher, offered, inbox, local, wg, sendVars, storeFailed>>

\* The backing store is queried: searcher and collector are launched.
LaunchSearch ==
    /\ pc = "loop"
    /\ next \in Stores
    /\ ~IndexError(next)
    /\ ~ReadFromIndex(next)
    /\ searcher' = [searcher EXCEPT ![next] = "searching"]
    /\ worker' = [worker EXCEPT ![next] = "collecting"]
    /\ next' = next + 1
    /\ UNCHANGED <<command, pc, contextToAlias, stdout, aliasFiles, indexVars,
                   offered, inbox, outbox, local, produced, wg, sendVars,
                   storeFailed>>

\* Every store is handled: start the closer goroutine, restore os.Stdout and
\* hand the channel to the caller, which starts to range over it.
ReturnChannel ==
    /\ pc = "loop"
    /\ next = NumStores + 1
    /\ pc' = "returned"
    /\ stdout' = "terminal"
    /\ consumer' = "ranging"
    /\ UNCHANGED <<command, next, contextToAlias, aliasFiles, indexVars,
                   searcher, offered, workerVars, wg, closed, delivered,
                   storeFailed>>

-----------------------------------------------------------------------------
(* The goroutines of one store.                                            *)

CollectorReady(s) ==
    worker[s] = "collecting" /\ inbox[s] = None /\ outbox[s] = {}

\* StartSearch sends a result and the collector receives it.
SendResult(s) ==
    /\ searcher[s] = "searching"
    /\ CollectorReady(s)
    /\ \E r \in offered[s] :
          /\ inbox' = [inbox EXCEPT ![s] = r]
          /\ offered' = [offered EXCEPT ![s] = @ \ {r}]
          /\ storeFailed' = [storeFailed EXCEPT ![s] = @ \/ r = SearchError]
    /\ UNCHANGED <<mainVars, aliasFiles, indexVars, searcher, worker, outbox,
                   local, produced, wg, sendVars>>

\* StartSearch returns and the deferred close(channel) runs.  A store may
\* stop anywhere: after an error, or because there was nothing more to find.
FinishSearch(s) ==
    /\ searcher[s] = "searching"
    /\ searcher' = [searcher EXCEPT ![s] = "closed"]
    /\ UNCHANGED <<mainVars, aliasFiles, indexVars, offered, workerVars, wg,
                   sendVars, storeFailed>>

\* The collector decides what to send for the result it holds.
Send(s, msgs) ==
    /\ outbox' = [outbox EXCEPT ![s] = msgs]
    /\ produced' = [produced EXCEPT ![s] = @ \cup msgs]
    /\ inbox' = [inbox EXCEPT ![s] = None]

\* An error result: dropped for an optional store, else forwarded.
CollectError(s) ==
    /\ inbox[s] = SearchError
    /\ Send(s, IF s \in Optional THEN {}
               ELSE {[store |-> s, error |-> "search"]})
    /\ UNCHANGED <<mainVars, aliasFiles, indexVars, searcher, offered, worker,
                   local, wg, sendVars, storeFailed>>

\* GetKubeconfigForPath fails (the result is dropped) or what it returns does
\* not parse (an error is sent, whether or not the store is required).
CollectUnusable(s) ==
    /\ inbox[s] \in Found
    /\ \/ Send(s, {})
       \/ Send(s, {[store |-> s, error |-> "parse"]})
    /\ UNCHANGED <<mainVars, aliasFiles, indexVars, searcher, offered, worker,
                   local, wg, sendVars, storeFailed>>

\* A cluster-name label becomes a persistent alias of the contexts just read.
\* One alias file holds one context: the last one written stays.  Failing to
\* read or write the alias directory only logs.
AutoAlias(label, names) ==
    \/ UNCHANGED aliasFiles
    \/ /\ label # None
       /\ \E n \in names : aliasFiles' = [aliasFiles EXCEPT ![label] = n]

\* The kubeconfig is read and parsed: announce its contexts.
CollectKubeconfig(s) ==
    /\ inbox[s] \in Found
    /\ \E names \in SUBSET Contexts :
          /\ AutoAlias(inbox[s].label, names)
          /\ Send(s, Announce(s, names, inbox[s]))
    /\ UNCHANGED <<mainVars, indexVars, searcher, offered, worker, local, wg,
                   sendVars, storeFailed>>

Collect(s) == CollectError(s) \/ CollectUnusable(s) \/ CollectKubeconfig(s)

\* What is remembered of a context that was found again: the new path, and
\* the new tags, unless there are none; then the old tags stay.  (A result
\* that has neither of the tags looked at here may have others.)
Remembered(entry, found) ==
    {found} \cup
    (IF entry = None \/ found.label # None \/ found.aliases # {} THEN {}
     ELSE {[entry EXCEPT !.path = found.path]})

\* Variant: a context shown under an alias is not remembered for the index.
DeliverForgettingAliased(s) ==
    /\ consumer = "ranging"
    /\ \E m \in outbox[s] :
          /\ outbox' = [outbox EXCEPT ![s] = @ \ {m}]
          /\ delivered' = delivered \cup {m}
          /\ IF worker[s] = "collecting" /\ ~IsError(m) /\ m.alias = None
             THEN \E entry \in Remembered(local[s][m.name], m.at) :
                      local' = [local EXCEPT ![s][m.name] = entry]
             ELSE UNCHANGED local
          /\ consumer' = IF ~IsError(m) /\ m.name \in command.wanted
                         THEN "stopped" ELSE consumer
    /\ UNCHANGED <<mainVars, aliasFiles, indexVars, searcher, offered, worker,
                   inbox, produced, wg, closed, storeFailed>>

\* A worker sends a message and the consumer receives it; a collector then
\* remembers the context for the index.  Commands that look for one context
\* (Alias, SetContext, Show) return as soon as they see it.
Deliver(s) ==
    /\ consumer = "ranging"
    /\ \E m \in outbox[s] :
          /\ outbox' = [outbox EXCEPT ![s] = @ \ {m}]
          /\ delivered' = delivered \cup {m}
          /\ IF worker[s] = "collecting" /\ ~IsError(m)
             THEN \E entry \in Remembered(local[s][m.name], m.at) :
                      local' = [local EXCEPT ![s][m.name] = entry]
             ELSE UNCHANGED local
          /\ consumer' = IF ~IsError(m) /\ m.name \in command.wanted
                         THEN "stopped" ELSE consumer
    /\ UNCHANGED <<mainVars, aliasFiles, indexVars, searcher, offered, worker,
                   inbox, produced, wg, closed, storeFailed>>

\* The two files are written.
ReplaceIndex(s) ==
    /\ worker' = [worker EXCEPT ![s] = "finishing"]
    /\ index' = [index EXCEPT ![s] = local[s]]
    /\ indexFile' = [indexFile EXCEPT ![s] = "fresh"]
    /\ UNCHANGED <<mainVars, aliasFiles, searcher, offered, inbox, outbox,
                   local, produced, wg, sendVars, storeFailed>>

\* Variant: a collector that has nothing to do takes the search to be over.
WriteIndexWhenIdle(s) == CollectorReady(s) /\ ReplaceIndex(s)

\* Variant: an index is written for a search that found nothing.
WriteEmptyIndex(s) ==
    CollectorReady(s) /\ searcher[s] = "closed" /\ ReplaceIndex(s)

\* Variant: a collector saves what it has when the consumer went away.
WriteIndexOnStop(s) ==
    \/ WriteEmptyIndex(s)
    \/ worker[s] = "collecting" /\ consumer = "stopped" /\ ReplaceIndex(s)

\* The search channel is closed and drained: writeIndex, if anything was
\* found.  Its errors are logged, so either file may be left as it was.
WriteIndex(s) ==
    /\ CollectorReady(s)
    /\ searcher[s] = "closed"
    /\ worker' = [worker EXCEPT ![s] = "finishing"]
    /\ \/ UNCHANGED indexVars
       \/ /\ \E n \in Contexts : local[s][n] # None
          /\ index' = [index EXCEPT ![s] = local[s]]
          /\ indexFile' \in {[indexFile EXCEPT ![s] = "fresh"],
                             [indexFile EXCEPT ![s] =
                                 IF @ = "absent" THEN "stale" ELSE @]}
    /\ UNCHANGED <<mainVars, aliasFiles, searcher, offered, inbox, outbox,
                   local, produced, wg, sendVars, storeFailed>>

\* Variant: the replayer gives its slot back before its loop.
WorkerDoneEarly(s) ==
    /\ worker[s] \in {"finishing", "replaying"}
    /\ worker' = [worker EXCEPT ![s] = "done"]
    /\ wg' = wg - 1
    /\ UNCHANGED <<mainVars, aliasFiles, indexVars, searcher, offered, inbox,
                   outbox, local, produced, sendVars, storeFailed>>

\* Variant: the replayer has no deferred Done().
CollectorDone(s) == worker[s] = "finishing" /\ WorkerDoneEarly(s)

\* wgResultChannel.Done(): last act of a collector, deferred in a replayer.
WorkerDone(s) ==
    /\ \/ worker[s] = "finishing"
       \/ worker[s] = "replaying" /\ outbox[s] = {}
    /\ worker' = [worker EXCEPT ![s] = "done"]
    /\ wg' = wg - 1
    /\ UNCHANGED <<mainVars, aliasFiles, indexVars, searcher, offered, inbox,
                   outbox, local, produced, sendVars, storeFailed>>

\* Variant: the channel is closed by doSearch itself.
CloseWithoutWait ==
    /\ pc = "returned"
    /\ ~closed
    /\ closed' = TRUE
    /\ UNCHANGED <<mainVars, aliasFiles, indexVars, searcher, offered,
                   workerVars, wg, consumer, delivered, storeFailed>>

\* The closer goroutine: Wait() returns at zero, then the channel is closed.
CloseResults ==
    /\ pc = "returned"
    /\ wg = 0
    /\ ~closed
    /\ closed' = TRUE
    /\ UNCHANGED <<mainVars, aliasFiles, indexVars, searcher, offered,
                   workerVars, wg, consumer, delivered, storeFailed>>

\* The range loop of the consumer ends with the channel.
FinishRange ==
    /\ consumer = "ranging"
    /\ closed
    /\ consumer' = "drained"
    /\ UNCHANGED <<mainVars, aliasFiles, indexVars, searcher, offered,
                   workerVars, wg, closed, delivered, storeFailed>>

\* The command is over; whatever goroutine is left may stay blocked.
Finished ==
    /\ consumer \in {"drained", "stopped"}
    /\ UNCHANGED vars

MainStep ==
    LoadAliases \/ SkipOptionalStore \/ AbandonSearch \/ LaunchReplay
    \/ LaunchSearch \/ ReturnChannel

StoreStep(s) ==
    SendResult(s) \/ FinishSearch(s) \/ Collect(s) \/ Deliver(s)
    \/ WriteIndex(s) \/ WorkerDone(s)

Next ==
    \/ MainStep
    \/ \E s \in Stores : StoreStep(s)
    \/ CloseResults
    \/ FinishRange
    \/ Finished

Spec == Init /\ [][Next]_vars

\* Goroutines that can run do run.  StartSearch returns: its list calls end
\* with an answer or an error, and it sends finitely many results.
Fairness ==
    /\ WF_vars(MainStep)
    /\ WF_vars(CloseResults)
    /\ WF_vars(FinishRange)
    /\ \A s \in Stores :
          /\ WF_vars(FinishSearch(s))
          /\ WF_vars(Collect(s))
          /\ WF_vars(Deliver(s))
          /\ WF_vars(WriteIndex(s))
          /\ WF_vars(WorkerDone(s))

FairSpec == Spec /\ Fairness

-----------------------------------------------------------------------------
(* Properties.                                                             *)

TypeOK ==
    /\ command \in Commands
    /\ pc \in {"start", "loop", "returned", "failed"}
    /\ next \in 1..NumStores + 1
    /\ contextToAlias \in [Contexts -> Aliases \cup {None}]
    /\ aliasFiles \in [Aliases -> Contexts \cup {None}]
    /\ indexFile \in [Stores -> {"absent", "stale", "fresh", "corrupt",
                                 "corruptState"}]
    /\ index \in [Stores -> [Contexts -> Found \cup {None}]]
    /\ searcher \in [Stores -> {"idle", "searching", "closed"}]
    /\ offered \in [Stores -> SUBSET SearchResult]
    /\ worker \in [Stores -> {"idle", "skipped", "replaying", "collecting",
                              "finishing", "done"}]
    /\ inbox \in [Stores -> SearchResult \cup {None}]
    /\ outbox \in [Stores -> SUBSET Message]
    /\ local \in [Stores -> [Contexts -> Found \cup {None}]]
    /\ wg \in 0..NumStores
    /\ closed \in BOOLEAN
    /\ consumer \in {"calling", "ranging", "stopped", "drained"}
    /\ delivered \in SUBSET Message
    /\ produced \in [Stores -> SUBSET Message]
    /\ storeFailed \in [Stores -> BOOLEAN]
    /\ stdout \in {"terminal", "devnull"}

\* Stores whose slot of the WaitGroup is still taken.
Pending == {s \in Stores : worker[s] \notin {"skipped", "done"}}

\* The slots reserved up front by wgResultChannel.Add(len(stores)) are given
\* back once per store, on each of the three ways a store can end: skipped,
\* replayed, collected.  One Done too many panics or closes the result
\* channel under a running worker; one too few blocks every consumer forever.
WaitGroupBalanced == wg = Cardinality(Pending)

\* Once the closer goroutine has closed the result channel no worker is left
\* that could still send on it (a send on a closed channel panics).
NoSendAfterClose ==
    closed => \A s \in Stores : /\ worker[s] \in {"skipped", "done"}
                                /\ inbox[s] = None
                                /\ outbox[s] = {}

\* A consumer that ranges to the end of the channel has seen every context
\* and every error any store decided to report, whatever the stores' order.
NothingLost ==
    consumer = "drained" => delivered = UNION {produced[s] : s \in Stores}

\* When the range loop is over no goroutine of any store survives: every
\* searcher has closed its channel and every collector has finished.
NothingLeftBehind ==
    consumer = "drained" =>
        \A s \in Stores : /\ worker[s] \in {"skipped", "done"}
                          /\ searcher[s] # "searching"

\* Closed or drained, nothing is left over: nobody who could still send, no
\* result that was not received, no goroutine of a store.
EndsCleanly == NoSendAfterClose /\ NothingLost /\ NothingLeftBehind

ContextsOf(msgs) == {m \in msgs : ~IsError(m)}

\* The new index of s names exactly the contexts s announced, each at a path
\* it was announced at, with the tags of a path it was announced at, and all
\* of them have reached the consumer.  (Of two paths with one context these
\* need not be the same: a path without tags leaves those of the other.)
CompleteReplacement(s) ==
    /\ searcher[s] = "closed"
    /\ produced[s] \subseteq delivered
    /\ {n \in Contexts : index'[s][n] # None}
           = {m.name : m \in ContextsOf(produced[s])}
    /\ \A n \in Contexts : index'[s][n] # None =>
          /\ \E m \in ContextsOf(produced[s]) :
                m.name = n /\ m.at.path = index'[s][n].path
          /\ \E m \in ContextsOf(produced[s]) :
                /\ m.name = n
                /\ m.at.label = index'[s][n].label
                /\ m.at.aliases = index'[s][n].aliases

\* An index replaces the previous one only after StartSearch has returned and
\* everything the store announced has been consumed.  Commands that stop early
\* must not leave a truncated index behind.
IndexIsComplete ==
    [][\A s \in Stores : index'[s] # index[s] => CompleteReplacement(s)]_vars

\* Goroutines that an early error return leaves behind never rewrite an index.
AbandonedKeepsIndex == [][pc = "failed" => UNCHANGED indexVars]_vars

\* The two together: an index is replaced by the complete result of a search
\* that is over, in a command that goes on, or else it stays.
IndexesAreSound ==
    [][/\ \A s \in Stores : index'[s] # index[s] => CompleteReplacement(s)
       /\ pc = "failed" => UNCHANGED indexVars]_vars

\* Every command that got a channel returns: it finds its context or sees the
\* channel closed, whichever stores are skipped, fail or find nothing.
CommandReturns ==
    consumer = "ranging" ~> consumer \in {"drained", "stopped"}

\* "Silence STDOUT during search ... restore after search is over"
\* (pkg/search.go): no store searches while os.Stdout is the terminal.
SilentWhileSearching ==
    (\E s \in Stores : searcher[s] = "searching") => stdout = "devnull"

\* "never write an index for the store from env variables and
\* --kubeconfig-path command line flag" (comment in shouldReadFromIndex).
EnvAndFlagHasNoIndex ==
    [][\A s \in EnvAndFlag : index'[s] = index[s]]_vars

\* "write store index file now that the path discovery is complete": an index
\* is not written when StartSearch reported that it could not discover all.
NoIndexAfterStoreError ==
    [][\A s \in Stores : storeFailed[s] => index'[s] = index[s]]_vars

\* The path and the tags of an entry belong together: GetKubeconfigForPath
\* gets both, from the index as in the search that wrote it.
EntriesBelongTogether ==
    [][\A s \in Stores : \A n \in Contexts :
        index'[s][n] \notin {index[s][n], None} =>
            \E m \in ContextsOf(produced[s]) :
                m.name = n /\ m.at = index'[s][n]]_vars

\* The result channel as the consuming command sees it.
ChannelState ==
    CASE pc \in {"start", "loop"} -> "none"
      [] pc = "failed" -> "refused"
      [] pc = "returned" /\ ~closed -> "open"
      [] OTHER -> "closed"

Stream == INSTANCE ResultStream
             WITH channel <- ChannelState, searching <- Pending,
                  received <- delivered

\* doSearch implements the stream of results: nothing is received from a store
\* after it gave its WaitGroup slot back, or after a failed call.
ImplementsStream == Stream!Spec
=============================================================================
