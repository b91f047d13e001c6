---------------------------- MODULE SearchIndex ----------------------------
(***************************************************************************)
(* The index file and the index state file of one store (pkg/index), as    *)
(* kswitch invocations read and rewrite them.  Each invocation runs the    *)
(* per-store part of doSearch (pkg/search.go): index.New, the decision to  *)
(* use the index, the search, writeIndex.  Nothing locks the files: every  *)
(* system call is a step of its own, invocations interleave and may be     *)
(* killed between two calls, and a write may stop half way (disk full).    *)
(*                                                                         *)
(* The content of an index is abstracted to the time its search began.     *)
(***************************************************************************)
EXTENDS Naturals

CONSTANTS
    Procs,          \* kswitch invocations that can overlap
    MaxTime,        \* bound on the clock
    RefreshAfter    \* refreshIndexAfter of the store, or of the whole config

ASSUME IndexAssumption ==
    /\ MaxTime \in Nat
    /\ RefreshAfter \in Nat

\* How a file can look.  "torn": not what one search found, but still valid
\* YAML of the right kind; "corrupt": not YAML.
Forms == {"absent", "empty", "torn", "corrupt", "whole"}
File  == [form : Forms, at : 0..MaxTime, of : 0..MaxTime]

Blank(form)  == [form |-> form, at |-> 0, of |-> 0]
Index(t)     == [form |-> "whole", at |-> t, of |-> t]
State(t, of) == [form |-> "whole", at |-> t, of |-> of]

\* The flag an invocation runs with: none, --no-index, or the forced read of
\* DoSearchFromIndex.
Modes == {"gate", "noIndex", "force"}

VARIABLES
    now,        \* the clock
    indexFile,  \* switch.<store>.index; "at" is when its search began
    stateFile,  \* switch.<store>.index.state; "at" is LastUpdateTime and "of"
                \* (history) the time of the index its writer had written
    pc,         \* where an invocation is
    mode,       \* the flag it runs with
    loaded,     \* the index it has in memory
    began,      \* when it began to search
    stamp,      \* the LastUpdateTime it is about to write
    damaged     \* history: a write has failed half way

vars == <<now, indexFile, stateFile, pc, mode, loaded, began, stamp, damaged>>
files == <<indexFile, stateFile>>

TypeOK ==
    /\ now \in 0..MaxTime
    /\ indexFile \in File
    /\ stateFile \in File
    /\ pc \in [Procs -> {"idle", "new", "decide", "search", "create", "write",
                         "createState", "writeState", "use", "failed", "done"}]
    /\ mode \in [Procs -> Modes]
    /\ loaded \in [Procs -> File]
    /\ began \in [Procs -> 0..MaxTime]
    /\ stamp \in [Procs -> 0..MaxTime]
    /\ damaged \in BOOLEAN

Init ==
    /\ now = 0
    /\ indexFile = Blank("absent")
    /\ stateFile = Blank("absent")
    /\ pc = [p \in Procs |-> "idle"]
    /\ mode = [p \in Procs |-> "gate"]
    /\ loaded = [p \in Procs |-> Blank("absent")]
    /\ began = [p \in Procs |-> 0]
    /\ stamp = [p \in Procs |-> 0]
    /\ damaged = FALSE

Tick ==
    /\ now < MaxTime
    /\ now' = now + 1
    /\ UNCHANGED <<files, pc, mode, loaded, began, stamp, damaged>>

Goto(p, label) == pc' = [pc EXCEPT ![p] = label]

Start(p) ==
    /\ pc[p] = "idle"
    /\ Goto(p, "new")
    /\ \E m \in Modes : mode' = [mode EXCEPT ![p] = m]
    /\ UNCHANGED <<now, files, loaded, began, stamp, damaged>>

\* Variant: an empty file is an error.
NewRejectingEmpty(p) ==
    /\ pc[p] = "new"
    /\ loaded' = [loaded EXCEPT ![p] = indexFile]
    /\ Goto(p, IF indexFile.form \in {"empty", "corrupt"} THEN "failed"
               ELSE "decide")
    /\ UNCHANGED <<now, files, mode, began, stamp, damaged>>

\* index.New: a missing file is no content, an empty one an index without a
\* kind, and one that does not parse fails the search, whatever the flags.
New(p) ==
    /\ pc[p] = "new"
    /\ loaded' = [loaded EXCEPT ![p] = indexFile]
    /\ Goto(p, IF indexFile.form = "corrupt" THEN "failed" ELSE "decide")
    /\ UNCHANGED <<now, files, mode, began, stamp, damaged>>

\* Variant: HasContent() alone.
HasContent(p) == loaded[p].form # "absent"

HasContentOfKind(p) == loaded[p].form \in {"torn", "whole"}

\* ShouldBeUsed: an absent or empty state file has no matching kind.
ShouldBeUsed == stateFile.form = "whole" /\ now < stateFile.at + RefreshAfter

\* doSearch decides: use the index in memory, search, or fail because the
\* state file does not parse.
Decide(p) ==
    /\ pc[p] = "decide"
    /\ \/ /\ mode[p] = "noIndex" \/ ~HasContentOfKind(p)
          /\ Goto(p, "search")
       \/ /\ mode[p] = "force"
          /\ HasContentOfKind(p)
          /\ Goto(p, "use")
       \/ /\ mode[p] = "gate"
          /\ HasContentOfKind(p)
          /\ Goto(p, CASE stateFile.form = "corrupt" -> "failed"
                       [] ShouldBeUsed               -> "use"
                       [] OTHER                      -> "search")
    /\ began' = [began EXCEPT ![p] = now]
    /\ UNCHANGED <<now, files, mode, loaded, stamp, damaged>>

\* Variant: the state is refreshed although nothing was found.
EndSearchRefreshingState(p) ==
    /\ pc[p] = "search"
    /\ \/ Goto(p, "create")
       \/ Goto(p, "createState")
    /\ UNCHANGED <<now, files, mode, loaded, began, stamp, damaged>>

\* The search ends: without a context nothing is written.
EndSearch(p) ==
    /\ pc[p] = "search"
    /\ \/ Goto(p, "create")
       \/ Goto(p, "done")
    /\ UNCHANGED <<now, files, mode, loaded, began, stamp, damaged>>

\* Write: os.Create truncates the index.
CreateIndex(p) ==
    /\ pc[p] = "create"
    /\ indexFile' = Blank("empty")
    /\ Goto(p, "write")
    /\ UNCHANGED <<now, stateFile, mode, loaded, began, stamp, damaged>>

\* What a file holds after new content was written over it from its start:
\* when another invocation filled it after our truncation, a longer old
\* content sticks out behind the new one.
Overwrite(file, new) ==
    IF file.form = "empty" THEN {new}
    ELSE {new, Blank("corrupt"), [new EXCEPT !.form = "torn"]}

\* A write that stops half way leaves a prefix.
PrefixesOf(new) == {Blank("corrupt"), [new EXCEPT !.form = "torn"]}

WriteIndex(p) ==
    /\ pc[p] = "write"
    /\ indexFile' \in Overwrite(indexFile, Index(began[p]))
    /\ Goto(p, "createState")
    /\ UNCHANGED <<now, stateFile, mode, loaded, began, stamp, damaged>>

\* Write returns an error: writeIndex logs it and leaves the state file alone.
TearIndex(p) ==
    /\ pc[p] = "write"
    /\ indexFile' \in PrefixesOf(Index(began[p]))
    /\ damaged' = TRUE
    /\ Goto(p, "done")
    /\ UNCHANGED <<now, stateFile, mode, loaded, began, stamp>>

\* Variant: the time of the next refresh is stored.
CreateStateWithExpiry(p) ==
    /\ pc[p] = "createState"
    /\ stateFile' = Blank("empty")
    /\ stamp' = [stamp EXCEPT ![p] = now + RefreshAfter]
    /\ Goto(p, "writeState")
    /\ UNCHANGED <<now, indexFile, mode, loaded, began, damaged>>

\* The LastUpdateTime is taken, then WriteState: os.Create and the write.
CreateState(p) ==
    /\ pc[p] = "createState"
    /\ stateFile' = Blank("empty")
    /\ stamp' = [stamp EXCEPT ![p] = now]
    /\ Goto(p, "writeState")
    /\ UNCHANGED <<now, indexFile, mode, loaded, began, damaged>>

\* The state file has the same length whoever writes it.
WriteState(p) ==
    /\ pc[p] = "writeState"
    /\ stateFile' = State(stamp[p], began[p])
    /\ Goto(p, "done")
    /\ UNCHANGED <<now, indexFile, mode, loaded, began, stamp, damaged>>

TearState(p) ==
    /\ pc[p] = "writeState"
    /\ stateFile' = Blank("corrupt")
    /\ damaged' = TRUE
    /\ Goto(p, "done")
    /\ UNCHANGED <<now, indexFile, mode, loaded, began, stamp>>

\* An invocation ends or is killed at any point; another one can follow.
Exit(p) ==
    /\ pc[p] # "idle"
    /\ Goto(p, "idle")
    /\ loaded' = [loaded EXCEPT ![p] = Blank("absent")]
    /\ began' = [began EXCEPT ![p] = 0]
    /\ stamp' = [stamp EXCEPT ![p] = 0]
    /\ UNCHANGED <<now, files, mode, damaged>>

Step(p) ==
    Start(p) \/ New(p) \/ Decide(p) \/ EndSearch(p) \/ CreateIndex(p)
    \/ WriteIndex(p) \/ TearIndex(p) \/ CreateState(p) \/ WriteState(p)
    \/ TearState(p) \/ Exit(p)

Next == Tick \/ \E p \in Procs : Step(p)

Spec == Init /\ [][Next]_vars

-----------------------------------------------------------------------------
(* Properties.                                                             *)

\* Whatever was killed whenever, the contexts an invocation replays are the
\* whole result of one search, never a truncated or an interleaved file, as
\* long as no write has failed half way.
UsedIndexIsWhole ==
    ~damaged => \A p \in Procs : pc[p] = "use" => loaded[p].form = "whole"

\* No kill makes the files unreadable: every later invocation can search.
NeverUnreadable == ~damaged => \A p \in Procs : pc[p] # "failed"

\* So kills, at any step, do no harm to the invocations that follow.
KillsAreHarmless == UsedIndexIsWhole /\ NeverUnreadable

\* Under the refreshIndexAfter gate contexts are replayed only while the
\* state file is younger than RefreshAfter, and the state is never ahead of
\* the index: the index in memory is the one the state was written for, or a
\* later one whose own state was not written because its writer was killed.
GatedUseIsDescribed ==
    [][\A p \in Procs :
          pc[p] = "decide" /\ pc'[p] = "use" /\ mode[p] = "gate" =>
              /\ stateFile.form = "whole"
              /\ now < stateFile.at + RefreshAfter
              /\ loaded[p].at >= stateFile.of]_vars

\* "You can disable using a configured search index for the current request
\* by using the flag --no-index" (docs/search_index.md): an index that cannot
\* be read is no reason for such a request to fail.
NoIndexIgnoresIndex ==
    \A p \in Procs : pc[p] = "failed" => mode[p] # "noIndex"
=============================================================================
