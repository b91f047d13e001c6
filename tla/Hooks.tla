-------------------------------- MODULE Hooks --------------------------------
(***************************************************************************)
(* The hooks (pkg/subcommands/hooks, pkg/state).  A command that changes   *)
(* the context first runs the hooks that are due; `kswitch hooks` runs all *)
(* of them, or one by its name.  When a hook was last started is kept in a *)
(* file for each hook, which the commands of all terminals share.          *)
(***************************************************************************)
EXTENDS Naturals, Sequences, SequencesExt

CONSTANTS
  Process,
  Hook,         \* sequence of the names of the hooks, as configured
  Interval,     \* of a hook that runs automatically: in units of the clock
  MaxTime       \* bound on the clock

VARIABLES
  now,
  stamp,        \* the state file of each hook
  runner,       \* what each process is doing with the hooks
  ran,          \* the times that its runs had taken (history)
  mishap        \* what can have gone wrong with its state file (history)

hookVars == <<now, stamp, runner, ran, mishap>>

HookName == ToSet(Hook)
Automatic == HookName \cap DOMAIN Interval
Time == 0 .. MaxTime
Whole(t) == [form |-> "whole", at |-> t]

Absent == [form |-> "absent"]
EmptyFile == [form |-> "empty"]
Torn == [form |-> "torn"]

\* rest: hooks to look at, then hooks to run, the first one being run.
Waiting == [pc |-> "waiting"]
Step(pc, rest, due) == [pc |-> pc, rest |-> rest, due |-> due]

\* Taken: the time is known, and written, and then the hook is executed.
Taken(pc, rest, t) == [pc |-> pc, rest |-> rest, at |-> t]

Stamp == {Absent, EmptyFile, Torn} \cup {Whole(t) : t \in Time}
Mishap == {"overlap", "cut"}
Runner ==
  {Waiting, [pc |-> "finished"], [pc |-> "failed"]}
    \cup [pc : {"look", "create", "take"}, rest : Seq(HookName),
          due : Seq(HookName)]
    \cup [pc : {"write", "execute"}, rest : Seq(HookName), at : Time]

HooksInit ==
  /\ now = 0
  /\ stamp = [h \in HookName |-> Absent]
  /\ runner = [p \in Process |-> Waiting]
  /\ ran = [h \in HookName |-> {}]
  /\ mishap = [h \in HookName |-> {}]

SetRunner(p, r) == runner' = [runner EXCEPT ![p] = r]

Run(hooks) ==
  IF hooks = << >> THEN [pc |-> "finished"] ELSE Step("create", hooks, << >>)

\* Hooks of a command: only those that are due, or all, or the one named.
BeginHooks(p, which) ==
  /\ SetRunner(p, IF which = "due" THEN Step("look", Hook, << >>)
                  ELSE IF which = "all" THEN Run(Hook)
                  ELSE Run(<<which>>))
  /\ UNCHANGED <<now, stamp, ran, mishap>>

(***************************************************************************)
(* An absent file: the hook never ran.  An empty one: the zero time.  One  *)
(* that cannot be parsed: a warning, and the hook does not run.            *)
(***************************************************************************)
IsDue(h) ==
  \/ stamp[h].form \in {"absent", "empty"}
  \/ stamp[h].form = "whole" /\ now > stamp[h].at + Interval[h]

\* getHooksToBeExecuted, one hook.
Look(p) ==
  /\ runner[p].pc = "look"
  /\ LET r == runner[p]  h == Head(r.rest)
         due == IF h \in Automatic /\ IsDue(h) THEN Append(r.due, h)
                                               ELSE r.due IN
     SetRunner(p, IF Len(r.rest) > 1 THEN Step("look", Tail(r.rest), due)
                                     ELSE Run(due))
  /\ UNCHANGED <<now, stamp, ran, mishap>>

\* The process is about to do this with the state file of the hook.
Runs(p, pc, h) == runner[p].pc = pc /\ Head(runner[p].rest) = h

\* UpdateHookState: the file is truncated, the time taken, then written.
CreateStamp(p) ==
  /\ runner[p].pc = "create"
  /\ stamp' = [stamp EXCEPT ![Head(runner[p].rest)] = EmptyFile]
  /\ SetRunner(p, [runner[p] EXCEPT !.pc = "take"])
  /\ UNCHANGED <<now, ran, mishap>>

TakeTime(p) ==
  /\ runner[p].pc = "take"
  /\ SetRunner(p, Taken("write", runner[p].rest, now))
  /\ LET h == Head(runner[p].rest) IN
     mishap' = [mishap EXCEPT ![h] =
                  @ \cup IF \E q \in Process \ {p} : Runs(q, "write", h)
                         THEN {"overlap"} ELSE {}]
  /\ UNCHANGED <<now, stamp, ran>>

\* Variant: all the hooks that are to run are stamped at once.
WriteAllStamps(p) ==
  /\ runner[p].pc = "write"
  /\ stamp' = [h \in HookName |->
                 IF h \in ToSet(runner[p].rest) THEN Whole(runner[p].at)
                                                ELSE stamp[h]]
  /\ SetRunner(p, [runner[p] EXCEPT !.pc = "execute"])
  /\ UNCHANGED <<now, ran, mishap>>

\* A shorter stamp over the longer one of another process leaves its rest.
WriteStamp(p) ==
  /\ runner[p].pc = "write"
  /\ LET h == Head(runner[p].rest) IN
     \E left \in {Whole(runner[p].at)}
                   \cup IF stamp[h] = EmptyFile THEN {} ELSE {Torn} :
       stamp' = [stamp EXCEPT ![h] = left]
  /\ SetRunner(p, [runner[p] EXCEPT !.pc = "execute"])
  /\ UNCHANGED <<now, ran, mishap>>

(***************************************************************************)
(* The error of UpdateHookState ends the command, with the hooks left to   *)
(* run.  The file has the name, a time that is cut - unreadable, or read   *)
(* as an earlier one - or nothing.                                         *)
(***************************************************************************)
WriteStampFails(p) ==
  /\ runner[p].pc = "write"
  /\ LET h == Head(runner[p].rest) IN
     \E left \in {EmptyFile, Torn} \cup {Whole(t) : t \in 0 .. runner[p].at} :
       /\ stamp' = [stamp EXCEPT ![h] = left]
       /\ mishap' = [mishap EXCEPT ![h] =
                       @ \cup IF left.form = "whole" THEN {"cut"} ELSE {}]
  /\ SetRunner(p, [pc |-> "failed"])
  /\ UNCHANGED <<now, ran>>

\* executeHook: an error of the hook is logged.
Execute(p) ==
  /\ runner[p].pc = "execute"
  /\ ran' = [ran EXCEPT ![Head(runner[p].rest)] = @ \cup {runner[p].at}]
  /\ SetRunner(p, Run(Tail(runner[p].rest)))
  /\ UNCHANGED <<now, stamp, mishap>>

Tick ==
  /\ now < MaxTime
  /\ now' = now + 1
  /\ UNCHANGED <<stamp, runner, ran, mishap>>
=============================================================================
