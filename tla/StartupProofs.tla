---------------------------- MODULE StartupProofs ----------------------------
(***************************************************************************)
(* Theorems about Startup, for any configuration, hooks and number of      *)
(* processes, with kills and failing writes.                               *)
(***************************************************************************)
EXTENDS Startup, NaturalsInduction, WellFoundedInduction, TLAPS

(***************************************************************************)
(* The hooks.  All times are of the past.  While nothing has gone wrong    *)
(* with the state file of a hook, one process at most has taken a time for *)
(* it that is not written, and no run is later than that time; and the     *)
(* file is not older than the time of a process that executes the hook.    *)
(* Who has not begun with the hooks executes none.                         *)
(***************************************************************************)
HookName == HookRuns!HookName

Has(r, pc, h) == r.pc = pc /\ Head(r.rest) = h
Holds(r) == r.pc \in {"write", "execute"}
Past(t) == t \in Nat /\ t <= now

HookShapes ==
  /\ now \in Nat
  /\ DOMAIN runner = Process /\ DOMAIN phase = Process
  /\ DOMAIN stamp = HookName /\ DOMAIN ran = HookName
  /\ DOMAIN mishap = HookName

TimesArePast ==
  /\ \A h \in HookName : stamp[h].form = "whole" => Past(stamp[h].at)
  /\ \A h \in HookName : \A t \in ran[h] : Past(t)
  /\ \A p \in Process : Holds(runner[p]) => Past(runner[p].at)

\* What holds of a hook while there was no mishap.
WritesAlone(h) ==
  \A p, q \in Process :
    Has(runner[p], "write", h) /\ Has(runner[q], "write", h) => p = q

WritesLatest(h) ==
  \A p \in Process : Has(runner[p], "write", h) =>
    /\ \A t \in ran[h] : t <= runner[p].at
    /\ \A q \in Process :
         Has(runner[q], "execute", h) => runner[q].at <= runner[p].at

ExecutesStamped(h) ==
  stamp[h].form = "whole" =>
    \A p \in Process :
      Has(runner[p], "execute", h) => runner[p].at <= stamp[h].at

InOrder(h) == WritesAlone(h) /\ WritesLatest(h) /\ ExecutesStamped(h)

Begun ==
  \A p \in Process :
    phase[p] \in {"idle", "loadHooks"} => ~Holds(runner[p])

HookInv ==
  /\ HookShapes /\ TimesArePast /\ Begun /\ HooksKeepTime
  /\ \A h \in HookName : mishap[h] = {} => InOrder(h)

\* What a step of the hooks has to keep, but for the shapes.
OnTime ==
  /\ TimesArePast /\ HooksKeepTime
  /\ \A h \in HookName : mishap[h] = {} => InOrder(h)

\* A step of one process that holds no time before or after, and writes none.
LEMMA QuietHookStep ==
  ASSUME HookInv, NEW p \in Process, NEW new, NEW g, NEW f,
         ~Holds(runner[p]), ~Holds(new),
         runner' = [runner EXCEPT ![p] = new],
         \/ stamp' = stamp
         \/ f.form # "whole" /\ stamp' = [stamp EXCEPT ![g] = f],
         UNCHANGED <<now, ran, mishap>>
  PROVE  OnTime'
<1>1. \A h \in HookName :
        stamp'[h].form = "whole" => stamp'[h] = stamp[h]
  BY DEF HookInv, HookShapes
<1>2. /\ \A q \in Process : q # p => runner'[q] = runner[q]
      /\ runner'[p] = new
  BY DEF HookInv, HookShapes
<1>3. \A q \in Process :
        Holds(runner[q]) \/ Holds(runner'[q]) => runner'[q] = runner[q]
  BY <1>2
<1>4. TimesArePast'
  BY <1>1, <1>3 DEF HookInv, TimesArePast, Past
<1>5. \A q \in Process, h \in HookName, pc \in {"write", "execute"} :
        Has(runner'[q], pc, h) => Has(runner[q], pc, h)
          /\ runner'[q] = runner[q]
  BY <1>3 DEF Has, Holds
<1>6. ASSUME NEW h \in HookName, InOrder(h) PROVE InOrder(h)'
  BY <1>1, <1>5, <1>6
     DEF InOrder, WritesAlone, WritesLatest, ExecutesStamped
<1>7. ASSUME NEW h \in HookName PROVE NoRunIsMissing(h)'
  BY <1>1 DEF HookInv, HooksKeepTime, NoRunIsMissing, HookName
<1>8. ASSUME NEW h \in HookName PROVE NoRunIsInvented(h)'
  <2>1. NoRunIsInvented(h)
    BY DEF HookInv, HooksKeepTime, HookName
  <2>2. ASSUME NEW q \in Process, HookRuns!Runs(q, "execute", h)
        PROVE  runner'[q] = runner[q]
    BY <1>3, <2>2 DEF HookRuns!Runs, Holds
  <2>3. QED
    BY <1>1, <2>1, <2>2 DEF NoRunIsInvented, HookRuns!Runs
<1>9. QED
  BY <1>4, <1>6, <1>7, <1>8 DEF OnTime, HooksKeepTime, HookName, HookInv

(***************************************************************************)
(* A process takes its time: no run is later.  If another process has one  *)
(* that is not written, that is a mishap.                                  *)
(***************************************************************************)
LEMMA TimeTaken ==
  ASSUME HookInv, NEW p \in Process, HookRuns!TakeTime(p)
  PROVE  OnTime'
<1> DEFINE g == Head(runner[p].rest)
<1>1. /\ runner[p].pc = "take" /\ UNCHANGED <<now, stamp, ran>>
      /\ now \in Nat
  BY DEF HookRuns!TakeTime, HookInv, HookShapes
<1>2. PICK new : /\ new = [pc |-> "write", rest |-> runner[p].rest,
                           at |-> now]
                 /\ runner' = [runner EXCEPT ![p] = new]
  BY DEF HookRuns!TakeTime, HookRuns!SetRunner, HookRuns!Taken
<1>3. /\ \A q \in Process \ {p} : runner'[q] = runner[q]
      /\ runner'[p] = new /\ new.at = now
      /\ \A h : Has(new, "write", h) <=> h = g
      /\ \A h : ~Has(new, "execute", h) /\ ~Has(runner[p], "execute", h)
                  /\ ~Has(runner[p], "write", h)
  BY <1>1, <1>2 DEF HookInv, HookShapes, Has
<1>4. \A h \in HookName : mishap'[h] = {} =>
        /\ mishap[h] = {}
        /\ h = g => \A q \in Process \ {p} : ~Has(runner[q], "write", h)
  BY DEF HookRuns!TakeTime, HookInv, HookShapes, HookRuns!Runs, Has
<1>5. \A h \in HookName : "cut" \notin mishap'[h] => "cut" \notin mishap[h]
  BY DEF HookRuns!TakeTime, HookInv, HookShapes
<1>6. TimesArePast'
  BY <1>1, <1>3 DEF HookInv, TimesArePast, Past, Holds
<1>7. ASSUME NEW h \in HookName, mishap'[h] = {} PROVE InOrder(h)'
  <2>1. InOrder(h)
    BY <1>4, <1>7 DEF HookInv
  <2>2. WritesAlone(h)'
    BY <1>3, <1>4, <1>7, <2>1 DEF InOrder, WritesAlone
  <2>3. \A q \in Process : Has(runner'[q], "execute", h) =>
          Has(runner[q], "execute", h) /\ runner'[q] = runner[q] /\ q # p
    BY <1>3
  <2>4. ExecutesStamped(h)'
    BY <1>1, <2>1, <2>3 DEF InOrder, ExecutesStamped
  <2>5. ASSUME NEW q \in Process, Has(runner'[q], "write", h)
        PROVE  /\ \A t \in ran[h] : t <= runner'[q].at
               /\ \A r \in Process :
                    Has(runner'[r], "execute", h) =>
                      runner'[r].at <= runner'[q].at
    <3>1. CASE q = p
      <4>1. runner'[q].at = now
        BY <1>3, <3>1
      <4>2. \A t \in ran[h] : t <= now
        BY DEF HookInv, TimesArePast, Past
      <4>3. \A r \in Process :
              Has(runner[r], "execute", h) => runner[r].at <= now
        BY DEF HookInv, TimesArePast, Past, Holds, Has
      <4>4. QED
        BY <2>3, <4>1, <4>2, <4>3
    <3>2. CASE q # p
      <4>1. runner'[q] = runner[q]
        BY <1>3, <3>2
      <4>2. QED
        BY <2>1, <2>3, <2>5, <4>1 DEF InOrder, WritesLatest
    <3>3. QED
      BY <3>1, <3>2
  <2>6. WritesLatest(h)'
    BY <1>1, <2>5 DEF WritesLatest
  <2>7. QED
    BY <2>2, <2>4, <2>6 DEF InOrder
<1>8. ASSUME NEW h \in HookName
      PROVE  NoRunIsMissing(h)' /\ NoRunIsInvented(h)'
  <2>1. NoRunIsMissing(h) /\ NoRunIsInvented(h)
    BY DEF HookInv, HooksKeepTime, HookName
  <2>2. ASSUME NEW q \in Process, HookRuns!Runs(q, "execute", h)
        PROVE  runner'[q] = runner[q]
    BY <1>1, <1>3, <2>2 DEF HookRuns!Runs
  <2>3. NoRunIsMissing(h)'
    BY <1>1, <1>4, <2>1 DEF NoRunIsMissing
  <2>4. NoRunIsInvented(h)'
    BY <1>1, <1>5, <2>1, <2>2 DEF NoRunIsInvented, HookRuns!Runs
  <2>5. QED
    BY <2>3, <2>4
<1>9. QED
  BY <1>6, <1>7, <1>8 DEF OnTime, HooksKeepTime, HookName

\* A process writes the time it has taken, and executes the hook next.
LEMMA TimeWritten ==
  ASSUME HookInv, NEW p \in Process, HookRuns!WriteStamp(p)
  PROVE  OnTime'
<1> DEFINE g == Head(runner[p].rest)
<1>1. /\ runner[p].pc = "write" /\ UNCHANGED <<now, ran, mishap>>
      /\ now \in Nat /\ Past(runner[p].at)
  BY DEF HookRuns!WriteStamp, HookInv, HookShapes, TimesArePast, Holds
<1>2. PICK new : /\ new = [runner[p] EXCEPT !.pc = "execute"]
                 /\ runner' = [runner EXCEPT ![p] = new]
  BY DEF HookRuns!WriteStamp, HookRuns!SetRunner
<1>3. /\ \A q \in Process \ {p} : runner'[q] = runner[q]
      /\ runner'[p] = new /\ new.at = runner[p].at
      /\ new.rest = runner[p].rest
      /\ \A h : Has(new, "execute", h) <=> h = g
      /\ \A h : ~Has(new, "write", h)
      /\ Has(runner[p], "write", g) /\ Holds(new)
  <2>1. new.at = runner[p].at /\ new.rest = runner[p].rest
    BY <1>2
  <2>2. new.pc = "execute"
    <3>1. "pc" \in DOMAIN runner[p] \/ "pc" \notin DOMAIN runner[p]
      OBVIOUS
    <3>2. QED
      BY <1>1, <1>2
  <2>3. QED
    BY <1>1, <1>2, <2>1, <2>2 DEF HookInv, HookShapes, Has, Holds
<1>4. PICK f : /\ f.form = "whole" => f.at = runner[p].at
               /\ stamp' = [stamp EXCEPT ![g] = f]
  BY DEF HookRuns!WriteStamp, HookRuns!Whole, HookRuns!Torn
<1>5. \A h \in HookName :
        IF h = g THEN stamp'[h] = f ELSE stamp'[h] = stamp[h]
  BY <1>4 DEF HookInv, HookShapes
<1>6. TimesArePast'
  BY <1>1, <1>3, <1>4, <1>5 DEF HookInv, TimesArePast, Past, Holds
<1>7. ASSUME NEW h \in HookName, mishap[h] = {} PROVE InOrder(h)'
  <2>1. InOrder(h)
    BY <1>7 DEF HookInv
  <2>2. \A q \in Process : Has(runner'[q], "write", h) =>
          Has(runner[q], "write", h) /\ runner'[q] = runner[q] /\ q # p
    BY <1>3
  <2>3. WritesAlone(h)'
    BY <2>1, <2>2 DEF InOrder, WritesAlone
  <2>4. h = g => \A q \in Process : ~Has(runner'[q], "write", h)
    BY <1>3, <2>1, <2>2 DEF InOrder, WritesAlone
  <2>5. \A q \in Process :
          Has(runner'[q], "execute", h) =>
            \/ q = p /\ h = g /\ runner'[q].at = runner[p].at
            \/ Has(runner[q], "execute", h) /\ runner'[q] = runner[q]
    BY <1>3
  <2>6. WritesLatest(h)'
    <3>1. CASE h = g
      BY <2>4, <3>1 DEF WritesLatest
    <3>2. CASE h # g
      <4>1. \A q \in Process : Has(runner'[q], "execute", h) =>
              Has(runner[q], "execute", h) /\ runner'[q] = runner[q]
        BY <2>5, <3>2
      <4>2. WritesLatest(h)
        BY <2>1 DEF InOrder
      <4>3. QED
        BY <1>1, <2>2, <4>1, <4>2 DEF WritesLatest
    <3>3. QED
      BY <3>1, <3>2
  <2>7. ExecutesStamped(h)'
    <3>1. CASE h = g
      <4>1. \A q \in Process : Has(runner[q], "execute", h) =>
              runner[q].at <= runner[p].at
        BY <1>3, <2>1, <3>1 DEF InOrder, WritesLatest
      <4>2. runner[p].at <= runner[p].at
        BY <1>1 DEF Past
      <4>3. \A q \in Process : Has(runner'[q], "execute", h) =>
              runner'[q].at <= runner[p].at
        BY <2>5, <4>1, <4>2
      <4>4. QED
        BY <1>4, <1>5, <3>1, <4>3 DEF ExecutesStamped
    <3>2. CASE h # g
      <4>1. \A q \in Process : Has(runner'[q], "execute", h) =>
              Has(runner[q], "execute", h) /\ runner'[q] = runner[q]
        BY <2>5, <3>2
      <4>2. ExecutesStamped(h) /\ stamp'[h] = stamp[h]
        BY <1>5, <2>1, <3>2 DEF InOrder
      <4>3. QED
        BY <4>1, <4>2 DEF ExecutesStamped
    <3>3. QED
      BY <3>1, <3>2
  <2>8. QED
    BY <2>3, <2>6, <2>7 DEF InOrder
<1>8. ASSUME NEW h \in HookName PROVE NoRunIsMissing(h)'
  <2>1. CASE h = g /\ mishap[h] = {}
    <3>1. \A t \in ran[h] : t <= runner[p].at
      BY <1>3, <2>1 DEF HookInv, InOrder, WritesLatest
    <3>2. QED
      BY <1>1, <1>4, <1>5, <2>1, <3>1 DEF NoRunIsMissing
  <2>2. CASE h # g \/ mishap[h] # {}
    <3>1. NoRunIsMissing(h)
      BY DEF HookInv, HooksKeepTime, HookName
    <3>2. QED
      BY <1>1, <1>5, <2>2, <3>1 DEF NoRunIsMissing
  <2>3. QED
    BY <2>1, <2>2
<1>9. ASSUME NEW h \in HookName PROVE NoRunIsInvented(h)'
  <2>1. CASE h = g
    <3>1. HookRuns!Runs(p, "execute", h)' /\ runner'[p].at = runner[p].at
      BY <1>3, <2>1 DEF HookRuns!Runs, Has
    <3>2. QED
      BY <1>4, <1>5, <2>1, <3>1 DEF NoRunIsInvented
  <2>2. CASE h # g
    <3>1. NoRunIsInvented(h) /\ stamp'[h] = stamp[h]
      BY <1>5, <2>2 DEF HookInv, HooksKeepTime, HookName
    <3>2. ASSUME NEW q \in Process, HookRuns!Runs(q, "execute", h)
          PROVE  runner'[q] = runner[q]
      BY <1>1, <1>3, <3>2 DEF HookRuns!Runs
    <3>3. QED
      BY <1>1, <3>1, <3>2 DEF NoRunIsInvented, HookRuns!Runs
  <2>3. QED
    BY <2>1, <2>2
<1>10. QED
  BY <1>1, <1>6, <1>7, <1>8, <1>9 DEF OnTime, HooksKeepTime, HookName

(***************************************************************************)
(* A stamp cannot be written: what is left cannot be read, or is a mishap; *)
(* and a time of the past.                                                 *)
(***************************************************************************)
LEMMA TimeLost ==
  ASSUME HookInv, NEW p \in Process, HookRuns!WriteStampFails(p)
  PROVE  OnTime'
<1> DEFINE g == Head(runner[p].rest)
<1>1. /\ runner[p].pc = "write" /\ UNCHANGED <<now, ran>>
      /\ now \in Nat /\ Past(runner[p].at)
  BY DEF HookRuns!WriteStampFails, HookInv, HookShapes, TimesArePast, Holds
<1>2. /\ \A q \in Process \ {p} : runner'[q] = runner[q]
      /\ runner'[p].pc = "failed"
  BY DEF HookRuns!WriteStampFails, HookRuns!SetRunner, HookInv, HookShapes
<1>3. \A q \in Process, h \in HookName, pc \in {"write", "execute"} :
        Has(runner'[q], pc, h) => Has(runner[q], pc, h)
          /\ runner'[q] = runner[q]
  BY <1>2 DEF Has
<1>4. PICK f : /\ f.form = "whole" => f.at \in 0 .. runner[p].at
               /\ stamp' = [stamp EXCEPT ![g] = f]
               /\ mishap' = [mishap EXCEPT ![g] =
                    @ \cup IF f.form = "whole" THEN {"cut"} ELSE {}]
  BY DEF HookRuns!WriteStampFails, HookRuns!Whole, HookRuns!Torn,
         HookRuns!EmptyFile
<1>5. \A h \in HookName :
        /\ IF h = g THEN stamp'[h] = f ELSE stamp'[h] = stamp[h]
        /\ mishap[h] \subseteq mishap'[h]
        /\ h = g /\ f.form = "whole" => "cut" \in mishap'[h]
  BY <1>4 DEF HookInv, HookShapes
<1>6. TimesArePast'
  <2>1. f.form = "whole" => Past(f.at)
    BY <1>1, <1>4 DEF Past
  <2>2. QED
    BY <1>1, <1>2, <1>5, <2>1 DEF HookInv, TimesArePast, Past, Holds
<1>7. \A h \in HookName :
        stamp'[h].form = "whole" /\ "cut" \notin mishap'[h] =>
          stamp'[h] = stamp[h] /\ "cut" \notin mishap[h]
  BY <1>5
<1>8. ASSUME NEW h \in HookName, mishap'[h] = {} PROVE InOrder(h)'
  <2>1. InOrder(h)
    BY <1>5, <1>8 DEF HookInv
  <2>2. WritesAlone(h)' /\ WritesLatest(h)'
    BY <1>1, <1>3, <2>1 DEF InOrder, WritesAlone, WritesLatest
  <2>3. ExecutesStamped(h)'
    BY <1>3, <1>7, <1>8, <2>1 DEF InOrder, ExecutesStamped
  <2>4. QED
    BY <2>2, <2>3 DEF InOrder
<1>9. ASSUME NEW h \in HookName
      PROVE  NoRunIsMissing(h)' /\ NoRunIsInvented(h)'
  <2>1. NoRunIsMissing(h) /\ NoRunIsInvented(h)
    BY DEF HookInv, HooksKeepTime, HookName
  <2>2. ASSUME NEW q \in Process, HookRuns!Runs(q, "execute", h)
        PROVE  runner'[q] = runner[q]
    BY <1>1, <1>2, <2>2 DEF HookRuns!Runs
  <2>3. NoRunIsMissing(h)'
    BY <1>1, <1>5, <1>7, <2>1 DEF NoRunIsMissing
  <2>4. NoRunIsInvented(h)'
    BY <1>1, <1>7, <2>1, <2>2 DEF NoRunIsInvented, HookRuns!Runs
  <2>5. QED
    BY <2>3, <2>4
<1>10. QED
  BY <1>6, <1>8, <1>9 DEF OnTime, HooksKeepTime, HookName

\* A hook is executed: while there was no mishap, not later than its stamp.
LEMMA ExecutedAsStamped ==
  ASSUME HookInv, NEW p \in Process, HookRuns!Execute(p)
  PROVE  OnTime'
<1> DEFINE g == Head(runner[p].rest)
<1>1. /\ runner[p].pc = "execute" /\ UNCHANGED <<now, stamp, mishap>>
      /\ now \in Nat /\ Past(runner[p].at) /\ Has(runner[p], "execute", g)
  BY DEF HookRuns!Execute, HookInv, HookShapes, TimesArePast, Holds, Has
<1>2. PICK new : ~Holds(new) /\ runner' = [runner EXCEPT ![p] = new]
  <2>1. ~Holds(HookRuns!Run(Tail(runner[p].rest)))
    BY DEF HookRuns!Run, HookRuns!Step, Holds
  <2>2. QED
    BY <2>1 DEF HookRuns!Execute, HookRuns!SetRunner
<1>3. /\ \A q \in Process \ {p} : runner'[q] = runner[q]
      /\ ~Holds(runner'[p])
  BY <1>2 DEF HookInv, HookShapes
<1>4. \A h \in HookName :
        IF h = g THEN ran'[h] = ran[h] \cup {runner[p].at}
                 ELSE ran'[h] = ran[h]
  BY DEF HookRuns!Execute, HookInv, HookShapes
<1>5. \A q \in Process, h \in HookName, pc \in {"write", "execute"} :
        Has(runner'[q], pc, h) => Has(runner[q], pc, h)
          /\ runner'[q] = runner[q]
  BY <1>3 DEF Has, Holds
<1>6. TimesArePast'
  BY <1>1, <1>3, <1>4 DEF HookInv, TimesArePast, Past
<1>7. ASSUME NEW h \in HookName, mishap[h] = {} PROVE InOrder(h)'
  <2>1. InOrder(h)
    BY <1>7 DEF HookInv
  <2>2. WritesAlone(h)'
    BY <1>5, <2>1 DEF InOrder, WritesAlone
  <2>3. ExecutesStamped(h)'
    BY <1>1, <1>5, <2>1 DEF InOrder, ExecutesStamped
  <2>4. WritesLatest(h)'
    BY <1>1, <1>4, <1>5, <2>1 DEF InOrder, WritesLatest
  <2>5. QED
    BY <2>2, <2>3, <2>4 DEF InOrder
<1>8. ASSUME NEW h \in HookName PROVE NoRunIsMissing(h)'
  <2>1. NoRunIsMissing(h)
    BY DEF HookInv, HooksKeepTime, HookName
  <2>2. h = g /\ mishap[h] = {} /\ stamp[h].form = "whole" =>
          runner[p].at <= stamp[h].at
    BY <1>1 DEF HookInv, InOrder, ExecutesStamped
  <2>3. QED
    BY <1>1, <1>4, <2>1, <2>2 DEF NoRunIsMissing
<1>9. ASSUME NEW h \in HookName PROVE NoRunIsInvented(h)'
  <2>1. NoRunIsInvented(h)
    BY DEF HookInv, HooksKeepTime, HookName
  <2> SUFFICES ASSUME stamp[h].form = "whole", "cut" \notin mishap[h]
               PROVE  \/ stamp[h].at \in ran'[h]
                      \/ \E q \in Process :
                           /\ HookRuns!Runs(q, "execute", h)'
                           /\ runner'[q].at = stamp[h].at
    BY <1>1 DEF NoRunIsInvented
  <2>2. CASE stamp[h].at \in ran[h]
    BY <1>4, <2>2
  <2>3. ASSUME NEW q \in Process, HookRuns!Runs(q, "execute", h),
               runner[q].at = stamp[h].at
        PROVE  \/ stamp[h].at \in ran'[h]
               \/ HookRuns!Runs(q, "execute", h)' /\ runner'[q].at = stamp[h].at
    <3>1. CASE q = p
      <4>1. h = g
        BY <2>3, <3>1 DEF HookRuns!Runs
      <4>2. QED
        BY <1>4, <2>3, <3>1, <4>1
    <3>2. CASE q # p
      <4>1. runner'[q] = runner[q]
        BY <1>3, <3>2
      <4>2. QED
        BY <2>3, <4>1 DEF HookRuns!Runs
    <3>3. QED
      BY <3>1, <3>2
  <2>4. QED
    BY <2>1, <2>2, <2>3 DEF NoRunIsInvented
<1>10. QED
  BY <1>1, <1>6, <1>7, <1>8, <1>9 DEF OnTime, HooksKeepTime, HookName

\* Steps that leave the hooks alone, but for the clock.
LEMMA HooksAlone ==
  ASSUME HookInv, UNCHANGED <<stamp, runner, ran, mishap>>,
         now' \in {now, now + 1}
  PROVE  OnTime'
<1>1. now \in Nat /\ now' \in Nat /\ now <= now'
  BY DEF HookInv, HookShapes
<1>2. TimesArePast'
  BY <1>1 DEF HookInv, TimesArePast, Past
<1>3. HooksKeepTime'
  BY DEF HookInv, HooksKeepTime, NoRunIsMissing, NoRunIsInvented,
         HookRuns!Runs
<1>4. \A h \in HookName : InOrder(h) => InOrder(h)'
  BY DEF InOrder, WritesAlone, WritesLatest, ExecutesStamped
<1>5. QED
  BY <1>2, <1>3, <1>4 DEF OnTime, HookInv

\* A process begins with its hooks.
LEMMA HooksBegin ==
  ASSUME HookInv, NEW p \in Process, BeginHooks(p)
  PROVE  HookInv'
<1>1. /\ phase[p] = "loadHooks" /\ ~Holds(runner[p])
      /\ UNCHANGED <<now, stamp, ran, mishap>>
  BY DEF BeginHooks, HookRuns!BeginHooks, hookVars, HookInv, Begun
<1>2. PICK to : /\ phase' = [phase EXCEPT ![p] = to]
                /\ to \notin {"idle", "loadHooks"}
  BY DEF BeginHooks, Go
<1>3. CASE UNCHANGED hookVars
  <2>1. HookShapes' /\ Begun'
    BY <1>1, <1>2, <1>3 DEF hookVars, HookInv, HookShapes, Begun
  <2>2. QED
    BY <1>3, <2>1, HooksAlone DEF hookVars, HookInv, OnTime
<1>4. ASSUME NEW which, HookRuns!BeginHooks(p, which)
      PROVE  HookInv'
  <2>1. \A hooks : ~Holds(HookRuns!Run(hooks))
    BY DEF HookRuns!Run, HookRuns!Step, Holds
  <2>2. \A rest, due : ~Holds(HookRuns!Step("look", rest, due))
    BY DEF HookRuns!Step, Holds
  <2>3. PICK new : /\ ~Holds(new)
                   /\ runner' = [runner EXCEPT ![p] = new]
    BY <1>4, <2>1, <2>2 DEF HookRuns!BeginHooks, HookRuns!SetRunner
  <2>4. OnTime'
    BY <1>1, <2>3, QuietHookStep
  <2>5. HookShapes' /\ Begun'
    BY <1>1, <1>2, <2>3 DEF HookInv, HookShapes, Begun
  <2>6. QED
    BY <2>4, <2>5 DEF HookInv, OnTime
<1>5. QED
  BY <1>3, <1>4 DEF BeginHooks

\* A process looks at a hook, or stamps or executes one.
LEMMA HooksRun ==
  ASSUME HookInv, NEW p \in Process, RunHooks(p) \/ HooksFailToWrite(p)
  PROVE  HookInv'
<1>1. phase[p] = "hooks" /\ UNCHANGED <<phase, now>>
  BY DEF RunHooks, HooksFailToWrite, HookRuns!Look, HookRuns!CreateStamp,
         HookRuns!TakeTime, HookRuns!WriteStamp, HookRuns!Execute,
         HookRuns!WriteStampFails
<1>2. /\ DOMAIN runner' = Process /\ DOMAIN stamp' = HookName
      /\ DOMAIN ran' = HookName /\ DOMAIN mishap' = HookName
      /\ \A q \in Process \ {p} : runner'[q] = runner[q]
  BY DEF RunHooks, HooksFailToWrite, HookRuns!Look, HookRuns!CreateStamp,
         HookRuns!TakeTime, HookRuns!WriteStamp, HookRuns!Execute,
         HookRuns!WriteStampFails, HookRuns!SetRunner, HookInv, HookShapes
<1>3. HookShapes' /\ Begun'
  BY <1>1, <1>2 DEF HookInv, HookShapes, Begun
<1>4. \A hooks : ~Holds(HookRuns!Run(hooks))
  BY DEF HookRuns!Run, HookRuns!Step, Holds
<1>5. ASSUME HookRuns!Look(p) PROVE OnTime'
  <2>1. PICK new : ~Holds(new) /\ runner' = [runner EXCEPT ![p] = new]
    BY <1>4, <1>5 DEF HookRuns!Look, HookRuns!SetRunner, HookRuns!Step, Holds
  <2>2. ~Holds(runner[p]) /\ UNCHANGED <<now, stamp, ran, mishap>>
    BY <1>5 DEF HookRuns!Look, Holds
  <2>3. QED
    BY <2>1, <2>2, QuietHookStep
<1>6. ASSUME HookRuns!CreateStamp(p) PROVE OnTime'
  <2>1. PICK new : ~Holds(new) /\ runner' = [runner EXCEPT ![p] = new]
    <3>1. ~Holds([runner[p] EXCEPT !.pc = "take"])
      BY <1>6 DEF HookRuns!CreateStamp, Holds
    <3>2. QED
      BY <1>6, <3>1 DEF HookRuns!CreateStamp, HookRuns!SetRunner
  <2>2. PICK g, f : /\ f.form # "whole"
                    /\ stamp' = [stamp EXCEPT ![g] = f]
    BY <1>6 DEF HookRuns!CreateStamp, HookRuns!EmptyFile
  <2>3. ~Holds(runner[p]) /\ UNCHANGED <<now, ran, mishap>>
    BY <1>6 DEF HookRuns!CreateStamp, Holds
  <2>4. QED
    BY <2>1, <2>2, <2>3, QuietHookStep
<1>7. OnTime'
  BY <1>5, <1>6, TimeTaken, TimeWritten, TimeLost, ExecutedAsStamped
     DEF RunHooks, HooksFailToWrite
<1>8. QED
  BY <1>3, <1>7 DEF HookInv, OnTime

\* The rest of a command, and the clock.
LEMMA HooksRest ==
  ASSUME HookInv,
         \/ \E p \in Process :
              \/ Begin(p) \/ Load(p) \/ LoadFailsToWrite(p) \/ LoadFails(p)
              \/ EndHooks(p) \/ Configure(p) \/ Kill(p)
         \/ TimePasses
         \/ UNCHANGED vars
  PROVE  HookInv'
<1>1. UNCHANGED <<stamp, runner, ran, mishap>> /\ now' \in {now, now + 1}
  BY DEF Begin, Load, LoadFailsToWrite, LoadFails, EndHooks, Configure, Kill,
         TimePasses, hookVars, vars, HookRuns!Tick
<1>2. \/ UNCHANGED phase
      \/ \E p \in Process : \E to :
           /\ phase' = [phase EXCEPT ![p] = to]
           /\ to \in {"idle", "loadHooks"} => phase[p] = "idle"
  BY DEF Begin, Load, LoadFailsToWrite, LoadFails, EndHooks, Configure, Kill,
         TimePasses, vars, Go
<1>3. HookShapes' /\ Begun'
  BY <1>1, <1>2 DEF HookInv, HookShapes, Begun
<1>4. QED
  BY <1>1, <1>3, HooksAlone DEF HookInv, OnTime

(***************************************************************************)
(* Of any number of commands that run hooks at once, or are killed between *)
(* taking the time, writing it and the run: a state file that can be read  *)
(* misses no run, unless two of them had a time that was not written at    *)
(* once, or a failed write has left an earlier time; and it tells of no    *)
(* run that has not been, or is not about to be.                           *)
(***************************************************************************)
THEOREM HooksStayOnTime == Spec => []HooksKeepTime
<1>1. Init => HookInv
  BY DEF Init, HookRuns!HooksInit, HookInv, HookShapes, TimesArePast, Past,
         Holds, InOrder, WritesAlone, WritesLatest, ExecutesStamped, Has,
         Begun, HooksKeepTime, NoRunIsMissing, NoRunIsInvented,
         HookRuns!Absent, HookRuns!Waiting, HookName
<1>2. HookInv /\ [Next]_vars => HookInv'
  BY HooksBegin, HooksRun, HooksRest DEF Next
<1>3. HookInv => HooksKeepTime
  BY DEF HookInv
<1>4. QED
  BY <1>1, <1>2, <1>3, PTL DEF Spec

(***************************************************************************)
(* The configuration file.  While it is not spoilt it is absent,           *)
(* unreadable, empty, or all there (FileIsSettled), and what a process     *)
(* holds of it is all there too.                                           *)
(***************************************************************************)
OldText == [form |-> "text", version |-> FALSE, has |-> {"paths", "hooks"}]
NewText ==
  {[form |-> "text", version |-> TRUE, has |-> {"stores", "hooks"}],
   [form |-> "text", version |-> TRUE, has |-> {"stores", "hooks", "preview"}]}
Empty == Files!Bare("empty")
NoFile == Files!Bare("absent")
Garbage == Files!Bare("garbage")

IsMigrating(l) == l.pc \in Files!MigrationStep
IsWriting(l) == l.pc \in {"writeBackup", "create", "write"}

IsSettled(l) ==
  /\ IsMigrating(l) => l.old = OldText
  /\ l.pc = "loaded" => l.config \in {NoFile, Empty} \cup NewText

FileIsSettled ==
  /\ file \in {NoFile, Garbage, Empty, OldText} \cup NewText
  /\ \A p \in Process : IsSettled(loader[p])

FileShapes ==
  /\ DOMAIN loader = Process /\ DOMAIN phase = Process
  /\ faults \in Nat
  /\ \A p \in Process :
       phase[p] \in {"idle", "hooks"} => loader[p].pc = "resting"

(***************************************************************************)
(* The file is empty only while a process that runs is about to write it;  *)
(* or that one was killed, and then the copy is there, or a process that   *)
(* runs is still to write both.                                            *)
(***************************************************************************)
AtStep(steps) == \E p \in Running : loader[p].pc \in steps

BackupIsKept ==
  faults = 0 =>
    /\ backup \in {NoFile, Empty, OldText}
    /\ backup = Empty => AtStep({"writeBackup"})
    /\ backup = NoFile => \A p \in Process : ~IsWriting(loader[p])

EmptyIsPassing ==
  file = Empty =>
    \/ AtStep({"write"})
    \/ faults = 1 /\ (backup = OldText \/ AtStep(Files!MigrationStep))

FileInv ==
  /\ FileShapes
  /\ spoilt \/ FileIsSettled
  /\ faults > 1 \/ spoilt \/ (BackupIsKept /\ EmptyIsPassing)

\* The contents of files are told apart by their form.
LEMMA ContentsDiffer ==
  /\ OldText.form = "text" /\ \A c \in NewText : c.form = "text"
  /\ Empty.form = "empty" /\ NoFile.form = "absent"
  /\ Garbage.form = "garbage"
BY DEF OldText, NewText, Empty, NoFile, Garbage, Files!Bare

\* A step that leaves the files and every migration alone.
LEMMA QuietFileStep ==
  ASSUME FileInv, UNCHANGED <<file, backup, spoilt>>,
         faults' \in {faults, faults + 1},
         FileShapes',
         \A q \in Process :
           \/ loader'[q] = loader[q]
           \/ /\ ~IsMigrating(loader[q]) /\ ~IsMigrating(loader'[q])
              /\ FileIsSettled => IsSettled(loader'[q]),
         \A q \in Process : IsMigrating(loader[q]) => phase'[q] = phase[q]
  PROVE  FileInv'
<1>1. FileIsSettled => FileIsSettled'
  BY DEF FileIsSettled
<1>2. \A q \in Process :
        IsMigrating(loader[q]) \/ IsMigrating(loader'[q]) =>
          loader'[q] = loader[q]
  OBVIOUS
<1>3. ASSUME NEW steps \in SUBSET Files!MigrationStep, AtStep(steps)
      PROVE  AtStep(steps)'
  BY <1>2, <1>3 DEF AtStep, Running, IsMigrating
<1>4. {"writeBackup"} \in SUBSET Files!MigrationStep
      /\ {"write"} \in SUBSET Files!MigrationStep
  BY DEF Files!MigrationStep
<1>5. \A q \in Process : ~IsWriting(loader[q]) => ~IsWriting(loader'[q])
  BY <1>2 DEF IsWriting, IsMigrating, Files!MigrationStep
<1>6. BackupIsKept => BackupIsKept'
  <2> SUFFICES ASSUME BackupIsKept, faults' = 0
               PROVE  /\ backup' \in {NoFile, Empty, OldText}
                      /\ backup' = Empty => AtStep({"writeBackup"})'
                      /\ backup' = NoFile =>
                           \A p \in Process : ~IsWriting(loader'[p])
    BY DEF BackupIsKept
  <2>1. faults = 0
    BY DEF FileInv, FileShapes
  <2>2. QED
    BY <2>1, <1>3, <1>4, <1>5 DEF BackupIsKept
<1>7. faults' > 1 \/ (EmptyIsPassing => EmptyIsPassing')
  <2> SUFFICES ASSUME ~(faults' > 1), EmptyIsPassing, file' = Empty
               PROVE  \/ AtStep({"write"})'
                      \/ /\ faults' = 1
                         /\ backup' = OldText \/ AtStep(Files!MigrationStep)'
    BY DEF EmptyIsPassing
  <2>1. CASE AtStep({"write"})
    BY <2>1, <1>3, <1>4
  <2>2. CASE ~AtStep({"write"})
    <3>1. faults = 1 /\ (backup = OldText \/ AtStep(Files!MigrationStep))
      BY <2>2 DEF EmptyIsPassing
    <3>2. faults' = 1
      BY <3>1
    <3>3. AtStep(Files!MigrationStep) => AtStep(Files!MigrationStep)'
      BY <1>3
    <3>4. QED
      BY <3>1, <3>2, <3>3
  <2>3. QED
    BY <2>1, <2>2
<1>8. faults > 1 => faults' > 1
  BY DEF FileInv, FileShapes
<1>9. QED
  BY <1>1, <1>6, <1>7, <1>8 DEF FileInv

\* A process moves on, with its part of the configuration as it was.
LEMMA MovesOn ==
  ASSUME FileInv, NEW p \in Process, NEW to,
         phase' = [phase EXCEPT ![p] = to],
         loader' \in {loader, [loader EXCEPT ![p] = Files!Resting]},
         ~IsMigrating(loader[p]),
         to \in {"idle", "hooks"} => loader'[p].pc = "resting",
         UNCHANGED <<file, backup, spoilt>>,
         faults' \in {faults, faults + 1}
  PROVE  FileInv'
<1>1. ~IsMigrating(Files!Resting) /\ IsSettled(Files!Resting)
  BY DEF IsMigrating, IsSettled, Files!Resting, Files!MigrationStep
<1>2. FileShapes'
  BY DEF FileInv, FileShapes
<1>3. /\ loader'[p] \in {loader[p], Files!Resting}
      /\ \A q \in Process \ {p} : loader'[q] = loader[q]
      /\ \A q \in Process \ {p} : phase'[q] = phase[q]
  BY DEF FileInv, FileShapes
<1>4. ASSUME NEW q \in Process
      PROVE  \/ loader'[q] = loader[q]
             \/ /\ ~IsMigrating(loader[q]) /\ ~IsMigrating(loader'[q])
                /\ FileIsSettled => IsSettled(loader'[q])
  BY <1>1, <1>3
<1>5. \A q \in Process : IsMigrating(loader[q]) => phase'[q] = phase[q]
  BY <1>3
<1>6. QED
  BY <1>2, <1>4, <1>5, QuietFileStep

\* Steps that do not touch the configuration file.
LEMMA FileAlone ==
  ASSUME FileInv,
         \/ \E p \in Process :
              \/ Begin(p) \/ LoadFails(p) \/ BeginHooks(p) \/ RunHooks(p)
              \/ HooksFailToWrite(p) \/ EndHooks(p) \/ Configure(p)
         \/ TimePasses
         \/ UNCHANGED vars
  PROVE  FileInv'
<1>1. /\ UNCHANGED <<file, backup, spoilt>> /\ faults \in Nat
      /\ faults' \in {faults, faults + 1}
  BY DEF FileInv, FileShapes, Begin, LoadFails, BeginHooks, RunHooks,
         HooksFailToWrite, EndHooks, Configure, TimePasses, vars, fileVars
<1>2. ASSUME UNCHANGED <<loader, phase>>
      PROVE  FileInv'
  <2>1. FileShapes'
    BY <1>1, <1>2 DEF FileInv, FileShapes
  <2>2. QED
    BY <1>1, <1>2, <2>1, QuietFileStep
<1>3. CASE TimePasses \/ UNCHANGED vars
  BY <1>2, <1>3 DEF TimePasses, vars, fileVars
<1>4. ASSUME NEW p \in Process,
             \/ Begin(p) \/ LoadFails(p) \/ BeginHooks(p) \/ RunHooks(p)
             \/ HooksFailToWrite(p) \/ EndHooks(p) \/ Configure(p)
      PROVE  FileInv'
  <2>1. CASE RunHooks(p) \/ HooksFailToWrite(p)
    BY <2>1, <1>2 DEF RunHooks, HooksFailToWrite, fileVars
  <2>2. CASE Begin(p) \/ LoadFails(p) \/ EndHooks(p) \/ Configure(p)
    <3>1. /\ loader[p].pc \in {"resting", "failed", "loaded"}
          /\ loader' = loader
      BY <2>2 DEF FileInv, FileShapes, Begin, LoadFails, EndHooks, Configure,
           fileVars
    <3>2. \A to : Go(p, to) => phase' = [phase EXCEPT ![p] = to]
      BY DEF Go
    <3>3. PICK to \in {"loadHooks", "load", "done", "failed"} : Go(p, to)
      <4>1. CASE Begin(p)
        BY <4>1 DEF Begin
      <4>2. CASE LoadFails(p)
        BY <4>2 DEF LoadFails
      <4>3. CASE EndHooks(p)
        BY <4>3 DEF EndHooks
      <4>4. CASE Configure(p)
        BY <4>4 DEF Configure
      <4>5. QED
        BY <2>2, <4>1, <4>2, <4>3, <4>4
    <3>4. ~IsMigrating(loader[p])
      BY <3>1 DEF IsMigrating, Files!MigrationStep
    <3>5. /\ phase' = [phase EXCEPT ![p] = to]
          /\ loader' \in {loader, [loader EXCEPT ![p] = Files!Resting]}
          /\ to \in {"idle", "hooks"} => loader'[p].pc = "resting"
      BY <3>1, <3>2, <3>3
    <3>6. QED
      BY <1>1, <3>4, <3>5, MovesOn
  <2>3. CASE BeginHooks(p)
    <3>1. /\ loader[p].pc = "loaded"
          /\ loader' = [loader EXCEPT ![p] = Files!Resting]
      BY <2>3 DEF BeginHooks, Files!SetLoader
    <3>2. PICK to : phase' = [phase EXCEPT ![p] = to]
      BY <2>3 DEF BeginHooks, Go
    <3>3. ~IsMigrating(loader[p]) /\ Files!Resting.pc = "resting"
      BY <3>1 DEF IsMigrating, Files!MigrationStep, Files!Resting
    <3>4. /\ loader' \in {loader, [loader EXCEPT ![p] = Files!Resting]}
          /\ loader'[p].pc = "resting"
      BY <3>1, <3>3 DEF FileInv, FileShapes
    <3>5. QED
      BY <1>1, <3>2, <3>3, <3>4, MovesOn
  <2>4. QED
    BY <1>4, <2>1, <2>2, <2>3
<1>5. QED
  BY <1>3, <1>4

Loads(p) == phase[p] \in {"loadHooks", "load"}

\* One process works on the file: the others are where they were.
LEMMA OneLoads ==
  ASSUME FileInv, NEW p \in Process, Loads(p), NEW new,
         loader' = [loader EXCEPT ![p] = new], UNCHANGED phase,
         faults' \in {faults, faults + 1}
  PROVE  /\ FileShapes'
         /\ loader'[p] = new
         /\ \A q \in Process \ {p} : loader'[q] = loader[q]
         /\ p \in Running /\ Running' = Running
         /\ FileIsSettled /\ IsSettled(new) =>
              \A q \in Process : IsSettled(loader'[q])
<1>1. /\ loader'[p] = new
      /\ \A q \in Process \ {p} : loader'[q] = loader[q]
  BY DEF FileInv, FileShapes
<1>2. FileShapes'
  BY DEF FileInv, FileShapes, Loads
<1>3. p \in Running /\ Running' = Running
  BY DEF Running, Loads
<1>4. QED
  BY <1>1, <1>2, <1>3 DEF FileIsSettled

\* The file is read: the old format begins a migration.
LEMMA FileIsRead ==
  ASSUME FileInv, NEW p \in Process, Loads(p), loader[p].pc = "resting",
         Files!LoadConfig(p), UNCHANGED <<phase, faults, spoilt>>
  PROVE  FileInv'
<1>1. PICK new :
        /\ new = IF file.form = "garbage" THEN Files!FailedToLoad
                 ELSE IF Files!IsOld(file)
                      THEN Files!Migrating("createBackup", Files!AsOld(file))
                      ELSE Files!Loaded(file)
        /\ loader' = [loader EXCEPT ![p] = new]
  BY DEF Files!LoadConfig, Files!SetLoader
<1>2. /\ UNCHANGED <<file, backup>> /\ faults \in Nat
      /\ faults' \in {faults, faults + 1}
  BY DEF Files!LoadConfig, FileInv, FileShapes
<1>3. /\ FileShapes' /\ loader'[p] = new
      /\ \A q \in Process \ {p} : loader'[q] = loader[q]
      /\ p \in Running /\ Running' = Running
      /\ FileIsSettled /\ IsSettled(new) =>
           \A q \in Process : IsSettled(loader'[q])
  BY <1>1, <1>2, OneLoads
<1>4. CASE spoilt
  BY <1>3, <1>4 DEF FileInv
<1>5. CASE ~spoilt
  <2>1. FileIsSettled
    BY <1>5 DEF FileInv
  <2>2. ~IsMigrating(loader[p])
    BY DEF IsMigrating, Files!MigrationStep
  <2>3. CASE file = OldText
    <3>1. Files!IsOld(OldText) /\ Files!AsOld(OldText) = OldText
      <4>1. {"paths", "hooks"} \cap {"paths", "hooks"} = {"paths", "hooks"}
        OBVIOUS
      <4>2. QED
        BY <4>1 DEF OldText, Files!IsOld, Files!AsOld
    <3>2. /\ new.pc = "createBackup" /\ new.old = OldText
      BY <1>1, <2>3, <3>1, ContentsDiffer DEF Files!Migrating
    <3>3. IsSettled(new) /\ ~IsWriting(new)
      BY <3>2 DEF IsSettled, IsWriting
    <3>4. FileIsSettled'
      BY <1>2, <1>3, <2>1, <3>3 DEF FileIsSettled
    <3>5. ASSUME NEW steps \in SUBSET Files!MigrationStep, AtStep(steps)
          PROVE  AtStep(steps)'
      <4>1. PICK q \in Running : loader[q].pc \in steps
        BY <3>5 DEF AtStep
      <4>2. q # p /\ q \in Process
        BY <2>2, <4>1 DEF IsMigrating, Running
      <4>3. loader'[q] = loader[q] /\ q \in Running'
        BY <1>3, <4>1, <4>2
      <4>4. QED
        BY <4>1, <4>3 DEF AtStep
    <3>6. {"writeBackup"} \in SUBSET Files!MigrationStep
      BY DEF Files!MigrationStep
    <3>7. BackupIsKept => BackupIsKept'
      <4>1. ASSUME NEW q \in Process, ~IsWriting(loader[q])
            PROVE  ~IsWriting(loader'[q])
        BY <1>3, <3>3, <4>1
      <4>2. QED
        BY <1>2, <3>5, <3>6, <4>1 DEF BackupIsKept
    <3>8. EmptyIsPassing'
      BY <1>2, <2>3, ContentsDiffer DEF EmptyIsPassing
    <3>9. QED
      BY <1>2, <1>3, <3>4, <3>7, <3>8 DEF FileInv
  <2>4. CASE file # OldText
    <3>1. file \in {NoFile, Garbage, Empty} \cup NewText
      BY <2>1, <2>4 DEF FileIsSettled
    <3>2. ~Files!IsOld(file)
      BY <3>1 DEF NoFile, Garbage, Empty, NewText, Files!Bare, Files!IsOld
    <3>3. /\ ~IsMigrating(new) /\ IsSettled(new)
      <4>1. CASE file = Garbage
        BY <1>1, <4>1, ContentsDiffer
        DEF Files!FailedToLoad, IsMigrating, IsSettled, Files!MigrationStep
      <4>2. CASE file # Garbage
        <5>1. new.pc = "loaded" /\ new.config = file
          BY <1>1, <3>1, <3>2, <4>2, ContentsDiffer DEF Files!Loaded
        <5>2. QED
          BY <3>1, <4>2, <5>1
          DEF IsMigrating, IsSettled, Files!MigrationStep
      <4>3. QED
        BY <4>1, <4>2
    <3>4. ASSUME NEW q \in Process
          PROVE  \/ loader'[q] = loader[q]
                 \/ /\ ~IsMigrating(loader[q]) /\ ~IsMigrating(loader'[q])
                    /\ FileIsSettled => IsSettled(loader'[q])
      BY <1>3, <2>2, <3>3
    <3>5. QED
      BY <1>2, <1>3, <3>4, QuietFileStep
  <2>5. QED
    BY <2>3, <2>4
<1>6. QED
  BY <1>4, <1>5

\* A step of a migration that has read the file whole.
LEMMA FileIsMigrated ==
  ASSUME FileInv, NEW p \in Process, Loads(p), Files!Migrate(p),
         UNCHANGED <<phase, faults, spoilt>>
  PROVE  FileInv'
<1> DEFINE old == loader[p].old
           at == loader[p].pc
           next == CASE at = "createBackup" ->
                          Files!Migrating("writeBackup", old)
                     [] at = "writeBackup" -> Files!Migrating("create", old)
                     [] at = "create" -> Files!Migrating("write", old)
                     [] at = "write" -> Files!Loaded(Files!Convert(old))
<1>1. /\ at \in Files!MigrationStep
      /\ file' = IF at = "create" THEN Empty
                 ELSE IF at = "write" THEN Files!Convert(old) ELSE file
      /\ backup' = IF at = "createBackup" THEN Empty
                   ELSE IF at = "writeBackup" THEN old ELSE backup
  BY DEF Files!Migrate, Files!MigrationStep, Empty
<1>2. PICK new : new = next /\ loader' = [loader EXCEPT ![p] = new]
  BY DEF Files!Migrate, Files!SetLoader
<1>3. faults \in Nat /\ faults' \in {faults, faults + 1}
  BY DEF FileInv, FileShapes
<1>4. /\ FileShapes' /\ loader'[p] = new
      /\ \A q \in Process \ {p} : loader'[q] = loader[q]
      /\ p \in Running /\ Running' = Running
      /\ FileIsSettled /\ IsSettled(new) =>
           \A q \in Process : IsSettled(loader'[q])
  BY <1>2, <1>3, OneLoads
<1>5. CASE spoilt
  BY <1>4, <1>5 DEF FileInv
<1>6. CASE ~spoilt
  <2>1. FileIsSettled /\ old = OldText
    BY <1>1, <1>6 DEF FileInv, FileIsSettled, IsSettled, IsMigrating
  <2>2. Files!Convert(OldText) \in NewText
    <3>1. ({"paths", "hooks"} \cap {"hooks"}) \cup {"stores"}
            = {"stores", "hooks"}
      OBVIOUS
    <3>2. Files!Convert(OldText) =
            [form |-> "text", version |-> TRUE, has |-> {"stores", "hooks"}]
      BY <3>1 DEF Files!Convert, OldText
    <3>3. QED
      BY <3>2 DEF NewText
  <2>3. /\ at = "createBackup" =>
             /\ new.pc = "writeBackup" /\ new.old = OldText
             /\ file' = file /\ backup' = Empty
        /\ at = "writeBackup" =>
             /\ new.pc = "create" /\ new.old = OldText
             /\ file' = file /\ backup' = OldText
        /\ at = "create" =>
             /\ new.pc = "write" /\ new.old = OldText
             /\ file' = Empty /\ backup' = backup
        /\ at = "write" =>
             /\ new.pc = "loaded" /\ new.config \in NewText
             /\ file' \in NewText /\ backup' = backup
    BY <1>1, <1>2, <2>1, <2>2 DEF Files!Migrating, Files!Loaded
  <2>4. at \in {"createBackup", "writeBackup", "create", "write"}
    BY <1>1 DEF Files!MigrationStep
  <2> HIDE DEF old, at, next
  <2>5. IsSettled(new)
    BY <2>3, <2>4 DEF IsSettled, IsMigrating, Files!MigrationStep
  <2>6. FileIsSettled'
    BY <1>4, <2>1, <2>3, <2>4, <2>5 DEF FileIsSettled
  <2>7. ASSUME NEW steps, AtStep(steps), at \notin steps
        PROVE  AtStep(steps)'
    <3>1. PICK q \in Running : loader[q].pc \in steps
      BY <2>7 DEF AtStep
    <3>2. q \in Process /\ loader'[q] = loader[q] /\ q \in Running'
      BY <1>4, <2>7, <3>1 DEF Running, at
    <3>3. QED
      BY <3>1, <3>2 DEF AtStep
  <2>8. ASSUME NEW steps, new.pc \in steps
        PROVE  AtStep(steps)'
    BY <1>4, <2>8 DEF AtStep
  <2>9. BackupIsKept => BackupIsKept'
    <3> SUFFICES ASSUME BackupIsKept, faults = 0
                 PROVE  /\ backup' \in {NoFile, Empty, OldText}
                        /\ backup' = Empty => AtStep({"writeBackup"})'
                        /\ backup' = NoFile =>
                             \A q \in Process : ~IsWriting(loader'[q])
      BY DEF BackupIsKept
    <3>1. /\ backup \in {NoFile, Empty, OldText}
          /\ backup = Empty => AtStep({"writeBackup"})
          /\ backup = NoFile => \A q \in Process : ~IsWriting(loader[q])
      BY DEF BackupIsKept
    <3>2. IsWriting(loader[p]) <=> at # "createBackup"
      BY <2>4 DEF IsWriting, at
    <3>3. CASE at = "createBackup"
      BY <2>3, <2>8, <3>3, ContentsDiffer
    <3>4. CASE at = "writeBackup"
      BY <2>3, <3>4, ContentsDiffer
    <3>5. CASE at \in {"create", "write"}
      BY <2>3, <2>7, <3>1, <3>2, <3>5
    <3>6. QED
      BY <2>4, <3>3, <3>4, <3>5
  <2>10. EmptyIsPassing => EmptyIsPassing'
    <3> SUFFICES ASSUME EmptyIsPassing, file' = Empty
                 PROVE  \/ AtStep({"write"})'
                        \/ /\ faults = 1
                           /\ \/ backup' = OldText
                              \/ AtStep(Files!MigrationStep)'
      BY DEF EmptyIsPassing
    <3>1. at # "write"
      BY <2>3, ContentsDiffer
    <3>2. CASE at = "create"
      BY <2>3, <2>8, <3>2
    <3>3. CASE at \in {"createBackup", "writeBackup"}
      <4>1. new.pc \in Files!MigrationStep
        BY <2>3, <3>3 DEF Files!MigrationStep
      <4>2. AtStep(Files!MigrationStep)'
        BY <2>8, <4>1
      <4>3. \/ AtStep({"write"}) \/ faults = 1
        BY <2>3, <3>3 DEF EmptyIsPassing
      <4>4. QED
        BY <2>7, <3>1, <4>2, <4>3
    <3>4. QED
      BY <2>4, <3>1, <3>2, <3>3
  <2>11. QED
    BY <1>4, <2>6, <2>9, <2>10 DEF FileInv
<1>7. QED
  BY <1>5, <1>6

\* A migration that cannot write: the process that is to write is another.
LEMMA FileIsTorn ==
  ASSUME FileInv, NEW p \in Process, LoadFailsToWrite(p)
  PROVE  FileInv'
<1>1. /\ Loads(p) /\ loader[p].pc \in {"writeBackup", "write"}
      /\ loader' = [loader EXCEPT ![p] = Files!FailedToLoad]
      /\ faults' = faults + 1 /\ faults \in Nat /\ UNCHANGED phase
      /\ spoilt' = (spoilt \/ loader[p].pc = "write")
      /\ loader[p].pc = "writeBackup" => file' = file
  BY DEF LoadFailsToWrite, Loads, Files!MigrationFails, Files!SetLoader,
         FileInv, FileShapes
<1>2. IsSettled(Files!FailedToLoad)
  BY DEF IsSettled, IsMigrating, Files!FailedToLoad, Files!MigrationStep
<1>3. PICK new : new = Files!FailedToLoad
                 /\ loader' = [loader EXCEPT ![p] = new]
  BY <1>1
<1>4. /\ FileShapes' /\ loader'[p] = new
      /\ \A q \in Process \ {p} : loader'[q] = loader[q]
      /\ p \in Running /\ Running' = Running
      /\ FileIsSettled /\ IsSettled(new) =>
           \A q \in Process : IsSettled(loader'[q])
  BY <1>1, <1>3, OneLoads
<1>5. CASE spoilt \/ loader[p].pc = "write" \/ faults > 0
  <2>1. FileIsSettled => spoilt' \/ FileIsSettled'
    BY <1>1, <1>2, <1>3, <1>4 DEF FileIsSettled
  <2>2. spoilt' \/ faults' > 1
    <3>1. CASE spoilt \/ loader[p].pc = "write"
      BY <1>1, <3>1, Zenon
    <3>2. faults > 0 => faults' > 1
      BY <1>1
    <3>3. QED
      BY <1>5, <3>1, <3>2
  <2>3. QED
    BY <1>1, <1>4, <2>1, <2>2 DEF FileInv
<1>6. CASE ~spoilt /\ loader[p].pc = "writeBackup" /\ faults = 0
  <2>1. FileIsSettled'
    BY <1>1, <1>2, <1>3, <1>4, <1>6 DEF FileInv, FileIsSettled
  <2>2. ASSUME file' = Empty
        PROVE  AtStep({"write"})'
    <3>1. PICK q \in Running : loader[q].pc \in {"write"}
      BY <1>1, <1>6, <2>2 DEF FileInv, EmptyIsPassing, AtStep
    <3>2. q \in Process \ {p}
      BY <1>6, <3>1 DEF Running
    <3>3. QED
      BY <1>4, <3>1, <3>2 DEF AtStep
  <2>3. EmptyIsPassing' /\ BackupIsKept'
    BY <1>1, <1>6, <2>2 DEF EmptyIsPassing, BackupIsKept
  <2>4. QED
    BY <1>4, <2>1, <2>3 DEF FileInv
<1>7. QED
  BY <1>1, <1>5, <1>6

\* A process is killed, the file still empty in the worst case.
LEMMA FileOutlivesKill ==
  ASSUME FileInv, NEW p \in Process, Kill(p)
  PROVE  FileInv'
<1>1. /\ p \in Running /\ phase' = [phase EXCEPT ![p] = "killed"]
      /\ UNCHANGED <<file, backup, loader, spoilt>>
      /\ faults' = faults + 1 /\ faults \in Nat
  BY DEF Kill, Go, fileVars, FileInv, FileShapes
<1>2. FileShapes' /\ \A q \in Running \ {p} : q \in Running'
  BY <1>1 DEF FileInv, FileShapes, Running
<1>3. spoilt' \/ FileIsSettled'
  BY <1>1 DEF FileInv, FileIsSettled
<1>4. CASE spoilt \/ faults > 0
  BY <1>1, <1>2, <1>3, <1>4 DEF FileInv
<1>5. CASE ~spoilt /\ faults = 0
  <2>1. BackupIsKept /\ EmptyIsPassing /\ faults' = 1
    BY <1>1, <1>5 DEF FileInv
  <2>2. ASSUME NEW at \in Files!MigrationStep, AtStep({at}),
               loader[p].pc # at
        PROVE  AtStep({at})' /\ AtStep(Files!MigrationStep)'
    <3>1. PICK q \in Running : loader[q].pc = at
      BY <2>2 DEF AtStep
    <3>2. q \in Running' /\ loader'[q].pc = at
      BY <1>1, <1>2, <2>2, <3>1
    <3>3. QED
      BY <3>2 DEF AtStep
  <2>3. "write" \in Files!MigrationStep
        /\ "writeBackup" \in Files!MigrationStep
    BY DEF Files!MigrationStep
  <2>4. ASSUME file = Empty
        PROVE  \/ AtStep({"write"})' \/ backup = OldText
               \/ AtStep(Files!MigrationStep)'
    <3>1. AtStep({"write"})
      BY <1>5, <2>1, <2>4 DEF EmptyIsPassing
    <3>2. CASE loader[p].pc # "write"
      BY <2>2, <2>3, <3>1, <3>2
    <3>3. CASE loader[p].pc = "write"
      <4>1. p \in Process /\ IsWriting(loader[p])
        BY <3>3 DEF IsWriting, Running
      <4>2. backup \in {Empty, OldText}
        BY <1>5, <2>1, <4>1 DEF BackupIsKept
      <4>3. CASE backup = Empty
        <5>1. AtStep({"writeBackup"})
          BY <1>5, <2>1, <4>3 DEF BackupIsKept
        <5>2. QED
          BY <2>2, <2>3, <3>3, <5>1
      <4>4. QED
        BY <4>2, <4>3
    <3>4. QED
      BY <3>2, <3>3
  <2>5. EmptyIsPassing' /\ BackupIsKept'
    BY <1>1, <2>1, <2>4 DEF EmptyIsPassing, BackupIsKept
  <2>6. QED
    BY <1>2, <1>3, <2>5 DEF FileInv
<1>6. QED
  BY <1>1, <1>4, <1>5

\* A file that is whole, or a copy of it, has all the settings.
LEMMA WholeKeepsAll ==
  /\ Kept(OldText) = {"stores", "hooks"}
  /\ \A c \in NewText : Kept(c) = {"stores", "hooks"}
<1>1. OldText.has = {"paths", "hooks"}
      /\ \A c \in NewText : c.has = {"stores", "hooks"}
                            \/ c.has = {"stores", "hooks", "preview"}
  BY DEF OldText, NewText
<1>2. QED
  BY <1>1 DEF Kept

LEMMA FileInvHolds == Spec => []FileInv
<1>1. Init => FileInv
  <2> SUFFICES ASSUME Init PROVE FileInv
    OBVIOUS
  <2>1. /\ spoilt \/ file \in {NoFile, Garbage, OldText} \cup NewText
        /\ backup = NoFile
        /\ loader = [p \in Process |-> Files!Resting]
        /\ phase = [p \in Process |-> "idle"]
        /\ faults = 0
    <3>1. file.form = "mistyped" \/ file \in {NoFile, Garbage, OldText}
                                       \cup NewText
      BY DEF Init, Files!FileInit, NoFile, Garbage, OldText, NewText
    <3>2. /\ spoilt = (file.form = "mistyped") /\ faults = 0
          /\ backup = NoFile
          /\ loader = [p \in Process |-> Files!Resting]
          /\ phase = [p \in Process |-> "idle"]
      BY DEF Init, Files!FileInit, NoFile
    <3>3. QED
      BY <3>1, <3>2
  <2>2. Files!Resting.pc = "resting"
    BY DEF Files!Resting
  <2>3. FileShapes /\ (spoilt \/ FileIsSettled)
    BY <2>1, <2>2 DEF FileShapes, FileIsSettled, IsSettled, IsMigrating,
         Files!MigrationStep
  <2>4. spoilt \/ (BackupIsKept /\ EmptyIsPassing)
    BY <2>1, <2>2, ContentsDiffer
    DEF BackupIsKept, EmptyIsPassing, IsWriting
  <2>5. QED
    BY <2>3, <2>4 DEF FileInv
<1>2. FileInv /\ [Next]_vars => FileInv'
  <2> SUFFICES ASSUME FileInv, [Next]_vars PROVE FileInv'
    OBVIOUS
  <2>1. ASSUME NEW p \in Process, Load(p) PROVE FileInv'
    <3>1. /\ Loads(p) /\ UNCHANGED <<phase, faults, spoilt>>
          /\ \/ loader[p].pc = "resting" /\ Files!LoadConfig(p)
             \/ Files!Migrate(p)
      BY <2>1 DEF Load, Loads
    <3>2. QED
      BY <3>1, FileIsRead, FileIsMigrated
  <2>2. QED
    BY <2>1, FileAlone, FileIsTorn, FileOutlivesKill DEF Next
<1>3. QED
  BY <1>1, <1>2, PTL DEF Spec

(***************************************************************************)
(* However many commands load the configuration at once, and if one of     *)
(* them is killed or cannot write the copy: the settings are in the file,  *)
(* in its copy, or with a command that is about to write them - unless the *)
(* new format was spoilt: a value has the wrong type, or a write of it has *)
(* failed.                                                                 *)
(***************************************************************************)
THEOREM SettingsSurviveMigration == Spec => []SettingsSurvive
<1>1. FileInv => SettingsSurvive
  <2> SUFFICES ASSUME FileInv, ~(faults > 1), ~spoilt,
                      file.form \notin {"absent", "garbage"},
                      \A c \in {file, backup} : Kept(c) # {"stores", "hooks"}
               PROVE  AtStep(Files!MigrationStep)
    BY DEF SettingsSurvive, AtStep
  <2>1. FileIsSettled /\ EmptyIsPassing
    BY DEF FileInv
  <2>2. file = Empty
    BY <2>1, WholeKeepsAll, ContentsDiffer DEF FileIsSettled
  <2>3. backup # OldText
    BY WholeKeepsAll
  <2>4. AtStep({"write"}) => AtStep(Files!MigrationStep)
    BY DEF AtStep, Files!MigrationStep
  <2>5. QED
    BY <2>1, <2>2, <2>3, <2>4 DEF EmptyIsPassing
<1>2. QED
  BY <1>1, FileInvHolds, PTL

(***************************************************************************)
(* The stores.  What the user has configured is valid, and a command that  *)
(* has stores is done with them and has built them all.                    *)
(***************************************************************************)
HasItsStores(p) ==
  stores[p].ok =>
    /\ phase[p] = "done"
    /\ \/ loader[p].config.form = "absent"
       \/ spoilt
       \/ stores[p] = BuildStores(settings, environment)

StoresInv ==
  /\ FileInv
  /\ settings \in Config /\ ConfigIsValid(settings)
  /\ DOMAIN stores = Process
  /\ \A p \in Process : HasItsStores(p)

\* A command that is done does nothing more.
LEMMA DoneIsDone ==
  ASSUME StoresInv, Next, NEW q \in Process, phase[q] = "done",
         stores' = stores
  PROVE  phase'[q] = "done" /\ loader'[q] = loader[q]
<1>1. DOMAIN loader = Process /\ DOMAIN phase = Process
  BY DEF StoresInv, FileInv, FileShapes
<1>2. ASSUME NEW p \in Process,
             \/ Begin(p) \/ LoadFails(p) \/ EndHooks(p) \/ Configure(p)
             \/ Kill(p) \/ RunHooks(p) \/ HooksFailToWrite(p)
      PROVE  phase'[q] = "done" /\ loader'[q] = loader[q]
  <2>1. loader' = loader
    BY <1>2 DEF Begin, LoadFails, EndHooks, Configure, Kill, RunHooks,
         HooksFailToWrite, fileVars
  <2>2. p # q
    BY <1>2 DEF Begin, LoadFails, EndHooks, Configure, Kill, Running,
         RunHooks, HooksFailToWrite
  <2>3. phase' = phase \/ \E to : Go(p, to)
    BY <1>2 DEF Begin, LoadFails, EndHooks, Configure, Kill, RunHooks,
         HooksFailToWrite
  <2>4. QED
    BY <1>1, <2>1, <2>2, <2>3 DEF Go
<1>3. ASSUME NEW p \in Process, BeginHooks(p)
      PROVE  phase'[q] = "done" /\ loader'[q] = loader[q]
  <2>1. p # q /\ loader' = [loader EXCEPT ![p] = Files!Resting]
    BY <1>3 DEF BeginHooks, Files!SetLoader
  <2>2. \E to : Go(p, to)
    BY <1>3 DEF BeginHooks
  <2>3. QED
    BY <1>1, <2>1, <2>2 DEF Go
<1>4. ASSUME NEW p \in Process, Load(p) \/ LoadFailsToWrite(p)
      PROVE  phase'[q] = "done" /\ loader'[q] = loader[q]
  <2>1. p # q /\ phase' = phase
    BY <1>4 DEF Load, LoadFailsToWrite
  <2>2. \E new : loader' = [loader EXCEPT ![p] = new]
    BY <1>4 DEF Load, LoadFailsToWrite, Files!LoadConfig, Files!Migrate,
         Files!MigrationFails, Files!SetLoader
  <2>3. QED
    BY <1>1, <2>1, <2>2
<1>5. CASE TimePasses
  BY <1>5 DEF TimePasses, fileVars
<1>6. QED
  BY <1>2, <1>3, <1>4, <1>5 DEF Next

\* A configuration that passes the validation has all the settings.
LEMMA ConfiguredWhole ==
  ASSUME StoresInv, NEW p \in Process, Configure(p)
  PROVE  StoresInv'
<1> DEFINE c == Settings(loader[p].config)
           ok == loader[p].config.form = "absent" \/ ConfigIsValid(c)
           built == IF ok THEN BuildStores(c, environment) ELSE Refused
<1>1. /\ loader[p].pc = "loaded"
      /\ UNCHANGED <<settings, environment, loader, spoilt>>
      /\ stores' = [stores EXCEPT ![p] = built]
      /\ phase' = [phase EXCEPT ![p] = IF built.ok THEN "done" ELSE "failed"]
      /\ phase[p] = "load"
  BY DEF Configure, Go, userVars, fileVars
<1>2. FileInv'
  BY FileAlone DEF StoresInv
<1>3. DOMAIN phase = Process /\ DOMAIN stores = Process
  BY DEF StoresInv, FileInv, FileShapes
<1>4. ASSUME built.ok, ~spoilt, loader[p].config.form # "absent"
      PROVE  built = BuildStores(settings, environment)
  <2>1. ok /\ ConfigIsValid(c)
    BY <1>4 DEF Refused
  <2>2. loader[p].config \in {NoFile, Empty} \cup NewText
    BY <1>1, <1>4 DEF StoresInv, FileInv, FileIsSettled, IsSettled
  <2>3. loader[p].config # Empty
    BY <2>1, ContentsDiffer DEF Settings, EmptyConfig, ConfigIsValid
  <2>4. loader[p].config \in NewText
    BY <1>4, <2>2, <2>3, ContentsDiffer
  <2>5. /\ loader[p].config.form = "text" /\ loader[p].config.version = TRUE
        /\ "stores" \in loader[p].config.has
    BY <2>4 DEF NewText
  <2>6. settings.version = TRUE
    BY DEF StoresInv, ConfigIsValid, Config
  <2>7. c = settings
    BY <2>5, <2>6 DEF Settings, StoresInv, Config
  <2>8. QED
    BY <2>1, <2>7
<1> HIDE DEF c, ok, built
<1>5. ASSUME NEW q \in Process PROVE HasItsStores(q)'
  <2>1. CASE q = p
    BY <1>1, <1>3, <1>4, <2>1 DEF HasItsStores
  <2>2. CASE q # p
    BY <1>1, <1>3, <2>2 DEF HasItsStores, StoresInv
  <2>3. QED
    BY <2>1, <2>2
<1>6. QED
  BY <1>1, <1>2, <1>3, <1>5 DEF StoresInv

\* Every command that is done has the stores it has built.
LEMMA StoresInvHolds == Spec => []StoresInv
<1>1. Init /\ FileInv => StoresInv
  <2> SUFFICES ASSUME Init, FileInv PROVE StoresInv
    OBVIOUS
  <2>1. \A p \in Process : ~stores[p].ok
    BY DEF Init, Refused
  <2>2. QED
    BY <2>1 DEF Init, StoresInv, HasItsStores
<1>2. StoresInv /\ FileInv' /\ [Next]_vars => StoresInv'
  <2> SUFFICES ASSUME StoresInv, FileInv', [Next]_vars PROVE StoresInv'
    OBVIOUS
  <2>1. ASSUME NEW p \in Process, Configure(p) PROVE StoresInv'
    BY <2>1, ConfiguredWhole
  <2>2. ASSUME UNCHANGED vars PROVE StoresInv'
    BY <2>2 DEF vars, userVars, fileVars, StoresInv, HasItsStores
  <2>3. ASSUME Next, ~(\E p \in Process : Configure(p)) PROVE StoresInv'
    <3>1. UNCHANGED <<settings, environment, stores>>
      BY <2>3 DEF Next, Begin, Load, LoadFailsToWrite, LoadFails, BeginHooks,
           RunHooks, HooksFailToWrite, EndHooks, Kill, TimePasses, userVars
    <3>2. spoilt => spoilt'
      BY <2>3 DEF Next, Begin, Load, LoadFailsToWrite, LoadFails, BeginHooks,
           RunHooks, HooksFailToWrite, EndHooks, Kill, TimePasses
    <3>3. ASSUME NEW q \in Process PROVE HasItsStores(q)'
      <4>1. HasItsStores(q)
        BY DEF StoresInv
      <4>2. phase[q] = "done" => phase'[q] = "done" /\ loader'[q] = loader[q]
        BY <2>3, <3>1, DoneIsDone
      <4>3. QED
        BY <3>1, <3>2, <4>1, <4>2 DEF HasItsStores
    <3>4. QED
      BY <3>1, <3>3 DEF StoresInv
  <2>4. QED
    BY <2>1, <2>2, <2>3
<1>3. QED
  BY <1>1, <1>2, FileInvHolds, PTL DEF Spec

(***************************************************************************)
(* A command that goes on to search has every store of the user, also      *)
(* while others migrate the file, or are killed doing so - unless there is *)
(* no configuration file, or the new format was spoilt: a value has the    *)
(* wrong type, or a write of it has failed.                                *)
(***************************************************************************)
THEOREM CommandsAreConfigured == Spec => []NeverHalfConfigured
<1>1. StoresInv => NeverHalfConfigured
  BY DEF StoresInv, HasItsStores, NeverHalfConfigured
<1>2. QED
  BY <1>1, StoresInvHolds, PTL

(***************************************************************************)
(* The types.  Who looks at hooks, stamps or executes them has at least    *)
(* one left, and who has begun with the hooks was not asked for `switch`.  *)
(***************************************************************************)
HasHooksLeft(r) ==
  r.pc \in {"look", "create", "take", "write", "execute"} => r.rest # << >>

TypesInv ==
  /\ TypeOK
  /\ DOMAIN runner = Process
  /\ \A p \in Process : HasHooksLeft(runner[p])
  /\ \A p \in Process : phase[p] = "loadHooks" => command[p] # "switch"

FilesTyped ==
  /\ file \in Files!Content /\ backup \in Files!Content
  /\ loader \in [Process -> Files!Loader]

\* Every step of the configuration file.
LEMMA FilesKeepType ==
  ASSUME FilesTyped, NEW p \in Process,
         \/ Files!LoadConfig(p) \/ Files!Migrate(p) \/ Files!MigrationFails(p)
  PROVE  FilesTyped'
<1>1. /\ Files!Bare("empty") \in Files!Content
      /\ \A c \in Files!Content : Files!Loaded(c) \in Files!Loader
      /\ Files!FailedToLoad \in Files!Loader
      /\ \A pc \in Files!MigrationStep, c \in Files!Text :
           Files!Migrating(pc, c) \in Files!Loader
      /\ Files!Text \subseteq Files!Content
  BY DEF Files!Content, Files!Loader
<1>2. ASSUME Files!LoadConfig(p)
      PROVE  FilesTyped'
  <2>1. CASE Files!IsOld(file)
    <3>1. file \in Files!Text
      BY <2>1 DEF FilesTyped, Files!Content, Files!IsOld, Files!Bare
    <3>2. Files!AsOld(file) \in Files!Text
      BY <3>1 DEF Files!AsOld, Files!Text, Files!Setting
    <3>3. Files!Migrating("createBackup", Files!AsOld(file)) \in Files!Loader
      BY <1>1, <3>2 DEF Files!MigrationStep
    <3>4. QED
      BY <1>1, <1>2, <3>3
      DEF FilesTyped, Files!LoadConfig, Files!SetLoader
  <2>2. CASE ~Files!IsOld(file)
    BY <1>1, <1>2, <2>2 DEF FilesTyped, Files!LoadConfig, Files!SetLoader
  <2>3. QED
    BY <2>1, <2>2
<1>3. ASSUME loader[p].pc \in Files!MigrationStep
      PROVE  /\ loader[p].old \in Files!Text
             /\ Files!Convert(loader[p].old) \in Files!Text
  <2>1. loader[p] \in Files!Loader
    BY DEF FilesTyped
  <2>2. loader[p].old \in Files!Text
    BY <1>3, <2>1 DEF Files!Loader, Files!Resting, Files!FailedToLoad,
         Files!Loaded, Files!Migrating, Files!MigrationStep
  <2>3. Files!Convert(loader[p].old) \in Files!Text
    BY DEF Files!Convert, Files!Text, Files!Setting
  <2>4. QED
    BY <2>2, <2>3
<1>4. ASSUME Files!Migrate(p)
      PROVE  FilesTyped'
  <2>1. loader[p].pc \in Files!MigrationStep
    BY <1>4 DEF Files!Migrate
  <2>2. \E l \in Files!Loader : loader' = [loader EXCEPT ![p] = l]
    BY <1>1, <1>3, <1>4, <2>1
    DEF Files!Migrate, Files!SetLoader, Files!MigrationStep
  <2>3. file' \in Files!Content /\ backup' \in Files!Content
    BY <1>1, <1>3, <1>4, <2>1 DEF FilesTyped, Files!Migrate
  <2>4. QED
    BY <2>2, <2>3 DEF FilesTyped
<1>5. ASSUME Files!MigrationFails(p)
      PROVE  FilesTyped'
  <2>1. ASSUME NEW c \in Files!Text
        PROVE  Files!Prefixes(c) \subseteq Files!Content
    <3>1. /\ [c EXCEPT !.version = FALSE, !.has = {}] \in Files!Text
          /\ \A cut \in {"text", "mistyped"} :
               [c EXCEPT !.form = cut, !.has = @ \cap {"hooks"}]
                 \in Files!Text
      BY <2>1 DEF Files!Text
    <3>2. Files!Bare("garbage") \in Files!Content
      BY DEF Files!Content
    <3>3. QED
      BY <1>1, <3>1, <3>2 DEF Files!Prefixes
  <2>2. loader[p].pc \in Files!MigrationStep
    BY <1>5 DEF Files!MigrationFails, Files!MigrationStep
  <2>3. file' \in Files!Content /\ backup' \in Files!Content
    BY <1>3, <1>5, <2>1, <2>2 DEF FilesTyped, Files!MigrationFails
  <2>4. loader' \in [Process -> Files!Loader]
    BY <1>1, <1>5 DEF FilesTyped, Files!MigrationFails, Files!SetLoader
  <2>5. QED
    BY <2>3, <2>4 DEF FilesTyped
<1>6. QED
  BY <1>2, <1>4, <1>5

HooksTyped ==
  /\ now \in HookRuns!Time
  /\ stamp \in [HookRuns!HookName -> HookRuns!Stamp]
  /\ DOMAIN runner = Process
  /\ \A p \in Process :
       runner[p] \in HookRuns!Runner /\ HasHooksLeft(runner[p])
  /\ ran \in [HookRuns!HookName -> SUBSET HookRuns!Time]
  /\ mishap \in [HookRuns!HookName -> SUBSET HookRuns!Mishap]

\* Who begins with some hooks, or goes on to those that are left.
LEMMA RunnersTyped ==
  /\ \A hooks \in Seq(HookRuns!HookName) :
       /\ HookRuns!Run(hooks) \in HookRuns!Runner
       /\ HasHooksLeft(HookRuns!Run(hooks))
  /\ \A pc \in {"look", "create", "take"} :
     \A rest, due \in Seq(HookRuns!HookName) :
       rest # << >> =>
         /\ HookRuns!Step(pc, rest, due) \in HookRuns!Runner
         /\ HasHooksLeft(HookRuns!Step(pc, rest, due))
  /\ \A pc \in {"write", "execute"}, t \in HookRuns!Time :
     \A rest \in Seq(HookRuns!HookName) :
       rest # << >> =>
         /\ HookRuns!Taken(pc, rest, t) \in HookRuns!Runner
         /\ HasHooksLeft(HookRuns!Taken(pc, rest, t))
<1>1. \A hooks \in Seq(HookRuns!HookName) :
        /\ HookRuns!Run(hooks) \in HookRuns!Runner
        /\ HasHooksLeft(HookRuns!Run(hooks))
  BY DEF HookRuns!Run, HookRuns!Runner, HookRuns!Step, HasHooksLeft
<1>2. \A pc \in {"look", "create", "take"} :
      \A rest, due \in Seq(HookRuns!HookName) :
        rest # << >> =>
          /\ HookRuns!Step(pc, rest, due) \in HookRuns!Runner
          /\ HasHooksLeft(HookRuns!Step(pc, rest, due))
  BY DEF HookRuns!Runner, HookRuns!Step, HasHooksLeft
<1>3. \A pc \in {"write", "execute"}, t \in HookRuns!Time :
      \A rest \in Seq(HookRuns!HookName) :
        rest # << >> =>
          /\ HookRuns!Taken(pc, rest, t) \in HookRuns!Runner
          /\ HasHooksLeft(HookRuns!Taken(pc, rest, t))
  BY DEF HookRuns!Runner, HookRuns!Taken, HasHooksLeft
<1>4. QED
  BY <1>1, <1>2, <1>3

\* The first of a sequence, and the rest.
LEMMA HeadAndTail ==
  ASSUME NEW S, NEW s \in Seq(S), s # << >>
  PROVE  /\ Head(s) \in S /\ Tail(s) \in Seq(S)
         /\ Len(s) > 1 => Tail(s) # << >>
<1>1. Len(s) \in Nat /\ Len(s) > 0 /\ s[1] \in S
  OBVIOUS
<1>2. Head(s) = s[1] /\ Tail(s) \in Seq(S) /\ Len(Tail(s)) = Len(s) - 1
  BY <1>1
<1>3. Len(<< >>) = 0
  OBVIOUS
<1>4. Tail(s) = << >> => Len(Tail(s)) = 0
  BY <1>3, Zenon
<1>5. QED
  BY <1>1, <1>2, <1>4

\* Every step of the hooks.
LEMMA HooksKeepType ==
  ASSUME HooksTyped, NEW p \in Process,
         \/ HookRuns!Look(p) \/ HookRuns!CreateStamp(p)
         \/ HookRuns!TakeTime(p) \/ HookRuns!WriteStamp(p)
         \/ HookRuns!WriteStampFails(p) \/ HookRuns!Execute(p)
  PROVE  HooksTyped'
<1> DEFINE r == runner[p]
<1>1. r \in HookRuns!Runner /\ HasHooksLeft(r) /\ now \in Nat
  BY BoundsAssumption DEF HooksTyped, HookRuns!Time
<1>2. ASSUME NEW new \in HookRuns!Runner, HasHooksLeft(new),
             runner' = [runner EXCEPT ![p] = new]
      PROVE  /\ DOMAIN runner' = Process
             /\ \A q \in Process :
                  runner'[q] \in HookRuns!Runner /\ HasHooksLeft(runner'[q])
  BY <1>2 DEF HooksTyped
<1>3. ASSUME r.pc \in {"look", "create", "take", "write", "execute"}
      PROVE  /\ r.rest \in Seq(HookRuns!HookName) /\ r.rest # << >>
             /\ Head(r.rest) \in HookRuns!HookName
             /\ Tail(r.rest) \in Seq(HookRuns!HookName)
             /\ Len(r.rest) > 1 => Tail(r.rest) # << >>
             /\ r.pc \in {"look", "create", "take"} =>
                  /\ r.due \in Seq(HookRuns!HookName)
                  /\ r = [pc |-> r.pc, rest |-> r.rest, due |-> r.due]
             /\ r.pc \in {"write", "execute"} =>
                  /\ r.at \in HookRuns!Time
                  /\ r = [pc |-> r.pc, rest |-> r.rest, at |-> r.at]
  <2>1. r.rest \in Seq(HookRuns!HookName) /\ r.rest # << >>
    <3>1. r.rest # << >>
      BY <1>1, <1>3 DEF HasHooksLeft
    <3>2. r \in [pc : {"look", "create", "take"},
                rest : Seq(HookRuns!HookName), due : Seq(HookRuns!HookName)]
          \/ r \in [pc : {"write", "execute"},
                   rest : Seq(HookRuns!HookName), at : HookRuns!Time]
      BY <1>1, <1>3 DEF HookRuns!Runner, HookRuns!Waiting
    <3>3. QED
      BY <3>1, <3>2
  <2>2. r.pc \in {"look", "create", "take"} =>
          /\ r.due \in Seq(HookRuns!HookName)
          /\ r = [pc |-> r.pc, rest |-> r.rest, due |-> r.due]
    BY <1>1, <1>3 DEF HookRuns!Runner, HookRuns!Waiting
  <2>3. r.pc \in {"write", "execute"} =>
          /\ r.at \in HookRuns!Time
          /\ r = [pc |-> r.pc, rest |-> r.rest, at |-> r.at]
    BY <1>1, <1>3 DEF HookRuns!Runner, HookRuns!Waiting
  <2>4. QED
    BY <2>1, <2>2, <2>3, HeadAndTail
<1> HIDE DEF r
<1>4. CASE HookRuns!Look(p)
  <2>1. PICK due : due \in Seq(HookRuns!HookName) /\
          runner' = [runner EXCEPT ![p] =
                       IF Len(r.rest) > 1
                       THEN HookRuns!Step("look", Tail(r.rest), due)
                       ELSE HookRuns!Run(due)]
    <3>1. r.pc = "look"
      BY <1>4 DEF HookRuns!Look, r
    <3>2. /\ r.due \in Seq(HookRuns!HookName)
          /\ Append(r.due, Head(r.rest)) \in Seq(HookRuns!HookName)
      BY <1>3, <3>1
    <3>3. QED
      BY <1>4, <3>2 DEF HookRuns!Look, HookRuns!SetRunner, r
  <2>2. r.pc = "look" /\ UNCHANGED <<now, stamp, ran, mishap>>
    BY <1>4 DEF HookRuns!Look, r
  <2>3. \E new \in HookRuns!Runner :
          HasHooksLeft(new) /\ runner' = [runner EXCEPT ![p] = new]
    <3>1. CASE Len(r.rest) > 1
      BY <1>3, <2>1, <2>2, <3>1, RunnersTyped
    <3>2. CASE ~(Len(r.rest) > 1)
      BY <2>1, <3>2, RunnersTyped
    <3>3. QED
      BY <3>1, <3>2
  <2>4. QED
    BY <1>2, <2>2, <2>3 DEF HooksTyped
<1>5. CASE HookRuns!CreateStamp(p)
  <2>1. /\ r.pc = "create" /\ UNCHANGED <<now, ran, mishap>>
        /\ stamp' = [stamp EXCEPT ![Head(r.rest)] = HookRuns!EmptyFile]
        /\ runner' = [runner EXCEPT ![p] = [r EXCEPT !.pc = "take"]]
    BY <1>5 DEF HookRuns!CreateStamp, HookRuns!SetRunner, r
  <2>2. [r EXCEPT !.pc = "take"] = HookRuns!Step("take", r.rest, r.due)
    BY <1>3, <2>1 DEF HookRuns!Step
  <2>3. stamp' \in [HookRuns!HookName -> HookRuns!Stamp]
    BY <1>3, <2>1 DEF HooksTyped, HookRuns!Stamp
  <2>4. QED
    BY <1>2, <1>3, <2>1, <2>2, <2>3, RunnersTyped DEF HooksTyped
<1>6. CASE HookRuns!TakeTime(p)
  <2>1. /\ r.pc = "take" /\ UNCHANGED <<now, stamp, ran>>
        /\ runner' = [runner EXCEPT ![p] =
                        HookRuns!Taken("write", r.rest, now)]
        /\ \E new \in SUBSET {"overlap"} :
             mishap' = [mishap EXCEPT ![Head(r.rest)] = @ \cup new]
    BY <1>6 DEF HookRuns!TakeTime, HookRuns!SetRunner, r
  <2>2. mishap' \in [HookRuns!HookName -> SUBSET HookRuns!Mishap]
    BY <1>3, <2>1 DEF HooksTyped, HookRuns!Mishap
  <2>3. now \in HookRuns!Time
    BY DEF HooksTyped
  <2>4. QED
    BY <1>2, <1>3, <2>1, <2>2, <2>3, RunnersTyped DEF HooksTyped
<1>7. CASE HookRuns!WriteStamp(p)
  <2>1. /\ r.pc = "write" /\ UNCHANGED <<now, ran, mishap>>
        /\ \E left \in {HookRuns!Whole(r.at), HookRuns!Torn} :
             stamp' = [stamp EXCEPT ![Head(r.rest)] = left]
        /\ runner' = [runner EXCEPT ![p] = [r EXCEPT !.pc = "execute"]]
    BY <1>7 DEF HookRuns!WriteStamp, HookRuns!SetRunner, r
  <2>2. [r EXCEPT !.pc = "execute"] = HookRuns!Taken("execute", r.rest, r.at)
    BY <1>3, <2>1 DEF HookRuns!Taken
  <2>3. stamp' \in [HookRuns!HookName -> HookRuns!Stamp]
    BY <1>3, <2>1 DEF HooksTyped, HookRuns!Stamp
  <2>4. QED
    BY <1>2, <1>3, <2>1, <2>2, <2>3, RunnersTyped DEF HooksTyped
<1>8. CASE HookRuns!WriteStampFails(p)
  <2>1. /\ r.pc = "write" /\ UNCHANGED <<now, ran>>
        /\ \E left \in {HookRuns!EmptyFile, HookRuns!Torn}
                        \cup {HookRuns!Whole(t) : t \in 0 .. r.at} :
             stamp' = [stamp EXCEPT ![Head(r.rest)] = left]
        /\ \E new \in SUBSET {"cut"} :
             mishap' = [mishap EXCEPT ![Head(r.rest)] = @ \cup new]
        /\ runner' = [runner EXCEPT ![p] = [pc |-> "failed"]]
    BY <1>8 DEF HookRuns!WriteStampFails, HookRuns!SetRunner, r
  <2>2. [pc |-> "failed"] \in HookRuns!Runner
        /\ HasHooksLeft([pc |-> "failed"])
    BY DEF HookRuns!Runner, HasHooksLeft
  <2>3. \A t \in 0 .. r.at : t \in HookRuns!Time
    BY <1>3, <2>1, BoundsAssumption DEF HookRuns!Time
  <2>4. stamp' \in [HookRuns!HookName -> HookRuns!Stamp]
    BY <1>3, <2>1, <2>3 DEF HooksTyped, HookRuns!Stamp
  <2>5. mishap' \in [HookRuns!HookName -> SUBSET HookRuns!Mishap]
    BY <1>3, <2>1 DEF HooksTyped, HookRuns!Mishap
  <2>6. QED
    BY <1>2, <2>1, <2>2, <2>4, <2>5 DEF HooksTyped
<1>9. CASE HookRuns!Execute(p)
  <2>1. /\ r.pc = "execute" /\ UNCHANGED <<now, stamp, mishap>>
        /\ ran' = [ran EXCEPT ![Head(r.rest)] = @ \cup {r.at}]
        /\ runner' = [runner EXCEPT ![p] = HookRuns!Run(Tail(r.rest))]
    BY <1>9 DEF HookRuns!Execute, HookRuns!SetRunner, r
  <2>2. ran' \in [HookRuns!HookName -> SUBSET HookRuns!Time]
    BY <1>3, <2>1 DEF HooksTyped
  <2>3. QED
    BY <1>2, <1>3, <2>1, <2>2, RunnersTyped DEF HooksTyped
<1>10. QED
  BY <1>4, <1>5, <1>6, <1>7, <1>8, <1>9

(***************************************************************************)
(* Type correctness, whatever is migrated, stamped, killed or torn.        *)
(***************************************************************************)
THEOREM StartupTypes == Spec => []TypeOK
<1>1. Init => TypesInv
  <2> SUFFICES ASSUME Init PROVE TypesInv
    OBVIOUS
  <2>1. FilesTyped
    <3>1. /\ Files!Bare("absent") \in Files!Content
          /\ Files!Bare("garbage") \in Files!Content
          /\ Files!Resting \in Files!Loader
          /\ [form |-> "text", version |-> FALSE, has |-> {"paths", "hooks"}]
               \in Files!Content
          /\ [form |-> "text", version |-> TRUE,
              has |-> {"stores", "hooks", "preview"}] \in Files!Content
          /\ [form |-> "mistyped", version |-> TRUE,
              has |-> {"stores", "hooks", "preview"}] \in Files!Content
      BY DEF Files!Content, Files!Loader, Files!Text, Files!Setting
    <3>2. QED
      BY <3>1 DEF Init, Files!FileInit, FilesTyped
  <2>2. HooksTyped
    <3>1. /\ HookRuns!Waiting \in HookRuns!Runner
          /\ HasHooksLeft(HookRuns!Waiting)
      BY DEF HookRuns!Waiting, HookRuns!Runner, HasHooksLeft
    <3>2. HookRuns!Absent \in HookRuns!Stamp /\ 0 \in HookRuns!Time
      BY BoundsAssumption DEF HookRuns!Stamp, HookRuns!Time
    <3>3. QED
      BY <3>1, <3>2 DEF Init, HookRuns!HooksInit, HooksTyped
  <2>3. /\ phase \in [Process -> Phase] /\ command \in [Process -> Command]
        /\ DOMAIN stores = Process /\ faults \in 0 .. MaxFaults
        /\ spoilt \in BOOLEAN
        /\ \A p \in Process : phase[p] # "loadHooks"
    <3>1. phase \in [Process -> Phase] /\ DOMAIN stores = Process
          /\ \A p \in Process : phase[p] # "loadHooks"
      BY DEF Init, Phase
    <3>2. command \in [Process -> Command] /\ spoilt \in BOOLEAN
      BY DEF Init
    <3>3. faults \in 0 .. MaxFaults
      BY BoundsAssumption DEF Init
    <3>4. QED
      BY <3>1, <3>2, <3>3
  <2>4. QED
    BY <2>1, <2>2, <2>3 DEF TypesInv, TypeOK, FilesTyped, HooksTyped
<1>2. TypesInv /\ [Next]_vars => TypesInv'
  <2> SUFFICES ASSUME TypesInv, [Next]_vars PROVE TypesInv'
    OBVIOUS
  <2>1. /\ FilesTyped /\ HooksTyped /\ faults \in Nat /\ MaxFaults \in Nat
        /\ phase \in [Process -> Phase] /\ DOMAIN stores = Process
        /\ command \in [Process -> Command] /\ faults \in 0 .. MaxFaults
        /\ spoilt \in BOOLEAN
        /\ \A p \in Process : phase[p] = "loadHooks" => command[p] # "switch"
    BY BoundsAssumption DEF TypesInv, TypeOK, FilesTyped, HooksTyped
  <2> DEFINE Rest ==
        /\ phase \in [Process -> Phase] /\ command \in [Process -> Command]
        /\ DOMAIN stores = Process /\ faults \in 0 .. MaxFaults
        /\ spoilt \in BOOLEAN
        /\ \A p \in Process : phase[p] = "loadHooks" => command[p] # "switch"
  <2>2. ASSUME FilesTyped', HooksTyped', Rest'
        PROVE  TypesInv'
    BY <2>2 DEF TypesInv, TypeOK, FilesTyped, HooksTyped
  <2>3. UNCHANGED fileVars => FilesTyped'
    BY <2>1 DEF fileVars, FilesTyped
  <2>4. UNCHANGED hookVars => HooksTyped'
    BY <2>1 DEF hookVars, HooksTyped
  <2>5. ASSUME NEW p \in Process, NEW to \in Phase, Go(p, to),
               to = "loadHooks" => command[p] # "switch",
               UNCHANGED <<command, spoilt>>, DOMAIN stores' = Process,
               faults' \in 0 .. MaxFaults
        PROVE  Rest'
    BY <2>1, <2>5 DEF Go
  <2>6. CASE UNCHANGED vars
    BY <2>1, <2>2, <2>3, <2>4, <2>6 DEF vars, userVars
  <2>7. CASE TimePasses
    <3>1. now' \in HookRuns!Time /\ UNCHANGED <<stamp, runner, ran, mishap>>
      BY <2>1, <2>7, BoundsAssumption
      DEF TimePasses, HookRuns!Tick, HookRuns!Time, HooksTyped
    <3>2. HooksTyped' /\ UNCHANGED fileVars /\ Rest'
      BY <2>1, <2>7, <3>1 DEF TimePasses, HooksTyped, userVars
    <3>3. QED
      BY <2>2, <2>3, <3>2
  <2>8. ASSUME NEW p \in Process, Begin(p)
        PROVE  TypesInv'
    <3>1. /\ UNCHANGED <<fileVars, hookVars, command, stores, faults>>
          /\ UNCHANGED spoilt
          /\ \E to \in Phase : /\ Go(p, to)
                               /\ to = "loadHooks" => command[p] # "switch"
      BY <2>8 DEF Begin, userVars, Phase
    <3>2. Rest'
      BY <2>1, <2>5, <3>1
    <3>3. QED
      BY <2>2, <2>3, <2>4, <3>1, <3>2
  <2>9. ASSUME NEW p \in Process,
               LoadFails(p) \/ EndHooks(p) \/ Configure(p) \/ Kill(p)
        PROVE  TypesInv'
    <3>1. UNCHANGED <<fileVars, hookVars, command, spoilt>>
      BY <2>9 DEF LoadFails, EndHooks, Configure, Kill, userVars
    <3>2. DOMAIN stores' = Process /\ faults' \in 0 .. MaxFaults
      BY <2>1, <2>9 DEF LoadFails, EndHooks, Configure, Kill
    <3>3. \E to \in Phase : to # "loadHooks" /\ Go(p, to)
      BY <2>9 DEF LoadFails, EndHooks, Configure, Kill, Phase
    <3>4. Rest'
      BY <2>5, <3>1, <3>2, <3>3
    <3>5. QED
      BY <2>2, <2>3, <2>4, <3>1, <3>4
  <2>10. ASSUME NEW p \in Process, Load(p) \/ LoadFailsToWrite(p)
         PROVE  TypesInv'
    <3>1. FilesTyped'
      BY <2>1, <2>10, FilesKeepType DEF Load, LoadFailsToWrite
    <3>2. UNCHANGED <<hookVars, phase, command, stores>>
      BY <2>10 DEF Load, LoadFailsToWrite, userVars
    <3>3. faults' \in 0 .. MaxFaults
      BY <2>1, <2>10 DEF Load, LoadFailsToWrite
    <3>4. spoilt' \in BOOLEAN
      BY <2>1, <2>10 DEF Load, LoadFailsToWrite
    <3>5. QED
      BY <2>1, <2>2, <2>4, <3>1, <3>2, <3>3, <3>4
  <2>11. ASSUME NEW p \in Process, RunHooks(p) \/ HooksFailToWrite(p)
         PROVE  TypesInv'
    <3>1. HooksTyped'
      BY <2>1, <2>11, HooksKeepType DEF RunHooks, HooksFailToWrite
    <3>2. UNCHANGED <<fileVars, phase, command, stores, spoilt>>
      BY <2>11 DEF RunHooks, HooksFailToWrite, userVars
    <3>3. faults' \in 0 .. MaxFaults
      BY <2>1, <2>11 DEF RunHooks, HooksFailToWrite
    <3>4. QED
      BY <2>1, <2>2, <2>3, <3>1, <3>2, <3>3
  <2>12. ASSUME NEW p \in Process, BeginHooks(p)
         PROVE  TypesInv'
    <3>1. FilesTyped'
      <4>1. Files!Resting \in Files!Loader
        BY DEF Files!Loader
      <4>2. QED
        BY <2>1, <2>12, <4>1 DEF BeginHooks, FilesTyped, Files!SetLoader
    <3>2. Rest'
      <4>1. \E to \in Phase : to # "loadHooks" /\ Go(p, to)
        BY <2>12 DEF BeginHooks, Phase
      <4>2. UNCHANGED <<command, spoilt, stores, faults>>
        BY <2>12 DEF BeginHooks, userVars
      <4>3. QED
        BY <2>1, <2>5, <4>1, <4>2
    <3>3. HooksTyped'
      <4>1. CASE UNCHANGED hookVars
        BY <2>4, <4>1
      <4>2. CASE ~UNCHANGED hookVars
        <5>1. PICK which :
                /\ HookRuns!BeginHooks(p, which)
                /\ which \in {"due", "all"} \cup HookRuns!HookName
          <6>1. command[p] \in {"setContext", "hooks"} \cup HookRuns!HookName
            BY <2>1, <2>12 DEF BeginHooks, Command
          <6>2. QED
            BY <2>12, <4>2, <6>1 DEF BeginHooks
        <5>2. Hook \in Seq(HookRuns!HookName) /\ Hook # << >>
              /\ << >> \in Seq(HookRuns!HookName)
          BY BoundsAssumption DEF HookRuns!HookName, HookRuns!ToSet, ToSet
        <5>3. which \notin {"due", "all"} =>
                <<which>> \in Seq(HookRuns!HookName)
          BY <5>1
        <5>4. PICK new \in HookRuns!Runner :
                HasHooksLeft(new) /\ runner' = [runner EXCEPT ![p] = new]
          BY <5>1, <5>2, <5>3, RunnersTyped
          DEF HookRuns!BeginHooks, HookRuns!SetRunner
        <5>5. UNCHANGED <<now, stamp, ran, mishap>>
          BY <5>1 DEF HookRuns!BeginHooks
        <5>6. QED
          BY <2>1, <5>4, <5>5 DEF HooksTyped
      <4>3. QED
        BY <4>1, <4>2
    <3>4. QED
      BY <2>2, <3>1, <3>2, <3>3
  <2>13. QED
    BY <2>6, <2>7, <2>8, <2>9, <2>10, <2>11, <2>12 DEF Next
<1>3. TypesInv => TypeOK
  BY DEF TypesInv
<1>4. QED
  BY <1>1, <1>2, <1>3, PTL DEF Spec

(***************************************************************************)
(* The wiring of the stores.  First, what the recursions over the entries  *)
(* of a configuration compute: by induction over their positions.          *)
(***************************************************************************)
\* The order of the natural numbers is a well-founded relation.
LEMMA LessIsWellFounded ==
    \E R : /\ IsWellFoundedOn(R, Nat)
           /\ \A x, y \in Nat : x < y => <<x, y>> \in R
<1>1. \A x, y \in Nat : x < y => <<x, y>> \in OpToRel(<, Nat)
  BY Zenon DEF OpToRel
<1>2. QED
  BY <1>1, NatLessThanWellFounded, Zenon

\* Induction, for a set of natural numbers.
LEMMA SetInduction ==
    ASSUME NEW S, 0 \in S, \A n \in Nat : n \in S => n + 1 \in S
    PROVE  Nat \subseteq S
<1> DEFINE T == Nat \ S
<1>1. SUFFICES ASSUME T # {} PROVE FALSE
  OBVIOUS
<1>2. PICK R : /\ IsWellFoundedOn(R, Nat)
               /\ \A x, y \in Nat : x < y => <<x, y>> \in R
  BY LessIsWellFounded
<1>3. T \subseteq Nat
  OBVIOUS
<1> HIDE DEF T
<1>4. T # {} /\ T \subseteq Nat /\ IsWellFoundedOn(R, Nat)
  BY <1>1, <1>2, <1>3
<1>5. \E x \in T : \A y \in T : ~ (<<y, x>> \in R)
  BY <1>4, WFMin, Zenon
<1>6. PICK x \in T : \A y \in T : ~ (<<y, x>> \in R)
  BY <1>5
<1>7. x \in Nat /\ x # 0 /\ x \notin S
  BY <1>6 DEF T
<1>8. x - 1 \in Nat /\ x - 1 < x /\ x = (x - 1) + 1
  BY <1>7
<1>9. x - 1 \notin T
  BY <1>2, <1>6, <1>7, <1>8
<1>10. QED
  BY <1>7, <1>8, <1>9 DEF T

(***************************************************************************)
(* The loop over the entries of a configuration builds of each at most one *)
(* store.                                                                  *)
(***************************************************************************)
Pairs(all, base) ==
  {<<all[i], NameFor(all, base, i)>> :
     i \in {k \in DOMAIN all : all[k].factory = "builds"}}

Selects(all, m, s) ==
  \E pos \in [1 .. Len(s) -> 1 .. m] :
    /\ \A x, y \in 1 .. Len(s) : x < y => pos[x] < pos[y]
    /\ \A x \in 1 .. Len(s) : s[x][1] = all[pos[x]]

\* One more entry, which is built or not.
LEMMA SelectsOneMore ==
  ASSUME NEW T, NEW all \in Seq(T), NEW base, NEW m \in Nat, m < Len(all),
         NEW s \in Seq(Pairs(all, base)), Selects(all, m, s)
  PROVE  /\ Selects(all, m + 1, s)
         /\ all[m + 1].factory = "builds" =>
              LET t == Append(s, <<all[m + 1], NameFor(all, base, m + 1)>>) IN
              t \in Seq(Pairs(all, base)) /\ Selects(all, m + 1, t)
<1> DEFINE q == <<all[m + 1], NameFor(all, base, m + 1)>>
           t == Append(s, q)
<1>1. PICK pos \in [1 .. Len(s) -> 1 .. m] :
        /\ \A x, y \in 1 .. Len(s) : x < y => pos[x] < pos[y]
        /\ \A x \in 1 .. Len(s) : s[x][1] = all[pos[x]]
  BY DEF Selects
<1>2. Selects(all, m + 1, s)
  <2>1. pos \in [1 .. Len(s) -> 1 .. m + 1]
    BY <1>1
  <2>2. QED
    BY <1>1, <2>1 DEF Selects
<1> SUFFICES ASSUME all[m + 1].factory = "builds"
             PROVE  t \in Seq(Pairs(all, base)) /\ Selects(all, m + 1, t)
  BY <1>2
<1>3. q \in Pairs(all, base) /\ q[1] = all[m + 1]
  <2>1. m + 1 \in DOMAIN all
    OBVIOUS
  <2>2. QED
    BY <2>1 DEF Pairs
<1> HIDE DEF q
<1>4. /\ t \in Seq(Pairs(all, base)) /\ Len(t) = Len(s) + 1
      /\ \A x \in 1 .. Len(s) : t[x] = s[x]
      /\ t[Len(s) + 1] = q
  BY <1>3
<1>5. Len(s) \in Nat
  OBVIOUS
<1> HIDE DEF t
<1>6. Selects(all, m + 1, t)
  <2> DEFINE new == [x \in 1 .. Len(t) |->
                       IF x = Len(s) + 1 THEN m + 1 ELSE pos[x]]
  <2>1. \A x \in 1 .. Len(t) : x \in 1 .. Len(s) \/ x = Len(s) + 1
    BY <1>4, <1>5
  <2>2. new \in [1 .. Len(t) -> 1 .. m + 1]
    BY <1>1, <2>1
  <2>3. ASSUME NEW x \in 1 .. Len(t), NEW y \in 1 .. Len(t), x < y
        PROVE  new[x] < new[y]
    <3>1. x \in 1 .. Len(s) /\ new[x] = pos[x]
      BY <1>4, <1>5, <2>1, <2>3
    <3>2. pos[x] \in 1 .. m
      BY <1>1, <3>1
    <3>3. CASE y = Len(s) + 1
      BY <3>1, <3>2, <3>3
    <3>4. CASE y # Len(s) + 1
      <4>1. y \in 1 .. Len(s) /\ new[y] = pos[y]
        BY <2>1, <3>4
      <4>2. QED
        BY <1>1, <2>3, <3>1, <4>1
    <3>5. QED
      BY <3>3, <3>4
  <2>4. ASSUME NEW x \in 1 .. Len(t) PROVE t[x][1] = all[new[x]]
    <3>1. CASE x = Len(s) + 1
      BY <1>3, <1>4, <3>1
    <3>2. CASE x # Len(s) + 1
      BY <1>1, <1>4, <2>1, <3>2
    <3>3. QED
      BY <3>1, <3>2
  <2> HIDE DEF new
  <2>5. QED
    BY <2>2, <2>3, <2>4 DEF Selects
<1>7. QED
  BY <1>4, <1>6

\* What the loop has built is a selection.
LEMMA ConstructedSelects ==
  ASSUME NEW T, NEW all \in Seq(T), NEW base
  PROVE  /\ Constructed(all, base) \in Seq(Pairs(all, base))
         /\ Selects(all, Len(all), Constructed(all, base))
<1> DEFINE P == Pairs(all, base)
           n == Len(all)
           q(i) == <<all[i], NameFor(all, base, i)>>
           Body(g, i) == IF i = 0 THEN << >>
                         ELSE IF all[i].factory = "builds"
                              THEN Append(g[i - 1],
                                     <<all[i], NameFor(all, base, i)>>)
                              ELSE g[i - 1]
           Upto(m, g) ==
             /\ g \in [0 .. m -> Seq(P)]
             /\ \A i \in 0 .. m : Selects(all, i, g[i]) /\ g[i] = Body(g, i)
           S == {m \in Nat : m <= n => \E g : Upto(m, g)}
           new == CHOOSE f : f = [i \in 0 .. n |-> Body(f, i)]
           U == {m \in Nat : m <= n =>
                               new[m] \in Seq(P) /\ Selects(all, m, new[m])}
<1>1. n \in Nat
  OBVIOUS
<1>2. << >> \in Seq(P) /\ Selects(all, 0, << >>)
  <2> DEFINE none == [x \in 1 .. Len(<< >>) |-> 0]
  <2>1. 1 .. Len(<< >>) = {}
    OBVIOUS
  <2>2. none \in [1 .. Len(<< >>) -> 1 .. 0]
    BY <2>1
  <2>3. Selects(all, 0, << >>)
    <3> HIDE DEF none
    <3>1. QED
      BY <2>1, <2>2 DEF Selects
  <2>4. << >> \in Seq(P)
    OBVIOUS
  <2>5. QED
    BY <2>3, <2>4
<1>3. ASSUME NEW m \in Nat, m < n, NEW s \in Seq(P), Selects(all, m, s)
      PROVE  /\ Selects(all, m + 1, s)
             /\ all[m + 1].factory = "builds" =>
                  /\ Append(s, <<all[m + 1], NameFor(all, base, m + 1)>>)
                       \in Seq(P)
                  /\ Selects(all, m + 1,
                       Append(s, <<all[m + 1], NameFor(all, base, m + 1)>>))
  BY <1>3, SelectsOneMore
<1>4. ASSUME NEW m \in Nat, m < n, NEW g, g[m] \in Seq(P),
             Selects(all, m, g[m])
      PROVE  /\ Body(g, m + 1) \in Seq(P)
             /\ Selects(all, m + 1, Body(g, m + 1))
  <2>1. m + 1 # 0 /\ (m + 1) - 1 = m
    OBVIOUS
  <2> HIDE DEF P, n
  <2>2. CASE all[m + 1].factory = "builds"
    BY <1>3, <1>4, <2>1, <2>2
  <2>3. CASE all[m + 1].factory # "builds"
    BY <1>3, <1>4, <2>1, <2>3
  <2>4. QED
    BY <2>2, <2>3
<1> HIDE DEF P
<1>5. 0 \in S
  <2> DEFINE one == [i \in 0 .. 0 |-> << >>]
  <2>1. one \in [0 .. 0 -> Seq(P)] /\ one[0] = << >>
    BY <1>2
  <2>2. Body(one, 0) = << >>
    OBVIOUS
  <2> HIDE DEF one, Body
  <2>3. Upto(0, one)
    BY <1>2, <2>1, <2>2
  <2> HIDE DEF Upto
  <2>4. QED
    BY <2>3
<1>6. ASSUME NEW m \in Nat, m \in S PROVE m + 1 \in S
  <2> SUFFICES ASSUME m + 1 <= n PROVE \E g : Upto(m + 1, g)
    OBVIOUS
  <2>1. m < n /\ m <= n
    BY <1>1
  <2>2. PICK g : Upto(m, g)
    BY <1>6, <2>1
  <2> DEFINE h == [i \in 0 .. (m + 1) |->
                     IF i = m + 1 THEN Body(g, m + 1) ELSE g[i]]
  <2>3. /\ Body(g, m + 1) \in Seq(P)
        /\ Selects(all, m + 1, Body(g, m + 1))
    <3>1. g[m] \in Seq(P) /\ Selects(all, m, g[m])
      BY <2>2
    <3> HIDE DEF Body, n
    <3>2. QED
      BY <1>4, <2>1, <3>1
  <2>4. h \in [0 .. (m + 1) -> Seq(P)]
    <3> HIDE DEF Body
    <3>1. QED
      BY <2>2, <2>3
  <2>5. ASSUME NEW i \in 0 .. (m + 1)
        PROVE  Selects(all, i, h[i]) /\ h[i] = Body(h, i)
    <3>1. Body(h, i) = Body(g, i)
      <4>1. CASE i = 0
        BY <4>1
      <4>2. CASE i # 0
        <5>1. i - 1 \in 0 .. m /\ h[i - 1] = g[i - 1]
          BY <4>2
        <5> HIDE DEF h
        <5>2. QED
          BY <4>2, <5>1
      <4>3. QED
        BY <4>1, <4>2
    <3>2. CASE i = m + 1
      <4> HIDE DEF Body
      <4>1. QED
        BY <2>3, <3>1, <3>2
    <3>3. CASE i # m + 1
      <4>1. i \in 0 .. m
        BY <3>3
      <4> HIDE DEF Body
      <4>2. h[i] = g[i] /\ Selects(all, i, g[i]) /\ g[i] = Body(g, i)
        BY <2>2, <3>3, <4>1
      <4>3. QED
        BY <3>1, <4>2
    <3>4. QED
      BY <3>2, <3>3
  <2> HIDE DEF h, Body
  <2>6. QED
    BY <2>4, <2>5
<1>7. PICK g : Upto(n, g)
  <2> HIDE DEF Upto, n
  <2>1. Nat \subseteq S
    <3> HIDE DEF S
    <3>1. QED
      BY <1>5, <1>6, SetInduction
  <2>2. QED
    BY <1>1, <2>1
<1>8. new = [i \in 0 .. n |-> Body(new, i)]
  <2>1. g = [i \in 0 .. n |-> Body(g, i)]
    <3> HIDE DEF Body, n
    <3>1. QED
      BY <1>7
  <2>2. QED
    BY <2>1, Zenon
<1>9. \A i \in 0 .. n : new[i] = Body(new, i)
  <2> HIDE DEF Body, new
  <2>1. QED
    BY <1>8
<1>10. 0 \in U
  <2> HIDE DEF new
  <2>1. new[0] = Body(new, 0)
    <3>1. 0 \in 0 .. n
      BY <1>1
    <3> HIDE DEF Body, n
    <3>2. QED
      BY <1>9, <3>1
  <2>2. new[0] = << >>
    BY <2>1
  <2> HIDE DEF n
  <2>3. QED
    BY <1>2, <2>2
<1>11. ASSUME NEW m \in Nat, m \in U PROVE m + 1 \in U
  <2> HIDE DEF new, Body
  <2> SUFFICES ASSUME m + 1 <= n
               PROVE  new[m + 1] \in Seq(P) /\ Selects(all, m + 1, new[m + 1])
    OBVIOUS
  <2>1. m < n /\ m <= n /\ m + 1 \in 0 .. n
    BY <1>1
  <2>2. new[m] \in Seq(P) /\ Selects(all, m, new[m])
    BY <1>11, <2>1
  <2>3. new[m + 1] = Body(new, m + 1)
    BY <1>9, <2>1
  <2>4. QED
    BY <1>4, <2>1, <2>2, <2>3
<1>12. new[n] \in Seq(P) /\ Selects(all, n, new[n])
  <2> HIDE DEF new
  <2>1. Nat \subseteq U
    <3> HIDE DEF U
    <3>1. QED
      BY <1>10, <1>11, SetInduction
  <2>2. QED
    BY <1>1, <2>1
<1>13. Constructed(all, base) = new[n]
  BY Zenon DEF Constructed
<1>14. QED
  BY <1>12, <1>13 DEF P

\* Stores with one GetID that the validation tells apart: one has no ID, and
\* the other the ID "default".
LEMMA KeysTellApart ==
  ASSUME NEW s, NEW t, StoreID(s) = StoreID(t),
         ValidationKey(s) # ValidationKey(t)
  PROVE  {GivenID(s), GivenID(t)} = {Unset, "default"}
<1>1. s.kind = t.kind
  BY DEF StoreID
<1>2. ASSUME NEW u PROVE /\ StoreID(u)[2] = Or(GivenID(u), "default")
                         /\ ValidationKey(u)[2] = Or(GivenID(u), "")
                         /\ ValidationKey(u) = <<u.kind, ValidationKey(u)[2]>>
  BY DEF StoreID, ValidationKey, GivenID, Or
<1>3. Or(GivenID(s), "default") = Or(GivenID(t), "default")
  BY <1>2
<1>4. Or(GivenID(s), "") # Or(GivenID(t), "")
  BY <1>1, <1>2
<1>5. QED
  BY <1>3, <1>4 DEF Or

(***************************************************************************)
(* Where each store of a command comes from: an entry of the               *)
(* configuration that could be built, or kswitch itself.                   *)
(***************************************************************************)
Own(s) == s.id \in ReservedID

Base(c) == Or(c.name, DefaultName)
AllOf(c, env) == c.stores \o StoreFromFlagAndEnv(c, env, Base(c))

\* The store of the flag and the environment is kswitch's own.
LEMMA AllAreTyped ==
  ASSUME NEW c, NEW env, c.stores \in Seq(StoreConfig)
  PROVE  \E F : /\ \A s \in F : Own(s)
                /\ AllOf(c, env) \in Seq(StoreConfig \cup F)
                /\ Len(c.stores) <= Len(AllOf(c, env))
                /\ \A i \in 1 .. Len(c.stores) :
                     AllOf(c, env)[i] = c.stores[i]
                /\ \A i \in 1 .. Len(AllOf(c, env)) :
                     i > Len(c.stores) => AllOf(c, env)[i] \in F
<1> DEFINE flag == StoreFromFlagAndEnv(c, env, Base(c))
           F == {s \in {flag[1]} : Own(s)}
<1>1. flag \in Seq(F)
  <2> DEFINE paths == PathsFromFlag(env) \cup PathsFromEnv(c, env)
             f == [kind |-> env.backend, id |-> "env-and-flag",
                   name |-> Base(c), paths |-> paths, refresh |-> FALSE,
                   required |-> TRUE, cache |-> Unset, landscape |-> Unset,
                   peer |-> Unset, factory |-> env.factory]
  <2>1. flag = << >> \/ flag = <<f>>
    BY Zenon DEF StoreFromFlagAndEnv
  <2>2. f.id = "env-and-flag"
    OBVIOUS
  <2> HIDE DEF f, flag
  <2>3. Own(f)
    BY <2>2 DEF Own, ReservedID
  <2>4. CASE flag = << >>
    BY <2>4
  <2>5. CASE flag = <<f>>
    <3>1. f \in F
      BY <2>3, <2>5
    <3> HIDE DEF F
    <3>2. QED
      BY <2>5, <3>1
  <2>6. QED
    BY <2>1, <2>4, <2>5
<1> HIDE DEF flag, F
<1>2. \A s \in F : Own(s)
  BY DEF F
<1>3. AllOf(c, env) = c.stores \o flag
  BY DEF AllOf, flag
<1>4. c.stores \in Seq(StoreConfig \cup F) /\ flag \in Seq(StoreConfig \cup F)
  BY <1>1
<1>5. AllOf(c, env) \in Seq(StoreConfig \cup F)
  BY <1>3, <1>4
<1>6. /\ Len(AllOf(c, env)) = Len(c.stores) + Len(flag)
      /\ Len(c.stores) \in Nat /\ Len(flag) \in Nat
      /\ \A i \in 1 .. Len(AllOf(c, env)) : AllOf(c, env)[i] =
           IF i <= Len(c.stores) THEN c.stores[i] ELSE flag[i - Len(c.stores)]
  BY <1>3, <1>4
<1>7. ASSUME NEW i \in 1 .. Len(AllOf(c, env)), i > Len(c.stores)
      PROVE  AllOf(c, env)[i] \in F
  <2>1. i - Len(c.stores) \in 1 .. Len(flag)
    BY <1>6, <1>7
  <2>2. QED
    BY <1>1, <1>6, <1>7, <2>1
<1>8. /\ Len(c.stores) <= Len(AllOf(c, env))
      /\ \A i \in 1 .. Len(c.stores) : AllOf(c, env)[i] = c.stores[i]
  BY <1>6
<1>9. QED
  BY <1>2, <1>5, <1>7, <1>8, Zenon

\* What BuildStores returns, if it does.
LEMMA BuildsStores ==
  ASSUME NEW c, NEW env, BuildStores(c, env).ok
  PROVE  \E E : \E extra \in Seq(E) :
           LET made  == Constructed(AllOf(c, env), Base(c))
               built == [i \in DOMAIN made |-> made[i][1]] \o extra IN
           /\ \A s \in E : Own(s)
           /\ \A i \in DOMAIN AllOf(c, env) : ~IsFatal(AllOf(c, env)[i])
           /\ BuildStores(c, env).stores = built
<1> DEFINE all   == c.stores \o StoreFromFlagAndEnv(c, env, Base(c))
           doctl == env.doctl /\ ~\E i \in DOMAIN all :
                      all[i].kind = "digitalOcean" /\ all[i].factory # "fails"
           D == DefaultStore("digitalOcean", "doDefaultStore")
           K == DefaultStore("kind", "kindDefaultStore")
           ds == IF doctl THEN <<D>> ELSE << >>
           ks == IF env.kindBinary /\ ~Configures(all, "kind")
                 THEN <<K>> ELSE << >>
           extra == ds \o ks
           made  == Constructed(all, Base(c))
           built == [i \in DOMAIN made |-> made[i][1]] \o extra
           E == {D, K}
<1>1. BuildStores(c, env) =
        IF \/ all = << >> \/ \E i \in DOMAIN all : IsFatal(all[i])
           \/ ~PeersResolve(built, env)
        THEN Refused
        ELSE [ok |-> TRUE, stores |-> built, via |-> Reached(built),
              names |-> [i \in DOMAIN made |-> made[i][2]]]
  BY Zenon DEF BuildStores, Base
<1> HIDE DEF doctl
<1>2. extra \in Seq(E)
  <2> HIDE DEF D, K, all
  <2>0. /\ << >> \in Seq({D, K})
        /\ <<D>> \in Seq({D, K}) /\ <<K>> \in Seq({D, K})
    OBVIOUS
  <2>1. ds \in Seq({D, K})
    BY <2>0, Zenon
  <2>2. ks \in Seq({D, K})
    BY <2>0, Zenon
  <2> HIDE DEF ds, ks, D, K
  <2>3. QED
    BY <2>1, <2>2
<1>3. \A s \in E : Own(s)
  BY DEF Own, DefaultStore, ReservedID
<1>4. all = AllOf(c, env)
  BY Zenon DEF AllOf
<1> HIDE DEF all, extra, made, built, E
<1>5. ~Refused.ok
  BY DEF Refused
<1>6. /\ ~\E i \in DOMAIN all : IsFatal(all[i])
      /\ BuildStores(c, env).stores = built
  BY <1>1, <1>5
<1>7. made = Constructed(AllOf(c, env), Base(c))
  BY <1>4 DEF made
<1>8. built = [i \in DOMAIN made |-> made[i][1]] \o extra
  BY DEF built
<1>9. QED
  BY <1>2, <1>3, <1>4, <1>6, <1>7, <1>8, Zenon

\* Each store of a command is an entry that could be built, its own, or one
\* that kswitch adds.
LEMMA BuiltFrom ==
  ASSUME NEW c, NEW env, c.stores \in Seq(StoreConfig),
         BuildStores(c, env).ok
  PROVE  LET built == BuildStores(c, env).stores IN
         \E pos :
           /\ \A i \in DOMAIN built :
                \/ Own(built[i])
                \/ /\ pos[i] \in 1 .. Len(c.stores)
                   /\ built[i] = c.stores[pos[i]]
           /\ \A i, j \in DOMAIN built :
                ~Own(built[i]) /\ ~Own(built[j]) /\ i < j =>
                  pos[i] < pos[j]
<1> DEFINE all   == AllOf(c, env)
           made  == Constructed(all, Base(c))
           first == [i \in DOMAIN made |-> made[i][1]]
<1>1. PICK E : \E extra \in Seq(E) :
           LET built == first \o extra IN
           /\ \A s \in E : Own(s)
           /\ \A i \in DOMAIN all : ~IsFatal(all[i])
           /\ BuildStores(c, env).stores = built
  BY BuildsStores, Zenon
<1>2. PICK extra \in Seq(E) :
           LET built == first \o extra IN
           /\ \A s \in E : Own(s)
           /\ \A i \in DOMAIN all : ~IsFatal(all[i])
           /\ BuildStores(c, env).stores = built
  BY <1>1
<1>3. PICK F : /\ \A s \in F : Own(s)
               /\ all \in Seq(StoreConfig \cup F)
               /\ Len(c.stores) <= Len(all)
               /\ \A i \in 1 .. Len(c.stores) : all[i] = c.stores[i]
               /\ \A i \in 1 .. Len(all) : i > Len(c.stores) => all[i] \in F
  BY AllAreTyped
<1> DEFINE T == StoreConfig \cup F
<1> HIDE DEF all, T
<1>4. made \in Seq(Pairs(all, Base(c))) /\ Selects(all, Len(all), made)
  BY <1>3, ConstructedSelects DEF T
<1> HIDE DEF made
<1>5. PICK pos \in [1 .. Len(made) -> 1 .. Len(all)] :
        /\ \A x, y \in 1 .. Len(made) : x < y => pos[x] < pos[y]
        /\ \A x \in 1 .. Len(made) : made[x][1] = all[pos[x]]
  BY <1>4 DEF Selects
<1>6. DOMAIN made = 1 .. Len(made) /\ Len(made) \in Nat
  BY <1>4
<1>7. ASSUME NEW x \in 1 .. Len(made)
      PROVE  first[x] \in T /\ first[x].factory = "builds"
  <2>1. made[x] \in Pairs(all, Base(c)) /\ first[x] = made[x][1]
    BY <1>4, <1>6
  <2>2. PICK k \in DOMAIN all :
          made[x] = <<all[k], NameFor(all, Base(c), k)>>
            /\ all[k].factory = "builds"
    BY <2>1 DEF Pairs
  <2>3. first[x] = all[k]
    BY <2>1, <2>2
  <2>4. all[k] \in T
    BY <1>3, <2>2 DEF T
  <2>5. QED
    BY <2>2, <2>3, <2>4
<1>8. first \in Seq(T) /\ Len(first) = Len(made)
  <2>1. first \in [1 .. Len(made) -> T]
    BY <1>6, <1>7
  <2> HIDE DEF first
  <2>2. QED
    BY <1>6, <2>1
<1>9. \A x \in 1 .. Len(made) : first[x] = all[pos[x]]
  BY <1>5, <1>6
<1> DEFINE built == first \o extra
<1> HIDE DEF first
<1>10. first \in Seq(T \cup E) /\ extra \in Seq(T \cup E)
  BY <1>2, <1>8
<1>11. /\ built \in Seq(T \cup E)
       /\ Len(built) = Len(first) + Len(extra)
       /\ \A i \in 1 .. Len(first) + Len(extra) :
            built[i] = IF i <= Len(first) THEN first[i]
                       ELSE extra[i - Len(first)]
  BY <1>10
<1>12. /\ DOMAIN built = 1 .. Len(first) + Len(extra)
       /\ Len(extra) \in Nat
       /\ \A i \in DOMAIN built :
            built[i] = IF i <= Len(made) THEN first[i]
                       ELSE extra[i - Len(made)]
  <2> HIDE DEF built
  <2>1. QED
    BY <1>8, <1>10, <1>11
<1> HIDE DEF built
<1>13. ASSUME NEW i \in DOMAIN built, ~Own(built[i])
       PROVE  /\ i \in 1 .. Len(made) /\ pos[i] \in 1 .. Len(c.stores)
              /\ built[i] = c.stores[pos[i]]
  <2>1. i \in 1 .. Len(made)
    <3> SUFFICES ASSUME i > Len(made) PROVE FALSE
      BY <1>6, <1>8, <1>12
    <3>1. i - Len(made) \in 1 .. Len(extra)
      BY <1>6, <1>8, <1>12
    <3>2. built[i] = extra[i - Len(made)]
      BY <1>6, <1>8, <1>12
    <3>3. extra[i - Len(made)] \in E
      BY <1>2, <3>1
    <3>4. QED
      BY <1>2, <1>13, <3>2, <3>3
  <2>2. built[i] = first[i]
    BY <1>12, <2>1
  <2>3. built[i] = all[pos[i]] /\ pos[i] \in 1 .. Len(all)
    BY <1>5, <1>9, <2>1, <2>2
  <2>4. pos[i] \in 1 .. Len(c.stores)
    <3>1. ~(pos[i] > Len(c.stores))
      BY <1>3, <1>13, <2>3
    <3>2. Len(c.stores) \in Nat
      OBVIOUS
    <3>3. QED
      BY <1>3, <2>3, <3>1, <3>2
  <2>5. built[i] = c.stores[pos[i]]
    BY <1>3, <2>3, <2>4
  <2>6. QED
    BY <2>1, <2>4, <2>5
<1>14. ASSUME NEW i \in DOMAIN built, NEW j \in DOMAIN built,
              ~Own(built[i]), ~Own(built[j]), i < j
       PROVE  pos[i] < pos[j]
  <2>1. i \in 1 .. Len(made) /\ j \in 1 .. Len(made)
    BY <1>13, <1>14
  <2>2. QED
    BY <1>5, <1>14, <2>1
<1>15. BuildStores(c, env).stores = built
  BY <1>2 DEF built
<1>16. \E pp :
         /\ \A i \in DOMAIN built :
              \/ Own(built[i])
              \/ /\ pp[i] \in 1 .. Len(c.stores)
                 /\ built[i] = c.stores[pp[i]]
         /\ \A i, j \in DOMAIN built :
              ~Own(built[i]) /\ ~Own(built[j]) /\ i < j => pp[i] < pp[j]
  BY <1>13, <1>14, Zenon
<1>17. QED
  BY <1>15, <1>16, Zenon

\* Of two stores of a command with one GetID the later does not refresh its
\* index, or an ID is left out, or one that kswitch gives itself.
ApartIn(c, built) ==
  \A i, j \in DOMAIN built :
    LET s == built[i]  t == built[j] IN
    i < j /\ StoreID(s) = StoreID(t) =>
      Indistinct(s, t) \/ ~RefreshesIndex(c, t)

\* So it is in what BuildStores makes of a configuration without shared keys.
LEMMA BuiltIsApart ==
  ASSUME NEW c, NEW env, c.stores \in Seq(StoreConfig),
         \A i \in DOMAIN c.stores : ~SharesKey(c, i),
         BuildStores(c, env).ok
  PROVE  ApartIn(c, BuildStores(c, env).stores)
<1> DEFINE built == BuildStores(c, env).stores
<1>1. PICK pos :
        /\ \A i \in DOMAIN built :
             \/ Own(built[i])
             \/ /\ pos[i] \in 1 .. Len(c.stores)
                /\ built[i] = c.stores[pos[i]]
        /\ \A i, j \in DOMAIN built :
             ~Own(built[i]) /\ ~Own(built[j]) /\ i < j => pos[i] < pos[j]
  BY BuiltFrom
<1> HIDE DEF built
<1>2. ASSUME NEW x \in 1 .. Len(c.stores), NEW y \in 1 .. Len(c.stores),
             x < y, RefreshesIndex(c, c.stores[y])
      PROVE  ValidationKey(c.stores[x]) # ValidationKey(c.stores[y])
  <2>1. y \in DOMAIN c.stores /\ x \in 1 .. y - 1
    BY <1>2
  <2>2. QED
    BY <1>2, <2>1 DEF SharesKey
<1>3. ASSUME NEW i \in DOMAIN built, NEW j \in DOMAIN built, i < j,
             RefreshesIndex(c, built[j]),
             StoreID(built[i]) = StoreID(built[j])
      PROVE  Indistinct(built[i], built[j])
  <2>1. CASE Own(built[i]) \/ Own(built[j])
    BY <2>1 DEF Indistinct, Own
  <2>2. CASE ~Own(built[i]) /\ ~Own(built[j])
    <3>1. /\ pos[i] \in 1 .. Len(c.stores) /\ pos[j] \in 1 .. Len(c.stores)
          /\ built[i] = c.stores[pos[i]] /\ built[j] = c.stores[pos[j]]
          /\ pos[i] < pos[j]
      BY <1>1, <1>3, <2>2
    <3>2. ValidationKey(built[i]) # ValidationKey(built[j])
      BY <1>2, <1>3, <3>1
    <3>3. {GivenID(built[i]), GivenID(built[j])} = {Unset, "default"}
      BY <1>3, <3>2, KeysTellApart
    <3>4. QED
      BY <3>3 DEF Indistinct
  <2>3. QED
    BY <2>1, <2>2
<1>4. QED
  BY <1>3 DEF ApartIn, built

(***************************************************************************)
(* A command that has stores has built them of what it has loaded, which   *)
(* the validation lets pass.                                               *)
(***************************************************************************)
IsWired(p) ==
  stores[p].ok =>
    LET c == Settings(loader[p].config) IN
    /\ phase[p] = "done"
    /\ \A i \in DOMAIN c.stores : ~SharesKey(c, i)
    /\ stores[p] = BuildStores(c, environment)

WiredInv == StoresInv /\ \A p \in Process : IsWired(p)

\* The entries that a command has loaded are those of the user, or none.
LEMMA LoadsEntries ==
  ASSUME settings \in Config, NEW config
  PROVE  Settings(config).stores \in Seq(StoreConfig)
<1>1. EmptyConfig.stores \in Seq(StoreConfig)
  BY DEF EmptyConfig
<1>2. settings.stores \in Seq(StoreConfig) /\ "stores" \in DOMAIN settings
  BY DEF Config
<1>3. CASE config.form # "text"
  BY <1>1, <1>3 DEF Settings
<1>4. CASE config.form = "text"
  <2>1. Settings(config).stores =
          IF "stores" \in config.has THEN settings.stores ELSE << >>
    BY <1>4 DEF Settings, Config
  <2>2. QED
    BY <1>2, <2>1
<1>5. QED
  BY <1>3, <1>4

\* A command builds its stores of a configuration that is valid, or of none.
LEMMA ConfiguredWired ==
  ASSUME WiredInv, StoresInv', NEW p \in Process, Configure(p)
  PROVE  WiredInv'
<1> DEFINE c == Settings(loader[p].config)
           ok == loader[p].config.form = "absent" \/ ConfigIsValid(c)
           built == IF ok THEN BuildStores(c, environment) ELSE Refused
<1>1. /\ UNCHANGED <<settings, environment, loader>>
      /\ stores' = [stores EXCEPT ![p] = built]
      /\ phase' = [phase EXCEPT ![p] = IF built.ok THEN "done" ELSE "failed"]
  BY DEF Configure, Go, userVars, fileVars
<1>2. DOMAIN phase = Process /\ DOMAIN stores = Process
  BY DEF WiredInv, StoresInv, FileInv, FileShapes
<1>3. ASSUME built.ok
      PROVE  /\ built = BuildStores(c, environment)
             /\ \A i \in DOMAIN c.stores : ~SharesKey(c, i)
  <2>1. ok /\ built = BuildStores(c, environment)
    BY <1>3 DEF Refused
  <2>2. CASE loader[p].config.form = "absent"
    BY <2>1, <2>2 DEF Settings, EmptyConfig
  <2>3. CASE ConfigIsValid(c)
    BY <2>1, <2>3 DEF ConfigIsValid
  <2>4. QED
    BY <2>1, <2>2, <2>3
<1> HIDE DEF c, ok, built
<1>4. ASSUME NEW q \in Process PROVE IsWired(q)'
  <2>1. CASE q = p
    <3>1. stores'[p] = built /\ (built.ok => phase'[p] = "done")
      BY <1>1, <1>2
    <3>2. Settings(loader[p].config)' = c
      BY <1>1 DEF Settings, c
    <3>3. QED
      BY <1>1, <1>3, <2>1, <3>1, <3>2 DEF IsWired
  <2>2. CASE q # p
    <3>1. stores'[q] = stores[q] /\ phase'[q] = phase[q] /\ IsWired(q)
      BY <1>1, <1>2, <2>2 DEF WiredInv
    <3>2. Settings(loader[q].config)' = Settings(loader[q].config)
      BY <1>1 DEF Settings
    <3>3. QED
      BY <1>1, <3>1, <3>2 DEF IsWired
  <2>3. QED
    BY <2>1, <2>2
<1>5. QED
  BY <1>4 DEF WiredInv

(***************************************************************************)
(* Of any configuration, stores that a command has built write indexes to  *)
(* different files, but for the stores and the IDs IndexesAreApart names.  *)
(***************************************************************************)
THEOREM IndexesStayApart == Spec => []IndexesAreApart
<1>1. Init /\ StoresInv => WiredInv
  BY DEF Init, Refused, WiredInv, IsWired
<1>2. WiredInv /\ StoresInv' /\ [Next]_vars => WiredInv'
  <2> SUFFICES ASSUME WiredInv, StoresInv', [Next]_vars PROVE WiredInv'
    OBVIOUS
  <2>1. ASSUME NEW p \in Process, Configure(p) PROVE WiredInv'
    BY <2>1, ConfiguredWired
  <2>2. ASSUME /\ UNCHANGED <<settings, environment, stores>>
               /\ \A q \in Process : phase[q] = "done" =>
                    phase'[q] = "done" /\ loader'[q] = loader[q]
        PROVE  WiredInv'
    <3>1. ASSUME NEW q \in Process PROVE IsWired(q)'
      <4> SUFFICES ASSUME stores[q].ok PROVE IsWired(q)'
        BY <2>2 DEF IsWired
      <4>1. IsWired(q) /\ phase[q] = "done"
        BY DEF WiredInv, IsWired
      <4>2. Settings(loader[q].config)' = Settings(loader[q].config)
        BY <2>2, <4>1 DEF Settings
      <4>3. QED
        BY <2>2, <4>1, <4>2 DEF IsWired
    <3>2. QED
      BY <3>1 DEF WiredInv
  <2>3. ASSUME UNCHANGED vars PROVE WiredInv'
    BY <2>2, <2>3 DEF vars, userVars, fileVars
  <2>4. ASSUME Next, ~(\E p \in Process : Configure(p)) PROVE WiredInv'
    <3>1. UNCHANGED <<settings, environment, stores>>
      BY <2>4 DEF Next, Begin, Load, LoadFailsToWrite, LoadFails, BeginHooks,
           RunHooks, HooksFailToWrite, EndHooks, Kill, TimePasses, userVars
    <3>2. \A q \in Process : phase[q] = "done" =>
            phase'[q] = "done" /\ loader'[q] = loader[q]
      BY <2>4, <3>1, DoneIsDone DEF WiredInv
    <3>3. QED
      BY <2>2, <3>1, <3>2
  <2>5. QED
    BY <2>1, <2>3, <2>4
<1>3. WiredInv => IndexesAreApart
  <2> SUFFICES ASSUME WiredInv, NEW p \in Process, stores[p].ok
               PROVE  ApartIn(Settings(loader[p].config), stores[p].stores)
    BY DEF IndexesAreApart, ApartIn
  <2> DEFINE c == Settings(loader[p].config)
  <2>1. c.stores \in Seq(StoreConfig)
    BY LoadsEntries DEF WiredInv, StoresInv
  <2>2. /\ \A i \in DOMAIN c.stores : ~SharesKey(c, i)
        /\ stores[p] = BuildStores(c, environment)
    BY DEF WiredInv, IsWired
  <2> HIDE DEF c
  <2>3. ApartIn(c, stores[p].stores)
    BY <2>1, <2>2, BuiltIsApart
  <2>4. QED
    BY <2>3 DEF c
<1>4. QED
  BY <1>1, <1>2, <1>3, StoresInvHolds, PTL DEF Spec
=============================================================================
