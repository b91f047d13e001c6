---------------------------- MODULE AliasProofs ----------------------------
(***************************************************************************)
(* Theorems about AliasState, for any aliases, contexts and number of      *)
(* commands, killed at any step.                                           *)
(***************************************************************************)
EXTENDS AliasState, NaturalsInduction, WellFoundedInduction, TLAPS

(***************************************************************************)
(* What a command holds, step by step.  A mapping that is to be written    *)
(* comes from the legacy file, or it is that of a removal and does not     *)
(* have the alias any more.                                                *)
(***************************************************************************)
Shape(p) ==
  /\ pc[p] # "idle" => /\ request[p] \in Request
                       /\ request[p].command \in scenario.runs[p]
  /\ pc[p] \in {"idle", "stat", "readDir", "statLegacy", "readLegacy"} =>
       content[p] = NoAlias
  /\ pc[p] = "readFiles" => todo[p] \subseteq Aliases
  /\ pc[p] = "write" =>
       todo[p] \subseteq {n \in Contexts : content[p][n] # None}
  /\ pc[p] = "sweep" => todo[p] \subseteq Aliases \ Named(content[p])
  /\ pc[p] \in {"write", "sweep"} /\ ~migrating[p] =>
       /\ request[p].command = "rm"
       /\ request[p].alias \notin Named(content[p])
  /\ migrating[p] => pc[p] \in {"write", "sweep", "removeLegacy"}
  /\ pc[p] = "removeLegacy" => migrating[p]

TypesInv == TypeOK /\ \A p \in Procs : Shape(p)

\* Without an upgrade the directory is there and nothing is migrated.
MigrationStep == {"statLegacy", "readLegacy", "mkdir", "removeLegacy", "nil"}

Settled ==
  ~scenario.upgrade =>
    /\ aliasDir /\ legacy = None
    /\ \A p \in Procs : pc[p] \notin MigrationStep /\ ~migrating[p]

\* Commands that do not remove find what they have listed.
ListedIsThere ==
  \A p \in Procs : pc[p] = "readFiles" => todo[p] \subseteq OnDisk

LoadsInv ==
  (~scenario.upgrade /\ \A p \in Procs : "rm" \notin scenario.runs[p]) =>
    /\ ListedIsThere
    /\ \A p \in Procs : pc[p] # "failed"

(***************************************************************************)
(* The only one that writes.  It reads the files in order, so that of      *)
(* several aliases of a context the last one is in the mapping.            *)
(***************************************************************************)
Reads(c, left) ==
  /\ left \subseteq OnDisk
  /\ \A a \in OnDisk \ left : \A t \in left : a < t
  /\ \A a \in OnDisk \ left :
       c[aliasFile[a]] # None /\ a <= c[aliasFile[a]]
  /\ \A n \in Contexts :
       c[n] # None => c[n] \in OnDisk \ left /\ aliasFile[c[n]] = n

\* What is to be kept is there; of the context of the alias that is removed,
\* that alias is the last.
Removes(c, r) ==
  /\ r \notin Named(c)
  /\ \A n \in Contexts : c[n] # None => aliasFile[c[n]] = n
  /\ \A a \in OnDisk :
       \/ c[aliasFile[a]] # None
       \/ a <= r /\ aliasFile[r] = aliasFile[a]

OnlyWriter(w) ==
  /\ ~scenario.upgrade
  /\ \A p \in Procs \ {w} : scenario.runs[p] \subseteq {"list"}

Writes(w) ==
  /\ pc[w] = "readFiles" => Reads(content[w], todo[w])
  /\ pc[w] = "loaded" => Reads(content[w], {})
  /\ pc[w] \in {"write", "sweep"} => Removes(content[w], request[w].alias)
  /\ pc[w] = "sweep" => OnDisk \ Named(content[w]) \subseteq todo[w]
  /\ pc[w] = "done" /\ request[w].command = "rm" =>
       aliasFile[request[w].alias] = None

WriterInv == \A w \in Procs : OnlyWriter(w) => Writes(w)

(***************************************************************************)
(* After an upgrade all commands that migrate hold the mapping of the      *)
(* legacy file, and nothing else gets into the directory.                  *)
(***************************************************************************)
Migrates(l, p) ==
  /\ pc[p] \in {"mkdir", "write", "sweep", "removeLegacy"} => content[p] = l
  /\ pc[p] = "write" =>
       \A n \in Contexts \ todo[p] : l[n] # None => aliasFile[l[n]] # None
  /\ pc[p] = "sweep" => todo[p] = {}
  /\ pc[p] \in {"sweep", "removeLegacy"} =>
       \A n \in Contexts : l[n] # None => aliasFile[l[n]] # None

Upgrades(l) ==
  /\ legacy \in {l, None}
  /\ \A a \in OnDisk : l[aliasFile[a]] = a
  /\ \A p \in Procs : Migrates(l, p)

UpgradeInv ==
  (scenario.upgrade /\ \A p \in Procs : scenario.runs[p] \subseteq {"list"}) =>
    \E l \in LegacyMapping : Upgrades(l)

\* Of aliases there is a first one, which the loops over them take.
LEMMA MinIsThere ==
  ASSUME NEW S \in SUBSET Nat, S # {}
  PROVE  Min(S) \in S /\ \A y \in S : Min(S) <= y
<1>1. PICK R : /\ IsWellFoundedOn(R, Nat)
               /\ \A x, y \in Nat : x < y => <<x, y>> \in R
  <2>1. \A x, y \in Nat : x < y => <<x, y>> \in OpToRel(<, Nat)
    BY Zenon DEF OpToRel
  <2>2. QED
    BY <2>1, NatLessThanWellFounded, Zenon
<1>2. S # {} /\ S \subseteq Nat /\ IsWellFoundedOn(R, Nat)
  BY <1>1
<1>3. \E x \in S : \A y \in S : ~(<<y, x>> \in R)
  BY <1>2, WFMin, Zenon
<1>4. PICK x \in S : \A y \in S : ~(<<y, x>> \in R)
  BY <1>3
<1>5. ASSUME NEW y \in S PROVE x <= y
  <2>1. x \in Nat /\ y \in Nat /\ ~(<<y, x>> \in R)
    BY <1>4
  <2>2. ~(y < x)
    BY <1>1, <2>1
  <2>3. QED
    BY <2>1, <2>2
<1>6. QED
  BY <1>4, <1>5 DEF Min

\* At the start commands hold nothing.
LEMMA TypesInit == Init => TypesInv
<1> SUFFICES ASSUME Init PROVE TypesInv
  OBVIOUS
<1>1. legacy \in Mapping \cup {None} /\ aliasDir \in BOOLEAN
  BY DEF Init, LegacyMapping
<1>2. aliasFile \in [Aliases -> Contexts \cup {None}]
  BY DEF Init
<1>3. content \in [Procs -> Mapping]
  BY DEF Init, NoAlias, Mapping
<1>4. TypeOK
  BY <1>1, <1>2, <1>3 DEF Init, TypeOK
<1>5. QED
  BY <1>4 DEF Init, TypesInv, Shape

\* A step of one command leaves the others as they are.
LEMMA OthersAsTheyAre ==
  ASSUME NEW p \in Procs, Step(p), NEW q \in Procs, q # p, TypeOK
  PROVE  /\ pc'[q] = pc[q] /\ request'[q] = request[q]
         /\ content'[q] = content[q] /\ migrating'[q] = migrating[q]
         /\ todo'[q] = todo[q] /\ scenario' = scenario
<1> USE DEF TypeOK, Goto, files
<1>1. CASE Start(p) \/ Stat(p) \/ ReadDir(p)
  BY <1>1 DEF Start, Stat, ReadDir
<1>2. CASE ReadFile(p)
  BY <1>2 DEF ReadFile
<1>3. CASE ReadFileFails(p) \/ EndLoad(p) \/ StatLegacy(p) \/ ReadLegacy(p)
  BY <1>3 DEF ReadFileFails, EndLoad, StatLegacy, ReadLegacy
<1>4. CASE MkdirAll(p) \/ RemoveLegacy(p) \/ WriteOne(p) \/ ListStale(p)
  BY <1>4 DEF MkdirAll, RemoveLegacy, WriteOne, ListStale, WriteAll
<1>5. CASE Sweep(p) \/ EndSweep(p) \/ SetAlias(p)
  BY <1>5 DEF Sweep, EndSweep, SetAlias
<1>6. CASE RemoveAlias(p) \/ RemoveNothing(p) \/ Exit(p)
  BY <1>6 DEF RemoveAlias, RemoveNothing, Exit, WriteAll
<1>7. QED
  BY <1>1, <1>2, <1>3, <1>4, <1>5, <1>6 DEF Step

\* Commands that go on, or return.
LEMMA GoesOnTyped ==
  ASSUME TypesInv, NEW p \in Procs,
         \/ Start(p) \/ Stat(p) \/ ReadDir(p) \/ ReadFileFails(p)
         \/ EndLoad(p) \/ StatLegacy(p) \/ ReadLegacy(p) \/ RemoveLegacy(p)
         \/ EndSweep(p) \/ RemoveNothing(p) \/ Exit(p)
  PROVE  TypeOK' /\ Shape(p)'
<1> USE AliasAssumption DEF TypesInv, TypeOK, Shape, Goto, files
<1>1. CASE Start(p)
  BY <1>1 DEF Start
<1>2. CASE Stat(p)
  BY <1>2 DEF Stat
<1>3. CASE ReadDir(p)
  BY <1>3 DEF ReadDir, OnDisk
<1>4. CASE ReadFileFails(p)
  BY <1>4 DEF ReadFileFails
<1>5. CASE EndLoad(p)
  BY <1>5 DEF EndLoad
<1>6. CASE StatLegacy(p)
  BY <1>6 DEF StatLegacy
<1>7. CASE ReadLegacy(p)
  BY <1>7 DEF ReadLegacy
<1>8. CASE RemoveLegacy(p)
  BY <1>8 DEF RemoveLegacy
<1>9. CASE EndSweep(p)
  BY <1>9 DEF EndSweep
<1>10. CASE RemoveNothing(p)
  BY <1>10 DEF RemoveNothing, Runs
<1>11. CASE Exit(p)
  <2>1. NoAlias \in Mapping
    BY DEF NoAlias, Mapping
  <2>2. QED
    BY <1>11, <2>1 DEF Exit
<1>12. QED
  BY <1>1, <1>2, <1>3, <1>4, <1>5, <1>6, <1>7, <1>8, <1>9, <1>10, <1>11

\* A file is read, into the mapping.
LEMMA ReadFileTyped ==
  ASSUME TypesInv, NEW p \in Procs, ReadFile(p)
  PROVE  TypeOK' /\ Shape(p)'
<1> DEFINE a == Min(todo[p])
<1>1. a \in todo[p] /\ todo[p] \subseteq Aliases
  BY MinIsThere, AliasAssumption DEF ReadFile, TypesInv, Shape
<1> HIDE DEF a
<1>2. /\ pc[p] = "readFiles" /\ aliasFile[a] # None
      /\ content' = [content EXCEPT ![p][aliasFile[a]] = a]
      /\ todo' = [todo EXCEPT ![p] = @ \ {a}]
      /\ UNCHANGED <<scenario, files, pc, request, migrating>>
  BY DEF ReadFile, a
<1>3. aliasFile[a] \in Contexts
  BY <1>1, <1>2 DEF TypesInv, TypeOK
<1>4. content' \in [Procs -> Mapping]
  BY <1>1, <1>2, <1>3 DEF TypesInv, TypeOK, Mapping
<1>5. todo' \in [Procs -> (SUBSET Aliases) \cup (SUBSET Contexts)]
  BY <1>1, <1>2 DEF TypesInv, TypeOK
<1>6. TypeOK'
  BY <1>2, <1>4, <1>5 DEF TypesInv, TypeOK, files
<1>7. Shape(p)'
  BY <1>1, <1>2 DEF TypesInv, TypeOK, Shape
<1>8. QED
  BY <1>6, <1>7

\* The mapping is written: that of the legacy file, or what a removal leaves.
LEMMA WriteAllTyped ==
  ASSUME TypesInv, NEW p \in Procs, MkdirAll(p) \/ RemoveAlias(p)
  PROVE  TypeOK' /\ Shape(p)'
<1>1. ASSUME NEW c \in Mapping, WriteAll(p, c)
      PROVE  /\ pc' = [pc EXCEPT ![p] = "write"]
             /\ content' \in [Procs -> Mapping] /\ content'[p] = c
             /\ todo' \in [Procs -> (SUBSET Aliases) \cup (SUBSET Contexts)]
             /\ todo'[p] = {n \in Contexts : c[n] # None}
  BY <1>1 DEF WriteAll, Goto, TypesInv, TypeOK
<1>2. CASE MkdirAll(p)
  <2>1. content[p] \in Mapping
    BY DEF TypesInv, TypeOK
  <2>2. WriteAll(p, content[p])
    BY <1>2 DEF MkdirAll
  <2>3. /\ aliasDir' = TRUE /\ migrating' = [migrating EXCEPT ![p] = TRUE]
        /\ pc[p] = "mkdir"
        /\ UNCHANGED <<scenario, aliasFile, legacy, request>>
    BY <1>2 DEF MkdirAll
  <2>4. QED
    BY <1>1, <2>1, <2>2, <2>3 DEF TypesInv, TypeOK, Shape
<1>3. CASE RemoveAlias(p)
  <2> DEFINE c == [n \in Contexts |->
                     IF content[p][n] = request[p].alias THEN None
                     ELSE content[p][n]]
  <2>1. c \in Mapping
    BY DEF TypesInv, TypeOK, Mapping
  <2>2. /\ WriteAll(p, c) /\ request[p].command = "rm"
        /\ pc[p] = "loaded"
        /\ UNCHANGED <<scenario, files, request, migrating>>
    BY <1>3 DEF RemoveAlias, Runs
  <2>3. request[p].alias \notin Named(c)
    BY DEF Named
  <2> HIDE DEF c
  <2>4. QED
    BY <1>1, <2>1, <2>2, <2>3 DEF TypesInv, TypeOK, Shape, files
<1>4. QED
  BY <1>2, <1>3

\* Files are written and removed.
LEMMA WritesTyped ==
  ASSUME TypesInv, NEW p \in Procs,
         WriteOne(p) \/ ListStale(p) \/ Sweep(p) \/ SetAlias(p)
  PROVE  TypeOK' /\ Shape(p)'
<1> USE AliasAssumption DEF TypesInv, TypeOK, Shape, Goto, files
<1>1. CASE WriteOne(p)
  <2>1. PICK n \in todo[p] :
          /\ aliasFile' = [aliasFile EXCEPT ![content[p][n]] = n]
          /\ todo' = [todo EXCEPT ![p] = @ \ {n}]
    BY <1>1 DEF WriteOne
  <2>2. n \in Contexts /\ content[p][n] \in Aliases
    BY <1>1 DEF WriteOne, Mapping
  <2>3. QED
    BY <1>1, <2>1, <2>2 DEF WriteOne
<1>2. CASE ListStale(p)
  BY <1>2 DEF ListStale, OnDisk
<1>3. CASE Sweep(p)
  <2>1. pc[p] = "sweep" /\ todo[p] # {}
    BY <1>3 DEF Sweep
  <2>2. todo[p] \in SUBSET Nat
    BY <2>1
  <2>3. Min(todo[p]) \in todo[p]
    BY <2>1, <2>2, MinIsThere
  <2>4. QED
    BY <1>3, <2>1, <2>3 DEF Sweep
<1>4. CASE SetAlias(p)
  <2>1. request[p] \in Request
    BY <1>4 DEF SetAlias, Runs
  <2>2. request[p].alias \in Aliases /\ request[p].context \in Contexts
    BY <2>1 DEF Request
  <2>3. QED
    BY <1>4, <2>2 DEF SetAlias, Runs
<1>5. QED
  BY <1>1, <1>2, <1>3, <1>4

\* What commands hold stays as it should be.
LEMMA TypesInvHolds == Spec => []TypesInv
<1>1. TypesInv /\ [Next]_vars => TypesInv'
  <2> SUFFICES ASSUME TypesInv, [Next]_vars PROVE TypesInv'
    OBVIOUS
  <2>1. ASSUME NEW p \in Procs, Step(p) PROVE TypesInv'
    <3>1. TypeOK' /\ Shape(p)'
      BY <2>1, GoesOnTyped, ReadFileTyped, WriteAllTyped, WritesTyped DEF Step
    <3>2. ASSUME NEW q \in Procs, q # p PROVE Shape(q)'
      BY <2>1, <3>2, OthersAsTheyAre DEF Shape, TypesInv
    <3>3. QED
      BY <3>1, <3>2 DEF TypesInv
  <2>2. CASE UNCHANGED vars
    BY <2>2 DEF vars, TypesInv, TypeOK, Shape
  <2>3. QED
    BY <2>1, <2>2 DEF Next
<1>2. QED
  BY <1>1, TypesInit, PTL DEF Spec

\* The variables of the commands and the files keep their types.
THEOREM AliasTypes == Spec => []TypeOK
<1>1. TypesInv => TypeOK
  BY DEF TypesInv
<1>2. QED
  BY <1>1, TypesInvHolds, PTL

\* What may happen is settled at the start.
LEMMA ScenarioStays ==
  ASSUME NEW p \in Procs, Step(p)
  PROVE  scenario' = scenario
BY DEF Step, Start, Stat, ReadDir, ReadFile, ReadFileFails, EndLoad,
     StatLegacy, ReadLegacy, MkdirAll, RemoveLegacy, WriteOne, ListStale,
     Sweep, EndSweep, SetAlias, RemoveAlias, RemoveNothing, Exit

\* Who does not remove rewrites no files, unless it migrates.
LEMMA WhoRewrites ==
  ASSUME TypesInv, Settled, NEW p \in Procs, ~scenario.upgrade,
         pc[p] \in {"write", "sweep"}
  PROVE  "rm" \in scenario.runs[p] /\ request[p].command = "rm"
BY DEF TypesInv, Settled, Shape

\* The directory that is there stays, and keeps the migration away.
LEMMA SettledStays == TypesInv /\ Settled /\ [Next]_vars => Settled'
<1> SUFFICES ASSUME TypesInv, Settled, [Next]_vars PROVE Settled'
  OBVIOUS
<1>1. CASE UNCHANGED vars
  BY <1>1 DEF vars, Settled
<1>2. ASSUME NEW p \in Procs, Step(p) PROVE Settled'
  <2> SUFFICES ASSUME ~scenario.upgrade PROVE Settled'
    <3>1. scenario' = scenario
      BY <1>2, ScenarioStays
    <3>2. QED
      BY <3>1 DEF Settled
  <2>1. /\ aliasDir /\ legacy = None
        /\ \A q \in Procs : pc[q] \notin MigrationStep /\ ~migrating[q]
    BY DEF Settled
  <2>2. /\ pc \in [Procs -> {"idle", "stat", "readDir", "readFiles",
                  "statLegacy", "readLegacy", "mkdir", "removeLegacy", "nil",
                  "loaded", "write", "sweep", "notFound", "failed", "done"}]
        /\ migrating \in [Procs -> BOOLEAN]
    BY DEF TypesInv, TypeOK
  <2> USE <2>1, <2>2 DEF Goto, files, MigrationStep
  <2>3. CASE Start(p) \/ Stat(p) \/ ReadDir(p) \/ ReadFile(p)
    BY <2>3 DEF Start, Stat, ReadDir, ReadFile, Settled
  <2>4. CASE ReadFileFails(p) \/ EndLoad(p) \/ WriteOne(p) \/ ListStale(p)
    BY <2>4 DEF ReadFileFails, EndLoad, WriteOne, ListStale, Settled
  <2>5. CASE StatLegacy(p) \/ ReadLegacy(p) \/ MkdirAll(p) \/ RemoveLegacy(p)
    BY <2>5 DEF StatLegacy, ReadLegacy, MkdirAll, RemoveLegacy
  <2>6. CASE Sweep(p) \/ EndSweep(p) \/ SetAlias(p) \/ RemoveNothing(p)
    BY <2>6 DEF Sweep, EndSweep, SetAlias, RemoveNothing, Settled
  <2>7. CASE RemoveAlias(p) \/ Exit(p)
    BY <2>7 DEF RemoveAlias, Exit, WriteAll, Settled
  <2>8. QED
    BY <1>2, <2>3, <2>4, <2>5, <2>6, <2>7 DEF Step
<1>3. QED
  BY <1>1, <1>2 DEF Next

\* Without removals what is listed stays.
LEMMA LoadsStep ==
  ASSUME TypesInv, Settled, LoadsInv, NEW p \in Procs, Step(p),
         ~scenario.upgrade, \A q \in Procs : "rm" \notin scenario.runs[q]
  PROVE  LoadsInv'
<1>1. /\ ListedIsThere /\ \A q \in Procs : pc[q] # "failed"
      /\ TypeOK
  BY DEF LoadsInv, TypesInv
<1>2. pc[p] \notin {"write", "sweep"} \cup MigrationStep
  BY WhoRewrites DEF Settled
<1>3. OnDisk \subseteq OnDisk'
  <2>1. CASE SetAlias(p)
    <3>1. request[p] \in Request
      BY <2>1 DEF TypesInv, Shape, SetAlias, Runs
    <3>2. request[p].context # None
      BY <3>1, AliasAssumption DEF Request
    <3>3. QED
      BY <1>1, <2>1, <3>2 DEF SetAlias, OnDisk, TypeOK
  <2>2. CASE ~SetAlias(p)
    <3>1. aliasFile' = aliasFile
      BY <1>2, <2>2 DEF Step, Start, Stat, ReadDir, ReadFile, ReadFileFails,
           EndLoad, StatLegacy, ReadLegacy, MkdirAll, RemoveLegacy, WriteOne,
           ListStale, Sweep, EndSweep, RemoveAlias, RemoveNothing, Exit, files
    <3>2. QED
      BY <3>1 DEF OnDisk
  <2>3. QED
    BY <2>1, <2>2
<1>4. pc'[p] # "failed" /\ (pc'[p] = "readFiles" => todo'[p] \subseteq OnDisk)
  <2>1. CASE ReadDir(p) \/ ReadFile(p)
    BY <1>1, <2>1 DEF ReadDir, ReadFile, ListedIsThere, Goto, TypeOK
  <2>2. CASE ReadFileFails(p)
    <3>1. todo[p] \subseteq OnDisk /\ todo[p] # {} /\ todo[p] \in SUBSET Nat
      BY <1>1, <2>2, AliasAssumption DEF ReadFileFails, ListedIsThere, OnDisk
    <3>2. Min(todo[p]) \in OnDisk
      BY <3>1, MinIsThere
    <3>3. QED
      BY <2>2, <3>2 DEF ReadFileFails, OnDisk
  <2>3. CASE ~(ReadDir(p) \/ ReadFile(p) \/ ReadFileFails(p))
    <3>1. pc'[p] \in {"stat", "readDir", "statLegacy", "loaded", "write",
                      "done", "notFound", "idle"}
      BY <1>1, <1>2, <2>3 DEF Step, Start, Stat, EndLoad, StatLegacy,
           ReadLegacy, MkdirAll, RemoveLegacy, WriteOne, ListStale, Sweep,
           EndSweep, SetAlias, RemoveAlias, RemoveNothing, Exit, Goto,
           WriteAll, TypeOK, MigrationStep
    <3>2. QED
      BY <3>1
  <2>4. QED
    BY <2>1, <2>2, <2>3
<1>5. \A q \in Procs : q # p => pc'[q] = pc[q] /\ todo'[q] = todo[q]
  BY <1>1, OthersAsTheyAre
<1>6. QED
  BY <1>1, <1>3, <1>4, <1>5 DEF LoadsInv, ListedIsThere

\* Commands that do not remove aliases find what they have listed.
LEMMA LoadsInvHolds == Spec => [](Settled /\ LoadsInv)
<1>1. Init => Settled /\ LoadsInv
  BY DEF Init, Settled, LoadsInv, ListedIsThere, MigrationStep, Scenario
<1>2. TypesInv /\ LoadsInv /\ Settled /\ [Next]_vars => LoadsInv'
  <2> SUFFICES ASSUME TypesInv, Settled, LoadsInv, [Next]_vars
               PROVE  LoadsInv'
    OBVIOUS
  <2>1. CASE UNCHANGED vars
    BY <2>1 DEF vars, LoadsInv, ListedIsThere, OnDisk
  <2>2. ASSUME NEW p \in Procs, Step(p) PROVE LoadsInv'
    <3>1. scenario' = scenario
      BY <2>2, ScenarioStays
    <3>2. QED
      BY <2>2, <3>1, LoadsStep DEF LoadsInv
  <2>3. QED
    BY <2>1, <2>2 DEF Next
<1>3. QED
  BY <1>1, <1>2, SettledStays, TypesInvHolds, PTL DEF Spec

(***************************************************************************)
(* However many commands set and list aliases, killed at any step, none of *)
(* them makes another fail to load the directory.                          *)
(***************************************************************************)
THEOREM LoadsAlwaysSucceed == Spec => []LoadsSucceed
<1>1. LoadsInv => LoadsSucceed
  BY DEF LoadsInv, LoadsSucceed
<1>2. QED
  BY <1>1, LoadsInvHolds, PTL

\* Beside the only one that writes the others leave the files alone.
LEMMA OthersOnlyRead ==
  ASSUME TypesInv, Settled, NEW w \in Procs, OnlyWriter(w),
         NEW p \in Procs, p # w, Step(p)
  PROVE  aliasFile' = aliasFile
<1>1. scenario.runs[p] \subseteq {"list"} /\ ~scenario.upgrade
  BY DEF OnlyWriter
<1>2. pc[p] \notin {"write", "sweep"} \cup MigrationStep
  BY <1>1, WhoRewrites DEF Settled
<1>3. ~SetAlias(p)
  <2>1. pc[p] # "idle" => request[p].command \in {"list"}
    BY <1>1 DEF TypesInv, Shape
  <2>2. QED
    BY <2>1 DEF SetAlias, Runs
<1>4. QED
  BY <1>2, <1>3 DEF Step, Start, Stat, ReadDir, ReadFile, ReadFileFails,
       EndLoad, StatLegacy, ReadLegacy, MkdirAll, RemoveLegacy, WriteOne,
       ListStale, Sweep, EndSweep, RemoveAlias, RemoveNothing, Exit, files

\* The first file that is left is read.
LEMMA ReadsOn ==
  ASSUME TypesInv, NEW w \in Procs, ReadFile(w), Reads(content[w], todo[w])
  PROVE  Reads(content[w], todo[w])'
<1> DEFINE a == Min(todo[w])
           c == content[w]
           left == todo[w]
<1>1. left \subseteq OnDisk /\ OnDisk \subseteq Aliases /\ left # {}
  BY DEF ReadFile, Reads, OnDisk
<1>2. a \in left /\ \A t \in left : a <= t
  BY <1>1, MinIsThere, AliasAssumption
<1> HIDE DEF a
<1>3. /\ todo'[w] = left \ {a} /\ aliasFile' = aliasFile
      /\ content'[w] = [c EXCEPT ![aliasFile[a]] = a]
      /\ aliasFile[a] \in Contexts
  <2>1. /\ content' = [content EXCEPT ![w][aliasFile[a]] = a]
        /\ todo' = [todo EXCEPT ![w] = @ \ {a}] /\ aliasFile' = aliasFile
    BY DEF ReadFile, a, files
  <2>2. /\ content \in [Procs -> Mapping] /\ DOMAIN todo = Procs
        /\ aliasFile[a] \in Contexts
    BY <1>1, <1>2 DEF TypesInv, TypeOK, OnDisk
  <2>3. QED
    BY <2>1, <2>2
<1>4. c \in [Contexts -> Aliases \cup {None}]
  BY DEF TypesInv, TypeOK, Mapping
<1> DEFINE d == content'[w]
           rest == todo'[w]
<1>5. OnDisk' = OnDisk
  BY <1>3 DEF OnDisk
<1>6. \A x \in OnDisk : aliasFile[x] \in Contexts
  BY DEF TypesInv, TypeOK, OnDisk
<1> HIDE DEF c, left
<1>7. \A n \in Contexts : d[n] = IF n = aliasFile[a] THEN a ELSE c[n]
  BY <1>3, <1>4
<1>8. rest = left \ {a}
  BY <1>3
<1> HIDE DEF d, rest
<1>9. rest \subseteq OnDisk /\ OnDisk \ rest = (OnDisk \ left) \cup {a}
  BY <1>1, <1>2, <1>8
<1>10. /\ \A x \in OnDisk \ left : \A t \in left : x < t
       /\ \A x \in OnDisk \ left :
            c[aliasFile[x]] # None /\ x <= c[aliasFile[x]]
       /\ \A n \in Contexts :
            c[n] # None => c[n] \in OnDisk \ left /\ aliasFile[c[n]] = n
  BY DEF Reads, c, left
<1>11. \A x \in OnDisk : x \in Nat
  BY <1>1, AliasAssumption
<1>12. ASSUME NEW x \in OnDisk \ rest, NEW t \in rest PROVE x < t
  <2>1. t \in left /\ t # a /\ t \in Nat /\ a \in Nat
    BY <1>1, <1>2, <1>8, <1>11
  <2>2. CASE x = a
    BY <1>2, <2>1, <2>2
  <2>3. CASE x # a
    BY <1>9, <1>10, <2>1, <2>3
  <2>4. QED
    BY <2>2, <2>3
<1>13. ASSUME NEW x \in OnDisk \ rest
       PROVE  d[aliasFile[x]] # None /\ x <= d[aliasFile[x]]
  <2>1. aliasFile[x] \in Contexts /\ a \in Nat /\ x \in Nat /\ a # None
    BY <1>1, <1>2, <1>6, <1>11, AliasAssumption
  <2>2. CASE x = a
    BY <1>7, <2>1, <2>2
  <2>3. CASE x # a
    <3>1. x \in OnDisk \ left /\ x < a
      BY <1>2, <1>9, <1>10, <2>3
    <3>2. QED
      BY <1>7, <1>10, <2>1, <3>1
  <2>4. QED
    BY <2>2, <2>3
<1>14. ASSUME NEW n \in Contexts, d[n] # None
       PROVE  d[n] \in OnDisk \ rest /\ aliasFile[d[n]] = n
  <2>1. CASE n = aliasFile[a]
    BY <1>1, <1>2, <1>7, <1>9, <2>1
  <2>2. CASE n # aliasFile[a]
    BY <1>7, <1>9, <1>10, <1>14, <2>2
  <2>3. QED
    BY <2>1, <2>2
<1>15. QED
  BY <1>3, <1>5, <1>9, <1>12, <1>13, <1>14 DEF Reads, d, rest

\* A removal: what has been read without the alias.
LEMMA RemovalBegins ==
  ASSUME TypesInv, NEW w \in Procs, RemoveAlias(w), pc[w] = "loaded",
         Reads(content[w], {})
  PROVE  Removes(content[w], request[w].alias)'
<1> DEFINE r == request[w].alias
           c == content[w]
           d == [n \in Contexts |-> IF c[n] = r THEN None ELSE c[n]]
<1>1. /\ content'[w] = d /\ request'[w].alias = r /\ aliasFile' = aliasFile
  BY DEF RemoveAlias, WriteAll, files, TypesInv, TypeOK
<1>2. /\ \A x \in OnDisk : c[aliasFile[x]] # None /\ x <= c[aliasFile[x]]
      /\ \A n \in Contexts : c[n] # None => aliasFile[c[n]] = n
  BY DEF Reads
<1>3. \A x \in OnDisk : aliasFile[x] \in Contexts
  BY DEF TypesInv, TypeOK, OnDisk
<1>4. OnDisk' = OnDisk
  BY <1>1 DEF OnDisk
<1>5. r \notin Named(d)
  BY DEF Named
<1>6. \A n \in Contexts : d[n] # None => aliasFile[d[n]] = n
  BY <1>2
<1>7. \A x \in OnDisk : \/ d[aliasFile[x]] # None
                        \/ x <= r /\ aliasFile[r] = aliasFile[x]
  BY <1>2, <1>3
<1> HIDE DEF d
<1>8. QED
  BY <1>1, <1>4, <1>5, <1>6, <1>7 DEF Removes

\* What is written again is there already.
LEMMA WritesNothingNew ==
  ASSUME TypesInv, NEW w \in Procs, WriteOne(w),
         Removes(content[w], request[w].alias)
  PROVE  aliasFile' = aliasFile
<1>1. PICK n \in todo[w] : aliasFile' = [aliasFile EXCEPT ![content[w][n]] = n]
  BY DEF WriteOne
<1>2. n \in Contexts /\ content[w][n] # None
  BY DEF WriteOne, TypesInv, Shape
<1>3. aliasFile[content[w][n]] = n
  BY <1>2 DEF Removes
<1>4. QED
  BY <1>1, <1>3 DEF TypesInv, TypeOK

\* What is listed is removed in order: the alias of the command after the
\* others of its context.
LEMMA SweepsInOrder ==
  ASSUME TypesInv, NEW w \in Procs, Sweep(w),
         Removes(content[w], request[w].alias),
         OnDisk \ Named(content[w]) \subseteq todo[w]
  PROVE  /\ Removes(content[w], request[w].alias)'
         /\ OnDisk' \ Named(content'[w]) \subseteq todo'[w]
         /\ \A a \in Aliases : aliasFile[a] \notin {None, aliasFile'[a]} =>
              \/ a = request[w].alias
              \/ \E b \in Aliases \ {a} : aliasFile[b] = aliasFile[a]
<1> DEFINE m == Min(todo[w])
           c == content[w]
           r == request[w].alias
<1>1. /\ todo[w] # {} /\ pc[w] = "sweep"
      /\ todo[w] \subseteq Aliases \ Named(c)
  BY DEF Sweep, TypesInv, Shape
<1>2. m \in todo[w] /\ \A t \in todo[w] : m <= t
  BY <1>1, MinIsThere, AliasAssumption
<1> HIDE DEF m
<1>3. /\ aliasFile' = [aliasFile EXCEPT ![m] = None]
      /\ todo'[w] = todo[w] \ {m}
      /\ content'[w] = c /\ request'[w] = request[w]
  BY DEF Sweep, TypesInv, TypeOK, m
<1>4. /\ aliasFile \in [Aliases -> Contexts \cup {None}] /\ r \in Aliases
      /\ c \in [Contexts -> Aliases \cup {None}]
  BY <1>1 DEF TypesInv, TypeOK, Shape, Request, Mapping
<1>5. /\ r \notin Named(c)
      /\ \A n \in Contexts : c[n] # None => aliasFile[c[n]] = n
      /\ \A x \in OnDisk : \/ c[aliasFile[x]] # None
                           \/ x <= r /\ aliasFile[r] = aliasFile[x]
  BY DEF Removes
<1>6. m \in Aliases /\ m \notin Named(c)
  BY <1>1, <1>2
<1> HIDE DEF c, r
<1>7. /\ OnDisk' = OnDisk \ {m}
      /\ \A x \in Aliases : x # m => aliasFile'[x] = aliasFile[x]
      /\ aliasFile'[m] = None
  BY <1>3, <1>4, <1>6 DEF OnDisk
<1>8. \A n \in Contexts : c[n] # None => c[n] \in Aliases /\ c[n] # m
  BY <1>4, <1>6 DEF Named
<1>9. \A n \in Contexts : c[n] # None => aliasFile'[c[n]] = n
  BY <1>5, <1>7, <1>8
<1>10. ASSUME NEW x \in OnDisk', c[aliasFile'[x]] = None
       PROVE  x <= r /\ aliasFile'[r] = aliasFile'[x]
  <2>1. x \in OnDisk /\ x # m /\ aliasFile'[x] = aliasFile[x]
    BY <1>7 DEF OnDisk
  <2>2. x <= r /\ aliasFile[r] = aliasFile[x]
    BY <1>5, <1>10, <2>1
  <2>3. x \notin Named(c)
    BY <1>5, <1>10, <2>1 DEF Named
  <2>4. x \in todo[w] /\ x \in Aliases
    BY <2>1, <2>3 DEF c, OnDisk
  <2>5. m # r
    BY <1>2, <1>4, <2>1, <2>2, <2>4, AliasAssumption
  <2>6. QED
    BY <1>4, <1>7, <2>1, <2>2, <2>5
<1>11. Removes(content[w], request[w].alias)'
  BY <1>3, <1>5, <1>9, <1>10 DEF Removes, c, r
<1>12. OnDisk' \ Named(content'[w]) \subseteq todo'[w]
  BY <1>3, <1>7 DEF c
<1>13. ASSUME NEW a \in Aliases, aliasFile[a] \notin {None, aliasFile'[a]},
              a # r
       PROVE  \E b \in Aliases \ {a} : aliasFile[b] = aliasFile[a]
  <2>1. a = m /\ a \in OnDisk
    BY <1>7, <1>13 DEF OnDisk
  <2>2. CASE c[aliasFile[a]] # None
    <3>1. aliasFile[a] \in Contexts
      BY <1>4, <2>1 DEF OnDisk
    <3>2. QED
      BY <1>5, <1>8, <2>1, <2>2, <3>1
  <2>3. CASE c[aliasFile[a]] = None
    BY <1>4, <1>5, <1>13, <2>1, <2>3
  <2>4. QED
    BY <2>2, <2>3
<1>14. QED
  BY <1>11, <1>12, <1>13 DEF r

\* The only one that writes knows what is there.
LEMMA WriterStep ==
  ASSUME TypesInv, Settled, NEW w \in Procs, OnlyWriter(w), Writes(w),
         Step(w)
  PROVE  Writes(w)'
<1>1. /\ pc[w] \notin MigrationStep /\ ~migrating[w] /\ TypeOK
      /\ pc[w] \in {"write", "sweep"} => request[w].command = "rm"
  BY WhoRewrites DEF Settled, TypesInv, OnlyWriter
<1> USE DEF Goto, files, TypeOK
<1>2. CASE Start(w) \/ Stat(w) \/ ReadFileFails(w) \/ RemoveNothing(w)
             \/ Exit(w)
  <2>1. pc'[w] \notin {"readFiles", "loaded", "write", "sweep", "done"}
    BY <1>1, <1>2 DEF Start, Stat, ReadFileFails, RemoveNothing, Exit
  <2>2. QED
    BY <2>1 DEF Writes
<1>3. CASE ReadDir(w)
  <2>1. pc'[w] = "readFiles" /\ todo'[w] = OnDisk /\ aliasFile' = aliasFile
          /\ content'[w] = NoAlias
    BY <1>1, <1>3 DEF ReadDir, TypesInv, Shape
  <2>2. OnDisk' = OnDisk /\ \A n \in Contexts : NoAlias[n] = None
    BY <2>1 DEF OnDisk, NoAlias
  <2>3. Reads(content[w], todo[w])'
    BY <2>1, <2>2 DEF Reads
  <2>4. QED
    BY <2>1, <2>3 DEF Writes
<1>4. CASE ReadFile(w)
  <2>1. Reads(content[w], todo[w]) /\ pc'[w] = "readFiles"
    BY <1>4 DEF Writes, ReadFile
  <2>2. QED
    BY <1>4, <2>1, ReadsOn DEF Writes
<1>5. CASE EndLoad(w)
  <2>1. /\ Reads(content[w], {}) /\ pc'[w] = "loaded"
        /\ UNCHANGED <<aliasFile, content>>
    BY <1>1, <1>5 DEF EndLoad, Writes
  <2>2. Reads(content[w], {})'
    BY <2>1 DEF Reads, OnDisk
  <2>3. QED
    BY <2>1, <2>2 DEF Writes
<1>6. CASE StatLegacy(w) \/ ReadLegacy(w) \/ MkdirAll(w) \/ RemoveLegacy(w)
  BY <1>1, <1>6 DEF StatLegacy, ReadLegacy, MkdirAll, RemoveLegacy,
       MigrationStep
<1>7. CASE RemoveAlias(w)
  <2>1. pc[w] = "loaded" /\ pc'[w] = "write"
    BY <1>1, <1>7 DEF RemoveAlias, Runs, WriteAll
  <2>2. QED
    BY <1>7, <2>1, RemovalBegins DEF Writes
<1>8. CASE WriteOne(w)
  <2>1. Removes(content[w], request[w].alias) /\ pc'[w] = "write"
          /\ UNCHANGED <<content, request>>
    BY <1>8 DEF Writes, WriteOne
  <2>2. aliasFile' = aliasFile
    BY <1>8, <2>1, WritesNothingNew
  <2>3. Removes(content[w], request[w].alias)'
    BY <2>1, <2>2 DEF Removes, OnDisk
  <2>4. QED
    BY <2>1, <2>3 DEF Writes
<1>9. CASE ListStale(w)
  <2>1. /\ Removes(content[w], request[w].alias) /\ pc'[w] = "sweep"
        /\ todo'[w] = OnDisk \ Named(content[w])
        /\ UNCHANGED <<content, request, aliasFile>>
    BY <1>1, <1>9 DEF Writes, ListStale
  <2>2. Removes(content[w], request[w].alias)'
          /\ OnDisk' \ Named(content'[w]) \subseteq todo'[w]
    BY <2>1 DEF Removes, OnDisk
  <2>3. QED
    BY <2>1, <2>2 DEF Writes
<1>10. CASE Sweep(w)
  <2>1. pc[w] = "sweep" /\ pc'[w] = "sweep"
    BY <1>10 DEF Sweep
  <2>2. QED
    BY <1>10, <2>1, SweepsInOrder DEF Writes
<1>11. CASE EndSweep(w)
  <2>1. /\ pc[w] = "sweep" /\ pc'[w] = "done" /\ todo[w] = {}
        /\ UNCHANGED <<aliasFile, request>>
    BY <1>1, <1>11 DEF EndSweep
  <2>2. /\ request[w] \in Request
        /\ request[w].alias \notin Named(content[w])
        /\ OnDisk \ Named(content[w]) = {}
    BY <1>1, <2>1 DEF TypesInv, Shape, Writes
  <2>3. aliasFile[request[w].alias] = None
    BY <2>2 DEF OnDisk, Request
  <2>4. QED
    BY <2>1, <2>3 DEF Writes
<1>12. CASE SetAlias(w)
  <2>1. pc'[w] = "done" /\ request'[w] = request[w]
          /\ request[w].command = "set"
    BY <1>1, <1>12 DEF SetAlias, Runs
  <2>2. QED
    BY <2>1 DEF Writes
<1>13. QED
  BY <1>2, <1>3, <1>4, <1>5, <1>6, <1>7, <1>8, <1>9, <1>10, <1>11, <1>12
  DEF Step

\* The only one that writes always knows what is there.
LEMMA WriterInvHolds == Spec => []WriterInv
<1>1. Init => WriterInv
  BY DEF Init, WriterInv, Writes
<1>2. TypesInv /\ Settled /\ WriterInv /\ [Next]_vars => WriterInv'
  <2> SUFFICES ASSUME TypesInv, Settled, WriterInv, [Next]_vars,
                      NEW w \in Procs, OnlyWriter(w)'
               PROVE  Writes(w)'
    BY DEF WriterInv
  <2>1. CASE UNCHANGED vars
    BY <2>1 DEF vars, WriterInv, Writes, Reads, Removes, OnDisk, OnlyWriter
  <2>2. ASSUME NEW p \in Procs, Step(p) PROVE Writes(w)'
    <3>1. OnlyWriter(w) /\ Writes(w)
      BY <2>2, ScenarioStays DEF OnlyWriter, WriterInv
    <3>2. CASE p = w
      BY <2>2, <3>1, <3>2, WriterStep
    <3>3. CASE p # w
      <4>1. aliasFile' = aliasFile
        BY <2>2, <3>1, <3>3, OthersOnlyRead
      <4>2. /\ pc'[w] = pc[w] /\ request'[w] = request[w]
            /\ content'[w] = content[w] /\ todo'[w] = todo[w]
        BY <2>2, <3>3, OthersAsTheyAre DEF TypesInv
      <4>3. QED
        BY <3>1, <4>1, <4>2 DEF Writes, Reads, Removes, OnDisk
    <3>4. QED
      BY <3>2, <3>3
  <2>3. QED
    BY <2>1, <2>2 DEF Next
<1>3. QED
  BY <1>1, <1>2, TypesInvHolds, LoadsInvHolds, PTL DEF Spec

(***************************************************************************)
(* One command at a time removes, among others that list: when it returns, *)
(* the alias is gone, whatever was killed before.                          *)
(***************************************************************************)
THEOREM RemovalsAreEffective ==
  ASSUME \A s \in Scenarios : IsCalm(s)
  PROVE  Spec => []RemovalIsEffective
<1>1. TypesInv /\ WriterInv => RemovalIsEffective
  <2> SUFFICES ASSUME TypesInv, WriterInv, NEW p \in Procs, pc[p] = "done",
                      request[p].command = "rm"
               PROVE  aliasFile[request[p].alias] = None
    BY DEF RemovalIsEffective
  <2>1. "rm" \in scenario.runs[p] /\ IsCalm(scenario)
    BY DEF TypesInv, TypeOK, Shape
  <2>2. OnlyWriter(p)
    BY <2>1 DEF IsCalm, OnlyWriter
  <2>3. QED
    BY <2>2 DEF WriterInv, Writes
<1>2. QED
  BY <1>1, TypesInvHolds, WriterInvHolds, PTL

\* After an upgrade, commands that list do nothing else than migrate.
LEMMA OnlyMigrates ==
  ASSUME TypesInv, NEW p \in Procs, scenario.runs[p] \subseteq {"list"}
  PROVE  /\ pc[p] # "idle" => request[p].command = "list"
         /\ pc[p] \in {"write", "sweep"} => migrating[p]
         /\ ~SetAlias(p) /\ ~RemoveAlias(p)
<1>1. pc[p] # "idle" => request[p].command \in {"list"}
  BY DEF TypesInv, Shape
<1>2. QED
  BY <1>1 DEF TypesInv, Shape, SetAlias, RemoveAlias, Runs

\* A file of the legacy mapping is written, or it is there and stays.
LEMMA WritesLegacy ==
  ASSUME TypesInv, NEW l \in LegacyMapping, Upgrades(l),
         NEW p \in Procs, WriteOne(p)
  PROVE  /\ \A a \in OnDisk : aliasFile'[a] = aliasFile[a]
         /\ \A a \in OnDisk' : l[aliasFile'[a]] = a
         /\ Migrates(l, p)'
         /\ pc' = pc /\ legacy' = legacy
<1>1. PICK n \in todo[p] :
        /\ aliasFile' = [aliasFile EXCEPT ![content[p][n]] = n]
        /\ todo' = [todo EXCEPT ![p] = @ \ {n}]
  BY DEF WriteOne
<1>2. /\ pc[p] = "write" /\ content' = content /\ pc' = pc
      /\ legacy' = legacy
  BY DEF WriteOne
<1>3. /\ content[p] = l /\ n \in Contexts /\ l[n] # None
      /\ \A k \in Contexts \ todo[p] : l[k] # None => aliasFile[l[k]] # None
  BY <1>2 DEF Upgrades, Migrates, TypesInv, Shape
<1>4. /\ l \in [Contexts -> Aliases \cup {None}] /\ l[n] \in Aliases
      /\ \A j, k \in Contexts : l[j] = l[k] /\ l[j] # None => j = k
  BY <1>3 DEF LegacyMapping, Mapping
<1>5. aliasFile \in [Aliases -> Contexts \cup {None}] /\ n # None
  BY <1>3, AliasAssumption DEF TypesInv, TypeOK
<1>6. /\ \A a \in Aliases : a # l[n] => aliasFile'[a] = aliasFile[a]
      /\ aliasFile'[l[n]] = n
      /\ todo'[p] = todo[p] \ {n}
  BY <1>1, <1>3, <1>4, <1>5 DEF TypesInv, TypeOK
<1>7. \A a \in OnDisk : l[aliasFile[a]] = a /\ aliasFile[a] \in Contexts
  BY <1>5 DEF Upgrades, OnDisk
<1>8. ASSUME NEW a \in OnDisk PROVE aliasFile'[a] = aliasFile[a]
  <2>1. CASE a = l[n]
    <3>1. l[aliasFile[a]] = l[n] /\ aliasFile[a] \in Contexts
      BY <1>7, <2>1
    <3>2. aliasFile[a] = n
      BY <1>3, <1>4, <3>1
    <3>3. QED
      BY <1>6, <2>1, <3>2
  <2>2. CASE a # l[n]
    BY <1>6, <2>2 DEF OnDisk
  <2>3. QED
    BY <2>1, <2>2
<1>9. ASSUME NEW a \in OnDisk' PROVE l[aliasFile'[a]] = a
  BY <1>4, <1>6, <1>7 DEF OnDisk
<1>10. ASSUME NEW k \in Contexts \ todo'[p], l[k] # None
       PROVE  aliasFile'[l[k]] # None
  BY <1>3, <1>4, <1>5, <1>6, <1>10
<1>11. Migrates(l, p)'
  BY <1>2, <1>3, <1>10 DEF Migrates
<1>12. QED
  BY <1>2, <1>8, <1>9, <1>11

\* The directory has only what the legacy file had: nothing is swept.
LEMMA NothingIsSwept ==
  ASSUME TypesInv, NEW l \in LegacyMapping, Upgrades(l), NEW p \in Procs
  PROVE  /\ ~Sweep(p)
         /\ OnDisk \ Named(l) = {}
<1>1. ~Sweep(p)
  BY DEF Sweep, Upgrades, Migrates
<1>2. ASSUME NEW a \in OnDisk PROVE a \in Named(l)
  <2>1. /\ a \in Aliases /\ aliasFile[a] \in Contexts
        /\ l[aliasFile[a]] = a
    BY DEF OnDisk, Upgrades, TypesInv, TypeOK
  <2>2. a # None
    BY <2>1, AliasAssumption
  <2>3. QED
    BY <2>1, <2>2 DEF Named
<1>3. QED
  BY <1>1, <1>2

\* The migration of one command, in the files and in its memory.
LEMMA UpgradeStep ==
  ASSUME TypesInv, NEW l \in LegacyMapping, Upgrades(l), NEW p \in Procs,
         scenario.runs[p] \subseteq {"list"}, Step(p)
  PROVE  /\ \A a \in OnDisk : aliasFile'[a] = aliasFile[a]
         /\ \A a \in OnDisk' : l[aliasFile'[a]] = a
         /\ Migrates(l, p)'
         /\ legacy' \in {l, None}
         /\ legacy' # legacy => RemoveLegacy(p)
<1>1. /\ legacy \in {l, None} /\ Migrates(l, p) /\ TypeOK
      /\ \A a \in OnDisk : l[aliasFile[a]] = a
      /\ OnDisk \ Named(l) = {}
  BY NothingIsSwept DEF Upgrades, TypesInv
<1>2. CASE WriteOne(p)
  BY <1>1, <1>2, WritesLegacy
<1>3. CASE ~WriteOne(p)
  <2>1. ~SetAlias(p) /\ ~RemoveAlias(p) /\ ~Sweep(p)
    BY OnlyMigrates, NothingIsSwept
  <2>2. aliasFile' = aliasFile /\ (legacy' = legacy \/ RemoveLegacy(p))
    BY <1>3, <2>1 DEF Step, Start, Stat, ReadDir, ReadFile, ReadFileFails,
         EndLoad, StatLegacy, ReadLegacy, MkdirAll, RemoveLegacy, ListStale,
         EndSweep, RemoveNothing, Exit, files
  <2>3. legacy' \in {l, None} /\ OnDisk' = OnDisk
    BY <1>1, <2>2 DEF RemoveLegacy, OnDisk
  <2>4. CASE ReadLegacy(p) \/ StatLegacy(p)
    BY <1>1, <2>2, <2>3, <2>4 DEF ReadLegacy, StatLegacy, Goto, TypeOK,
         Migrates
  <2>5. CASE MkdirAll(p)
    <3>1. /\ pc'[p] = "write" /\ content'[p] = l
          /\ todo'[p] = {n \in Contexts : l[n] # None}
      BY <1>1, <2>5 DEF MkdirAll, WriteAll, Goto, TypeOK, Migrates
    <3>2. QED
      BY <1>1, <2>2, <2>3, <3>1 DEF Migrates
  <2>6. CASE ListStale(p)
    <3>1. /\ pc'[p] = "sweep" /\ content'[p] = l /\ todo'[p] = {}
          /\ \A n \in Contexts : l[n] # None => aliasFile[l[n]] # None
      BY <1>1, <2>6 DEF ListStale, Goto, TypeOK, Migrates
    <3>2. QED
      BY <1>1, <2>2, <2>3, <3>1 DEF Migrates
  <2>7. CASE EndSweep(p) \/ RemoveLegacy(p)
    BY <1>1, <2>2, <2>3, <2>7 DEF EndSweep, RemoveLegacy, Goto, TypeOK,
         Migrates
  <2>8. CASE Start(p) \/ Stat(p) \/ ReadDir(p) \/ ReadFile(p)
    BY <1>1, <2>2, <2>3, <2>8 DEF Start, Stat, ReadDir, ReadFile, Goto,
         TypeOK, Migrates
  <2>9. CASE ReadFileFails(p) \/ EndLoad(p) \/ RemoveNothing(p) \/ Exit(p)
    BY <1>1, <2>2, <2>3, <2>9 DEF ReadFileFails, EndLoad, RemoveNothing,
         Exit, Goto, TypeOK, Migrates
  <2>10. QED
    BY <1>3, <2>1, <2>4, <2>5, <2>6, <2>7, <2>8, <2>9 DEF Step
<1>4. QED
  BY <1>2, <1>3

\* Of the others a file that is there stays.
LEMMA UpgradeGoesOn ==
  ASSUME TypesInv, NEW l \in LegacyMapping, Upgrades(l), NEW p \in Procs,
         scenario.runs[p] \subseteq {"list"}, Step(p)
  PROVE  Upgrades(l)'
<1>1. /\ \A a \in OnDisk : aliasFile'[a] = aliasFile[a]
      /\ \A a \in OnDisk' : l[aliasFile'[a]] = a
      /\ Migrates(l, p)' /\ legacy' \in {l, None}
  BY UpgradeStep
<1>2. ASSUME NEW q \in Procs, q # p PROVE Migrates(l, q)'
  <2>1. /\ pc'[q] = pc[q] /\ content'[q] = content[q] /\ todo'[q] = todo[q]
    BY <1>2, OthersAsTheyAre DEF TypesInv
  <2>2. l \in [Contexts -> Aliases \cup {None}]
    BY DEF LegacyMapping, Mapping
  <2>3. \A n \in Contexts :
          l[n] # None /\ aliasFile[l[n]] # None => aliasFile'[l[n]] # None
    BY <1>1, <2>2 DEF OnDisk
  <2>4. Migrates(l, q)
    BY DEF Upgrades
  <2>5. QED
    BY <2>1, <2>3, <2>4 DEF Migrates
<1>3. QED
  BY <1>1, <1>2 DEF Upgrades

\* After an upgrade there is one mapping that all commands migrate.
LEMMA UpgradeInvHolds == Spec => []UpgradeInv
<1>1. Init => UpgradeInv
  <2> SUFFICES ASSUME Init, scenario.upgrade
               PROVE  \E l \in LegacyMapping : Upgrades(l)
    BY DEF UpgradeInv
  <2>1. /\ OnDisk = {} /\ \A p \in Procs : pc[p] = "idle"
        /\ legacy \in LegacyMapping \cup {None}
    BY DEF Init, OnDisk
  <2>2. NoAlias \in LegacyMapping
    BY DEF NoAlias, LegacyMapping, Mapping
  <2>3. PICK l \in LegacyMapping : legacy \in {l, None}
    BY <2>1, <2>2, Zenon
  <2>4. Upgrades(l)
    BY <2>1, <2>3 DEF Upgrades, Migrates
  <2>5. QED
    BY <2>4
<1>2. TypesInv /\ UpgradeInv /\ [Next]_vars => UpgradeInv'
  <2> SUFFICES ASSUME TypesInv, UpgradeInv, [Next]_vars, scenario'.upgrade,
                      \A p \in Procs : scenario'.runs[p] \subseteq {"list"}
               PROVE  \E l \in LegacyMapping : Upgrades(l)'
    BY DEF UpgradeInv
  <2>1. scenario' = scenario
    BY ScenarioStays DEF Next, vars
  <2>2. PICK l \in LegacyMapping : Upgrades(l)
    BY <2>1 DEF UpgradeInv
  <2>3. CASE UNCHANGED vars
    BY <2>2, <2>3 DEF vars, Upgrades, Migrates, OnDisk
  <2>4. ASSUME NEW p \in Procs, Step(p) PROVE Upgrades(l)'
    BY <2>1, <2>2, <2>4, UpgradeGoesOn
  <2>5. QED
    BY <2>3, <2>4 DEF Next
<1>3. QED
  BY <1>1, <1>2, TypesInvHolds, PTL DEF Spec

\* What NothingElseIsLost says of a step: first of the files, ...
FilesAreKept ==
  \A a \in Aliases : aliasFile[a] \notin {None, aliasFile'[a]} =>
    \/ \E p \in Procs : Names(p, a)
    \/ /\ \E p \in Procs : request[p] # None /\ request[p].command = "rm"
       /\ \E b \in Aliases \ {a} : aliasFile[b] = aliasFile[a]

\* ... then of the legacy file.
LegacyIsKept ==
  legacy' # legacy =>
    \A n \in Contexts : legacy[n] # None => aliasFile[legacy[n]] # None

\* A command line is there while its command runs.
LEMMA RequestIsThere ==
  ASSUME TypesInv, NEW p \in Procs, pc[p] # "idle"
  PROVE  request[p] \in Request /\ request[p] # None
BY AliasAssumption DEF TypesInv, Shape

\* Who sets an alias names it.
LEMMA SetAliasNames ==
  ASSUME TypesInv, NEW p \in Procs, SetAlias(p)
  PROVE  FilesAreKept
<1>1. request[p] # None /\ request[p].command = "set"
  BY RequestIsThere DEF SetAlias, Runs
<1>2. ASSUME NEW a \in Aliases, aliasFile[a] # aliasFile'[a]
      PROVE  a = request[p].alias
  BY <1>2 DEF SetAlias, TypesInv, TypeOK
<1>3. QED
  BY <1>1, <1>2 DEF FilesAreKept, Names

\* Where nobody removes, files change only when an alias is set.
LEMMA SettersKeepFiles ==
  ASSUME TypesInv, Settled, ~scenario.upgrade, NEW p \in Procs, Step(p),
         "rm" \notin scenario.runs[p]
  PROVE  FilesAreKept
<1>1. pc[p] \notin {"write", "sweep"} \cup MigrationStep
  BY WhoRewrites DEF Settled
<1>2. SetAlias(p) \/ aliasFile' = aliasFile
  BY <1>1 DEF Step, Start, Stat, ReadDir, ReadFile, ReadFileFails, EndLoad,
       StatLegacy, ReadLegacy, MkdirAll, RemoveLegacy, WriteOne, ListStale,
       Sweep, EndSweep, RemoveAlias, RemoveNothing, Exit, files
<1>3. QED
  BY <1>2, SetAliasNames DEF FilesAreKept

\* The only one that writes removes what it names, and what may go with it.
LEMMA WriterKeepsFiles ==
  ASSUME TypesInv, Settled, WriterInv, NEW w \in Procs, OnlyWriter(w),
         NEW p \in Procs, Step(p)
  PROVE  FilesAreKept
<1>1. CASE p # w
  BY <1>1, OthersOnlyRead DEF FilesAreKept
<1>2. CASE p = w
  <2>1. Writes(w) /\ ~scenario.upgrade
    BY DEF WriterInv, OnlyWriter
  <2>2. CASE SetAlias(w)
    BY <2>2, SetAliasNames
  <2>3. CASE WriteOne(w)
    <3>1. Removes(content[w], request[w].alias)
      BY <2>1, <2>3 DEF Writes, WriteOne
    <3>2. QED
      BY <2>3, <3>1, WritesNothingNew DEF FilesAreKept
  <2>4. CASE Sweep(w)
    <3>1. /\ Removes(content[w], request[w].alias)
          /\ OnDisk \ Named(content[w]) \subseteq todo[w]
          /\ pc[w] = "sweep"
      BY <2>1, <2>4 DEF Writes, Sweep
    <3>2. request[w] # None /\ request[w].command = "rm"
      BY <2>1, <3>1, WhoRewrites, RequestIsThere
    <3>3. \A a \in Aliases : aliasFile[a] \notin {None, aliasFile'[a]} =>
            \/ a = request[w].alias
            \/ \E b \in Aliases \ {a} : aliasFile[b] = aliasFile[a]
      BY <2>4, <3>1, SweepsInOrder
    <3>4. QED
      BY <3>2, <3>3 DEF FilesAreKept, Names
  <2>5. CASE ~SetAlias(w) /\ ~WriteOne(w) /\ ~Sweep(w)
    <3>1. aliasFile' = aliasFile
      BY <1>2, <2>5 DEF Step, Start, Stat, ReadDir, ReadFile, ReadFileFails,
           EndLoad, StatLegacy, ReadLegacy, MkdirAll, RemoveLegacy,
           ListStale, EndSweep, RemoveAlias, RemoveNothing, Exit, files
    <3>2. QED
      BY <3>1 DEF FilesAreKept
  <2>6. QED
    BY <2>2, <2>3, <2>4, <2>5
<1>3. QED
  BY <1>1, <1>2

\* The legacy file goes when all that was in it is in the directory.
LEMMA UpgradeKeepsAll ==
  ASSUME TypesInv, NEW l \in LegacyMapping, Upgrades(l), NEW p \in Procs,
         scenario.runs[p] \subseteq {"list"}, Step(p)
  PROVE  FilesAreKept /\ LegacyIsKept
<1>1. /\ \A a \in OnDisk : aliasFile'[a] = aliasFile[a]
      /\ legacy' # legacy => RemoveLegacy(p)
  BY UpgradeStep
<1>2. FilesAreKept
  BY <1>1 DEF FilesAreKept, OnDisk
<1>3. LegacyIsKept
  <2> SUFFICES ASSUME legacy' # legacy, NEW n \in Contexts,
                      legacy[n] # None
               PROVE  aliasFile[legacy[n]] # None
    BY DEF LegacyIsKept
  <2>1. legacy' = None /\ pc[p] = "removeLegacy"
    BY <1>1 DEF RemoveLegacy
  <2>2. legacy = l /\ Migrates(l, p)
    BY <2>1 DEF Upgrades
  <2>3. QED
    BY <2>1, <2>2 DEF Migrates
<1>4. QED
  BY <1>2, <1>3

(***************************************************************************)
(* What no command names is not lost: however many commands set and list   *)
(* aliases, one among those that list removes, or all of them migrate the  *)
(* legacy file, each killed at any step. It says nothing of a removal      *)
(* beside a command that sets or removes (IsCalm), which can lose the      *)
(* alias just set.                                                         *)
(***************************************************************************)
THEOREM NothingIsLost ==
  ASSUME \A s \in Scenarios : IsCalm(s)
  PROVE  Spec => NothingElseIsLost
<1> DEFINE Inv == TypesInv /\ Settled /\ WriterInv /\ UpgradeInv
<1>1. Inv /\ [Next]_vars => [FilesAreKept /\ LegacyIsKept]_vars
  <2> SUFFICES ASSUME Inv, NEW p \in Procs, Step(p)
               PROVE  FilesAreKept /\ LegacyIsKept
    BY DEF Next
  <2>1. IsCalm(scenario)
    BY DEF TypesInv, TypeOK
  <2>2. CASE scenario.upgrade
    <3>1. \A q \in Procs : scenario.runs[q] \subseteq {"list"}
      BY <2>1, <2>2 DEF IsCalm
    <3>2. PICK l \in LegacyMapping : Upgrades(l)
      BY <2>2, <3>1 DEF UpgradeInv
    <3>3. QED
      BY <3>1, <3>2, UpgradeKeepsAll
  <2>3. CASE ~scenario.upgrade
    <3>1. legacy' = legacy
      <4>1. legacy = None /\ Settled'
        BY <2>3, SettledStays DEF Settled, Next
      <4>2. legacy' = None
        BY <2>3, <4>1, ScenarioStays DEF Settled
      <4>3. QED
        BY <4>1, <4>2
    <3>2. CASE \A q \in Procs : "rm" \notin scenario.runs[q]
      BY <2>3, <3>1, <3>2, SettersKeepFiles DEF LegacyIsKept
    <3>3. CASE \E w \in Procs : OnlyWriter(w)
      BY <3>1, <3>3, WriterKeepsFiles DEF LegacyIsKept
    <3>4. QED
      BY <2>1, <2>3, <3>2, <3>3 DEF IsCalm, OnlyWriter
  <2>4. QED
    BY <2>2, <2>3
<1>2. [FilesAreKept /\ LegacyIsKept]_vars
        <=> [/\ \A a \in Aliases : aliasFile[a] \notin {None, aliasFile'[a]} =>
                  \/ \E p \in Procs : Names(p, a)
                  \/ /\ \E p \in Procs : /\ request[p] # None
                                        /\ request[p].command = "rm"
                     /\ \E b \in Aliases \ {a} : aliasFile[b] = aliasFile[a]
             /\ legacy' # legacy =>
                  \A n \in Contexts : legacy[n] # None =>
                      aliasFile[legacy[n]] # None]_vars
  BY DEF FilesAreKept, LegacyIsKept
<1> HIDE DEF Inv
<1>3. Spec => []Inv
  BY TypesInvHolds, LoadsInvHolds, WriterInvHolds, UpgradeInvHolds, PTL
  DEF Inv
<1>4. QED
  BY <1>1, <1>2, <1>3, PTL DEF Spec, NothingElseIsLost
=============================================================================
