------------------------------ MODULE MCSearch ------------------------------
(* Instances of Search for TLC.                                            *)
EXTENDS Search

CONSTANTS c1, c2, a1, p1, p2

\* The first store has two paths, one with a cluster-name label and one
\* without tags, which may hold the same contexts; the second has one path,
\* with an alias of its own.
Labelled == [path |-> p1, label |-> a1, aliases |-> {}]
Plain    == [path |-> p2, label |-> None, aliases |-> {}]
Aliased  == [path |-> p1, label |-> None, aliases |-> {a1}]

TwoPaths == [s \in Stores |-> IF s = 1 THEN {Labelled, Plain} ELSE {Aliased}]

\* Commands that drain the channel: the menu, and the listing, which takes
\* whatever index there is.
Drain == [uses |-> "gate", wanted |-> {}]
List  == [uses |-> "any", wanted |-> {}]
\* Commands that look for one context.
Set   == [uses |-> "none", wanted |-> {c1}]

MCCommands == {Drain, List, Set}

\* What is in an index does not matter to a search that does not read it: the
\* indexes that are there have the first context only, at one of its paths.
SmallIndexes == \A s \in Stores :
    Indexed(s) = IF indexFile[s] \in {"absent", "corrupt"} THEN {} ELSE {c1}
\* A command that ignores the indexes is looked at with one index only: the
\* store is searched although its index is fresh, and the index is replaced.
OneFreshIndex ==
    indexFile = [s \in Stores |-> IF s = 1 THEN "fresh" ELSE "absent"]
\* One context has an alias at the start.
OneAlias == aliasFiles[a1] = c1
ReturnInit ==
    Init /\ SmallIndexes /\ OneAlias /\ (command = Set => OneFreshIndex)
ReturnSpec == ReturnInit /\ [][Next]_vars /\ Fairness
=============================================================================
