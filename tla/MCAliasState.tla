---------------------------- MODULE MCAliasState ----------------------------
(* Instances of AliasState for TLC. *)
EXTENDS AliasState, TLC

CONSTANTS p1, p2, n1, n2

Alone == {p1}
Two   == {p1, p2}

Pair(first, second) == [p \in Two |-> IF p = p1 THEN first ELSE second]
NoUpgrade(runs) == [runs |-> runs, upgrade |-> FALSE]

\* Two commands at a time: they set and list aliases; only one of them writes,
\* and may remove; or they are the first ones after an upgrade.
TwoCommands ==
    {NoUpgrade(Pair({"set", "list"}, {"set", "list"})),
     NoUpgrade(Pair({"set", "rm"}, {"list"})),
     [runs |-> Pair({"list"}, {"list"}), upgrade |-> TRUE]}

ASSUME \A s \in TwoCommands : IsCalm(s)

\* One that sets an alias while another one removes, and two that remove.
RemovalBesideSet == {NoUpgrade(Pair({"set"}, {"rm"}))}
TwoRemovals == {NoUpgrade(Pair({"set", "rm"}, {"rm"}))}
\* One command at a time.
OneCommand == {NoUpgrade([p \in Alone |-> {"set", "rm"}])}
\* One that sets an alias while another one migrates.
UpgradeAndSet == {[runs |-> Pair({"list"}, {"set"}), upgrade |-> TRUE]}
\* A single command after an upgrade.
OneUpgrade == {[runs |-> [p \in Alone |-> {"list"}], upgrade |-> TRUE]}
Symmetric == Permutations({n1, n2})
=============================================================================
