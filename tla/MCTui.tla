------------------------------- MODULE MCTui -------------------------------
(* Instances of Tui for TLC. *)
EXTENDS Tui

CONSTANTS a, b, c, d, e

S1 == <<"filesystem", "s1">>
S2 == <<"filesystem", "s2">>

\* Two contexts of the kubeconfig a, the second a batch later and with one of
\* another store; a hosts a cluster.
TwoBatches == <<<<TopLevel(a, S1)>>, <<TopLevel(a, S1), TopLevel(b, S2)>>>>
FlatClusters == [p \in {a, b, c} |-> IF p = a THEN <<c>> ELSE <<>>]

\* a hosts c, which hosts d; b hosts e.
OneBatch == <<<<TopLevel(a, S1), TopLevel(b, S1)>>>>
NestedClusters ==
    [p \in {a, b, c, d, e} |->
        CASE p = a -> <<c>> [] p = c -> <<d>> [] p = b -> <<e>>
          [] OTHER -> <<>>]

\* Three contexts in a window of two rows.
ThreeContexts == <<<<TopLevel(a, S1), TopLevel(b, S1), TopLevel(c, S1)>>>>
NoClusters == [p \in {a, b, c} |-> <<>>]

\* What the theorems about previews and about expansions ask for.
ASSUME IsFlat(TwoBatches, FlatClusters)
ASSUME /\ PathsTellStores(TwoBatches, FlatClusters)
       /\ PathsTellStores(OneBatch, NestedClusters)

\* Two stores that use the same path.
SharedPath == <<<<TopLevel(a, S1), TopLevel(a, S2)>>>>
=============================================================================
