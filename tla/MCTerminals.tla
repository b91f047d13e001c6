---------------------------- MODULE MCTerminals -----------------------------
(* Instances of Terminals for TLC.                                         *)
EXTENDS Terminals, TLC

CONSTANTS t1, t2

\* A kubeconfig with the given contexts, which is also what it refers to: each
\* context is <<name, cluster, server, user, secret>>.
Of(entries, current) ==
    [current |-> current,
     contexts |-> {[name |-> e[1], cluster |-> e[2], user |-> e[4],
                    namespace |-> Unset] : e \in entries},
     clusters |-> {[name |-> e[2], server |-> e[3]] : e \in entries},
     users |-> {[name |-> e[4], secret |-> e[5]] : e \in entries},
     kswitch |-> Unset]

MCName == {Unset, DefaultNamespace, "a", "b", "d", "n", "al", "k", "u", "v"}
MCServer == {"s1", "s2", "s3"}
MCSecret == {"x1", "x2", "x3"}

\* Two kubeconfigs of a store, which give different clusters, and different
\* users, the same names.
MCStores ==
    ("p1" :> Of({<<"a", "k", "s1", "u", "x1">>}, "a"))
    @@ ("p2" :> Of({<<"b", "k", "s2", "u", "x2">>}, "b"))
MCAlias == [c \in MCName |-> IF c = "a" THEN "al" ELSE Unset]

\* There is no default file, and another one whose contexts share a cluster;
\* one of them has the name of a context of the store.
MCCustom ==
    Of({<<"d", "k", "s3", "v", "x3">>, <<"b", "k", "s3", "u", "x3">>}, "d")
MCEnvironments == {Unnamed, <<Custom>>}
MCNamespaces == {"n"}
AllCommands == CommandNames

\* The names of this instance are what the theorems of TerminalsProofs assume.
ASSUME MCNamesAreUnambiguous == NamesAreUnambiguous

Symmetry == Permutations(Terminal)
=============================================================================
