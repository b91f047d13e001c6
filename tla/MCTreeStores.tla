---- MODULE MCTreeStores ----
EXTENDS TreeStores, TLC
CONSTANTS root, dir, link, k1, k2, k3
\* root holds dir, link and k1; dir holds k2; the target of link holds k3.
\* k1 is configured too, as a path of its own: it is announced twice.
MCNode == {root, dir, link, k1, k2, k3}
MCForm == root :> "dir" @@ dir :> "dir" @@ link :> "link" @@ k1 :> "leaf"
            @@ k2 :> "leaf" @@ k3 :> "leaf"
MCKids == [n \in MCNode |-> CASE n = root -> {dir, link, k1} [] n = dir -> {k2}
                              [] n = link -> {k3} [] OTHER -> {}]
====
