---- MODULE MCStoreAccess ----
EXTENDS StoreAccess, TLC
CONSTANTS c1, c2, c3, s1, s2, n, m, h, i
MCCluster == {c1, c2, c3}
MCName == c1 :> n @@ c2 :> n @@ c3 :> m
MCScope == c1 :> s1 @@ c2 :> s2 @@ c3 :> s2
\* Namespace and name of c1 and c3 are printed alike.
MCHyphenated == c1 :> h @@ c2 :> i @@ c3 :> h
\* A fresh start with the memory cache, for every store; or a store with the
\* file cache, and the index that a search has left.
MCInit ==
  /\ kind \in Kind
  /\ StoreInit
  /\ Cache!CacheInit
  /\ collected = {}
  /\ \/ cacheKind = "memory" /\ index = {}
     \/ /\ cacheKind = "file" /\ kind \in {"ovh", "kubernetes"}
        /\ index = {[name |-> <<n>>, result |-> ResultOf(kind, c1)]}
MCSpec == MCInit /\ [][Next]_vars /\ Fairness
====
