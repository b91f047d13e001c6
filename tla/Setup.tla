-------------------------------- MODULE Setup --------------------------------
(***************************************************************************)
(* What `initialize` of cmd/kswitch makes of a configuration: which        *)
(* configurations pass the validation, which stores are built and in which *)
(* order, with which identity and which name of kubeconfig files.          *)
(*                                                                         *)
(* The module has no state: Startup applies its operators to the           *)
(* configuration that a command has loaded.                                *)
(***************************************************************************)
EXTENDS Integers, SequencesExt

CONSTANTS
  Name,         \* of kubeconfig files or keys in the backing stores
  DefaultName,  \* "config", of the flag --kubeconfig-name
  Path,         \* that can be searched, in a configuration or KUBECONFIG
  DefaultPath,  \* ~/.kube/config
  Unset         \* of an optional field

ASSUME SetupAssumption == DefaultName \in Name /\ Unset \notin Name \cup Path

Kind ==
  {"filesystem", "vault", "gardener", "digitalOcean", "kind", "kubernetes"}
ReservedID == {"env-and-flag", "doDefaultStore", "kindDefaultStore"}
ID == ReservedID \cup {"default", "a"}

(***************************************************************************)
(* The entry of a store.  peer is the ID of the store in the reference     *)
(* (storeID) of a kubernetes store, factory is what the environment lets   *)
(* the constructor do: build the store, fail, or opt out.                  *)
(***************************************************************************)
StoreConfig ==
  [kind : Kind, id : ID \cup {Unset}, name : Name \cup {Unset},
   paths : SUBSET Path, refresh : BOOLEAN, required : BOOLEAN,
   cache : {Unset, "memory", "file", "unknown"},
   landscape : ID \cup {Unset}, peer : (Kind \X ID) \cup {Unset},
   factory : {"builds", "fails", "optsOut"}]

Config ==
  [version : BOOLEAN, name : Name \cup {Unset}, refresh : BOOLEAN,
   stores : Seq(StoreConfig)]

EmptyConfig ==
  [version |-> FALSE, name |-> Unset, refresh |-> FALSE, stores |-> << >>]

(***************************************************************************)
(* What the command was started with: --kubeconfig-path (its default if    *)
(* Unset), the paths of KUBECONFIG and those of them that kswitch has      *)
(* made, whether the default kubeconfig exists, doctl is set up, kind is   *)
(* installed, and stores answer while the command starts; the kind of      *)
(* store of --store, and what its constructor makes of it.                 *)
(***************************************************************************)
Environment ==
  [flag : Path \cup {Unset}, kubeconfig : SUBSET Path, temporary : SUBSET Path,
   defaultExists : BOOLEAN, doctl : BOOLEAN, kindBinary : BOOLEAN,
   answers : BOOLEAN, backend : Kind,
   factory : {"builds", "fails", "optsOut"}]

Or(field, default) == IF field = Unset THEN default ELSE field

\* GetID of a store; Gardener falls back on the name of its landscape.
StoreID(s) ==
  <<s.kind, Or(s.id, IF s.kind = "gardener" THEN Or(s.landscape, "default")
                                            ELSE "default")>>

(***************************************************************************)
(* The validation calls two stores the same by a key of its own: a store   *)
(* without an ID has the ID "".                                            *)
(***************************************************************************)
ValidationKey(s) ==
  <<s.kind, Or(s.id, IF s.kind = "gardener" THEN Or(s.landscape, "")
                                            ELSE "")>>

\* Every store that finds contexts writes an index; only these renew it.
RefreshesIndex(c, s) == c.refresh \/ s.refresh

\* Variant: compared with the store before it only.
SharesKeyWithNeighbour(c, i) ==
  /\ RefreshesIndex(c, c.stores[i]) /\ i > 1
  /\ ValidationKey(c.stores[i - 1]) = ValidationKey(c.stores[i])

\* Only a store with refreshIndexAfter is compared, with all that come before.
SharesKey(c, i) ==
  /\ RefreshesIndex(c, c.stores[i])
  /\ \E j \in 1 .. i - 1 :
       ValidationKey(c.stores[j]) = ValidationKey(c.stores[i])

LacksPaths(s) == s.kind \in {"filesystem", "vault"} /\ s.paths = {}

ConfigIsValid(c) ==
  /\ c.version
  /\ \A i \in DOMAIN c.stores : ~SharesKey(c, i) /\ ~LacksPaths(c.stores[i])

\* getKubeconfigPathFromFlag: the default only counts if it exists.
PathsFromFlag(env) ==
  IF env.flag \notin {Unset, DefaultPath} THEN {env.flag}
  ELSE IF env.defaultExists THEN {DefaultPath} ELSE {}

\* Paths of KUBECONFIG that no store has and kswitch has not made.
PathsFromEnv(c, env) ==
  {p \in env.kubeconfig \ env.temporary :
     \A i \in DOMAIN c.stores : p \notin c.stores[i].paths}

\* getStoreFromFlagAndEnv, as a sequence of at most one store.
StoreFromFlagAndEnv(c, env, name) ==
  LET paths == PathsFromFlag(env) \cup PathsFromEnv(c, env) IN
  IF paths = {} THEN << >>
  ELSE <<[kind |-> env.backend, id |-> "env-and-flag", name |-> name,
          paths |-> paths, refresh |-> FALSE, required |-> TRUE,
          cache |-> Unset, landscape |-> Unset, peer |-> Unset,
          factory |-> env.factory]>>

DefaultStore(k, i) ==
  [kind |-> k, id |-> i, name |-> Unset, paths |-> {}, refresh |-> FALSE,
   required |-> FALSE, cache |-> Unset, landscape |-> Unset, peer |-> Unset,
   factory |-> "builds"]

Configures(stores, k) == \E i \in DOMAIN stores : stores[i].kind = k

(***************************************************************************)
(* The global variable kubeconfigName when the i-th store is built: a      *)
(* store's own name stays there for the stores that follow.                *)
(***************************************************************************)
NameFor(stores, base, i) ==
  LET named == {j \in 1 .. i : stores[j].name # Unset}
  IN  IF named = {} THEN base ELSE stores[Max(named)].name

\* A store that ends the command: the factory's error, or that of its cache.
IsFatal(s) ==
  \/ s.factory = "fails" /\ s.required
  \/ s.factory = "builds" /\ s.cache = "unknown"

(***************************************************************************)
(* The cluster that the client of each store talks to, as the stores it is *)
(* reached through; none is the current context.  ResolvePeerStoresForAll  *)
(* takes the stores in order: one that refers to a kubernetes store after  *)
(* it gets a kubeconfig from whatever that store can reach by then.  Of    *)
(* stores with one ID the last is referred to.                             *)
(***************************************************************************)
PeersOf(stores, i) ==
  {j \in DOMAIN stores : StoreID(stores[j]) = stores[i].peer}

\* unwrapKubernetesStore: both caches have Unwrap.
IsSeen(s) == s.cache \in {Unset, "memory", "file"}

RefersToPeer(s) == s.kind = "kubernetes" /\ s.peer # Unset /\ IsSeen(s)

Reached(stores) ==
  LET reach[i \in DOMAIN stores] ==
        IF ~RefersToPeer(stores[i]) THEN << >>
        ELSE LET j == Max(PeersOf(stores, i)) IN
             IF j < i THEN Append(reach[j], j) ELSE <<j>>
  IN  reach

\* A reference to no store, or a fetch that fails, ends the command.
PeersResolve(stores, env) ==
  \A i \in DOMAIN stores :
    RefersToPeer(stores[i]) => PeersOf(stores, i) # {} /\ env.answers

\* The loop over the entries: the stores that are built, with their names.
Constructed(all, base) ==
  LET made[i \in 0 .. Len(all)] ==
        IF i = 0 THEN << >>
        ELSE IF all[i].factory = "builds"
             THEN Append(made[i - 1], <<all[i], NameFor(all, base, i)>>)
             ELSE made[i - 1]
  IN  made[Len(all)]

(***************************************************************************)
(* `initialize` after the configuration is loaded: the stores in order,    *)
(* with the name each was built with, or no result.  A Digital Ocean store *)
(* that fails does not count as configured.                                *)
(***************************************************************************)
Refused == [ok |-> FALSE, stores |-> << >>, names |-> << >>, via |-> << >>]

BuildStores(c, env) ==
  LET base  == Or(c.name, DefaultName)
      all   == c.stores \o StoreFromFlagAndEnv(c, env, base)
      doctl == env.doctl /\ ~\E i \in DOMAIN all :
                 all[i].kind = "digitalOcean" /\ all[i].factory # "fails"
      extra == (IF doctl
                THEN <<DefaultStore("digitalOcean", "doDefaultStore")>>
                ELSE << >>)
                 \o (IF env.kindBinary /\ ~Configures(all, "kind")
                     THEN <<DefaultStore("kind", "kindDefaultStore")>>
                     ELSE << >>)
      made  == Constructed(all, base)
      built == [i \in DOMAIN made |-> made[i][1]] \o extra
  IN  IF \/ all = << >> \/ \E i \in DOMAIN all : IsFatal(all[i])
         \/ ~PeersResolve(built, env)
      THEN Refused
      ELSE [ok |-> TRUE, stores |-> built, via |-> Reached(built),
            names |-> [i \in DOMAIN made |-> made[i][2]]]

(***************************************************************************)
(* Stores that the validation takes for different ones though GetID does   *)
(* not: one has no ID and the other says "default" - as its landscape, if  *)
(* it is a Gardener - or one takes the ID of a store that kswitch adds.    *)
(***************************************************************************)
GivenID(s) == Or(s.id, IF s.kind = "gardener" THEN s.landscape ELSE Unset)

Indistinct(s, t) ==
  \/ {GivenID(s), GivenID(t)} = {Unset, "default"}
  \/ {s.id, t.id} \cap ReservedID # {}
=============================================================================
