------------------------------ MODULE TreeStores ------------------------------
(***************************************************************************)
(* The stores that search a tree: directories of the file system, walked   *)
(* by one goroutine for each configured path, or the secrets of a Vault,   *)
(* with a goroutine for each directory.  A kubernetes store that refers to *)
(* such a store searches it at the start of the command, and leaves that   *)
(* search alone as soon as it has found what it refers to; then the search *)
(* of the command itself begins.                                           *)
(***************************************************************************)
EXTENDS Naturals, Sequences, FiniteSets

CONSTANTS
  Node,         \* paths of the tree
  Form,         \* Node -> "dir", "leaf", "link" (to a directory), "absent"
  Kids,         \* Node -> what a directory, or the target of a link, holds
  Matching,     \* Nodes whose last part matches the name of kubeconfigs
  Roots,        \* the configured paths, a set
  Wanted,       \* Nodes that a reference of a kubernetes store may mean
  Capacity      \* of the channel of the search for a reference (64)

\* What a walk enters: directories, but no link to one.
Enter(n) == IF Form[n] = "dir" THEN Kids[n] ELSE {}

\* A Node and what is below it: the least set that holds, with a directory,
\* what is in it.
Below ==
  [r \in Node |->
     {n \in Node : \A S \in SUBSET Node :
        r \in S /\ (\A m \in S : Enter(m) \subseteq S) => n \in S}]

\* A path has one parent, and does not lead back to itself.
ASSUME TreeAssumption ==
  /\ Form \in [Node -> {"dir", "leaf", "link", "absent"}]
  /\ Kids \in [Node -> SUBSET Node]
  /\ Matching \subseteq Node /\ Roots \subseteq Node /\ Wanted \subseteq Node
  /\ IsFiniteSet(Roots)
  /\ Capacity \in Nat \ {0}
  /\ "itself" \notin Node
  /\ \A m, n \in Node : m # n => Enter(m) \cap Enter(n) = {}
  /\ \A n \in Node : \A k \in Enter(n) : n \notin Below[k]

Search == {"reference", "command"}

VARIABLES
  kind,         \* "filesystem" or "vault"
  broken,       \* directories that cannot be listed
  paths,        \* vaultPaths, or kubeconfigFilepaths and -Directories
  pc,           \* of each search
  early,        \* files among the paths, that the search sends by itself
  walkers,      \* goroutines of each search
  wg,           \* its WaitGroup
  buffered,     \* results in the channel of the search for a reference
  reader,       \* of that channel: "none", "reads", or it has "left"
  sent,         \* results that were sent: how often each Node
  reported      \* whether an error was sent

vars == <<kind, broken, paths, pc, early, walkers, wg, buffered, reader, sent,
          reported>>
tree == <<kind, broken>>

Init ==
  /\ kind \in {"filesystem", "vault"}
  /\ broken \in SUBSET {n \in Node : Form[n] = "dir"}
  /\ paths = << >>
  /\ pc = [x \in Search |-> IF x = "command" THEN "waiting" ELSE "begins"]
  /\ early = [x \in Search |-> {}]
  /\ walkers = [x \in Search |-> {}]
  /\ wg = [x \in Search |-> 0]
  /\ buffered = 0
  /\ reader \in {"none", "reads"}
  /\ sent = [x \in Search |-> [n \in Node |-> 0]]
  /\ reported = [x \in Search |-> FALSE]

Go(x, to) == pc' = [pc EXCEPT ![x] = to]

\* Without a reference, and once it is resolved, the command goes on.
BeginSearch ==
  /\ pc["command"] = "waiting"
  /\ \/ reader # "reads"
     \/ pc["reference"] = "ended" /\ buffered = 0
  /\ Go("command", "begins")
  /\ UNCHANGED <<tree, paths, early, walkers, wg, buffered,
                 sent, reported, reader>>

InSomeOrder(S) == CHOOSE q \in [1 .. Cardinality(S) -> S] :
                    \A i, j \in DOMAIN q : q[i] = q[j] => i = j

(***************************************************************************)
(* VerifyKubeconfigPaths.  The file system looks which paths exist, and    *)
(* fails if none does, or if one cannot be looked at.  Vault reads every   *)
(* path, stops at one it cannot read, and adds the paths to those it has   *)
(* from an earlier call.                                                   *)
(***************************************************************************)
Existing == {n \in Roots : Form[n] # "absent"}

Begins(x) == pc[x] = "begins" /\ (x = "reference" => reader = "reads")

Verify(x) ==
  /\ Begins(x)
  /\ paths' = IF kind = "vault" THEN paths \o InSomeOrder(Roots)
                                ELSE InSomeOrder(Existing)
  /\ kind = "filesystem" => Existing # {}
  /\ Go(x, "verified")
  /\ UNCHANGED <<tree, early, walkers, wg, buffered, sent, reported, reader>>

\* The command reports the error; the search for a reference does not.
VerifyFails(x) ==
  /\ Begins(x)
  /\ \/ kind = "filesystem" /\ UNCHANGED paths
     \/ /\ kind = "vault"
        /\ \E S \in (SUBSET Roots) \ {Roots} : paths' = paths \o InSomeOrder(S)
  /\ Go(x, IF x = "command" THEN "ended" ELSE "verified")
  /\ reported' = [reported EXCEPT ![x] = (x = "command")]
  /\ UNCHANGED <<tree, early, walkers, wg, buffered, sent, reader>>

Files == {i \in DOMAIN paths : kind = "filesystem" /\ Form[paths[i]] = "leaf"}

Walker(i, n, todo) == [of |-> i, at |-> n, todo |-> todo]

\* StartSearch: files at once, then a goroutine for each other path.
StartSearch(x) ==
  /\ pc[x] = "verified"
  /\ Go(x, "early")
  /\ early' = [early EXCEPT ![x] = {paths[i] : i \in Files}]
  /\ walkers' = [walkers EXCEPT ![x] =
       {Walker(i, paths[i], {"itself"}) : i \in DOMAIN paths \ Files}]
  /\ wg' = [wg EXCEPT ![x] = Cardinality(DOMAIN paths \ Files)]
  /\ UNCHANGED <<tree, paths, buffered, sent, reported, reader>>

\* Variant: one result more than the channel has room for.
CanSendOneMore(x) == x = "command" \/ buffered <= Capacity

\* The collector of the command always takes a result; the search for a
\* reference has a buffer that may be full for ever.
CanSend(x) == x = "command" \/ buffered < Capacity

Send(x, n) ==
  /\ CanSend(x)
  /\ sent' = [sent EXCEPT ![x][n] = @ + 1]
  /\ buffered' = IF x = "reference" THEN buffered + 1 ELSE buffered

SendEarly(x) ==
  /\ pc[x] = "early"
  /\ IF early[x] = {}
     THEN Go(x, "running") /\ UNCHANGED <<early, sent, buffered>>
     ELSE \E n \in early[x] : /\ Send(x, n)
                              /\ early' = [early EXCEPT ![x] = @ \ {n}]
                              /\ UNCHANGED pc
  /\ UNCHANGED <<tree, paths, walkers, wg, reported, reader>>

Active(x) == IF pc[x] \in {"running", "ended"} THEN walkers[x] ELSE {}

Becomes(x, w, new) ==
  walkers' = [walkers EXCEPT ![x] = (@ \ {w}) \cup new]

(***************************************************************************)
(* recursivePathTraversal lists its directory.  No list: the path is a     *)
(* secret itself.  An error is only logged.                                *)
(***************************************************************************)
ListVault(x, w) ==
  /\ kind = "vault" /\ "itself" \in w.todo
  /\ \/ /\ w.at \notin broken /\ Form[w.at] = "dir"
        /\ Becomes(x, w, {[w EXCEPT !.todo = Kids[w.at]]})
        /\ UNCHANGED <<buffered, sent>>
     \/ /\ w.at \notin broken /\ Form[w.at] # "dir"
        /\ Send(x, w.at)
        /\ Becomes(x, w, {[w EXCEPT !.todo = {}]})
     \/ /\ w.at \in broken
        /\ Becomes(x, w, {[w EXCEPT !.todo = {}]})
        /\ UNCHANGED <<buffered, sent>>
  /\ UNCHANGED <<tree, paths, pc, early, wg, reported, reader>>

\* Variant: the goroutine for a directory counts itself.
VisitVaultUncounted(x, w) ==
  /\ kind = "vault" /\ "itself" \notin w.todo
  /\ \E n \in w.todo :
       /\ Send(x, n)
       /\ LET rest == {[w EXCEPT !.todo = @ \ {n}]} IN
          Becomes(x, w, IF Form[n] = "dir"
                        THEN rest \cup {Walker(w.of, n, {"itself"})} ELSE rest)
  /\ UNCHANGED <<tree, paths, pc, early, wg, reported, reader>>

\* Every key is sent; a directory gets a goroutine, counted before it runs.
VisitVault(x, w) ==
  /\ kind = "vault" /\ "itself" \notin w.todo
  /\ \E n \in w.todo :
       /\ Send(x, n)
       /\ LET rest == {[w EXCEPT !.todo = @ \ {n}]} IN
          IF Form[n] = "dir"
          THEN /\ Becomes(x, w, rest \cup {Walker(w.of, n, {"itself"})})
               /\ wg' = [wg EXCEPT ![x] = @ + 1]
          ELSE Becomes(x, w, rest) /\ UNCHANGED wg
  /\ UNCHANGED <<tree, paths, pc, early, reported, reader>>

(***************************************************************************)
(* searchDirectory: every entry with a matching name is sent, directories  *)
(* too.  A link to a directory is neither sent nor walked: WalkDir calls   *)
(* back with the link again, whose target is by then visited.  An error    *)
(* ends the walk.                                                          *)
(***************************************************************************)
WalkFiles(x, w) ==
  /\ kind = "filesystem"
  /\ \E e \in w.todo :
       LET n == IF e = "itself" THEN w.at ELSE e IN
       /\ n \notin broken
       /\ Becomes(x, w, {[w EXCEPT !.todo = (@ \ {e}) \cup Enter(n)]})
       /\ IF n \in Matching /\ Form[n] # "link"
          THEN Send(x, n) ELSE UNCHANGED <<buffered, sent>>
  /\ UNCHANGED <<tree, paths, pc, early, wg, reported, reader>>

WalkFails(x, w) ==
  /\ kind = "filesystem" /\ CanSend(x)
  /\ \E e \in w.todo : (IF e = "itself" THEN w.at ELSE e) \in broken
  /\ Becomes(x, w, {[w EXCEPT !.todo = {}]})
  /\ reported' = [reported EXCEPT ![x] = TRUE]
  /\ buffered' = IF x = "reference" THEN buffered + 1 ELSE buffered
  /\ UNCHANGED <<tree, paths, pc, early, wg, sent, reader>>

\* Variant: a goroutine that could not list its directory is not counted off.
DoneUnlessBroken(x, w) ==
  /\ w.todo = {}
  /\ Becomes(x, w, {})
  /\ wg' = [wg EXCEPT ![x] = IF w.at \in broken THEN @ ELSE @ - 1]
  /\ UNCHANGED <<tree, paths, pc, early, buffered, sent, reported, reader>>

Done(x, w) ==
  /\ w.todo = {}
  /\ Becomes(x, w, {})
  /\ wg' = [wg EXCEPT ![x] = @ - 1]
  /\ UNCHANGED <<tree, paths, pc, early, buffered, sent, reported, reader>>

\* wg.Wait returns: the caller closes the channel, or counts the store off.
EndSearch(x) ==
  /\ pc[x] = "running" /\ wg[x] = 0
  /\ Go(x, "ended")
  /\ UNCHANGED <<tree, paths, early, walkers, wg, buffered,
                 sent, reported, reader>>

(***************************************************************************)
(* resolveContextPath takes results until one is what it looks for, and    *)
(* then no more.                                                           *)
(***************************************************************************)
Take ==
  /\ reader = "reads" /\ buffered > 0
  /\ buffered' = buffered - 1
  /\ \/ UNCHANGED reader
     \/ \E n \in Wanted : sent["reference"][n] > 0 /\ reader' = "left"
  /\ UNCHANGED <<tree, paths, pc, early, walkers, wg, sent, reported>>

Walk(x) ==
  \E w \in Active(x) :
    ListVault(x, w) \/ VisitVault(x, w) \/ WalkFiles(x, w) \/ WalkFails(x, w)
      \/ Done(x, w)

Next ==
  \/ BeginSearch \/ Take
  \/ \E x \in Search :
       Verify(x) \/ VerifyFails(x) \/ StartSearch(x) \/ SendEarly(x) \/ Walk(x)
         \/ EndSearch(x)

(***************************************************************************)
(* The goroutines of the command's search go on, and the collector takes   *)
(* what they send.  Nothing is assumed of the search for a reference.      *)
(***************************************************************************)
Fairness ==
  LET x == "command" IN
  WF_vars(StartSearch(x) \/ SendEarly(x) \/ Walk(x) \/ EndSearch(x))

Spec == Init /\ [][Next]_vars /\ Fairness
-----------------------------------------------------------------------------
\* Type invariant.
TypeOK ==
  /\ kind \in {"filesystem", "vault"} /\ broken \subseteq Node
  /\ paths \in Seq(Node)
  /\ pc \in [Search -> {"waiting", "begins", "verified", "early", "running",
                       "ended"}]
  /\ early \in [Search -> SUBSET Node]
  /\ walkers \in [Search -> SUBSET
       [of : DOMAIN paths, at : Node, todo : SUBSET (Node \cup {"itself"})]]
  /\ wg \in [Search -> Nat]
  /\ buffered \in 0 .. Capacity /\ reader \in {"none", "reads", "left"}
  /\ sent \in [Search -> [Node -> Nat]]
  /\ reported \in [Search -> BOOLEAN]

(***************************************************************************)
(* A search that has ended has no goroutine left that could send: its      *)
(* channel is closed then.                                                 *)
(***************************************************************************)
NothingSendsAfterEnd ==
  \A x \in Search : pc[x] = "ended" => walkers[x] = {} /\ early[x] = {}

\* What is to be found below a path.
Kubeconfigs(r) ==
  {n \in Below[r] : Form[n] = "leaf" /\ (kind = "vault" \/ n \in Matching
                                          \/ n = r)}

(***************************************************************************)
(* A search that reports no error, and could list every directory, has     *)
(* announced every kubeconfig below its paths, whatever a search for a     *)
(* reference does meanwhile; and each as often as it has paths above it,   *)
(* unless such a search has made Vault add the paths a second time.        *)
(***************************************************************************)
SearchIsExact ==
  pc["command"] = "ended" /\ ~reported["command"] =>
    \A n \in Node :
      LET above == {r \in Roots : n \in Kubeconfigs(r)} IN
      /\ above # {} /\ broken = {} => sent["command"][n] > 0
      /\ above # {} /\ (kind = "filesystem" \/ reader = "none")
           => sent["command"][n] <= Cardinality(above)

\* Both.
SearchesAreSound == NothingSendsAfterEnd /\ SearchIsExact

\* The search of the command ends, also beside one that is stuck.
CommandSearchEnds == pc["command"] = "verified" ~> pc["command"] = "ended"

(***************************************************************************)
(* NOT properties of the code.  The walk of the file system follows links  *)
(* to directories (kubeconfig_store_file.go:101), so that a kubeconfig     *)
(* below one is found; and what Vault announces is a secret, once.         *)
(***************************************************************************)
LinksAreFollowed ==
  kind = "filesystem" /\ pc["command"] = "ended" /\ ~reported["command"] =>
    \A n, k \in Node :
      /\ Form[n] = "link" /\ \E r \in Roots : n \in Below[r]
      /\ k \in Kids[n] \cap Matching /\ Form[k] = "leaf"
      => sent["command"][k] > 0

SecretsAreAnnounced ==
  kind = "vault" => \A n \in Node : sent["command"][n] > 0 => Form[n] = "leaf"

AnnouncedOnce ==
  \A n \in Node :
    sent["command"][n] <= Cardinality({r \in Roots : n \in Below[r]})
=============================================================================
