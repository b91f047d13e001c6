--------------------------- MODULE TreeStoresProofs ---------------------------
(***************************************************************************)
(* Theorems about TreeStores, for every tree, set of paths and capacity.   *)
(* The argument: a goroutine is counted before it runs and counted off     *)
(* when it is over (Counted), so that a WaitGroup of zero means that no    *)
(* goroutine is left; the files among the paths were sent before (Phases). *)
(* A goroutine refers to its path by the position, so paths may grow under *)
(* it but not change (SettledPaths).                                       *)
(* That a search finds everything, and nothing too often, is a second      *)
(* invariant over the first (FoundInv): what was not sent is below a Node  *)
(* that is in the list of a goroutine, of one only for each path, and      *)
(* there once.                                                             *)
(***************************************************************************)
EXTENDS TreeStores, FiniteSetTheorems, TLAPS

\* Goroutines for the paths p.
Goroutine(p) ==
  [of : DOMAIN p, at : Node, todo : SUBSET (Node \cup {"itself"})]

\* The WaitGroup counts at least the goroutines there are.
Counted ==
  \A x \in Search :
    IsFiniteSet(walkers[x]) /\ Cardinality(walkers[x]) <= wg[x]

\* Goroutines run only while their search does, the files before them.
Phases ==
  \A x \in Search :
    /\ pc[x] \notin {"early", "running"} => walkers[x] = {} /\ early[x] = {}
    /\ pc[x] = "running" => early[x] = {}

\* The file system finds the same paths each time.
SettledPaths ==
  kind = "filesystem" => paths \in {<< >>, InSomeOrder(Existing)}

IInv == TypeOK /\ Counted /\ Phases /\ SettledPaths

-----------------------------------------------------------------------------
\* A set of Nodes can be put in an order, and InSomeOrder lists each once.
LEMMA OrderedNodes ==
  ASSUME NEW S, IsFiniteSet(S), S \subseteq Node
  PROVE  /\ InSomeOrder(S) \in Seq(Node)
         /\ \A i \in DOMAIN InSomeOrder(S) : InSomeOrder(S)[i] \in S
         /\ \A n \in S : \E i \in DOMAIN InSomeOrder(S) : InSomeOrder(S)[i] = n
         /\ \A i, j \in DOMAIN InSomeOrder(S) :
              InSomeOrder(S)[i] = InSomeOrder(S)[j] => i = j
<1> DEFINE n == Cardinality(S)
           Ordered(q) == /\ q \in [1 .. n -> S]
                         /\ \A i, j \in DOMAIN q : q[i] = q[j] => i = j
           q == InSomeOrder(S)
<1>1. n \in Nat
  BY FS_CardinalityType
<1>2. \E f : f \in Bijection(1 .. n, S)
  BY FS_CardinalityType DEF ExistsBijection
<1>3. \E f : Ordered(f)
  BY <1>2 DEF Bijection, Injection, IsInjective
<1>4. Ordered(q)
  BY <1>3 DEF InSomeOrder
<1>5. q \in Injection(1 .. n, S)
  BY <1>4 DEF Injection, IsInjective
<1>6. Cardinality(1 .. n) = n /\ Cardinality(S) = n
  BY <1>1, FS_Interval
<1> HIDE DEF n, q
<1>7. q \in Surjection(1 .. n, S)
  BY <1>5, <1>6, FS_Injection
<1>8. \A s \in S : \E i \in DOMAIN q : q[i] = s
  BY <1>4, <1>7 DEF Surjection
<1>9. QED
  BY <1>1, <1>4, <1>8 DEF q

\* The configured paths, or some of them, in an order.
LEMMA RootsInOrder ==
  ASSUME NEW S \in SUBSET Roots
  PROVE  InSomeOrder(S) \in Seq(Node)
  BY OrderedNodes, FS_Subset, TreeAssumption

\* A goroutine that goes on is still one, and one that ends is one less.
LEMMA ReplaceOne ==
  ASSUME NEW S, IsFiniteSet(S), NEW w \in S, NEW v
  PROVE  /\ IsFiniteSet((S \ {w}) \cup {v})
         /\ Cardinality((S \ {w}) \cup {v}) <= Cardinality(S)
         /\ IsFiniteSet(S \ {w})
         /\ Cardinality(S \ {w}) = Cardinality(S) - 1
         /\ Cardinality(S) \in Nat /\ Cardinality(S) > 0
<1>1. /\ IsFiniteSet(S \ {w})
      /\ Cardinality(S \ {w}) = Cardinality(S) - 1
  BY FS_RemoveElement
<1>2. /\ Cardinality(S) \in Nat
      /\ Cardinality(S \ {w}) \in Nat
  BY <1>1, FS_CardinalityType
<1>3. /\ IsFiniteSet((S \ {w}) \cup {v})
      /\ \/ Cardinality((S \ {w}) \cup {v}) = Cardinality(S \ {w})
         \/ Cardinality((S \ {w}) \cup {v}) = Cardinality(S \ {w}) + 1
  BY <1>1, FS_AddElement
<1>4. QED
  BY <1>1, <1>2, <1>3

\* StartSearch counts a goroutine for each path that is no file.
LEMMA StartedAreCounted ==
  ASSUME NEW D, IsFiniteSet(D), NEW p
  PROVE  /\ IsFiniteSet({Walker(i, p[i], {"itself"}) : i \in D})
         /\ Cardinality({Walker(i, p[i], {"itself"}) : i \in D})
              <= Cardinality(D)
<1> DEFINE W == {Walker(i, p[i], {"itself"}) : i \in D}
           f == [i \in D |-> Walker(i, p[i], {"itself"})]
<1>1. f \in Surjection(D, W)
  BY DEF Surjection
<1>2. QED
  BY <1>1, FS_Surjection

-----------------------------------------------------------------------------
\* The initial states.
LEMMA InitIInv == Init => IInv
<1> SUFFICES ASSUME Init PROVE IInv
  OBVIOUS
<1>1. TypeOK
  BY TreeAssumption DEF Init, TypeOK
<1>2. Counted
  BY FS_EmptySet DEF Init, Counted
<1>3. Phases /\ SettledPaths
  BY DEF Init, Phases, SettledPaths
<1>4. QED
  BY <1>1, <1>2, <1>3 DEF IInv

\* The command begins its search, and results are taken from the channel.
LEMMA BeginOrTake == IInv /\ (BeginSearch \/ Take) => IInv'
<1> SUFFICES ASSUME IInv, BeginSearch \/ Take PROVE IInv'
  OBVIOUS
<1> USE DEF IInv
<1>1. CASE BeginSearch
  <2>1. pc' = [pc EXCEPT !["command"] = "begins"] /\ pc["command"] = "waiting"
    BY <1>1 DEF BeginSearch, Go
  <2>2. TypeOK'
    BY <1>1, <2>1 DEF BeginSearch, TypeOK, tree, Search
  <2>3. Phases'
    BY <1>1, <2>1 DEF BeginSearch, Phases, TypeOK, Search
  <2>4. Counted' /\ SettledPaths'
    BY <1>1 DEF BeginSearch, Counted, SettledPaths, tree
  <2>5. QED
    BY <2>2, <2>3, <2>4
<1>2. CASE Take
  <2>1. TypeOK'
    BY <1>2, TreeAssumption DEF Take, TypeOK, tree
  <2>2. Counted' /\ Phases' /\ SettledPaths'
    BY <1>2 DEF Take, Counted, Phases, SettledPaths, tree
  <2>3. QED
    BY <2>1, <2>2
<1>3. QED
  BY <1>1, <1>2

\* The paths are looked up, for either search, with or without success.
LEMMA PathsStay ==
  ASSUME IInv, NEW x \in Search, Verify(x) \/ VerifyFails(x)
  PROVE  /\ paths' \in Seq(Node)
         /\ SettledPaths'
         /\ \/ DOMAIN paths \subseteq DOMAIN paths'
            \/ \A y \in Search : walkers[y] = {}
<1> USE DEF IInv
<1>1. CASE kind = "vault"
  <2>1. PICK S \in SUBSET Roots : paths' = paths \o InSomeOrder(S)
    BY <1>1 DEF Verify, VerifyFails
  <2>2. InSomeOrder(S) \in Seq(Node) /\ paths \in Seq(Node)
    BY RootsInOrder DEF TypeOK
  <2>3. /\ paths' \in Seq(Node)
        /\ DOMAIN paths \subseteq DOMAIN paths'
    BY <2>1, <2>2
  <2>4. kind' = "vault"
    BY <1>1 DEF Verify, VerifyFails, tree
  <2>5. QED
    BY <2>3, <2>4 DEF SettledPaths
<1>2. CASE kind = "filesystem"
  <2>1. paths' \in {paths, InSomeOrder(Existing)} /\ kind' = kind
    BY <1>2 DEF Verify, VerifyFails, tree
  <2>2. paths \in {<< >>, InSomeOrder(Existing)}
    BY <1>2 DEF SettledPaths
  <2>3. Existing \in SUBSET Roots
    BY DEF Existing
  <2>4. paths' \in Seq(Node)
    BY <2>1, <2>3, RootsInOrder DEF TypeOK
  <2>5. SettledPaths'
    BY <2>1, <2>2 DEF SettledPaths, Existing
  <2>6. CASE paths = << >>
    BY <2>4, <2>5, <2>6 DEF TypeOK
  <2>7. CASE paths # << >>
    <3>1. paths' = paths
      BY <2>1, <2>2, <2>7
    <3>2. QED
      BY <3>1, <2>4, <2>5
  <2>8. QED
    BY <2>6, <2>7
<1>3. QED
  BY <1>1, <1>2 DEF TypeOK

\* VerifyKubeconfigPaths keeps the invariant.
LEMMA Verified ==
  ASSUME IInv, NEW x \in Search, Verify(x) \/ VerifyFails(x)
  PROVE  IInv'
<1> USE DEF IInv
<1>1. /\ pc[x] = "begins"
      /\ \E to \in {"verified", "ended"} : pc' = [pc EXCEPT ![x] = to]
      /\ \/ reported' = reported
         \/ reported' = [reported EXCEPT ![x] = (x = "command")]
      /\ UNCHANGED <<kind, broken, early, walkers, wg, buffered, sent, reader>>
  BY DEF Verify, VerifyFails, Begins, Go, tree
<1>2. walkers' \in [Search -> SUBSET Goroutine(paths')]
  <2>1. walkers \in [Search -> SUBSET Goroutine(paths)]
    BY DEF TypeOK, Goroutine
  <2>2. CASE DOMAIN paths \subseteq DOMAIN paths'
    <3>1. Goroutine(paths) \subseteq Goroutine(paths')
      BY <2>2 DEF Goroutine
    <3>2. QED
      BY <1>1, <2>1, <3>1
  <2>3. CASE \A y \in Search : walkers[y] = {}
    BY <1>1, <2>1, <2>3
  <2>4. QED
    BY <2>2, <2>3, PathsStay
<1>3. TypeOK'
  BY <1>1, <1>2, PathsStay DEF TypeOK, Goroutine
<1>4. Counted'
  BY <1>1 DEF Counted
<1>5. Phases'
  BY <1>1 DEF Phases, TypeOK
<1>6. QED
  BY <1>3, <1>4, <1>5, PathsStay

\* StartSearch keeps the invariant.
LEMMA Started ==
  ASSUME IInv, NEW x \in Search, StartSearch(x)
  PROVE  IInv'
<1> USE DEF IInv
<1> DEFINE D == DOMAIN paths \ Files
           W == {Walker(i, paths[i], {"itself"}) : i \in D}
<1>1. /\ pc[x] = "verified"
      /\ pc' = [pc EXCEPT ![x] = "early"]
      /\ early' = [early EXCEPT ![x] = {paths[i] : i \in Files}]
      /\ walkers' = [walkers EXCEPT ![x] = W]
      /\ wg' = [wg EXCEPT ![x] = Cardinality(D)]
      /\ UNCHANGED <<kind, broken, paths, buffered, sent, reported, reader>>
  BY DEF StartSearch, Go, tree
<1>2. IsFiniteSet(DOMAIN paths)
  BY FS_Interval DEF TypeOK
<1>3. IsFiniteSet(D) /\ Cardinality(D) \in Nat
  BY <1>2, FS_Subset, FS_CardinalityType
<1>4. IsFiniteSet(W) /\ Cardinality(W) <= Cardinality(D)
  BY <1>3, StartedAreCounted
<1>5. W \subseteq Goroutine(paths)
  BY DEF Walker, Goroutine, TypeOK
<1>6. {paths[i] : i \in Files} \subseteq Node
  BY DEF Files, TypeOK
<1> HIDE DEF D, W
<1>7. TypeOK'
  <2>1. walkers' \in [Search -> SUBSET Goroutine(paths')]
    BY <1>1, <1>5 DEF TypeOK, Goroutine
  <2>2. early' \in [Search -> SUBSET Node]
    BY <1>1, <1>6 DEF TypeOK
  <2>3. wg' \in [Search -> Nat]
    BY <1>1, <1>3 DEF TypeOK
  <2>4. QED
    BY <1>1, <2>1, <2>2, <2>3 DEF TypeOK, Goroutine
<1>8. Counted'
  BY <1>1, <1>4 DEF Counted, TypeOK
<1>9. Phases'
  BY <1>1 DEF Phases, TypeOK
<1>10. SettledPaths'
  BY <1>1 DEF SettledPaths, Existing
<1>11. QED
  BY <1>7, <1>8, <1>9, <1>10

\* What a send changes stays well typed.
LEMMA SendTypes ==
  ASSUME TypeOK, NEW x \in Search, NEW n \in Node, Send(x, n)
  PROVE  /\ sent' \in [Search -> [Node -> Nat]]
         /\ buffered' \in 0 .. Capacity
  BY TreeAssumption DEF TypeOK, Send, CanSend, Search

\* The files among the paths are sent.
LEMMA SentEarly ==
  ASSUME IInv, NEW x \in Search, SendEarly(x)
  PROVE  IInv'
<1> USE DEF IInv
<1>1. /\ pc[x] = "early"
      /\ UNCHANGED <<kind, broken, paths, walkers, wg, reported, reader>>
  BY DEF SendEarly, tree
<1>2. CASE early[x] = {}
  <2>1. /\ pc' = [pc EXCEPT ![x] = "running"]
        /\ UNCHANGED <<early, sent, buffered>>
    BY <1>2 DEF SendEarly, Go
  <2>2. TypeOK'
    BY <1>1, <2>1 DEF TypeOK
  <2>3. Counted' /\ SettledPaths'
    BY <1>1 DEF Counted, SettledPaths, Existing
  <2>4. Phases'
    BY <1>1, <1>2, <2>1 DEF Phases, TypeOK
  <2>5. QED
    BY <2>2, <2>3, <2>4
<1>3. CASE early[x] # {}
  <2>1. PICK n \in early[x] : /\ Send(x, n)
                              /\ early' = [early EXCEPT ![x] = @ \ {n}]
                              /\ pc' = pc
    BY <1>3 DEF SendEarly
  <2>2. n \in Node
    BY DEF TypeOK
  <2>3. TypeOK'
    BY <1>1, <2>1, <2>2, SendTypes DEF TypeOK
  <2>4. Counted' /\ SettledPaths'
    BY <1>1 DEF Counted, SettledPaths, Existing
  <2>5. Phases'
    BY <1>1, <2>1 DEF Phases, TypeOK
  <2>6. QED
    BY <2>3, <2>4, <2>5
<1>4. QED
  BY <1>2, <1>3

\* A WaitGroup of zero means that no goroutine is left.
LEMMA Ended ==
  ASSUME IInv, NEW x \in Search, EndSearch(x)
  PROVE  IInv'
<1> USE DEF IInv
<1>1. /\ pc[x] = "running" /\ wg[x] = 0
      /\ pc' = [pc EXCEPT ![x] = "ended"]
      /\ UNCHANGED <<kind, broken, paths, early, walkers, wg, buffered, sent,
                     reported, reader>>
  BY DEF EndSearch, Go, tree
<1>2. walkers[x] = {}
  <2>1. IsFiniteSet(walkers[x]) /\ Cardinality(walkers[x]) <= 0
    BY <1>1 DEF Counted
  <2>2. Cardinality(walkers[x]) = 0
    BY <2>1, FS_CardinalityType
  <2>3. QED
    BY <2>1, <2>2, FS_EmptySet
<1>3. TypeOK'
  BY <1>1 DEF TypeOK
<1>4. Counted' /\ SettledPaths'
  BY <1>1 DEF Counted, SettledPaths, Existing
<1>5. Phases'
  BY <1>1, <1>2 DEF Phases, TypeOK
<1>6. QED
  BY <1>3, <1>4, <1>5

-----------------------------------------------------------------------------
\* What each step of a goroutine leaves alone, and that its search runs.
LEMMA WalkFrame ==
  ASSUME IInv, NEW x \in Search, NEW w \in Active(x),
         ListVault(x, w) \/ VisitVault(x, w) \/ WalkFiles(x, w)
           \/ WalkFails(x, w) \/ Done(x, w)
  PROVE  /\ w \in walkers[x] /\ pc[x] = "running"
         /\ w \in Goroutine(paths)
         /\ UNCHANGED <<kind, broken, paths, pc, early, reader>>
         /\ SettledPaths'
<1>1. w \in walkers[x] /\ pc[x] \in {"running", "ended"}
  BY DEF Active
<1>2. pc[x] = "running"
  BY <1>1 DEF IInv, Phases
<1>3. w \in Goroutine(paths)
  BY <1>1 DEF IInv, TypeOK, Goroutine
<1>4. UNCHANGED <<kind, broken, paths, pc, early, reader>>
  BY DEF ListVault, VisitVault, WalkFiles, WalkFails, Done, tree
<1>5. SettledPaths'
  BY <1>4 DEF IInv, SettledPaths, Existing
<1>6. QED
  BY <1>1, <1>2, <1>3, <1>4, <1>5

(***************************************************************************)
(* The heart of the argument: if a goroutine is replaced by others, no     *)
(* more than the WaitGroup counts, all goroutines stay counted.            *)
(***************************************************************************)
LEMMA StillCounted ==
  ASSUME IInv, NEW x \in Search, pc[x] = "running",
         UNCHANGED <<kind, broken, paths, pc, early, reader>>,
         SettledPaths',
         NEW S, S \subseteq Goroutine(paths), IsFiniteSet(S),
         NEW k \in Nat, Cardinality(S) <= k,
         walkers' = [walkers EXCEPT ![x] = S],
         wg' = [wg EXCEPT ![x] = k],
         buffered' \in 0 .. Capacity,
         sent' \in [Search -> [Node -> Nat]],
         reported' \in [Search -> BOOLEAN]
  PROVE  IInv'
<1> USE DEF IInv
<1>1. TypeOK'
  <2>1. walkers' \in [Search -> SUBSET Goroutine(paths')]
    BY DEF TypeOK, Goroutine
  <2>2. wg' \in [Search -> Nat]
    BY DEF TypeOK
  <2>3. QED
    BY <2>1, <2>2 DEF TypeOK, Goroutine
<1>2. Counted'
  BY DEF Counted, TypeOK
<1>3. Phases'
  BY DEF Phases, TypeOK
<1>4. QED
  BY <1>1, <1>2, <1>3

\* A goroutine that goes on, with less to do, is counted as before.
LEMMA GoesOn ==
  ASSUME IInv, NEW x \in Search, NEW w \in walkers[x], pc[x] = "running",
         UNCHANGED <<kind, broken, paths, pc, early, reader, wg>>,
         SettledPaths',
         NEW v \in Goroutine(paths), Becomes(x, w, {v}),
         buffered' \in 0 .. Capacity,
         sent' \in [Search -> [Node -> Nat]],
         reported' \in [Search -> BOOLEAN]
  PROVE  IInv'
<1> DEFINE S == (walkers[x] \ {w}) \cup {v}
<1>1. walkers' = [walkers EXCEPT ![x] = S]
  BY DEF Becomes
<1>2. IsFiniteSet(walkers[x]) /\ Cardinality(walkers[x]) <= wg[x]
      /\ wg[x] \in Nat /\ wg' = [wg EXCEPT ![x] = wg[x]]
  BY DEF IInv, Counted, TypeOK
<1>3. /\ IsFiniteSet(S) /\ Cardinality(S) <= Cardinality(walkers[x])
      /\ Cardinality(walkers[x]) \in Nat
  BY <1>2, ReplaceOne
<1>4. Cardinality(S) \in Nat
  BY <1>3, FS_CardinalityType
<1>5. Cardinality(S) <= wg[x]
  BY <1>2, <1>3, <1>4
<1>6. S \subseteq Goroutine(paths)
  BY DEF IInv, TypeOK, Goroutine
<1> HIDE DEF S
<1>7. QED
  BY <1>1, <1>2, <1>3, <1>5, <1>6, StillCounted

\* ListVault: a directory gives its keys, a secret is sent.
LEMMA ListedVault ==
  ASSUME IInv, NEW x \in Search, NEW w \in Active(x), ListVault(x, w)
  PROVE  IInv'
<1>1. /\ w \in walkers[x] /\ pc[x] = "running" /\ w \in Goroutine(paths)
      /\ UNCHANGED <<kind, broken, paths, pc, early, reader>>
      /\ SettledPaths'
  BY WalkFrame
<1>2. wg' = wg /\ reported' = reported
  BY DEF ListVault
<1>3. w.at \in Node /\ Kids[w.at] \in SUBSET Node
  BY <1>1, TreeAssumption DEF Goroutine
<1>4. /\ [w EXCEPT !.todo = Kids[w.at]] \in Goroutine(paths)
      /\ [w EXCEPT !.todo = {}] \in Goroutine(paths)
  BY <1>1, <1>3 DEF Goroutine
<1>5. /\ sent' \in [Search -> [Node -> Nat]]
      /\ buffered' \in 0 .. Capacity
      /\ reported' \in [Search -> BOOLEAN]
  BY <1>2, <1>3, SendTypes DEF ListVault, IInv, TypeOK
<1>6. \E v \in Goroutine(paths) : Becomes(x, w, {v})
  BY <1>4 DEF ListVault
<1>7. QED
  BY <1>1, <1>2, <1>5, <1>6, GoesOn

\* VisitVault: a key is sent, and a directory among them gets a goroutine.
LEMMA VisitedVault ==
  ASSUME IInv, NEW x \in Search, NEW w \in Active(x), VisitVault(x, w)
  PROVE  IInv'
<1>1. /\ w \in walkers[x] /\ pc[x] = "running" /\ w \in Goroutine(paths)
      /\ UNCHANGED <<kind, broken, paths, pc, early, reader>>
      /\ SettledPaths'
  BY WalkFrame
<1>2. PICK n \in w.todo :
        /\ Send(x, n)
        /\ IF Form[n] = "dir"
           THEN /\ Becomes(x, w, {[w EXCEPT !.todo = @ \ {n}]}
                                   \cup {Walker(w.of, n, {"itself"})})
                /\ wg' = [wg EXCEPT ![x] = @ + 1]
           ELSE /\ Becomes(x, w, {[w EXCEPT !.todo = @ \ {n}]})
                /\ wg' = wg
  BY DEF VisitVault
<1>3. n \in Node /\ "itself" \notin w.todo /\ reported' = reported
  BY <1>1 DEF VisitVault, Goroutine
<1> DEFINE v == [w EXCEPT !.todo = @ \ {n}]
           u == Walker(w.of, n, {"itself"})
<1>4. v \in Goroutine(paths) /\ u \in Goroutine(paths)
  BY <1>1, <1>3 DEF Goroutine, Walker
<1>5. /\ sent' \in [Search -> [Node -> Nat]]
      /\ buffered' \in 0 .. Capacity
      /\ reported' \in [Search -> BOOLEAN]
  BY <1>2, <1>3, SendTypes DEF IInv, TypeOK
<1> HIDE DEF v, u
<1>6. CASE Form[n] # "dir"
  <2>1. Becomes(x, w, {v}) /\ wg' = wg
    BY <1>2, <1>6 DEF v
  <2>2. QED
    BY <1>1, <1>4, <1>5, <2>1, GoesOn
<1>7. CASE Form[n] = "dir"
  <2> DEFINE R == (walkers[x] \ {w}) \cup {v}
             S == R \cup {u}
  <2>1. Becomes(x, w, {v} \cup {u}) /\ wg' = [wg EXCEPT ![x] = wg[x] + 1]
    BY <1>2, <1>7 DEF v, u
  <2>2. walkers' = [walkers EXCEPT ![x] = S]
    <3>1. (walkers[x] \ {w}) \cup ({v} \cup {u}) = S
      OBVIOUS
    <3>2. QED
      BY <2>1, <3>1 DEF Becomes
  <2>3. /\ IsFiniteSet(walkers[x]) /\ Cardinality(walkers[x]) <= wg[x]
        /\ wg[x] \in Nat
    BY DEF IInv, Counted, TypeOK
  <2>4. /\ IsFiniteSet(R) /\ Cardinality(R) <= Cardinality(walkers[x])
        /\ Cardinality(walkers[x]) \in Nat
    BY <1>1, <2>3, ReplaceOne
  <2>5. /\ IsFiniteSet(S) /\ Cardinality(R) \in Nat
        /\ \/ Cardinality(S) = Cardinality(R)
           \/ Cardinality(S) = Cardinality(R) + 1
    <3> HIDE DEF R
    <3>1. QED
      BY <2>4, FS_CardinalityType, FS_AddElement
  <2>6. Cardinality(S) <= wg[x] + 1 /\ wg[x] + 1 \in Nat
    BY <2>3, <2>4, <2>5
  <2>7. S \subseteq Goroutine(paths)
    BY <1>4 DEF IInv, TypeOK, Goroutine
  <2> HIDE DEF S
  <2>8. QED
    BY <1>1, <1>5, <2>1, <2>2, <2>5, <2>6, <2>7, StillCounted
<1>8. QED
  BY <1>6, <1>7

\* WalkFiles and WalkFails: an entry is entered, or an error ends the walk.
LEMMA WalkedFiles ==
  ASSUME IInv, NEW x \in Search, NEW w \in Active(x),
         WalkFiles(x, w) \/ WalkFails(x, w)
  PROVE  IInv'
<1>1. /\ w \in walkers[x] /\ pc[x] = "running" /\ w \in Goroutine(paths)
      /\ UNCHANGED <<kind, broken, paths, pc, early, reader>>
      /\ SettledPaths'
  BY WalkFrame
<1>2. wg' = wg
  BY DEF WalkFiles, WalkFails
<1>3. CASE WalkFiles(x, w)
  <2>1. PICK e \in w.todo :
          LET n == IF e = "itself" THEN w.at ELSE e IN
          /\ Becomes(x, w, {[w EXCEPT !.todo = (@ \ {e}) \cup Enter(n)]})
          /\ Send(x, n) \/ UNCHANGED <<buffered, sent>>
    BY <1>3 DEF WalkFiles
  <2> DEFINE n == IF e = "itself" THEN w.at ELSE e
  <2>2. n \in Node
    BY <1>1 DEF Goroutine
  <2>3. Enter(n) \subseteq Node
    BY <2>2, TreeAssumption DEF Enter
  <2>4. [w EXCEPT !.todo = (@ \ {e}) \cup Enter(n)] \in Goroutine(paths)
    BY <1>1, <2>3 DEF Goroutine
  <2>5. reported' = reported
    BY <1>3 DEF WalkFiles
  <2>6. /\ sent' \in [Search -> [Node -> Nat]]
        /\ buffered' \in 0 .. Capacity
        /\ reported' \in [Search -> BOOLEAN]
    BY <2>1, <2>2, <2>5, SendTypes DEF IInv, TypeOK
  <2>7. QED
    BY <1>1, <1>2, <2>1, <2>4, <2>6, GoesOn
<1>4. CASE WalkFails(x, w)
  <2>1. /\ Becomes(x, w, {[w EXCEPT !.todo = {}]})
        /\ reported' = [reported EXCEPT ![x] = TRUE]
        /\ buffered' = IF x = "reference" THEN buffered + 1 ELSE buffered
        /\ CanSend(x) /\ sent' = sent
    BY <1>4 DEF WalkFails
  <2>2. [w EXCEPT !.todo = {}] \in Goroutine(paths)
    BY <1>1 DEF Goroutine
  <2>3. /\ sent' \in [Search -> [Node -> Nat]]
        /\ buffered' \in 0 .. Capacity
        /\ reported' \in [Search -> BOOLEAN]
    BY <2>1, TreeAssumption DEF CanSend, IInv, TypeOK, Search
  <2>4. QED
    BY <1>1, <1>2, <2>1, <2>2, <2>3, GoesOn
<1>5. QED
  BY <1>3, <1>4

\* Done: a goroutine that is over is counted off.
LEMMA CountedOff ==
  ASSUME IInv, NEW x \in Search, NEW w \in Active(x), Done(x, w)
  PROVE  IInv'
<1>1. /\ w \in walkers[x] /\ pc[x] = "running"
      /\ UNCHANGED <<kind, broken, paths, pc, early, reader>>
      /\ SettledPaths'
  BY WalkFrame
<1> DEFINE S == walkers[x] \ {w}
<1>2. walkers' = [walkers EXCEPT ![x] = S]
  BY DEF Done, Becomes
<1>3. /\ IsFiniteSet(walkers[x]) /\ Cardinality(walkers[x]) <= wg[x]
      /\ wg[x] \in Nat
  BY DEF IInv, Counted, TypeOK
<1>4. /\ IsFiniteSet(S) /\ Cardinality(S) = Cardinality(walkers[x]) - 1
      /\ Cardinality(walkers[x]) \in Nat /\ Cardinality(walkers[x]) > 0
  BY <1>1, <1>3, ReplaceOne
<1>5. Cardinality(S) <= wg[x] - 1 /\ wg[x] - 1 \in Nat
  BY <1>3, <1>4
<1>6. wg' = [wg EXCEPT ![x] = wg[x] - 1]
  BY DEF Done
<1>7. S \subseteq Goroutine(paths)
  BY DEF IInv, TypeOK, Goroutine
<1>8. /\ sent' \in [Search -> [Node -> Nat]]
      /\ buffered' \in 0 .. Capacity
      /\ reported' \in [Search -> BOOLEAN]
  BY DEF Done, IInv, TypeOK
<1> HIDE DEF S
<1>9. QED
  BY <1>1, <1>2, <1>4, <1>5, <1>6, <1>7, <1>8, StillCounted

-----------------------------------------------------------------------------
\* Every step keeps the invariant.
LEMMA NextIInv == IInv /\ [Next]_vars => IInv'
<1> SUFFICES ASSUME IInv, [Next]_vars PROVE IInv'
  OBVIOUS
<1>1. CASE BeginSearch \/ Take
  BY <1>1, BeginOrTake
<1>2. ASSUME NEW x \in Search,
             Verify(x) \/ VerifyFails(x) \/ StartSearch(x) \/ SendEarly(x)
               \/ EndSearch(x)
      PROVE  IInv'
  BY <1>2, Verified, Started, SentEarly, Ended
<1>3. ASSUME NEW x \in Search, Walk(x) PROVE IInv'
  <2>1. PICK w \in Active(x) :
          ListVault(x, w) \/ VisitVault(x, w) \/ WalkFiles(x, w)
            \/ WalkFails(x, w) \/ Done(x, w)
    BY <1>3 DEF Walk
  <2>2. QED
    BY <2>1, ListedVault, VisitedVault, WalkedFiles, CountedOff
<1>4. CASE UNCHANGED vars
  BY <1>4 DEF vars, IInv, TypeOK, Counted, Phases, SettledPaths, Existing
<1>5. QED
  BY <1>1, <1>2, <1>3, <1>4 DEF Next

(***************************************************************************)
(* TreeStores is well typed: no WaitGroup falls below zero, at which Go    *)
(* would panic, and no buffer holds more than it has room for.             *)
(***************************************************************************)
THEOREM TreeTypes == Spec => []TypeOK
<1>1. Init => IInv
  BY InitIInv
<1>2. IInv /\ [Next]_vars => IInv'
  BY NextIInv
<1>3. IInv => TypeOK
  BY DEF IInv
<1>4. QED
  BY <1>1, <1>2, <1>3, PTL DEF Spec

(***************************************************************************)
(* A search whose WaitGroup has let its caller go on has no goroutine left *)
(* that could send on the channel that the caller closes.                  *)
(***************************************************************************)
THEOREM EndedIsQuiet == Spec => []NothingSendsAfterEnd
<1>1. Init => IInv
  BY InitIInv
<1>2. IInv /\ [Next]_vars => IInv'
  BY NextIInv
<1>3. IInv => NothingSendsAfterEnd
  BY DEF IInv, Phases, NothingSendsAfterEnd
<1>4. QED
  BY <1>1, <1>2, <1>3, PTL DEF Spec

-----------------------------------------------------------------------------
(* What a search finds: the inductive invariant.                           *)

\* The Node that an entry of a goroutine's list stands for.
Aim(w, e) == IF e = "itself" THEN w.at ELSE e

\* What the goroutines W of the i-th path are still to look at.
Open(W, i) ==
  {m \in Node : \E w \in W : w.of = i /\ \E e \in w.todo : Aim(w, e) = m}

\* A Node is in the list of one goroutine of a path, and there once.
Single(W) ==
  \A v, w \in W : \A e \in v.todo, f \in w.todo :
    v.of = w.of /\ Aim(v, e) = Aim(w, f) => v = w /\ e = f

\* Nothing is below two Nodes that the goroutines of a path look at.
Apart(W, p) ==
  \A i \in DOMAIN p : \A a, b \in Open(W, i) :
    Below[a] \cap Below[b] # {} => a = b

\* The goroutines of a path stay below it, and a directory is listed before
\* anything in it is looked at.
Inside(W, p) == \A i \in DOMAIN p : Open(W, i) \subseteq Below[p[i]]
Listing(W) == \A w \in W : "itself" \in w.todo => w.todo = {"itself"}
Orderly(W, p) == Single(W) /\ Apart(W, p) /\ Inside(W, p) /\ Listing(W)

\* The file n of the path r is still to come.
Expected(E, W, p, r, n) ==
  \/ n = r /\ n \in E
  \/ \E i \in DOMAIN p : p[i] = r /\ \E m \in Open(W, i) : n \in Below[m]

\* Files are sent before, and have no goroutine.
Divided ==
  /\ early["command"] \subseteq {paths[i] : i \in Files}
  /\ \A w \in walkers["command"] : w.of \notin Files

Goroutines == Orderly(walkers["command"], paths)

\* No search for a reference adds paths to those of the command.
Alone == kind = "filesystem" \/ reader = "none"

Looked == pc["command"] \in {"verified", "early", "running", "ended"}
Sending == pc["command"] \in {"early", "running", "ended"}

\* The command searches the configured paths, each once if it is alone.  They
\* change no more, for no search for a reference begins.
PathsKnown ==
  /\ pc["command"] # "waiting" =>
       reader # "reads" \/ pc["reference"] = "ended"
  /\ \A i \in DOMAIN paths : paths[i] \in Roots
  /\ ~Looked /\ reader = "none" => paths = << >>
  /\ Looked /\ ~reported["command"] =>
       /\ \A r \in Existing : \E i \in DOMAIN paths : paths[i] = r
       /\ Alone => \A i, j \in DOMAIN paths : paths[i] = paths[j] => i = j

\* Each kubeconfig below a path was sent or is still to come.
NothingIsLost ==
  Sending /\ ~reported["command"] /\ broken = {} =>
    \A r \in Roots : \A n \in Kubeconfigs(r) :
      \/ sent["command"][n] > 0
      \/ Expected(early["command"], walkers["command"], paths, r, n)

\* The paths for which a kubeconfig has come.
Settled(E, W, p, n) ==
  {r \in Roots : n \in Kubeconfigs(r) /\ ~Expected(E, W, p, r, n)}

\* It was sent for these at most.
NothingIsRepeated ==
  /\ ~Sending => \A n \in Node : sent["command"][n] = 0
  /\ ~reported["command"] /\ Alone =>
       \A n \in Node : Form[n] = "leaf" =>
         sent["command"][n] <=
           Cardinality(Settled(early["command"], walkers["command"], paths, n))

FoundInv ==
  Divided /\ Goroutines /\ PathsKnown /\ NothingIsLost /\ NothingIsRepeated

-----------------------------------------------------------------------------
(* Trees.                                                                  *)

\* Below[r] is the least set of Nodes with r that is closed under entering.
LEMMA BelowIsLeast ==
  ASSUME NEW r \in Node
  PROVE  /\ r \in Below[r] /\ Below[r] \subseteq Node
         /\ \A m \in Below[r] : Enter(m) \subseteq Below[r]
         /\ \A S \in SUBSET Node :
              r \in S /\ (\A m \in S : Enter(m) \subseteq S)
                => Below[r] \subseteq S
<1>1. \A m \in Node : Enter(m) \subseteq Node
  BY TreeAssumption DEF Enter
<1>2. Below[r] =
        {n \in Node : \A S \in SUBSET Node :
           r \in S /\ (\A m \in S : Enter(m) \subseteq S) => n \in S}
  BY DEF Below
<1>3. QED
  BY <1>1, <1>2

\* What is below a Node that is below another is below that.
LEMMA BelowIsTransitive ==
  ASSUME NEW r \in Node, NEW m \in Below[r]
  PROVE  Below[m] \subseteq Below[r]
  BY BelowIsLeast

\* What is entered is below.
LEMMA EnteredIsBelow ==
  ASSUME NEW r \in Node, NEW k \in Enter(r)
  PROVE  k \in Node /\ Below[k] \subseteq Below[r] /\ r # k
<1>1. k \in Below[r] /\ Below[r] \subseteq Node
  BY BelowIsLeast
<1>2. r \notin Below[k]
  BY TreeAssumption
<1>3. QED
  BY <1>1, <1>2, BelowIsTransitive, BelowIsLeast

\* What is below a Node is that Node or below one that is entered from it.
LEMMA BelowByEntering ==
  ASSUME NEW r \in Node, NEW n \in Below[r]
  PROVE  n = r \/ \E k \in Enter(r) : n \in Below[k]
<1> DEFINE S == {r} \cup UNION {Below[k] : k \in Enter(r)}
<1>1. \A k \in Enter(r) : k \in Node
  BY EnteredIsBelow
<1>2. S \in SUBSET Node
  BY <1>1, BelowIsLeast
<1>3. ASSUME NEW m \in S, NEW k \in Enter(m)
      PROVE  k \in S
  <2>1. CASE m = r
    BY <1>1, <1>3, <2>1, BelowIsLeast
  <2>2. CASE m # r
    <3>1. PICK l \in Enter(r) : m \in Below[l]
      BY <2>2
    <3>2. k \in Below[l]
      BY <1>1, <1>3, <3>1, BelowIsLeast
    <3>3. QED
      BY <3>2
  <2>3. QED
    BY <2>1, <2>2
<1>4. r \in S
  OBVIOUS
<1>5. Below[r] \subseteq S
  <2> HIDE DEF S
  <2>1. \A m \in S : Enter(m) \subseteq S
    BY <1>3
  <2>2. QED
    BY <1>2, <1>4, <2>1, BelowIsLeast
<1>6. QED
  BY <1>5

\* What is below a Node, and not the Node itself, is entered from below it.
LEMMA BelowHasParent ==
  ASSUME NEW r \in Node, NEW n \in Below[r], n # r
  PROVE  \E m \in Below[r] : n \in Enter(m)
<1> DEFINE S == {k \in Below[r] : k = r \/ \E m \in Below[r] : k \in Enter(m)}
<1>1. S \in SUBSET Node /\ r \in S /\ \A m \in S : Enter(m) \subseteq S
  BY BelowIsLeast
<1>2. Below[r] \subseteq S
  <2> HIDE DEF S
  <2>1. QED
    BY <1>1, BelowIsLeast
<1>3. QED
  BY <1>2

\* Of two Nodes that something is below, one is below the other.
LEMMA BelowIsChain ==
  ASSUME NEW a \in Node, NEW b \in Node, NEW n \in Below[a] \cap Below[b]
  PROVE  a \in Below[b] \/ b \in Below[a]
<1> SUFFICES ASSUME a \notin Below[b], b \notin Below[a]
             PROVE  FALSE
  OBVIOUS
<1> DEFINE S == Below[a] \ Below[b]
<1>1. S \in SUBSET Node /\ a \in S
  BY BelowIsLeast
<1>2. ASSUME NEW m \in S, NEW k \in Enter(m)
      PROVE  k \in S
  <2>1. m \in Node /\ k \in Below[a]
    BY <1>2, BelowIsLeast
  <2>2. SUFFICES ASSUME k \in Below[b]
                 PROVE  FALSE
    BY <2>1
  <2>3. k # b
    BY <2>1
  <2>4. PICK l \in Below[b] : k \in Enter(l)
    BY <2>2, <2>3, BelowHasParent
  <2>5. l \in Node
    BY <2>4, BelowIsLeast
  <2>6. l = m
    BY <1>2, <2>1, <2>4, <2>5, TreeAssumption
  <2>7. QED
    BY <1>2, <2>6
<1>3. Below[a] \subseteq S
  <2> HIDE DEF S
  <2>1. \A m \in S : Enter(m) \subseteq S
    BY <1>2
  <2>2. QED
    BY <1>1, <2>1, BelowIsLeast
<1>4. QED
  BY <1>3

\* Nothing is below two Nodes of the same directory.
LEMMA KidsAreApart ==
  ASSUME NEW m \in Node, NEW k \in Enter(m), NEW l \in Enter(m),
         Below[k] \cap Below[l] # {}
  PROVE  k = l
<1>1. ASSUME NEW a \in Enter(m), NEW b \in Enter(m), a \in Below[b]
      PROVE  a = b
  <2>1. SUFFICES ASSUME a # b
                 PROVE  FALSE
    OBVIOUS
  <2>2. b \in Node /\ Below[b] \subseteq Node
    BY EnteredIsBelow, BelowIsLeast
  <2>3. PICK p \in Below[b] : a \in Enter(p)
    BY <1>1, <2>1, <2>2, BelowHasParent
  <2>4. p = m
    BY <2>2, <2>3, TreeAssumption
  <2>5. m \notin Below[b]
    BY TreeAssumption
  <2>6. QED
    BY <2>4, <2>5
<1>2. k \in Node /\ l \in Node
  BY EnteredIsBelow
<1>3. k \in Below[l] \/ l \in Below[k]
  BY <1>2, BelowIsChain
<1>4. QED
  BY <1>1, <1>3

-----------------------------------------------------------------------------
(* What the goroutines are still to look at.                               *)

\* Each Node that is still to be looked at is in the list of a goroutine.
LEMMA OpenByEntry ==
  ASSUME NEW p, NEW W, W \subseteq Goroutine(p), NEW w \in W, NEW e \in w.todo
  PROVE  /\ w.of \in DOMAIN p /\ w.at \in Node
         /\ Aim(w, e) \in Node /\ Aim(w, e) \in Open(W, w.of)
         /\ w.todo \subseteq Node \cup {"itself"}
         /\ e # "itself" => e \in Node /\ Aim(w, e) = e
<1>1. w \in Goroutine(p)
  OBVIOUS
<1>2. /\ w.of \in DOMAIN p /\ w.at \in Node
      /\ w.todo \subseteq Node \cup {"itself"}
  BY <1>1 DEF Goroutine
<1>3. Aim(w, e) \in Node /\ (e # "itself" => e \in Node /\ Aim(w, e) = e)
  BY <1>2 DEF Aim
<1>4. QED
  BY <1>2, <1>3 DEF Open

\* The goroutines V have, instead of the Node m of the i-th path, the Nodes K
\* that are entered from it, and all others that W have.
Advance(W, V, p, i, m, K) ==
  /\ i \in DOMAIN p /\ m \in Open(W, i) /\ K \subseteq Enter(m)
  /\ Open(V, i) = (Open(W, i) \ {m}) \cup K
  /\ \A j \in DOMAIN p : j # i => Open(V, j) = Open(W, j)

\* A goroutine v of the path of w, with the Nodes K instead of the entry e.
\* They are below what e stands for, so that nobody looks at them yet.
LEMMA EntryReplaced ==
  ASSUME NEW p, NEW W, W \subseteq Goroutine(p), Orderly(W, p),
         NEW w \in W, NEW e \in w.todo, NEW K, K \subseteq Enter(Aim(w, e)),
         NEW v \in Goroutine(p), v.of = w.of, v.at = w.at,
         v.todo = (w.todo \ {e}) \cup K,
         NEW N, N = (W \ {w}) \cup {v}
  PROVE  /\ Advance(W, N, p, w.of, Aim(w, e), K)
         /\ Single(N) /\ Listing(N)
<1> DEFINE m == Aim(w, e)
<1>1. m \in Node /\ m \in Open(W, w.of) /\ w.of \in DOMAIN p
  BY OpenByEntry
<1>2. \A k \in K : k \in Node /\ k # m /\ k \notin Open(W, w.of)
  <2> TAKE k \in K
  <2>1. k \in Node /\ Below[k] \subseteq Below[m] /\ m # k
    BY <1>1, EnteredIsBelow
  <2>2. k \in Below[k] /\ k \in Below[m]
    BY <2>1, BelowIsLeast
  <2>3. k \notin Open(W, w.of)
    BY <1>1, <2>1, <2>2 DEF Orderly, Apart
  <2>4. QED
    BY <2>1, <2>3
<1>3. w.todo \subseteq Node \cup {"itself"}
  BY OpenByEntry
<1>4. ASSUME NEW f \in w.todo, f # e
      PROVE  f \in v.todo /\ Aim(v, f) = Aim(w, f) /\ Aim(w, f) # m
  <2>1. Aim(v, f) = Aim(w, f)
    BY DEF Aim
  <2>2. Aim(w, f) # Aim(w, e)
    BY <1>4 DEF Orderly, Single
  <2>3. QED
    BY <1>4, <2>1, <2>2
<1>5. ASSUME NEW k \in K
      PROVE  k \in v.todo /\ Aim(v, k) = k
  BY <1>2, <1>5, TreeAssumption DEF Aim
<1>6. ASSUME NEW u \in W, u # w, u.of = w.of, NEW f \in u.todo
      PROVE  Aim(u, f) # m
  BY <1>6 DEF Orderly, Single
<1>7. ASSUME NEW f \in v.todo
      PROVE  \/ f \in w.todo /\ f # e /\ Aim(v, f) = Aim(w, f)
             \/ f \in K /\ Aim(v, f) = f
  BY <1>4, <1>5, <1>7
<1>8. Open(N, w.of) = (Open(W, w.of) \ {m}) \cup K
  <2>1. ASSUME NEW a \in Open(N, w.of)
        PROVE  a \in (Open(W, w.of) \ {m}) \cup K
    <3>1. PICK u \in N : u.of = w.of /\ \E f \in u.todo : Aim(u, f) = a
      BY <2>1 DEF Open
    <3>2. PICK f \in u.todo : Aim(u, f) = a
      BY <3>1
    <3>3. CASE u \in W /\ u # w
      <4>1. a \in Open(W, w.of)
        BY <3>1, <3>2, <3>3, OpenByEntry
      <4>2. QED
        BY <1>6, <3>1, <3>2, <3>3, <4>1
    <3>4. CASE u = v
      <4>1. CASE f \in w.todo /\ f # e /\ Aim(v, f) = Aim(w, f)
        <5>1. Aim(w, f) \in Open(W, w.of)
          BY <4>1, OpenByEntry
        <5>2. QED
          BY <1>4, <3>2, <3>4, <4>1, <5>1
      <4>2. CASE f \in K /\ Aim(v, f) = f
        BY <3>2, <3>4, <4>2
      <4>3. QED
        BY <1>7, <3>2, <3>4, <4>1, <4>2
    <3>5. QED
      BY <3>1, <3>3, <3>4
  <2>2. ASSUME NEW a \in Open(W, w.of), a # m
        PROVE  a \in Open(N, w.of)
    <3>1. PICK u \in W : u.of = w.of /\ \E f \in u.todo : Aim(u, f) = a
      BY DEF Open
    <3>2. PICK f \in u.todo : Aim(u, f) = a
      BY <3>1
    <3>3. a \in Node
      BY DEF Open
    <3>4. CASE u = w
      <4>1. f # e
        BY <2>2, <3>2, <3>4
      <4>2. f \in v.todo /\ Aim(v, f) = a
        BY <1>4, <3>2, <3>4, <4>1
      <4>3. QED
        BY <3>3, <4>2 DEF Open
    <3>5. CASE u # w
      <4>1. u \in N
        BY <3>5
      <4>2. QED
        BY <3>1, <3>3, <4>1 DEF Open
    <3>6. QED
      BY <3>4, <3>5
  <2>3. ASSUME NEW a \in K
        PROVE  a \in Open(N, w.of)
    BY <1>2, <1>5, <2>3 DEF Open
  <2>4. QED
    BY <2>1, <2>2, <2>3
<1>9. ASSUME NEW i \in DOMAIN p, i # w.of
      PROVE  Open(N, i) = Open(W, i)
  BY <1>9 DEF Open
<1>10. Single(N)
  <2> SUFFICES ASSUME NEW a \in N, NEW b \in N, NEW f \in a.todo,
                      NEW g \in b.todo, a.of = b.of, Aim(a, f) = Aim(b, g)
               PROVE  a = b /\ f = g
    BY DEF Single
  <2>1. ASSUME NEW u \in W, u # w, NEW h \in u.todo, NEW l \in v.todo,
               u.of = v.of, Aim(u, h) = Aim(v, l)
        PROVE  FALSE
    <3>1. Aim(u, h) \in Open(W, w.of)
      BY <2>1, OpenByEntry
    <3>2. CASE l \in w.todo /\ l # e /\ Aim(v, l) = Aim(w, l)
      BY <2>1, <3>2 DEF Orderly, Single
    <3>3. CASE l \in K /\ Aim(v, l) = l
      BY <1>2, <2>1, <3>1, <3>3
    <3>4. QED
      BY <1>7, <2>1, <3>2, <3>3
  <2>2. CASE a # v /\ b # v
    BY <2>2 DEF Orderly, Single
  <2>3. CASE a = v /\ b # v
    <3>1. b \in W /\ b # w
      BY <2>3
    <3>2. QED
      BY <2>1, <2>3, <3>1
  <2>4. CASE a # v /\ b = v
    <3>1. a \in W /\ a # w
      BY <2>4
    <3>2. QED
      BY <2>1, <2>4, <3>1
  <2>5. CASE a = v /\ b = v
    <3>1. ASSUME NEW h \in v.todo, NEW l \in v.todo, h \in w.todo,
                 Aim(v, h) = Aim(w, h), l \in K, Aim(v, l) = l,
                 Aim(v, h) = Aim(v, l)
          PROVE  FALSE
      <4>1. Aim(w, h) \in Open(W, w.of)
        BY <3>1, OpenByEntry
      <4>2. QED
        BY <1>2, <3>1, <4>1
    <3>2. CASE f \in w.todo /\ f # e /\ Aim(v, f) = Aim(w, f)
      <4>1. CASE g \in w.todo /\ g # e /\ Aim(v, g) = Aim(w, g)
        <5>1. Aim(v, f) = Aim(v, g)
          BY <2>5
        <5>2. Aim(w, f) = Aim(w, g)
          BY <3>2, <4>1, <5>1
        <5>3. f = g
          BY <3>2, <4>1, <5>2 DEF Orderly, Single
        <5>4. QED
          BY <2>5, <5>3
      <4>2. CASE g \in K /\ Aim(v, g) = g
        BY <2>5, <3>1, <3>2, <4>2
      <4>3. QED
        BY <1>7, <2>5, <4>1, <4>2
    <3>3. CASE f \in K /\ Aim(v, f) = f
      <4>1. CASE g \in w.todo /\ g # e /\ Aim(v, g) = Aim(w, g)
        BY <2>5, <3>1, <3>3, <4>1
      <4>2. CASE g \in K /\ Aim(v, g) = g
        BY <2>5, <3>3, <4>2
      <4>3. QED
        BY <1>7, <2>5, <4>1, <4>2
    <3>4. QED
      BY <1>7, <2>5, <3>2, <3>3
  <2>6. QED
    BY <2>2, <2>3, <2>4, <2>5
<1>11. Listing(N)
  <2>1. "itself" \notin v.todo
    <3>1. "itself" \notin K
      BY <1>2, TreeAssumption
    <3>2. "itself" \in w.todo => e = "itself"
      BY DEF Orderly, Listing
    <3>3. QED
      BY <3>1, <3>2
  <2>2. QED
    BY <2>1 DEF Orderly, Listing
<1>12. Advance(W, N, p, w.of, m, K)
  BY <1>1, <1>8, <1>9 DEF Advance
<1>13. QED
  BY <1>10, <1>11, <1>12

\* A goroutine that is started for a Node at which nobody else looks.
LEMMA GoroutineAdded ==
  ASSUME NEW p, NEW W, W \subseteq Goroutine(p), Single(W), Listing(W),
         NEW i \in DOMAIN p, NEW m \in Node, m \notin Open(W, i),
         NEW u, u = Walker(i, m, {"itself"}), NEW N, N = W \cup {u}
  PROVE  /\ Open(N, i) = Open(W, i) \cup {m}
         /\ \A j \in DOMAIN p : j # i => Open(N, j) = Open(W, j)
         /\ Single(N) /\ Listing(N)
<1>1. u.of = i /\ u.todo = {"itself"} /\ \A e \in u.todo : Aim(u, e) = m
  BY DEF Walker, Aim
<1>2. \A w \in W : \A e \in w.todo : w.of = i => Aim(w, e) # m
  BY OpenByEntry
<1>3. Open(N, i) = Open(W, i) \cup {m}
  BY <1>1 DEF Open
<1>4. \A j \in DOMAIN p : j # i => Open(N, j) = Open(W, j)
  BY <1>1 DEF Open
<1>5. Single(N)
  BY <1>1, <1>2 DEF Single
<1>6. Listing(N)
  BY <1>1 DEF Listing
<1>7. QED
  BY <1>3, <1>4, <1>5, <1>6

\* Their lists stay in order.
LEMMA AdvanceIsOrderly ==
  ASSUME NEW p, p \in Seq(Node), NEW W, NEW V, Orderly(W, p),
         NEW i, NEW m, NEW K, Advance(W, V, p, i, m, K),
         Single(V), Listing(V)
  PROVE  Orderly(V, p)
<1>1. m \in Node /\ p[i] \in Node /\ Open(W, i) \subseteq Node
  BY DEF Advance, Open
<1>2. \A k \in K : k \in Node /\ Below[k] \subseteq Below[m] /\ k \in Below[k]
  BY <1>1, EnteredIsBelow, BelowIsLeast DEF Advance
<1>3. Apart(V, p)
  <2>1. ASSUME NEW a \in Open(V, i), NEW b \in Open(V, i),
               Below[a] \cap Below[b] # {}
        PROVE  a = b
    <3>1. \A k \in K : \A l \in Open(W, i) \ {m} : Below[k] \cap Below[l] = {}
      BY <1>2 DEF Orderly, Apart, Advance
    <3>2. \A k, l \in K : Below[k] \cap Below[l] # {} => k = l
      BY <1>1, KidsAreApart DEF Advance
    <3>3. \A k, l \in Open(W, i) : Below[k] \cap Below[l] # {} => k = l
      BY DEF Orderly, Apart, Advance
    <3>4. QED
      BY <2>1, <3>1, <3>2, <3>3 DEF Advance
  <2>2. QED
    BY <2>1 DEF Orderly, Apart, Advance
<1>4. Inside(V, p)
  <2>1. m \in Below[p[i]]
    BY DEF Orderly, Inside, Advance
  <2>2. K \subseteq Below[p[i]]
    BY <1>1, <1>2, <2>1, BelowIsTransitive
  <2>3. QED
    BY <2>2 DEF Orderly, Inside, Advance
<1>5. QED
  BY <1>3, <1>4 DEF Orderly

\* What is expected was expected before; what was is, or is m.
LEMMA AdvanceExpects ==
  ASSUME NEW p, p \in Seq(Node), NEW W, NEW V, Orderly(W, p),
         NEW i, NEW m, NEW K, Advance(W, V, p, i, m, K), NEW E
  PROVE  /\ \A r, n : Expected(E, V, p, r, n) => Expected(E, W, p, r, n)
         /\ K = Enter(m) =>
              \A r, n : Expected(E, W, p, r, n) =>
                 \/ Expected(E, V, p, r, n)
                 \/ n = m /\ r = p[i]
         /\ Expected(E, W, p, p[i], m)
<1>1. /\ m \in Node /\ i \in DOMAIN p /\ m \in Open(W, i)
      /\ m \in Below[m] /\ Open(W, i) \subseteq Node
  BY BelowIsLeast DEF Advance, Open
<1>2. \A k \in K : Below[k] \subseteq Below[m]
  BY <1>1, EnteredIsBelow DEF Advance
<1>3. ASSUME NEW r, NEW n, Expected(E, V, p, r, n)
      PROVE  Expected(E, W, p, r, n)
  <2>1. ASSUME NEW j \in DOMAIN p, p[j] = r, NEW a \in Open(V, j),
               n \in Below[a]
        PROVE  Expected(E, W, p, r, n)
    <3>1. CASE j # i \/ a \in Open(W, i)
      BY <2>1, <3>1 DEF Expected, Advance
    <3>2. CASE j = i /\ a \in K
      <4>1. n \in Below[m]
        BY <1>2, <2>1, <3>2
      <4>2. QED
        BY <1>1, <2>1, <3>2, <4>1 DEF Expected
    <3>3. QED
      BY <2>1, <3>1, <3>2 DEF Advance
  <2>2. QED
    BY <1>3, <2>1 DEF Expected
<1>4. ASSUME K = Enter(m), NEW r, NEW n, Expected(E, W, p, r, n)
      PROVE  Expected(E, V, p, r, n) \/ (n = m /\ r = p[i])
  <2>1. ASSUME NEW j \in DOMAIN p, p[j] = r, NEW a \in Open(W, j),
               n \in Below[a]
        PROVE  Expected(E, V, p, r, n) \/ (n = m /\ r = p[i])
    <3>1. CASE j # i \/ a # m
      BY <2>1, <3>1 DEF Expected, Advance
    <3>2. CASE j = i /\ a = m
      <4>1. n = m \/ \E k \in K : n \in Below[k]
        BY <1>1, <1>4, <2>1, <3>2, BelowByEntering
      <4>2. K \subseteq Open(V, i)
        BY DEF Advance
      <4>3. QED
        BY <1>1, <2>1, <3>2, <4>1, <4>2 DEF Expected
    <3>3. QED
      BY <3>1, <3>2
  <2>2. QED
    BY <1>4, <2>1 DEF Expected
<1>5. Expected(E, W, p, p[i], m)
  BY <1>1 DEF Expected
<1>6. QED
  BY <1>3, <1>4, <1>5

\* And m is expected no more, if no other goroutines look at its path.
LEMMA AdvanceSettles ==
  ASSUME NEW p, p \in Seq(Node), NEW W, NEW V, Orderly(W, p),
         NEW i, NEW m, NEW K, Advance(W, V, p, i, m, K), NEW E,
         p[i] \notin E, \A j \in DOMAIN p : p[j] = p[i] => j = i
  PROVE  ~Expected(E, V, p, p[i], m)
<1>1. /\ m \in Node /\ i \in DOMAIN p /\ m \in Open(W, i)
      /\ m \in Below[m] /\ Open(W, i) \subseteq Node
  BY BelowIsLeast DEF Advance, Open
<1>2. \A k \in K : m \notin Below[k]
  BY <1>1, TreeAssumption DEF Advance
<1>3. SUFFICES ASSUME Expected(E, V, p, p[i], m)
               PROVE  FALSE
  OBVIOUS
<1>4. PICK a \in Open(V, i) : m \in Below[a]
  BY <1>3 DEF Expected
<1>5. a \in Open(W, i) /\ a # m
  BY <1>2, <1>4 DEF Advance
<1>6. QED
  BY <1>1, <1>4, <1>5 DEF Orderly, Apart

\* Lists that lose entries stay in order, and nothing new is expected.
LEMMA EntriesDropped ==
  ASSUME NEW p, p \in Seq(Node), NEW W, NEW V, Orderly(W, p), NEW w \in W,
         NEW S, V = (W \ {w}) \cup S, \A v \in S : v.todo = {}
  PROVE  /\ Orderly(V, p)
         /\ \A E, r, n : Expected(E, V, p, r, n) => Expected(E, W, p, r, n)
         /\ w.todo = {} =>
              \A E, r, n : Expected(E, W, p, r, n) => Expected(E, V, p, r, n)
<1>1. \A i : Open(V, i) \subseteq Open(W, i)
  BY DEF Open
<1>2. w.todo = {} => \A i : Open(V, i) = Open(W, i)
  BY DEF Open
<1>3. Single(V) /\ Listing(V)
  BY DEF Orderly, Single, Listing
<1>4. Apart(V, p) /\ Inside(V, p)
  BY <1>1 DEF Orderly, Apart, Inside
<1>5. QED
  BY <1>1, <1>2, <1>3, <1>4 DEF Orderly, Expected

-----------------------------------------------------------------------------
(* The steps.                                                              *)

\* Roots are Nodes, and finitely many.
LEMMA SettledCount ==
  ASSUME NEW S, NEW T, S \subseteq T, T \subseteq Roots
  PROVE  /\ Cardinality(S) \in Nat /\ Cardinality(T) \in Nat
         /\ Cardinality(S) <= Cardinality(T)
         /\ \A r \in T : r \notin S => Cardinality(S) + 1 <= Cardinality(T)
<1>1. IsFiniteSet(T) /\ IsFiniteSet(S)
  BY TreeAssumption, FS_Subset
<1>2. /\ Cardinality(S) \in Nat /\ Cardinality(T) \in Nat
      /\ Cardinality(S) <= Cardinality(T)
  BY <1>1, FS_CardinalityType, FS_Subset
<1>3. ASSUME NEW r \in T, r \notin S
      PROVE  Cardinality(S) + 1 <= Cardinality(T)
  <2>1. IsFiniteSet(S \cup {r}) /\ Cardinality(S \cup {r}) = Cardinality(S) + 1
    BY <1>1, <1>3, FS_AddElement
  <2>2. Cardinality(S \cup {r}) <= Cardinality(T)
    BY <1>1, <1>3, FS_Subset
  <2>3. QED
    BY <2>1, <2>2
<1>4. QED
  BY <1>2, <1>3

\* What the command's search has found, and expects, is as it was, whatever
\* another search does.
LEMMA FoundFrame ==
  ASSUME IInv, FoundInv,
         UNCHANGED <<kind, broken, paths>>,
         walkers'["command"] = walkers["command"],
         early'["command"] = early["command"],
         sent'["command"] = sent["command"],
         reported'["command"] = reported["command"],
         pc'["command"] = pc["command"],
         reader' = "none" <=> reader = "none",
         pc["command"] # "waiting" =>
           reader' # "reads" \/ pc'["reference"] = "ended"
  PROVE  FoundInv'
<1>1. Divided'
  BY DEF FoundInv, Divided, Files
<1>2. Goroutines'
  BY DEF FoundInv, Goroutines
<1>3. PathsKnown'
  BY DEF FoundInv, PathsKnown, Looked, Alone, Existing
<1>4. NothingIsLost'
  BY DEF FoundInv, NothingIsLost, Sending, Kubeconfigs
<1>5. NothingIsRepeated'
  BY DEF FoundInv, NothingIsRepeated, Sending, Alone, Settled, Kubeconfigs
<1>6. QED
  BY <1>1, <1>2, <1>3, <1>4, <1>5 DEF FoundInv

\* A step of the command's search keeps the invariant, if nothing becomes
\* expected, what is expected no more has been sent, and what is sent was
\* expected from a path that expects it no more.
LEMMA FoundStep ==
  ASSUME IInv, FoundInv, Sending, Sending',
         UNCHANGED <<kind, broken, paths, reader>>,
         pc'["reference"] = pc["reference"],
         reported'["command"] = reported["command"],
         NEW E, NEW V, NEW s, NEW m,
         early'["command"] = E, walkers'["command"] = V,
         sent'["command"] = s,
         Divided', Orderly(V, paths),
         \A r, n : Expected(E, V, paths, r, n) =>
            Expected(early["command"], walkers["command"], paths, r, n),
         ~reported["command"] /\ broken = {} =>
           \A r \in Roots : \A n \in Kubeconfigs(r) :
             Expected(early["command"], walkers["command"], paths, r, n) =>
               Expected(E, V, paths, r, n) \/ s[n] > 0,
         \/ s = sent["command"]
         \/ /\ m \in Node /\ s = [sent["command"] EXCEPT ![m] = @ + 1]
            /\ Form[m] = "leaf" /\ ~reported["command"] /\ Alone =>
                 \E r \in Roots :
                   /\ m \in Kubeconfigs(r)
                   /\ Expected(early["command"], walkers["command"], paths,
                               r, m)
                   /\ ~Expected(E, V, paths, r, m)
  PROVE  FoundInv'
<1> DEFINE E0 == early["command"]
           W0 == walkers["command"]
           s0 == sent["command"]
<1>1. Goroutines'
  BY DEF Goroutines
<1>2. PathsKnown'
  BY DEF FoundInv, PathsKnown, Looked, Alone, Existing, Sending
<1>3. s0 \in [Node -> Nat] /\ Search = {"reference", "command"}
  BY DEF IInv, TypeOK, Search
<1>4. s \in [Node -> Nat] /\ \A n \in Node : s0[n] <= s[n]
  BY <1>3
<1>5. \A r \in Roots : Kubeconfigs(r) \subseteq Node
  BY TreeAssumption, BelowIsLeast DEF Kubeconfigs
<1>6. \A r : Kubeconfigs(r)' = Kubeconfigs(r)
  BY DEF Kubeconfigs
<1>7. NothingIsLost'
  <2> SUFFICES ASSUME ~reported["command"], broken = {}, NEW r \in Roots,
                      NEW n \in Kubeconfigs(r)
               PROVE  s[n] > 0 \/ Expected(E, V, paths, r, n)
    BY <1>6 DEF NothingIsLost
  <2>1. s0[n] > 0 \/ Expected(E0, W0, paths, r, n)
    BY DEF FoundInv, NothingIsLost
  <2>2. s0[n] > 0 => s[n] > 0
    BY <1>3, <1>4, <1>5
  <2>3. QED
    BY <2>1, <2>2
<1>8. NothingIsRepeated'
  <2> SUFFICES ASSUME ~reported["command"], Alone, NEW n \in Node,
                      Form[n] = "leaf"
               PROVE  s[n] <= Cardinality(Settled(E, V, paths, n))
    BY <1>6 DEF NothingIsRepeated, Alone, Settled
  <2> DEFINE S == Settled(E0, W0, paths, n)
             T == Settled(E, V, paths, n)
  <2>1. S \subseteq T /\ T \subseteq Roots
    BY DEF Settled
  <2>2. s0[n] <= Cardinality(S)
    BY DEF FoundInv, NothingIsRepeated
  <2>3. ASSUME NEW r \in Roots, n \in Kubeconfigs(r),
               Expected(E0, W0, paths, r, n), ~Expected(E, V, paths, r, n)
        PROVE  r \in T /\ r \notin S
    BY <2>3 DEF Settled
  <2> HIDE DEF S, T
  <2>4. ASSUME s[n] = s0[n]
        PROVE  s[n] <= Cardinality(T)
    BY <1>3, <2>1, <2>2, <2>4, SettledCount
  <2>5. ASSUME s[n] # s0[n]
        PROVE  s[n] <= Cardinality(T)
    <3>1. n = m /\ s[n] = s0[n] + 1
      BY <1>3, <2>5
    <3>2. \E r \in T : r \notin S
      BY <2>3, <2>5, <3>1
    <3>3. Cardinality(S) + 1 <= Cardinality(T)
      BY <2>1, <3>2, SettledCount
    <3>4. QED
      BY <1>3, <2>1, <2>2, <3>1, <3>3, SettledCount
  <2>6. QED
    BY <2>4, <2>5 DEF T
<1>9. QED
  BY <1>1, <1>2, <1>7, <1>8 DEF FoundInv

\* At the start nothing has been looked up or found.
LEMMA FoundInit == Init => FoundInv
<1> SUFFICES ASSUME Init
             PROVE  FoundInv
  OBVIOUS
<1>1. /\ paths = << >> /\ pc["command"] = "waiting" /\ early["command"] = {}
      /\ walkers["command"] = {} /\ \A n \in Node : sent["command"][n] = 0
  BY DEF Init, Search
<1>2. Divided
  BY <1>1 DEF Divided
<1>3. Goroutines
  BY <1>1 DEF Goroutines, Orderly, Single, Apart, Inside, Listing, Open
<1>4. PathsKnown
  BY <1>1 DEF PathsKnown, Looked
<1>5. NothingIsLost
  BY <1>1 DEF NothingIsLost, Sending
<1>6. \A n \in Node :
        sent["command"][n] <=
           Cardinality(Settled(early["command"], walkers["command"], paths, n))
  <2> TAKE n \in Node
  <2> DEFINE T == Settled(early["command"], walkers["command"], paths, n)
  <2>1. T \subseteq Roots
    BY DEF Settled
  <2> HIDE DEF T
  <2>2. Cardinality(T) \in Nat
    BY <2>1, SettledCount
  <2>3. sent["command"][n] <= Cardinality(T)
    BY <1>1, <2>2
  <2>4. QED
    BY <2>3 DEF T
<1>7. NothingIsRepeated
  BY <1>1, <1>6 DEF NothingIsRepeated
<1>8. QED
  BY <1>2, <1>3, <1>4, <1>5, <1>7 DEF FoundInv

\* What is known before the command's search sends anything.
LEMMA FoundBefore ==
  ASSUME IInv, FoundInv, ~Sending, ~Sending' \/ reported'["command"],
         early'["command"] = {}, walkers'["command"] = {},
         sent'["command"] = sent["command"], PathsKnown'
  PROVE  FoundInv'
<1>1. Divided'
  BY DEF Divided
<1>2. Goroutines'
  BY DEF Goroutines, Orderly, Single, Apart, Inside, Listing, Open
<1>3. NothingIsLost'
  BY DEF NothingIsLost
<1>4. \A n \in Node : sent["command"][n] = 0
  BY DEF FoundInv, NothingIsRepeated
<1>5. \A n \in Node :
        sent["command"][n] <=
          Cardinality(Settled(early["command"], walkers["command"], paths, n))'
  <2> TAKE n \in Node
  <2> DEFINE T ==
        Settled(early["command"], walkers["command"], paths, n)'
  <2>1. T \subseteq Roots
    BY DEF Settled
  <2> HIDE DEF T
  <2>2. Cardinality(T) \in Nat
    BY <2>1, SettledCount
  <2>3. sent["command"][n] <= Cardinality(T)
    BY <1>4, <2>2
  <2>4. QED
    BY <2>3 DEF T
<1>6. NothingIsRepeated'
  BY <1>4, <1>5 DEF NothingIsRepeated
<1>7. QED
  BY <1>1, <1>2, <1>3, <1>6, PathsKnown' DEF FoundInv

\* The paths of an earlier look come first, and all are still there.
LEMMA PathsAppended ==
  ASSUME NEW p \in Seq(Node), NEW q \in Seq(Node)
  PROVE  /\ \A i \in DOMAIN (p \o q) :
              \/ \E j \in DOMAIN p : (p \o q)[i] = p[j]
              \/ \E j \in DOMAIN q : (p \o q)[i] = q[j]
         /\ \A j \in DOMAIN q : \E i \in DOMAIN (p \o q) : (p \o q)[i] = q[j]
         /\ p = << >> => p \o q = q
<1>1. /\ DOMAIN p = 1 .. Len(p) /\ DOMAIN q = 1 .. Len(q)
      /\ DOMAIN (p \o q) = 1 .. Len(p) + Len(q)
      /\ Len(p) \in Nat /\ Len(q) \in Nat
  OBVIOUS
<1>2. \A i \in 1 .. Len(p) + Len(q) :
        (p \o q)[i] = IF i <= Len(p) THEN p[i] ELSE q[i - Len(p)]
  OBVIOUS
<1>3. ASSUME NEW i \in 1 .. Len(p) + Len(q)
      PROVE  \/ \E j \in DOMAIN p : (p \o q)[i] = p[j]
             \/ \E j \in DOMAIN q : (p \o q)[i] = q[j]
  <2>1. CASE i <= Len(p)
    BY <1>1, <1>2, <2>1
  <2>2. CASE i > Len(p)
    <3>1. i - Len(p) \in 1 .. Len(q) /\ (p \o q)[i] = q[i - Len(p)]
      BY <1>1, <1>2, <2>2
    <3>2. QED
      BY <1>1, <3>1
  <2>3. QED
    BY <1>1, <2>1, <2>2
<1>4. ASSUME NEW j \in 1 .. Len(q)
      PROVE  \E i \in DOMAIN (p \o q) : (p \o q)[i] = q[j]
  <2>1. /\ Len(p) + j \in 1 .. Len(p) + Len(q)
        /\ (p \o q)[Len(p) + j] = q[(Len(p) + j) - Len(p)]
        /\ (Len(p) + j) - Len(p) = j
    BY <1>1, <1>2
  <2>2. QED
    BY <1>1, <2>1
<1>5. p = << >> => p \o q = q
  OBVIOUS
<1>6. QED
  BY <1>1, <1>3, <1>4, <1>5

\* The paths are looked up, for either search.
LEMMA VerifiedFound ==
  ASSUME IInv, FoundInv, NEW x \in Search, Verify(x) \/ VerifyFails(x)
  PROVE  FoundInv'
<1>1. /\ pc[x] = "begins" /\ (x = "reference" => reader = "reads")
      /\ UNCHANGED <<kind, broken, early, walkers, sent, reader>>
  BY DEF Verify, VerifyFails, Begins, tree
<1>2. /\ pc \in [Search -> {"waiting", "begins", "verified", "early",
                            "running", "ended"}]
      /\ reported \in [Search -> BOOLEAN] /\ paths \in Seq(Node)
      /\ kind \in {"filesystem", "vault"}
  BY DEF IInv, TypeOK
<1>3. pc["command"] \in {"waiting", "begins"}
  BY <1>1 DEF FoundInv, PathsKnown, Search
<1>4. /\ ~Sending /\ ~Looked
      /\ early["command"] = {} /\ walkers["command"] = {}
  BY <1>3 DEF Sending, Looked, IInv, Phases, Search
<1>5. /\ paths' \in Seq(Node)
      /\ \A i \in DOMAIN paths' : paths'[i] \in Roots
      /\ Verify(x) =>
           \A r \in Existing : \E i \in DOMAIN paths' : paths'[i] = r
      /\ Verify(x) /\ (kind = "filesystem" \/ paths = << >>) =>
           \A i, j \in DOMAIN paths' : paths'[i] = paths'[j] => i = j
  <2>1. \A i \in DOMAIN paths : paths[i] \in Roots
    BY DEF FoundInv, PathsKnown
  <2>2. /\ \A S \in SUBSET Roots : IsFiniteSet(S) /\ S \subseteq Node
        /\ Existing \subseteq Roots
    BY TreeAssumption, FS_Subset DEF Existing
  <2>3. CASE kind = "vault"
    <3>1. PICK S \in SUBSET Roots :
            /\ paths' = paths \o InSomeOrder(S)
            /\ Verify(x) => S = Roots
      BY <2>3 DEF Verify, VerifyFails
    <3> DEFINE q == InSomeOrder(S)
    <3>2. /\ q \in Seq(Node)
          /\ \A i \in DOMAIN q : q[i] \in S
          /\ \A n \in S : \E i \in DOMAIN q : q[i] = n
          /\ \A i, j \in DOMAIN q : q[i] = q[j] => i = j
      BY <2>2, <3>1, OrderedNodes
    <3> HIDE DEF q
    <3>3. paths' = paths \o q
      BY <3>1 DEF q
    <3>4. paths' \in Seq(Node)
      BY <1>2, <3>2, <3>3
    <3>5. \A i \in DOMAIN paths' : paths'[i] \in Roots
      BY <1>2, <2>1, <3>1, <3>2, <3>3, PathsAppended
    <3>6. \A n \in S : \E i \in DOMAIN paths' : paths'[i] = n
      <4>1. \A j \in DOMAIN q :
              \E i \in DOMAIN (paths \o q) : (paths \o q)[i] = q[j]
        BY <1>2, <3>2, PathsAppended
      <4>2. QED
        BY <3>2, <3>3, <4>1
    <3>7. paths = << >> => paths' = q
      BY <1>2, <3>2, <3>3, PathsAppended
    <3>8. QED
      BY <2>2, <2>3, <3>1, <3>2, <3>4, <3>5, <3>6, <3>7
  <2>4. CASE kind = "filesystem" /\ ~Verify(x)
    <3>1. paths' = paths
      BY <1>2, <2>4 DEF VerifyFails
    <3>2. QED
      BY <1>2, <2>1, <2>4, <3>1
  <2>5. CASE kind = "filesystem" /\ Verify(x)
    <3>1. paths' = InSomeOrder(Existing)
      BY <2>5 DEF Verify
    <3>2. QED
      BY <2>2, <3>1, OrderedNodes
  <2>6. QED
    BY <1>2, <2>3, <2>4, <2>5
<1>6. CASE x = "reference"
  <2>1. pc'["command"] = "waiting" /\ reader' = "reads"
    <3>1. pc["command"] = "waiting"
      BY <1>1, <1>6 DEF FoundInv, PathsKnown
    <3>2. QED
      BY <1>1, <1>2, <1>6, <3>1 DEF Verify, VerifyFails, Go, Search
  <2>2. ~Sending' /\ PathsKnown'
    BY <1>5, <2>1 DEF Sending, PathsKnown, Looked
  <2>3. QED
    BY <1>1, <1>4, <2>2, FoundBefore
<1>7. CASE x = "command"
  <2>1. pc["command"] = "begins"
    BY <1>1, <1>7
  <2>2. \/ Verify(x) /\ pc'["command"] = "verified"
        \/ reported'["command"]
    BY <1>2, <1>7 DEF Verify, VerifyFails, Go, Search
  <2>3. pc'["reference"] = pc["reference"]
    BY <1>2, <1>7 DEF Verify, VerifyFails, Go, Search
  <2>4. pc'["command"] \in {"verified", "ended"}
    BY <1>2, <1>7 DEF Verify, VerifyFails, Go, Search
  <2>5. ~Sending' \/ reported'["command"]
    BY <2>2 DEF Sending
  <2>6. PathsKnown'
    <3>1. reader' # "reads" \/ pc'["reference"] = "ended"
      BY <1>1, <2>1, <2>3 DEF FoundInv, PathsKnown
    <3>2. Looked'
      BY <2>4 DEF Looked
    <3>3. Alone' => kind = "filesystem" \/ paths = << >>
      BY <1>1, <1>4 DEF Alone, FoundInv, PathsKnown
    <3>4. Existing' = Existing
      BY DEF Existing
    <3>5. QED
      BY <1>5, <2>2, <3>1, <3>2, <3>3, <3>4 DEF PathsKnown
  <2>7. QED
    BY <1>1, <1>4, <2>5, <2>6, FoundBefore
<1>8. QED
  BY <1>6, <1>7 DEF Search

\* The command begins its search; or a result is taken.
LEMMA BegunFound ==
  ASSUME IInv, FoundInv, BeginSearch \/ Take
  PROVE  FoundInv'
<1>1. CASE BeginSearch
  <2>1. /\ pc["command"] = "waiting"
        /\ pc' = [pc EXCEPT !["command"] = "begins"]
        /\ reader # "reads" \/ pc["reference"] = "ended"
        /\ UNCHANGED <<kind, paths, early, walkers, sent, reader, reported>>
    BY <1>1 DEF BeginSearch, Go, tree
  <2>2. pc'["command"] = "begins" /\ pc'["reference"] = pc["reference"]
    BY <2>1 DEF IInv, TypeOK, Search
  <2>3. /\ ~Sending /\ ~Sending'
        /\ early["command"] = {} /\ walkers["command"] = {}
    BY <2>1, <2>2 DEF Sending, IInv, Phases, Search
  <2>4. PathsKnown'
    BY <2>1, <2>2 DEF FoundInv, PathsKnown, Looked
  <2>5. QED
    BY <2>1, <2>3, <2>4, FoundBefore
<1>2. CASE Take
  <2>1. /\ reader = "reads" /\ reader' \in {"reads", "left"}
        /\ UNCHANGED <<kind, broken, paths, pc, early, walkers, sent,
                       reported>>
    BY <1>2 DEF Take, tree
  <2>2. pc["command"] # "waiting" => pc["reference"] = "ended"
    BY <2>1 DEF FoundInv, PathsKnown
  <2>3. QED
    BY <2>1, <2>2, FoundFrame
<1>3. QED
  BY <1>1, <1>2

\* A search for a reference does not touch what the command's search has found.
LEMMA ReferenceFound ==
  ASSUME IInv, FoundInv, NEW x \in Search, x = "reference",
         StartSearch(x) \/ SendEarly(x) \/ Walk(x) \/ EndSearch(x)
  PROVE  FoundInv'
<1>1. /\ UNCHANGED <<kind, broken, paths, reader>>
      /\ walkers'["command"] = walkers["command"]
      /\ early'["command"] = early["command"]
      /\ sent'["command"] = sent["command"]
      /\ reported'["command"] = reported["command"]
      /\ pc'["command"] = pc["command"]
      /\ pc["reference"] = "ended" => pc'["reference"] = "ended"
  <2>1. /\ pc \in [Search -> {"waiting", "begins", "verified", "early",
                              "running", "ended"}]
        /\ early \in [Search -> SUBSET Node]
        /\ sent \in [Search -> [Node -> Nat]]
        /\ reported \in [Search -> BOOLEAN]
        /\ "command" \in Search /\ x # "command"
    BY DEF IInv, TypeOK, Search
  <2>2. DOMAIN walkers = Search
    BY DEF IInv, TypeOK
  <2>3. CASE StartSearch(x)
    BY <2>1, <2>2, <2>3 DEF StartSearch, Go, tree
  <2>4. CASE SendEarly(x)
    BY <2>1, <2>2, <2>4 DEF SendEarly, Send, Go, tree
  <2>5. CASE Walk(x)
    <3>1. PICK w \in Active(x) :
            ListVault(x, w) \/ VisitVault(x, w) \/ WalkFiles(x, w)
              \/ WalkFails(x, w) \/ Done(x, w)
      BY <2>5 DEF Walk
    <3>2. UNCHANGED <<kind, broken, paths, pc, early, reader>>
      BY <3>1, WalkFrame
    <3>3. \E S : walkers' = [walkers EXCEPT ![x] = S]
      BY <3>1 DEF ListVault, VisitVault, WalkFiles, WalkFails, Done, Becomes
    <3>4. sent' = sent \/ \E n : sent' = [sent EXCEPT ![x][n] = @ + 1]
      BY <3>1
         DEF ListVault, VisitVault, WalkFiles, WalkFails, Done, Send
    <3>5. reported' = reported \/ reported' = [reported EXCEPT ![x] = TRUE]
      BY <3>1 DEF ListVault, VisitVault, WalkFiles, WalkFails, Done
    <3>6. QED
      BY <2>1, <2>2, <3>2, <3>3, <3>4, <3>5
  <2>6. CASE EndSearch(x)
    BY <2>1, <2>2, <2>6 DEF EndSearch, Go, tree
  <2>7. QED
    BY <2>3, <2>4, <2>5, <2>6
<1>2. pc["command"] # "waiting" =>
        reader # "reads" \/ pc["reference"] = "ended"
  BY DEF FoundInv, PathsKnown
<1>3. QED
  BY <1>1, <1>2, FoundFrame

\* The goroutines are started: of each path its file is to be sent, or a
\* goroutine is to look at it.
LEMMA StartedFound ==
  ASSUME IInv, FoundInv, StartSearch("command")
  PROVE  FoundInv'
<1> DEFINE E == {paths[i] : i \in Files}
           V == {Walker(i, paths[i], {"itself"}) : i \in DOMAIN paths \ Files}
<1>1. /\ pc["command"] = "verified" /\ pc' = [pc EXCEPT !["command"] = "early"]
      /\ early' = [early EXCEPT !["command"] = E]
      /\ walkers' = [walkers EXCEPT !["command"] = V]
      /\ UNCHANGED <<kind, broken, paths, sent, reported, reader>>
  BY DEF StartSearch, Go, tree
<1>2. "command" \in Search /\ paths \in Seq(Node)
  BY DEF Search, IInv, TypeOK
<1>3. /\ pc'["command"] = "early" /\ pc'["reference"] = pc["reference"]
      /\ early'["command"] = E /\ walkers'["command"] = V
  BY <1>1 DEF IInv, TypeOK, Search
<1>4. /\ \A w \in V : /\ w.of \in DOMAIN paths \ Files
                      /\ w.at = paths[w.of] /\ w.todo = {"itself"}
      /\ \A i \in DOMAIN paths \ Files : \E w \in V : w.of = i
      /\ \A v, w \in V : v.of = w.of => v = w
  <2> DEFINE D == DOMAIN paths \ Files
             W(i) == Walker(i, paths[i], {"itself"})
  <2>1. \A i : W(i).of = i /\ W(i).at = paths[i] /\ W(i).todo = {"itself"}
    BY DEF Walker
  <2>2. V = {W(i) : i \in D}
    OBVIOUS
  <2> HIDE DEF W, V, D
  <2>3. \A w \in V : w.of \in D /\ w = W(w.of)
    BY <2>1, <2>2
  <2>4. /\ \A w \in V : w.of \in D /\ w.at = paths[w.of] /\ w.todo = {"itself"}
        /\ \A i \in D : \E w \in V : w.of = i
        /\ \A v, w \in V : v.of = w.of => v = w
    <3>1. \A w \in V :
            w.of \in D /\ w.at = paths[w.of] /\ w.todo = {"itself"}
      BY <2>1, <2>3
    <3>2. \A i \in D : \E w \in V : w.of = i
      BY <2>1, <2>2
    <3>3. \A v, w \in V : v.of = w.of => v = w
      BY <2>3
    <3>4. QED
      BY <3>1, <3>2, <3>3
  <2>5. QED
    BY <2>4 DEF D
<1> HIDE DEF V
<1>5. \A i \in DOMAIN paths : paths[i] \in Node
  BY <1>2
<1>6. /\ \A i \in DOMAIN paths \ Files : Open(V, i) = {paths[i]}
      /\ \A i \in Files : Open(V, i) = {}
  BY <1>4, <1>5 DEF Open, Aim, Files
<1>7. Divided'
  BY <1>1, <1>3, <1>4 DEF Divided, Files
<1>8. Goroutines'
  <2>1. Single(V) /\ Listing(V)
    BY <1>4 DEF Single, Listing
  <2>2. \A i \in DOMAIN paths : Open(V, i) \subseteq {paths[i]}
    BY <1>6
  <2>3. Apart(V, paths)
    BY <2>2 DEF Apart
  <2>4. Inside(V, paths)
    BY <1>5, <2>2, BelowIsLeast DEF Inside
  <2>5. QED
    BY <1>1, <1>3, <2>1, <2>3, <2>4 DEF Goroutines, Orderly
<1>9. PathsKnown'
  <2>1. Looked
    BY <1>1 DEF Looked
  <2>2. Existing' = Existing /\ Alone' = Alone
    BY <1>1 DEF Existing, Alone
  <2>3. Looked'
    BY <1>3 DEF Looked
  <2>4. QED
    BY <1>1, <1>3, <2>1, <2>2, <2>3 DEF FoundInv, PathsKnown
<1>10. NothingIsLost'
  <2> SUFFICES ASSUME ~reported["command"], NEW r \in Roots,
                      NEW n \in Kubeconfigs(r)
               PROVE  Expected(E, V, paths, r, n)
    BY <1>1, <1>3 DEF NothingIsLost, Kubeconfigs
  <2>1. r \in Node /\ n \in Below[r] /\ Form[n] = "leaf"
    BY TreeAssumption DEF Kubeconfigs
  <2>2. Form[r] # "dir" => n = r
    BY <2>1, BelowByEntering DEF Enter
  <2>3. r \in Existing
    BY <2>1, <2>2 DEF Existing
  <2>4. PICK i \in DOMAIN paths : paths[i] = r
    BY <1>1, <2>3 DEF FoundInv, PathsKnown, Looked
  <2>5. CASE i \in Files
    <3>1. n = r
      BY <2>2, <2>4, <2>5 DEF Files
    <3>2. QED
      BY <2>4, <2>5, <3>1 DEF Expected
  <2>6. CASE i \notin Files
    BY <1>6, <2>1, <2>4, <2>6 DEF Expected
  <2>7. QED
    BY <2>5, <2>6
<1>11. NothingIsRepeated'
  <2>1. \A n \in Node : sent["command"][n] = 0
    BY <1>1 DEF FoundInv, NothingIsRepeated, Sending
  <2>2. \A n \in Node :
          sent["command"][n] <=
            Cardinality(Settled(early["command"], walkers["command"], paths,
                                n))'
    <3> TAKE n \in Node
    <3> DEFINE T ==
          Settled(early["command"], walkers["command"], paths, n)'
    <3>1. T \subseteq Roots
      BY DEF Settled
    <3> HIDE DEF T
    <3>2. Cardinality(T) \in Nat
      BY <3>1, SettledCount
    <3>3. sent["command"][n] <= Cardinality(T)
      BY <2>1, <3>2
    <3>4. QED
      BY <3>3 DEF T
  <2>3. QED
    BY <1>1, <2>1, <2>2 DEF NothingIsRepeated
<1>12. QED
  BY <1>7, <1>8, <1>9, <1>10, <1>11 DEF FoundInv

\* A step that finds nothing.
LEMMA NothingFound ==
  ASSUME IInv, FoundInv, Sending, Sending',
         UNCHANGED <<kind, broken, paths, reader>>,
         pc'["reference"] = pc["reference"],
         early'["command"] = early["command"],
         walkers'["command"] = walkers["command"],
         sent'["command"] = sent["command"],
         reported'["command"] = reported["command"]
  PROVE  FoundInv'
<1>1. Divided' /\ Orderly(walkers["command"], paths)
  BY DEF FoundInv, Goroutines, Divided, Files
<1>2. QED
  BY <1>1, FoundStep

\* The files among the paths are sent, each for the path that it is.
LEMMA SentEarlyFound ==
  ASSUME IInv, FoundInv, SendEarly("command") \/ EndSearch("command")
  PROVE  FoundInv'
<1> DEFINE c == "command"
           W == walkers[c]
<1>1. /\ pc \in [Search -> {"waiting", "begins", "verified", "early",
                            "running", "ended"}]
      /\ early \in [Search -> SUBSET Node]
      /\ sent \in [Search -> [Node -> Nat]]
      /\ "command" \in Search /\ paths \in Seq(Node)
  BY DEF IInv, TypeOK, Search
<1>2. CASE EndSearch(c)
  <2>1. /\ pc[c] = "running" /\ pc' = [pc EXCEPT ![c] = "ended"]
        /\ UNCHANGED <<kind, broken, paths, early, walkers, sent, reported,
                       reader>>
    BY <1>2 DEF EndSearch, Go, tree
  <2>2. /\ pc'["reference"] = pc["reference"] /\ Sending /\ Sending'
    BY <1>1, <2>1 DEF Sending
  <2>3. QED
    BY <2>1, <2>2, NothingFound
<1>3. CASE SendEarly(c) /\ early[c] = {}
  <2>1. /\ pc[c] = "early" /\ pc' = [pc EXCEPT ![c] = "running"]
        /\ UNCHANGED <<kind, broken, paths, early, walkers, sent, reported,
                       reader>>
    BY <1>3 DEF SendEarly, Go, tree
  <2>2. /\ pc'["reference"] = pc["reference"] /\ Sending /\ Sending'
    BY <1>1, <2>1 DEF Sending
  <2>3. QED
    BY <2>1, <2>2, NothingFound
<1>4. CASE SendEarly(c) /\ early[c] # {}
  <2>1. PICK n \in early[c] :
          /\ sent' = [sent EXCEPT ![c][n] = @ + 1]
          /\ early' = [early EXCEPT ![c] = @ \ {n}]
    BY <1>4 DEF SendEarly, Send
  <2>2. /\ pc[c] = "early" /\ pc' = pc /\ reported' = reported
        /\ UNCHANGED <<kind, broken, paths, walkers, reader>>
    BY <1>4 DEF SendEarly, tree
  <2> DEFINE E == early[c] \ {n}
             s == [sent[c] EXCEPT ![n] = @ + 1]
  <2>3. n \in Node /\ early'[c] = E /\ sent'[c] = s
    BY <1>1, <2>1
  <2>4. Sending /\ Sending'
    BY <2>2 DEF Sending
  <2>5. Divided' /\ Orderly(W, paths)
    BY <2>2, <2>3 DEF FoundInv, Goroutines, Divided, Files
  <2>6. \A r, k : Expected(E, W, paths, r, k) =>
                    Expected(early[c], W, paths, r, k)
    BY DEF Expected
  <2>7. \A r, k : Expected(early[c], W, paths, r, k) =>
                    Expected(E, W, paths, r, k) \/ (r = n /\ k = n)
    BY DEF Expected
  <2>8. s[n] > 0
    BY <1>1, <2>3
  <2>9. PICK i \in Files : paths[i] = n
    BY <2>1 DEF FoundInv, Divided
  <2>10. /\ kind = "filesystem" /\ Form[n] = "leaf" /\ n \in Roots
         /\ \A j \in DOMAIN paths : paths[j] = n => j \in Files
    BY <2>9 DEF Files, FoundInv, PathsKnown
  <2>11. n \in Kubeconfigs(n)
    BY <2>3, <2>10, BelowIsLeast DEF Kubeconfigs
  <2>12. Expected(early[c], W, paths, n, n)
    BY <2>1 DEF Expected
  <2>13. ~Expected(E, W, paths, n, n)
    <3>1. \A j \in Files : Open(W, j) = {}
      BY DEF FoundInv, Divided, Open
    <3>2. QED
      BY <2>10, <3>1 DEF Expected
  <2> HIDE DEF E, s
  <2>14. s = [sent["command"] EXCEPT ![n] = @ + 1]
    BY DEF s
  <2>15. QED
    BY <2>2, <2>3, <2>4, <2>5, <2>6, <2>7, <2>8, <2>10, <2>11, <2>12, <2>13,
       <2>14, FoundStep
<1>5. QED
  BY <1>2, <1>3, <1>4

\* A goroutine looks at the Node m of its path, and goes on with what it
\* enters from there: m is sent if it is a kubeconfig, unless it is one of the
\* files that were sent before.
LEMMA LookedFound ==
  ASSUME IInv, FoundInv, pc["command"] = "running",
         UNCHANGED <<kind, broken, paths, pc, early, reader>>,
         reported'["command"] = reported["command"],
         NEW V, walkers'["command"] = V, Single(V), Listing(V),
         \A w \in V : w.of \notin Files,
         NEW i, NEW m,
         Advance(walkers["command"], V, paths, i, m, Enter(m)),
         i \notin Files,
         NEW s, sent'["command"] = s,
         \/ /\ s = sent["command"]
            /\ Form[m] = "leaf" => kind # "vault" /\ m \notin Matching
         \/ /\ s = [sent["command"] EXCEPT ![m] = @ + 1]
            /\ kind = "vault" \/ m \in Matching
  PROVE  FoundInv'
<1> DEFINE E == early["command"]
           W == walkers["command"]
<1>1. /\ paths \in Seq(Node) /\ sent["command"] \in [Node -> Nat]
      /\ kind \in {"filesystem", "vault"}
  BY DEF IInv, TypeOK, Search
<1>2. Orderly(W, paths)
  BY DEF FoundInv, Goroutines
<1>3. Orderly(V, paths)
  BY <1>1, <1>2, AdvanceIsOrderly
<1>4. Divided'
  BY DEF FoundInv, Divided, Files
<1>5. Sending /\ Sending'
  BY DEF Sending
<1>6. /\ i \in DOMAIN paths /\ m \in Node /\ m \in Below[paths[i]]
      /\ paths[i] \in Roots
  BY <1>2 DEF Advance, Open, Orderly, Inside, FoundInv, PathsKnown
<1>7. /\ \A r, n : Expected(E, V, paths, r, n) => Expected(E, W, paths, r, n)
      /\ \A r, n : Expected(E, W, paths, r, n) =>
                     Expected(E, V, paths, r, n) \/ (n = m /\ r = paths[i])
      /\ Expected(E, W, paths, paths[i], m)
  <2> DEFINE K == Enter(m)
  <2>1. Advance(W, V, paths, i, m, K) /\ K = Enter(m)
    OBVIOUS
  <2> HIDE DEF E, W, K
  <2>2. \A r, n : Expected(E, V, paths, r, n) => Expected(E, W, paths, r, n)
    BY <1>1, <1>2, <2>1, AdvanceExpects
  <2>3. \A r, n : Expected(E, W, paths, r, n) =>
                    Expected(E, V, paths, r, n) \/ (n = m /\ r = paths[i])
    BY <1>1, <1>2, <2>1, AdvanceExpects
  <2>4. Expected(E, W, paths, paths[i], m)
    BY <1>1, <1>2, <2>1, AdvanceExpects
  <2>5. QED
    BY <2>2, <2>3, <2>4
<1>8. m \in Kubeconfigs(paths[i]) => s[m] > 0
  <2>1. ASSUME m \in Kubeconfigs(paths[i]), s = sent["command"],
               Form[m] = "leaf" => kind # "vault" /\ m \notin Matching
        PROVE  FALSE
    <3>1. Form[m] = "leaf" /\ kind = "filesystem" /\ m = paths[i]
      BY <1>1, <2>1 DEF Kubeconfigs
    <3>2. QED
      BY <1>6, <3>1 DEF Files
  <2>2. QED
    BY <1>1, <1>6, <2>1
<1>9. paths[i] \notin E
  BY <1>6 DEF FoundInv, Divided, Files
<1>10. ~reported["command"] /\ Alone => ~Expected(E, V, paths, paths[i], m)
  <2> SUFFICES ASSUME ~reported["command"], Alone
               PROVE  ~Expected(E, V, paths, paths[i], m)
    OBVIOUS
  <2>1. \A j \in DOMAIN paths : paths[j] = paths[i] => j = i
    BY <1>6 DEF FoundInv, PathsKnown, Looked
  <2> DEFINE K == Enter(m)
  <2>2. Advance(W, V, paths, i, m, K)
    OBVIOUS
  <2> HIDE DEF E, W, K
  <2>3. QED
    BY <1>1, <1>2, <1>9, <2>1, <2>2, AdvanceSettles
<1>11. /\ Form[m] = "leaf" /\ (kind = "vault" \/ m \in Matching)
            => m \in Kubeconfigs(paths[i])
  BY <1>6 DEF Kubeconfigs
<1>12. \/ s = sent["command"]
       \/ /\ m \in Node /\ s = [sent["command"] EXCEPT ![m] = @ + 1]
          /\ Form[m] = "leaf" /\ ~reported["command"] /\ Alone =>
               \E r \in Roots :
                 /\ m \in Kubeconfigs(r)
                 /\ Expected(E, W, paths, r, m)
                 /\ ~Expected(E, V, paths, r, m)
  BY <1>6, <1>7, <1>10, <1>11
<1>13. ~reported["command"] /\ broken = {} =>
         \A r \in Roots : \A n \in Kubeconfigs(r) :
           Expected(E, W, paths, r, n) =>
             Expected(E, V, paths, r, n) \/ s[n] > 0
  BY <1>7, <1>8
<1>14. QED
  BY <1>3, <1>4, <1>5, <1>7, <1>12, <1>13, FoundStep

\* The same, of a goroutine w and an entry e of its list.
LEMMA EntryFound ==
  ASSUME IInv, FoundInv, pc["command"] = "running",
         UNCHANGED <<kind, broken, paths, pc, early, reader>>,
         reported'["command"] = reported["command"],
         NEW w \in walkers["command"], NEW e \in w.todo,
         NEW v \in Goroutine(paths), v.of = w.of, v.at = w.at,
         v.todo = (w.todo \ {e}) \cup Enter(Aim(w, e)),
         Becomes("command", w, {v}),
         \/ /\ sent'["command"] = sent["command"]
            /\ Form[Aim(w, e)] = "leaf" =>
                 kind # "vault" /\ Aim(w, e) \notin Matching
         \/ /\ sent'["command"] =
                 [sent["command"] EXCEPT ![Aim(w, e)] = @ + 1]
            /\ kind = "vault" \/ Aim(w, e) \in Matching
  PROVE  FoundInv'
<1> DEFINE W == walkers["command"]
           V == (W \ {w}) \cup {v}
           m == Aim(w, e)
           K == Enter(m)
           i == w.of
           s == sent'["command"]
<1>1. W \subseteq Goroutine(paths) /\ Orderly(W, paths)
  BY DEF IInv, TypeOK, Goroutine, Search, FoundInv, Goroutines
<1>2. walkers'["command"] = V
  BY DEF Becomes, IInv, TypeOK, Search
<1>3. i \notin Files /\ \A u \in V : u.of \notin Files
  BY DEF FoundInv, Divided
<1>4. /\ Advance(W, V, paths, i, m, K)
      /\ Single(V) /\ Listing(V)
  <2>1. K \subseteq Enter(Aim(w, e)) /\ v.todo = (w.todo \ {e}) \cup K
    OBVIOUS
  <2>2. V = (W \ {w}) \cup {v} /\ w \in W
    OBVIOUS
  <2> HIDE DEF V, K, W
  <2>3. QED
    BY <1>1, <2>1, <2>2, EntryReplaced
<1>5. \/ /\ s = sent["command"]
         /\ Form[m] = "leaf" => kind # "vault" /\ m \notin Matching
      \/ /\ s = [sent["command"] EXCEPT ![m] = @ + 1]
         /\ kind = "vault" \/ m \in Matching
  OBVIOUS
<1> HIDE DEF V, m, i, s
<1>6. Advance(walkers["command"], V, paths, i, m, Enter(m))
  BY <1>4
<1>7. QED
  BY <1>2, <1>3, <1>4, <1>5, <1>6, LookedFound DEF s

\* ListVault: the list of a directory, or a secret, or an error that is only
\* logged, after which not all is found.
LEMMA ListedFound ==
  ASSUME IInv, FoundInv, NEW w \in Active("command"), ListVault("command", w)
  PROVE  FoundInv'
<1> DEFINE c == "command"
<1>1. /\ w \in walkers[c] /\ pc[c] = "running" /\ w \in Goroutine(paths)
      /\ UNCHANGED <<kind, broken, paths, pc, early, reader>>
      /\ kind = "vault" /\ "itself" \in w.todo /\ reported' = reported
      /\ c \in Search
  BY WalkFrame DEF ListVault, Search
<1>2. w.todo = {"itself"} /\ Aim(w, "itself") = w.at /\ w.at \in Node
  BY <1>1 DEF FoundInv, Goroutines, Orderly, Listing, Aim, Goroutine
<1>3. sent \in [Search -> [Node -> Nat]] /\ paths \in Seq(Node)
  BY DEF IInv, TypeOK
<1>4. CASE /\ Form[w.at] = "dir" /\ sent' = sent
           /\ Becomes(c, w, {[w EXCEPT !.todo = Kids[w.at]]})
  <2> DEFINE v == [w EXCEPT !.todo = Kids[w.at]]
  <2>1. /\ v \in Goroutine(paths) /\ v.of = w.of /\ v.at = w.at
        /\ v.todo = Kids[w.at]
    BY <1>1, <1>2, TreeAssumption DEF Goroutine
  <2>2. Kids[w.at] = (w.todo \ {"itself"}) \cup Enter(Aim(w, "itself"))
    BY <1>2, <1>4 DEF Enter
  <2> HIDE DEF v
  <2>3. Becomes(c, w, {v})
    BY <1>4 DEF v
  <2>4. QED
    BY <1>1, <1>2, <1>4, <2>1, <2>2, <2>3, EntryFound
<1>5. CASE /\ Form[w.at] # "dir" /\ Send(c, w.at)
           /\ Becomes(c, w, {[w EXCEPT !.todo = {}]})
  <2> DEFINE v == [w EXCEPT !.todo = {}]
  <2>1. v \in Goroutine(paths) /\ v.of = w.of /\ v.at = w.at /\ v.todo = {}
    BY <1>1 DEF Goroutine
  <2>2. {} = (w.todo \ {"itself"}) \cup Enter(Aim(w, "itself"))
    BY <1>2, <1>5 DEF Enter
  <2>3. sent'[c] = [sent[c] EXCEPT ![w.at] = @ + 1]
    BY <1>1, <1>3, <1>5 DEF Send
  <2> HIDE DEF v
  <2>4. Becomes(c, w, {v})
    BY <1>5 DEF v
  <2>5. QED
    BY <1>1, <1>2, <2>1, <2>2, <2>3, <2>4, EntryFound
<1>6. CASE /\ w.at \in broken /\ sent' = sent
           /\ Becomes(c, w, {[w EXCEPT !.todo = {}]})
  <2> DEFINE v == [w EXCEPT !.todo = {}]
             W == walkers[c]
             V == (W \ {w}) \cup {v}
  <2>1. v.todo = {} /\ v.of = w.of
    BY <1>1 DEF Goroutine
  <2>2. walkers'[c] = V
    BY <1>6 DEF Becomes, IInv, TypeOK, Search
  <2>3. Orderly(W, paths)
    BY DEF FoundInv, Goroutines
  <2>4. \A u \in V : u.of \notin Files
    BY <1>1, <2>1 DEF FoundInv, Divided
  <2> DEFINE S == {v}
  <2>5. V = (W \ {w}) \cup S /\ \A u \in S : u.todo = {}
    BY <2>1
  <2> HIDE DEF v, V, S, W
  <2>6. w \in W
    BY <1>1 DEF W
  <2>7. Orderly(V, paths)
    BY <1>3, <2>3, <2>5, <2>6, EntriesDropped
  <2>8. \A E, r, n : Expected(E, V, paths, r, n) => Expected(E, W, paths, r, n)
    BY <1>3, <2>3, <2>5, <2>6, EntriesDropped
  <2>9. Divided'
    BY <1>1, <2>2, <2>4 DEF FoundInv, Divided, Files
  <2>10. Sending /\ Sending' /\ broken # {}
    BY <1>1, <1>6 DEF Sending
  <2>11. QED
    BY <1>1, <1>6, <2>2, <2>7, <2>8, <2>9, <2>10, FoundStep DEF W
<1>7. QED
  BY <1>4, <1>5, <1>6 DEF ListVault

\* VisitVault: a key is sent; a directory is handed on to a goroutine.
LEMMA VisitedFound ==
  ASSUME IInv, FoundInv, NEW w \in Active("command"), VisitVault("command", w)
  PROVE  FoundInv'
<1> DEFINE c == "command"
<1>1. /\ w \in walkers[c] /\ pc[c] = "running" /\ w \in Goroutine(paths)
      /\ UNCHANGED <<kind, broken, paths, pc, early, reader>>
      /\ kind = "vault" /\ "itself" \notin w.todo /\ reported' = reported
      /\ c \in Search
  BY WalkFrame DEF VisitVault, Search
<1>2. PICK n \in w.todo :
        /\ sent' = [sent EXCEPT ![c][n] = @ + 1]
        /\ IF Form[n] = "dir"
           THEN Becomes(c, w, {[w EXCEPT !.todo = @ \ {n}]}
                                \cup {Walker(w.of, n, {"itself"})})
           ELSE Becomes(c, w, {[w EXCEPT !.todo = @ \ {n}]})
  BY DEF VisitVault, Send
<1>3. /\ sent \in [Search -> [Node -> Nat]] /\ paths \in Seq(Node)
      /\ walkers \in [Search -> SUBSET Goroutine(paths)]
  BY DEF IInv, TypeOK, Goroutine
<1>4. n \in Node /\ Aim(w, n) = n
  BY <1>1, TreeAssumption DEF Goroutine, Aim
<1>5. sent'[c] = [sent[c] EXCEPT ![n] = @ + 1]
  BY <1>1, <1>2, <1>3, <1>4
<1> DEFINE v == [w EXCEPT !.todo = @ \ {n}]
           u == Walker(w.of, n, {"itself"})
<1>6. /\ v \in Goroutine(paths) /\ v.of = w.of /\ v.at = w.at
      /\ v.todo = w.todo \ {n} /\ u.of = w.of
  BY <1>1 DEF Goroutine, Walker
<1>7. CASE Form[n] # "dir"
  <2>1. v.todo = (w.todo \ {n}) \cup Enter(Aim(w, n))
    BY <1>4, <1>6, <1>7 DEF Enter
  <2> HIDE DEF v
  <2>2. Becomes(c, w, {v})
    BY <1>2, <1>7 DEF v
  <2>3. QED
    BY <1>1, <1>4, <1>5, <1>6, <2>1, <2>2, EntryFound
<1>8. CASE Form[n] = "dir"
  <2> DEFINE W == walkers[c]
             N == (W \ {w}) \cup {v}
             V == N \cup {u}
             K == {}
  <2>1. W \subseteq Goroutine(paths) /\ Orderly(W, paths) /\ w \in W
    BY <1>1, <1>3 DEF FoundInv, Goroutines
  <2>2. K \subseteq Enter(Aim(w, n)) /\ v.todo = (w.todo \ {n}) \cup K
    BY <1>6
  <2>3. N = (W \ {w}) \cup {v} /\ N \subseteq Goroutine(paths)
    BY <1>6, <2>1
  <2>4. /\ Advance(W, N, paths, w.of, Aim(w, n), K)
        /\ Single(N) /\ Listing(N)
    <3>1. v \in Goroutine(paths) /\ v.of = w.of /\ v.at = w.at
      BY <1>6
    <3> HIDE DEF v, u, N, V, K, W
    <3>2. Advance(W, N, paths, w.of, Aim(w, n), K)
      BY <2>1, <2>2, <2>3, <3>1, EntryReplaced
    <3>3. Single(N) /\ Listing(N)
      BY <2>1, <2>2, <2>3, <3>1, EntryReplaced
    <3>4. QED
      BY <3>2, <3>3
  <2>5. /\ w.of \in DOMAIN paths /\ n \in Open(W, w.of)
        /\ Open(N, w.of) = Open(W, w.of) \ {n}
        /\ \A j \in DOMAIN paths : j # w.of => Open(N, j) = Open(W, j)
    BY <1>4, <2>4 DEF Advance
  <2>6. /\ Open(V, w.of) = Open(N, w.of) \cup {n}
        /\ \A j \in DOMAIN paths : j # w.of => Open(V, j) = Open(N, j)
        /\ Single(V) /\ Listing(V)
    <3>1. n \notin Open(N, w.of)
      BY <2>5
    <3>2. V = N \cup {u} /\ u = Walker(w.of, n, {"itself"})
      OBVIOUS
    <3> HIDE DEF v, u, N, V, K, W
    <3>3. QED
      BY <1>4, <2>3, <2>4, <2>5, <3>1, <3>2, GoroutineAdded
  <2>7. walkers'[c] = V
    <3>1. (walkers[c] \ {w}) \cup ({v} \cup {u}) = V
      OBVIOUS
    <3>2. Becomes(c, w, {v} \cup {u})
      BY <1>2, <1>8
    <3> HIDE DEF v, u, V
    <3>3. QED
      BY <1>1, <1>3, <3>1, <3>2 DEF Becomes
  <2>8. \A x \in V : x.of \notin Files
    BY <1>1, <1>6 DEF FoundInv, Divided
  <2> HIDE DEF v, u, N, V, W
  <2>9. \A j \in DOMAIN paths : Open(V, j) = Open(W, j)
    BY <2>5, <2>6
  <2>10. Orderly(V, paths)
    BY <2>1, <2>6, <2>9 DEF Orderly, Apart, Inside
  <2>11. \A E, r, k :
           Expected(E, V, paths, r, k) <=> Expected(E, W, paths, r, k)
    BY <2>9 DEF Expected
  <2>12. Divided'
    BY <1>1, <2>7, <2>8 DEF FoundInv, Divided, Files
  <2>13. Sending /\ Sending' /\ Form[n] # "leaf"
    BY <1>1, <1>8 DEF Sending
  <2> DEFINE s == [sent[c] EXCEPT ![n] = @ + 1]
  <2>14. sent'[c] = s
    BY <1>5
  <2>15. QED
    BY <1>1, <1>4, <2>7, <2>10, <2>11, <2>12, <2>13, <2>14, FoundStep DEF W
<1>9. QED
  BY <1>7, <1>8

\* WalkFiles: a file is sent if its name matches, a directory is entered.
\* WalkFails: the error is reported, after which nothing is promised.
LEMMA WalkedFound ==
  ASSUME IInv, FoundInv, NEW w \in Active("command"),
         WalkFiles("command", w) \/ WalkFails("command", w)
  PROVE  FoundInv'
<1> DEFINE c == "command"
<1>1. /\ w \in walkers[c] /\ pc[c] = "running" /\ w \in Goroutine(paths)
      /\ UNCHANGED <<kind, broken, paths, pc, early, reader>>
      /\ kind = "filesystem" /\ c \in Search
  BY WalkFrame DEF WalkFiles, WalkFails, Search
<1>2. /\ sent \in [Search -> [Node -> Nat]] /\ paths \in Seq(Node)
      /\ walkers \in [Search -> SUBSET Goroutine(paths)]
      /\ reported \in [Search -> BOOLEAN]
  BY DEF IInv, TypeOK, Goroutine
<1>3. CASE WalkFiles(c, w)
  <2>1. PICK e \in w.todo :
          /\ Becomes(c, w, {[w EXCEPT !.todo =
                               (@ \ {e}) \cup Enter(Aim(w, e))]})
          /\ IF Aim(w, e) \in Matching /\ Form[Aim(w, e)] # "link"
             THEN Send(c, Aim(w, e)) ELSE sent' = sent
    BY <1>3 DEF WalkFiles, Aim
  <2>2. reported' = reported
    BY <1>3 DEF WalkFiles
  <2> DEFINE m == Aim(w, e)
             v == [w EXCEPT !.todo = (@ \ {e}) \cup Enter(m)]
  <2>3. m \in Node
    BY <1>1 DEF Aim, Goroutine
  <2>4. Enter(m) \subseteq Node
    BY <2>3, EnteredIsBelow
  <2> HIDE DEF m
  <2>5. /\ v \in Goroutine(paths) /\ v.of = w.of /\ v.at = w.at
        /\ v.todo = (w.todo \ {e}) \cup Enter(m)
    BY <1>1, <2>4 DEF Goroutine
  <2> HIDE DEF v
  <2>6. Becomes(c, w, {v})
    BY <2>1 DEF m, v
  <2>7. \/ /\ sent'[c] = sent[c]
           /\ Form[m] = "leaf" => kind # "vault" /\ m \notin Matching
        \/ /\ sent'[c] = [sent[c] EXCEPT ![m] = @ + 1]
           /\ kind = "vault" \/ m \in Matching
    <3>1. CASE m \in Matching /\ Form[m] # "link"
      <4>1. sent' = [sent EXCEPT ![c][m] = @ + 1]
        BY <2>1, <3>1 DEF Send, m
      <4>2. QED
        BY <1>1, <1>2, <2>3, <3>1, <4>1
    <3>2. CASE ~(m \in Matching /\ Form[m] # "link")
      <4>1. sent' = sent
        BY <2>1, <3>2 DEF m
      <4>2. QED
        BY <1>1, <3>2, <4>1
    <3>3. QED
      BY <3>1, <3>2
  <2>8. QED
    BY <1>1, <2>2, <2>5, <2>6, <2>7, EntryFound DEF m
<1>4. CASE WalkFails(c, w)
  <2> DEFINE v == [w EXCEPT !.todo = {}]
             W == walkers[c]
             S == {v}
             V == (W \ {w}) \cup S
  <2>1. reported'[c] /\ sent' = sent
    BY <1>1, <1>2, <1>4 DEF WalkFails
  <2>2. v.todo = {} /\ v.of = w.of
    BY <1>1 DEF Goroutine
  <2>3. walkers'[c] = V
    BY <1>1, <1>2, <1>4 DEF WalkFails, Becomes
  <2>4. Orderly(W, paths)
    BY DEF FoundInv, Goroutines
  <2>5. \A u \in V : u.of \notin Files
    BY <1>1, <2>2 DEF FoundInv, Divided
  <2>6. \A u \in S : u.todo = {}
    BY <2>2
  <2>7. Orderly(V, paths)
    <3> HIDE DEF S, W
    <3>1. w \in W
      BY <1>1 DEF W
    <3>2. V = (W \ {w}) \cup S
      OBVIOUS
    <3> HIDE DEF V
    <3>3. QED
      BY <1>2, <2>4, <2>6, <3>1, <3>2, EntriesDropped
  <2>8. Goroutines'
    BY <1>1, <2>3, <2>7 DEF Goroutines
  <2> HIDE DEF v, V
  <2>9. Divided'
    BY <1>1, <2>3, <2>5 DEF FoundInv, Divided, Files
  <2>10. PathsKnown'
    BY <1>1, <2>1 DEF FoundInv, PathsKnown, Looked
  <2>11. NothingIsLost' /\ NothingIsRepeated'
    BY <1>1, <2>1 DEF NothingIsLost, NothingIsRepeated, Sending
  <2>12. QED
    BY <2>8, <2>9, <2>10, <2>11 DEF FoundInv
<1>5. QED
  BY <1>3, <1>4

\* Done: nobody looks at less.
LEMMA DoneFound ==
  ASSUME IInv, FoundInv, NEW w \in Active("command"), Done("command", w)
  PROVE  FoundInv'
<1> DEFINE c == "command"
           W == walkers[c]
           S == {}
           V == (W \ {w}) \cup S
<1>1. /\ w \in W /\ pc[c] = "running" /\ c \in Search
      /\ UNCHANGED <<kind, broken, paths, pc, early, reader>>
      /\ w.todo = {} /\ sent' = sent /\ reported' = reported
  BY WalkFrame DEF Done, Search
<1>2. paths \in Seq(Node) /\ walkers \in [Search -> SUBSET Goroutine(paths)]
  BY DEF IInv, TypeOK, Goroutine
<1>3. walkers'[c] = V
  BY <1>1, <1>2 DEF Done, Becomes
<1>4. Orderly(W, paths)
  BY DEF FoundInv, Goroutines
<1>5. \A u \in V : u.of \notin Files
  BY DEF FoundInv, Divided
<1>6. V = (W \ {w}) \cup S /\ \A u \in S : u.todo = {}
  OBVIOUS
<1> HIDE DEF V, S, W
<1>7. Orderly(V, paths)
  BY <1>1, <1>2, <1>4, <1>6, EntriesDropped
<1>8. \A E, r, n : Expected(E, V, paths, r, n) => Expected(E, W, paths, r, n)
  BY <1>1, <1>2, <1>4, <1>6, EntriesDropped
<1>9. \A E, r, n : Expected(E, W, paths, r, n) => Expected(E, V, paths, r, n)
  BY <1>1, <1>2, <1>4, <1>6, EntriesDropped
<1>10. Divided'
  BY <1>1, <1>3, <1>5 DEF FoundInv, Divided, Files
<1>11. Sending /\ Sending'
  BY <1>1 DEF Sending
<1>12. QED
  BY <1>1, <1>3, <1>7, <1>8, <1>9, <1>10, <1>11, FoundStep DEF W

\* Every step keeps the invariant.
LEMMA NextFound == IInv /\ FoundInv /\ [Next]_vars => FoundInv'
<1> SUFFICES ASSUME IInv, FoundInv, [Next]_vars
             PROVE  FoundInv'
  OBVIOUS
<1>1. CASE BeginSearch \/ Take
  BY <1>1, BegunFound
<1>2. ASSUME NEW x \in Search, Verify(x) \/ VerifyFails(x)
      PROVE  FoundInv'
  BY <1>2, VerifiedFound
<1>3. ASSUME NEW x \in Search,
             StartSearch(x) \/ SendEarly(x) \/ Walk(x) \/ EndSearch(x)
      PROVE  FoundInv'
  <2>1. CASE x = "reference"
    BY <1>3, <2>1, ReferenceFound
  <2>2. CASE x = "command"
    <3>1. CASE Walk(x)
      <4>1. PICK w \in Active(x) :
              ListVault(x, w) \/ VisitVault(x, w) \/ WalkFiles(x, w)
                \/ WalkFails(x, w) \/ Done(x, w)
        BY <3>1 DEF Walk
      <4>2. QED
        BY <2>2, <4>1, ListedFound, VisitedFound, WalkedFound, DoneFound
    <3>2. QED
      BY <1>3, <2>2, <3>1, StartedFound, SentEarlyFound
  <2>3. QED
    BY <2>1, <2>2 DEF Search
<1>4. CASE UNCHANGED vars
  <2>1. pc["command"] # "waiting" =>
          reader # "reads" \/ pc["reference"] = "ended"
    BY DEF FoundInv, PathsKnown
  <2>2. QED
    BY <1>4, <2>1, FoundFrame DEF vars
<1>5. QED
  BY <1>1, <1>2, <1>3, <1>4 DEF Next

\* When the command's search has ended nothing is expected any more.
LEMMA FoundIsExact == IInv /\ FoundInv => SearchIsExact
<1> SUFFICES ASSUME IInv, FoundInv, pc["command"] = "ended",
                    ~reported["command"], NEW n \in Node
             PROVE  LET above == {r \in Roots : n \in Kubeconfigs(r)} IN
                    /\ above # {} /\ broken = {} => sent["command"][n] > 0
                    /\ above # {} /\ Alone =>
                         sent["command"][n] <= Cardinality(above)
  BY DEF SearchIsExact, Alone
<1> DEFINE above == {r \in Roots : n \in Kubeconfigs(r)}
           E == early["command"]
           W == walkers["command"]
<1>1. E = {} /\ W = {}
  BY DEF IInv, Phases, Search
<1>2. \A r : ~Expected(E, W, paths, r, n)
  BY <1>1 DEF Expected, Open
<1>3. ASSUME above # {}, broken = {}
      PROVE  sent["command"][n] > 0
  BY <1>2, <1>3 DEF FoundInv, NothingIsLost, Sending
<1>4. ASSUME above # {}, Alone
      PROVE  sent["command"][n] <= Cardinality(above)
  <2>1. Form[n] = "leaf"
    BY <1>4 DEF Kubeconfigs
  <2>2. Settled(E, W, paths, n) = above
    BY <1>2 DEF Settled
  <2>3. QED
    BY <1>4, <2>1, <2>2 DEF FoundInv, NothingIsRepeated
<1>5. QED
  BY <1>3, <1>4

(***************************************************************************)
(* A search of a tree without an error has announced every kubeconfig      *)
(* below the configured paths, and each as often as it has paths above it: *)
(* a goroutine that goes on keeps the rest of its list, and one that hands *)
(* a directory on does not look at it itself.  When the search has ended   *)
(* nobody is left to send.                                                 *)
(***************************************************************************)
THEOREM SearchesStaySound == Spec => []SearchesAreSound
<1>1. Init => IInv /\ FoundInv
  BY InitIInv, FoundInit
<1>2. IInv /\ FoundInv /\ [Next]_vars => (IInv /\ FoundInv)'
  BY NextIInv, NextFound
<1>3. IInv /\ FoundInv => SearchesAreSound
  BY FoundIsExact DEF IInv, Phases, NothingSendsAfterEnd, SearchesAreSound
<1>4. QED
  BY <1>1, <1>2, <1>3, PTL DEF Spec
=============================================================================
