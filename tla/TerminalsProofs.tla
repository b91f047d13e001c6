-------------------------- MODULE TerminalsProofs ---------------------------
(***************************************************************************)
(* What holds of terminals that share a home directory, for any stores,    *)
(* terminals, names and sequences of commands.                             *)
(*                                                                         *)
(* 1. No kubeconfig that kswitch leaves behind has a dangling context      *)
(* (FilesAreSound).  First, what each operation of module Kubeconfig       *)
(* preserves.  Then the inductive invariant: besides the files, what a     *)
(* command holds in memory (the kubeconfig it will write, the one it will  *)
(* merge) is sound, for it is written without another look at it; and the  *)
(* entries of the history, from which contexts and namespaces come back,   *)
(* are well typed.                                                         *)
(*                                                                         *)
(* 2. TypeOK, with what each action does to the terminal that takes it,    *)
(* and the loop of the shell function.                                     *)
(*                                                                         *)
(* 3. A selection takes effect and an entry of the history is restored.    *)
(* First, where a context leads after each operation.  Then the inductive  *)
(* invariant OInv: every copy belongs to one terminal, is what its command *)
(* made it, and leads to what the terminal selected, unless it is being    *)
(* written, when what is going to be written leads there; and what the     *)
(* history records leads where its name does.                              *)
(***************************************************************************)
EXTENDS Terminals, NaturalsInduction, WellFoundedInduction, TLAPS

Good(kc) == kc \in KubeconfigType /\ Sound(kc)

-----------------------------------------------------------------------------
(* The operations.                                                         *)

\* Changing current-context alone keeps a kubeconfig sound.
LEMMA ModifyCurrentContextGood ==
    ASSUME NEW kc, Good(kc), NEW name \in Name
    PROVE  Good(ModifyCurrentContext(kc, name))
BY DEF Good, ModifyCurrentContext, Sound, KubeconfigType, Names

\* So does recording the context that kswitch knows.
LEMMA SetKswitchContextGood ==
    ASSUME NEW kc, Good(kc), NEW name \in Name
    PROVE  Good(SetKswitchContext(kc, name))
BY DEF Good, SetKswitchContext, Sound, KubeconfigType, Names

\* A renamed context refers to the same cluster and user.
LEMMA ModifyContextNameGood ==
    ASSUME NEW kc, Good(kc), NEW old, NEW new \in Name
    PROVE  Good(ModifyContextName(kc, old, new))
<1> DEFINE Renamed(c) == IF c.name = old THEN [c EXCEPT !.name = new] ELSE c
           contexts == {Renamed(c) : c \in kc.contexts}
<1>1. ASSUME NEW c \in kc.contexts
      PROVE  /\ Renamed(c) \in Context
             /\ Renamed(c).cluster = c.cluster
             /\ Renamed(c).user = c.user
  BY DEF Good, KubeconfigType, Context
<1>2. contexts \subseteq Context
  BY <1>1
<1>3. ModifyContextName(kc, old, new) = [kc EXCEPT !.contexts = contexts]
  BY DEF ModifyContextName
<1>4. [kc EXCEPT !.contexts = contexts] \in KubeconfigType
  BY <1>2 DEF Good, KubeconfigType
<1>5. Sound([kc EXCEPT !.contexts = contexts])
  BY <1>1 DEF Good, KubeconfigType, Sound
<1>6. QED
  BY <1>3, <1>4, <1>5 DEF Good

\* What SetContext returns is sound, with or without an alias.
LEMMA SetContextGood ==
    ASSUME NEW kc, Good(kc), NEW name \in Name, NEW original
    PROVE  Good(SetContext(kc, name, original))
BY ModifyContextNameGood, ModifyCurrentContextGood DEF SetContext

\* A namespace does not change what a context refers to.
LEMMA SetNamespaceGood ==
    ASSUME NEW kc, Good(kc), NEW context, NEW ns \in Name
    PROVE  Good(SetNamespace(kc, context, ns))
<1> DEFINE Set(c) ==
              IF c.name = context THEN [c EXCEPT !.namespace = ns] ELSE c
           contexts == {Set(c) : c \in kc.contexts}
<1>1. ASSUME NEW c \in kc.contexts
      PROVE  /\ Set(c) \in Context
             /\ Set(c).cluster = c.cluster
             /\ Set(c).user = c.user
  BY DEF Good, KubeconfigType, Context
<1>2. contexts \subseteq Context
  BY <1>1
<1>3. SetNamespace(kc, context, ns) = [kc EXCEPT !.contexts = contexts]
  BY DEF SetNamespace
<1>4. [kc EXCEPT !.contexts = contexts] \in KubeconfigType
  BY <1>2 DEF Good, KubeconfigType
<1>5. Sound([kc EXCEPT !.contexts = contexts])
  BY <1>1 DEF Good, KubeconfigType, Sound
<1>6. QED
  BY <1>3, <1>4, <1>5 DEF Good

\* Removing the orphans of a removed context removes nothing that another
\* context refers to.
LEMMA RemoveContextGood ==
    ASSUME NEW kc, Good(kc), NEW name
    PROVE  Good(RemoveContext(kc, name))
<1> DEFINE kept == {c \in kc.contexts : c.name # name}
           clusters == {k \in kc.clusters :
                          k.name \in {c.cluster : c \in kept}}
           users == {u \in kc.users : u.name \in {c.user : c \in kept}}
           rest == [kc EXCEPT !.contexts = kept, !.clusters = clusters,
                              !.users = users]
<1>1. RemoveContext(kc, name) = rest
  BY DEF RemoveContext
<1>2. rest \in KubeconfigType
  BY DEF Good, KubeconfigType
<1>3. /\ rest.contexts = kept
      /\ rest.clusters = clusters
      /\ rest.users = users
  BY DEF Good, KubeconfigType
<1>4. ASSUME NEW c \in kept
      PROVE  c.cluster \in Names(clusters) /\ c.user \in Names(users)
  BY DEF Good, Sound, Names
<1>5. Sound(rest)
  BY <1>3, <1>4 DEF Sound
<1>6. QED
  BY <1>1, <1>2, <1>5 DEF Good

\* A merged section defines every name that one of the two did.
LEMMA MergeSectionNames ==
    ASSUME NEW dst, NEW src
    PROVE  /\ MergeSection(dst, src) \subseteq dst \cup src
           /\ Names(dst) \subseteq Names(MergeSection(dst, src))
           /\ Names(src) \subseteq Names(MergeSection(dst, src))
BY DEF MergeSection, Names

\* A merge of sound kubeconfigs is sound: what a context of either refers to is
\* still defined, if only by the other one's entry.
LEMMA MergeGood ==
    ASSUME NEW dst, Good(dst), NEW src, Good(src)
    PROVE  Good(Merge(dst, src))
<1> DEFINE contexts == MergeSection(dst.contexts, src.contexts)
           clusters == MergeSection(dst.clusters, src.clusters)
           users == MergeSection(dst.users, src.users)
           current == IF src.current # Unset THEN src.current ELSE dst.current
           merged == [dst EXCEPT !.contexts = contexts, !.clusters = clusters,
                                 !.users = users, !.current = current]
<1>1. Merge(dst, src) = merged
  BY DEF Merge
<1>2. /\ contexts \subseteq Context
      /\ clusters \subseteq Cluster
      /\ users \subseteq User
      /\ current \in Name
  BY MergeSectionNames DEF Good, KubeconfigType
<1>3. merged \in KubeconfigType
  BY <1>2 DEF Good, KubeconfigType
<1>4. /\ merged.contexts = contexts
      /\ merged.clusters = clusters
      /\ merged.users = users
  BY DEF Good, KubeconfigType
<1>5. ASSUME NEW c \in contexts
      PROVE  c.cluster \in Names(clusters) /\ c.user \in Names(users)
  <2>1. c \in dst.contexts \/ c \in src.contexts
    BY <1>5, MergeSectionNames
  <2>2. /\ c.cluster \in Names(dst.clusters) \cup Names(src.clusters)
        /\ c.user \in Names(dst.users) \cup Names(src.users)
    BY <2>1 DEF Good, Sound
  <2>3. QED
    BY <2>2, MergeSectionNames
<1>6. Sound(merged)
  BY <1>4, <1>5 DEF Sound
<1>7. QED
  BY <1>1, <1>3, <1>6 DEF Good

\* The skeleton of a new target file is sound.
LEMMA EmptyGood == Good(EmptyKubeconfig)
BY NamesAssumption DEF Good, EmptyKubeconfig, KubeconfigType, Sound

\* The namespace of a context is a name.
LEMMA NamespaceTyped ==
    ASSUME NEW kc, Good(kc), NEW context
    PROVE  NamespaceOfContext(kc, context) \in Name
<1> DEFINE ns == {c.namespace : c \in {d \in kc.contexts : d.name = context}}
<1>1. ns \subseteq Name
  BY DEF Good, KubeconfigType, Context
<1>2. CASE ns \subseteq {Unset}
  BY <1>2, NamesAssumption DEF NamespaceOfContext
<1>3. CASE ~(ns \subseteq {Unset})
  <2>1. PICK m \in ns : TRUE
    BY <1>3
  <2>2. (CHOOSE n \in ns : TRUE) \in ns
    BY <2>1
  <2>3. QED
    BY <1>1, <1>3, <2>2 DEF NamespaceOfContext
<1>4. QED
  BY <1>2, <1>3

\* What a context reaches are pairs of a server and a secret.
LEMMA ReachesTyped ==
    ASSUME NEW kc, Good(kc), NEW name
    PROVE  Reaches(kc, name) \in SUBSET (Server \X Secret)
BY DEF Good, KubeconfigType, Reaches, Cluster, User

-----------------------------------------------------------------------------
(* The inductive invariant.                                                *)

FilesGood == \A p \in DOMAIN files : files[p] = Torn \/ Good(files[p])

\* What a running command holds in memory.
Remembered(j) ==
    /\ j = [command |-> j.command, path |-> j.path, source |-> j.source,
            data |-> j.data, entry |-> j.entry, append |-> j.append,
            selection |-> j.selection]
    /\ Good(j.source)
    /\ Good(j.data)
    /\ j.entry \in EntryType
    /\ j.selection \in EntryType

JobsGood ==
    /\ job = [t \in Terminal |-> job[t]]
    /\ \A t \in Terminal : Remembered(job[t])

HistoryTyped == history \in Seq(EntryType)

IInv == FilesGood /\ JobsGood /\ HistoryTyped

-----------------------------------------------------------------------------
(* What the parts of an action do to the invariant.                        *)

\* Contents that are sound, or torn, may be put anywhere.
LEMMA PutKeepsFiles ==
    ASSUME FilesGood, NEW path, NEW contents,
           contents = Torn \/ Good(contents),
           files' = Put(path, contents)
    PROVE  FilesGood'
BY DEF FilesGood, Put, Good, Sound, KubeconfigType, Names

\* Removing files leaves the others as they are.
LEMMA WithoutKeepsFiles ==
    ASSUME FilesGood, NEW paths, files' = Without(paths)
    PROVE  FilesGood'
BY DEF FilesGood, Without, Good, Sound, KubeconfigType, Names

\* Nor does it matter if the files are left alone.
LEMMA SameFiles ==
    ASSUME FilesGood, UNCHANGED files
    PROVE  FilesGood'
BY DEF FilesGood, Good, Sound, KubeconfigType, Names

\* The same goes for the memory of the commands.
LEMMA SameJobs ==
    ASSUME JobsGood, UNCHANGED job
    PROVE  JobsGood'
BY DEF JobsGood, Remembered, Good, Sound, KubeconfigType, Names, EntryType

\* One command's memory is replaced.
LEMMA JobUpdated ==
    ASSUME JobsGood, NEW t \in Terminal, NEW m, Remembered(m),
           job' = [job EXCEPT ![t] = m]
    PROVE  JobsGood'
<1>1. job' = [u \in Terminal |-> IF u = t THEN m ELSE job[u]]
  BY DEF JobsGood
<1>2. \A u \in Terminal : job'[u] = IF u = t THEN m ELSE job[u]
  BY <1>1
<1>3. \A u \in Terminal : Remembered(job'[u])
  BY <1>2 DEF JobsGood
<1>4. job' = [u \in Terminal |-> job'[u]]
  BY <1>1
<1>5. QED
  BY <1>3, <1>4
     DEF JobsGood, Remembered, Good, Sound, KubeconfigType, Names, EntryType

\* Nothing is remembered of no command.
LEMMA NoJobRemembered == Remembered(NoJob) /\ NoEntry \in EntryType
<1>1. NoEntry \in EntryType
  BY NamesAssumption DEF NoEntry, Entry, EntryType, NoTarget
<1>2. QED
  BY <1>1, EmptyGood DEF Remembered, NoJob

\* Its fields may be set one by one.
LEMMA RememberedFields ==
    ASSUME NEW j, Remembered(j)
    PROVE  /\ \A path : Remembered([j EXCEPT !.path = path])
           /\ \A kc : Good(kc) => Remembered([j EXCEPT !.source = kc])
           /\ \A kc : Good(kc) => Remembered([j EXCEPT !.data = kc])
           /\ \A e \in EntryType : Remembered([j EXCEPT !.entry = e])
           /\ \A append : Remembered([j EXCEPT !.append = append])
           /\ \A e \in EntryType : Remembered([j EXCEPT !.selection = e])
<1>1. ASSUME NEW path
      PROVE  Remembered([j EXCEPT !.path = path])
  BY DEF Remembered
<1>2. ASSUME NEW kc, Good(kc)
      PROVE  /\ Remembered([j EXCEPT !.source = kc])
             /\ Remembered([j EXCEPT !.data = kc])
  <2>1. Remembered([j EXCEPT !.source = kc])
    BY <1>2 DEF Remembered
  <2>2. Remembered([j EXCEPT !.data = kc])
    BY <1>2 DEF Remembered
  <2>3. QED
    BY <2>1, <2>2
<1>3. ASSUME NEW e \in EntryType
      PROVE  /\ Remembered([j EXCEPT !.entry = e])
             /\ Remembered([j EXCEPT !.selection = e])
  <2>1. Remembered([j EXCEPT !.entry = e])
    BY DEF Remembered
  <2>2. Remembered([j EXCEPT !.selection = e])
    BY DEF Remembered
  <2>3. QED
    BY <2>1, <2>2
<1>4. ASSUME NEW append
      PROVE  Remembered([j EXCEPT !.append = append])
  BY DEF Remembered
<1>5. QED
  BY <1>1, <1>2, <1>3, <1>4

\* A command that starts remembers what it is given.
LEMMA StartKeepsJobs ==
    ASSUME JobsGood, NEW t \in Terminal, NEW command, NEW next, NEW memory,
           Remembered(memory), Start(t, command, next, memory)
    PROVE  JobsGood'
<1>1. Remembered([memory EXCEPT !.command = command])
  BY DEF Remembered
<1>2. QED
  BY <1>1, JobUpdated DEF Start

\* A command that ends remembers nothing.
LEMMA EndKeepsJobs ==
    ASSUME JobsGood, NEW t \in Terminal, End(t)
    PROVE  JobsGood'
BY NoJobRemembered, JobUpdated DEF End

\* A command that makes a sound copy of a kubeconfig keeps the invariant.
LEMMA MakeCopyKeeps ==
    ASSUME IInv, NEW t \in Terminal, NEW command, NEW next, NEW kc, Good(kc),
           NEW context \in Name, NEW append, NEW selection \in EntryType,
           MakeCopy(t, command, next, kc, context, append, selection)
    PROVE  IInv'
<1> DEFINE copy == <<TemporaryFile(started + 1)>>
           entry == Entry(context, NamespaceOfContext(kc, kc.current),
                          Reaches(kc, kc.current))
           memory == [NoJob EXCEPT !.path = copy, !.source = kc,
                                   !.entry = entry, !.append = append,
                                   !.selection = selection]
<1>1. entry \in EntryType
  BY NamespaceTyped, ReachesTyped DEF Entry, EntryType
<1>2. Remembered([NoJob EXCEPT !.path = copy, !.source = kc])
  BY NoJobRemembered, RememberedFields
<1>3. Remembered(memory)
  <2> HIDE DEF entry, copy
  <2>1. QED
    BY <1>1, <1>2, RememberedFields
<1>4. /\ Start(t, command, next, memory)
      /\ files' = Put(copy, kc)
      /\ UNCHANGED history
  BY DEF MakeCopy
<1>5. FilesGood'
  BY <1>4, PutKeepsFiles DEF IInv
<1>6. JobsGood'
  <2> HIDE DEF memory
  <2>1. QED
    BY <1>3, <1>4, StartKeepsJobs DEF IInv
<1>7. QED
  BY <1>4, <1>5, <1>6 DEF IInv, HistoryTyped

\* What is recorded of a context that a store has.
LEMMA SelectionTyped ==
    ASSUME NEW p, Good(Stores[p]), NEW name \in Name, NEW context
    PROVE  Selection(name, p, context) \in EntryType
BY ReachesTyped, NamesAssumption DEF Selection, Entry, EntryType

\* The kubeconfigs of the stores and their contexts.
LEMMA StoreGood ==
    ASSUME NEW p \in DOMAIN Stores, NEW context \in Names(Stores[p].contexts)
    PROVE  /\ Good(Stores[p])
           /\ context \in Name
           /\ Alias[context] \in Name
           /\ Shown(context) \in Name
<1>1. Good(Stores[p])
  BY TerminalsAssumption DEF Good
<1>2. context \in Name
  BY <1>1 DEF Good, KubeconfigType, Names, Context
<1>3. Alias[context] \in Name
  BY <1>2, TerminalsAssumption
<1>4. QED
  BY <1>1, <1>2, <1>3 DEF Shown

\* The copy that set-context makes is sound.
LEMMA SetContextCopyGood ==
    ASSUME NEW p \in DOMAIN Stores, NEW context \in Names(Stores[p].contexts),
           NEW wanted \in Name
    PROVE  Good(SetContextCopy(p, context, wanted))
BY StoreGood, SetContextGood, SetKswitchContextGood DEF SetContextCopy

\* After the history a command ends or goes on with what it remembers.
LEMMA AfterHistoryKeepsJobs ==
    ASSUME JobsGood, NEW t \in Terminal, AfterHistory(t)
    PROVE  JobsGood'
<1>1. CASE End(t)
  BY <1>1, EndKeepsJobs
<1>2. CASE UNCHANGED job
  BY <1>2, SameJobs
<1>3. QED
  BY <1>1, <1>2 DEF AfterHistory
-----------------------------------------------------------------------------
(* The actions.                                                            *)

\* At the start the files are what the constants say, which is sound.
LEMMA InitIInv == Init => IInv
<1> SUFFICES ASSUME Init PROVE IInv
  OBVIOUS
<1>1. FilesGood
  BY TerminalsAssumption DEF Init, FilesGood, InitialFile, Good
<1>2. JobsGood
  <2>1. job = [t \in Terminal |-> NoJob]
    BY DEF Init
  <2>2. QED
    BY <2>1, NoJobRemembered DEF JobsGood
<1>3. HistoryTyped
  BY DEF Init, HistoryTyped
<1>4. QED
  BY <1>1, <1>2, <1>3 DEF IInv

\* Commands that copy a kubeconfig from a store: the menu,
LEMMA SwitcherKeeps ==
    ASSUME IInv, NEW t \in Terminal, NEW command, Switcher(t, command)
    PROVE  IInv'
<1>1. PICK p \in DOMAIN Stores :
         \E context \in Names(Stores[p].contexts) :
            MakeCopy(t, command, "lookup", SwitcherCopy(p, context),
                     Shown(context), TRUE,
                     Selection(Shown(context), p, context))
  BY DEF Switcher
<1>2. PICK context \in Names(Stores[p].contexts) :
         MakeCopy(t, command, "lookup", SwitcherCopy(p, context),
                  Shown(context), TRUE, Selection(Shown(context), p, context))
  BY <1>1
<1>3. Good(SwitcherCopy(p, context))
  BY StoreGood, SetContextGood, SetKswitchContextGood DEF SwitcherCopy
<1>4. Selection(Shown(context), p, context) \in EntryType
  BY StoreGood, SelectionTyped
<1>5. QED
  BY <1>2, <1>3, <1>4, StoreGood, MakeCopyKeeps

\* set-context,
LEMMA SetContextKeeps ==
    ASSUME IInv, NEW t \in Terminal, SetContextCommand(t)
    PROVE  IInv'
<1>1. PICK p \in DOMAIN Stores :
         \E context \in Names(Stores[p].contexts) :
         \E wanted \in {context, Shown(context)} :
            MakeCopy(t, "set", "lookup", SetContextCopy(p, context, wanted),
                     wanted, TRUE, Selection(context, p, context))
  BY DEF SetContextCommand
<1>2. PICK context \in Names(Stores[p].contexts) :
         \E wanted \in {context, Shown(context)} :
            MakeCopy(t, "set", "lookup", SetContextCopy(p, context, wanted),
                     wanted, TRUE, Selection(context, p, context))
  BY <1>1
<1>3. PICK wanted \in {context, Shown(context)} :
         MakeCopy(t, "set", "lookup", SetContextCopy(p, context, wanted),
                  wanted, TRUE, Selection(context, p, context))
  BY <1>2
<1>4. wanted \in Name
  BY StoreGood
<1>5. Good(SetContextCopy(p, context, wanted))
  BY <1>4, SetContextCopyGood
<1>6. Selection(context, p, context) \in EntryType
  BY StoreGood, SelectionTyped
<1>7. QED
  BY <1>3, <1>4, <1>5, <1>6, MakeCopyKeeps

\* and the commands that take an entry from the history.
LEMMA SwitchFromHistoryKeeps ==
    ASSUME IInv, NEW t \in Terminal,
           NEW command \in {"last", "previous", "history"},
           SwitchFromHistory(t, command)
    PROVE  IInv'
<1> DEFINE Copy(i, p, context) ==
              SetContextCopy(p, context, history[i].context)
           next == IF command = "history" THEN "lookup" ELSE "report"
<1>1. PICK i \in Recorded(command) :
         \E p \in DOMAIN Stores : \E context \in Names(Stores[p].contexts) :
            MakeCopy(t, command, next,
                     Restored(Copy(i, p, context), history[i]),
                     history[i].context, command = "history", history[i])
  BY DEF SwitchFromHistory
<1>2. PICK p \in DOMAIN Stores :
         \E context \in Names(Stores[p].contexts) :
            MakeCopy(t, command, next,
                     Restored(Copy(i, p, context), history[i]),
                     history[i].context, command = "history", history[i])
  BY <1>1
<1>3. PICK context \in Names(Stores[p].contexts) :
         MakeCopy(t, command, next, Restored(Copy(i, p, context), history[i]),
                  history[i].context, command = "history", history[i])
  BY <1>2
<1>4. Len(history) \in Nat
  BY DEF IInv, HistoryTyped
<1>5. i \in 1..Len(history)
  BY <1>4 DEF Recorded
<1>6. history[i] \in EntryType
  BY <1>5 DEF IInv, HistoryTyped
<1>7. history[i].context \in Name /\ history[i].namespace \in Name
  BY <1>6 DEF EntryType
<1>8. Good(Copy(i, p, context))
  BY <1>7, SetContextCopyGood
<1>9. Good(Restored(Copy(i, p, context), history[i]))
  <2> HIDE DEF Copy
  <2>1. QED
    BY <1>7, <1>8, SetNamespaceGood DEF Restored
<1>10. QED
  <2> HIDE DEF Copy, next
  <2>1. QED
    BY <1>3, <1>6, <1>7, <1>9, MakeCopyKeeps
\* A readable file is sound.
LEMMA ReadableGood ==
    ASSUME IInv, NEW path, Readable(path)
    PROVE  Good(files[path])
BY DEF IInv, FilesGood, Readable

\* What a command reads is sound, so what it holds in memory is.
LEMMA SwitchNamespaceKeeps ==
    ASSUME IInv, NEW t \in Terminal, SwitchNamespace(t)
    PROVE  IInv'
<1> DEFINE path == CurrentPath(t)
           Kc(ns) == SetNamespace(files[path], files[path].current, ns)
           Recording(ns) == Entry(Kc(ns).kswitch, ns,
                                  Reaches(Kc(ns), Kc(ns).current))
           Memory(ns, append) ==
              [NoJob EXCEPT !.path = path, !.data = Kc(ns),
                            !.entry = Recording(ns), !.append = append]
<1>1. PICK ns \in Namespaces : \E interactive \in BOOLEAN :
         Start(t, "ns", "truncate",
               Memory(ns, ~interactive \/ Kc(ns).kswitch # Unset))
  BY DEF SwitchNamespace
<1>2. PICK append : Start(t, "ns", "truncate", Memory(ns, append))
  BY <1>1
<1>3. ns \in Name
  BY TerminalsAssumption
<1>4. Good(Kc(ns))
  BY <1>3, ReadableGood, SetNamespaceGood DEF SwitchNamespace
<1>5. Recording(ns) \in EntryType
  <2> HIDE DEF Kc
  <2>1. Kc(ns).kswitch \in Name
    BY <1>4 DEF Good, KubeconfigType
  <2>2. QED
    BY <1>3, <1>4, <2>1, ReachesTyped DEF Entry, EntryType
<1>6. Remembered(Memory(ns, append))
  <2> HIDE DEF Kc, Recording, path
  <2>1. Remembered([NoJob EXCEPT !.path = path, !.data = Kc(ns)])
    BY <1>4, NoJobRemembered, RememberedFields
  <2>2. Remembered([NoJob EXCEPT !.path = path, !.data = Kc(ns),
                                 !.entry = Recording(ns)])
    BY <1>5, <2>1, RememberedFields
  <2>3. QED
    BY <2>2, RememberedFields
<1>7. JobsGood'
  <2> HIDE DEF Memory
  <2>1. QED
    BY <1>2, <1>6, StartKeepsJobs DEF IInv
<1>8. UNCHANGED <<files, history>>
  BY DEF SwitchNamespace
<1>9. QED
  BY <1>7, <1>8, SameFiles DEF IInv, HistoryTyped

\* An edit in place remembers the kubeconfig that it will write.
LEMMA EditInPlaceKeeps ==
    ASSUME IInv, NEW t \in Terminal, NEW command, NEW kc, Good(kc),
           EditInPlace(t, command, kc)
    PROVE  IInv'
<1>1. Remembered([NoJob EXCEPT !.path = env[t], !.data = kc])
  BY NoJobRemembered, RememberedFields
<1>2. JobsGood'
  BY <1>1, StartKeepsJobs DEF IInv, EditInPlace
<1>3. UNCHANGED <<files, history>>
  BY DEF EditInPlace
<1>4. QED
  BY <1>2, <1>3, SameFiles DEF IInv, HistoryTyped

\* Deleting a context is such an edit,
LEMMA DeleteContextKeeps ==
    ASSUME IInv, NEW t \in Terminal, DeleteContext(t)
    PROVE  IInv'
<1>1. PICK name \in Name \ {Unset} :
         EditInPlace(t, "delete", RemoveContext(files[env[t]], name))
  BY DEF DeleteContext
<1>2. Good(RemoveContext(files[env[t]], name))
  BY ReadableGood, RemoveContextGood DEF DeleteContext
<1>3. QED
  BY <1>1, <1>2, EditInPlaceKeeps

\* and so is unsetting the current one.
LEMMA UnsetCurrentContextKeeps ==
    ASSUME IInv, NEW t \in Terminal, UnsetCurrentContext(t)
    PROVE  IInv'
<1>1. Good(ModifyCurrentContext(files[env[t]], Unset))
  BY ReadableGood, ModifyCurrentContextGood, NamesAssumption
     DEF UnsetCurrentContext
<1>2. QED
  BY <1>1, EditInPlaceKeeps DEF UnsetCurrentContext

\* The kubeconfig that is going to be merged is sound when it is read.
LEMMA MergeToDefaultKeeps ==
    ASSUME IInv, NEW t \in Terminal, MergeToDefault(t)
    PROVE  IInv'
<1> DEFINE kc == files[CurrentPath(t)]
<1>1. Good(kc)
  BY ReadableGood DEF MergeToDefault
<1>2. Remembered([NoJob EXCEPT !.source = kc])
  <2> HIDE DEF kc
  <2>1. QED
    BY <1>1, NoJobRemembered, RememberedFields
<1>3. JobsGood'
  BY <1>2, StartKeepsJobs DEF IInv, MergeToDefault
<1>4. UNCHANGED <<files, history>>
  BY DEF MergeToDefault
<1>5. QED
  BY <1>3, <1>4, SameFiles DEF IInv, HistoryTyped

\* The history changes by an entry that a command remembered.
LEMMA HistoryKeeps ==
    ASSUME IInv, NEW t \in Terminal, LookupHistory(t) \/ AppendToHistory(t)
    PROVE  IInv'
<1>1. JobsGood'
  BY AfterHistoryKeepsJobs, SameJobs
     DEF IInv, LookupHistory, AppendToHistory
<1>2. FilesGood'
  BY SameFiles DEF IInv, LookupHistory, AppendToHistory
<1>3. job[t].entry \in EntryType
  BY DEF IInv, JobsGood, Remembered
<1>4. HistoryTyped'
  BY <1>3 DEF IInv, HistoryTyped, LookupHistory, AppendToHistory
<1>5. QED
  BY <1>1, <1>2, <1>4 DEF IInv

\* The merged document is sound, and so is a target that had to be created.
LEMMA MergeDataToTargetKeeps ==
    ASSUME IInv, NEW t \in Terminal, MergeDataToTarget(t)
    PROVE  IInv'
<1> DEFINE target == WriteTarget(t)
           exists == target \in DOMAIN files
           dst == IF exists THEN files[target] ELSE EmptyKubeconfig
           merged == Merge(dst, job[t].source)
           updated == [job[t] EXCEPT !.path = target, !.data = merged]
<1>1. UNCHANGED history
  BY DEF MergeDataToTarget
<1>2. CASE End(t) /\ UNCHANGED files
  BY <1>1, <1>2, EndKeepsJobs, SameFiles DEF IInv, HistoryTyped
<1>3. CASE /\ dst # Torn
           /\ files' = IF exists THEN files ELSE Put(target, dst)
           /\ job' = [job EXCEPT ![t].path = target, ![t].data = merged]
  <2>1. Good(dst)
    BY <1>3, EmptyGood DEF IInv, FilesGood
  <2>2. Remembered(job[t])
    BY DEF IInv, JobsGood
  <2>3. Good(merged)
    <3> HIDE DEF dst
    <3>1. QED
      BY <2>1, <2>2, MergeGood DEF Remembered
  <2>4. Remembered(updated)
    <3> HIDE DEF merged, target
    <3>1. Remembered([job[t] EXCEPT !.path = target])
      BY <2>2, RememberedFields
    <3>2. QED
      BY <2>3, <3>1, RememberedFields
  <2>5. job' = [job EXCEPT ![t] = updated]
    <3> HIDE DEF merged, target
    <3>1. QED
      BY <1>3
  <2>6. JobsGood'
    <3> HIDE DEF updated
    <3>1. QED
      BY <2>4, <2>5, JobUpdated DEF IInv
  <2>7. FilesGood'
    <3> HIDE DEF dst
    <3>1. CASE exists
      BY <1>3, <3>1, SameFiles DEF IInv
    <3>2. CASE ~exists
      BY <1>3, <2>1, <3>2, PutKeepsFiles DEF IInv
    <3>3. QED
      BY <3>1, <3>2
  <2>8. QED
    BY <1>1, <2>6, <2>7 DEF IInv, HistoryTyped
<1>4. QED
  BY <1>2, <1>3 DEF MergeDataToTarget

\* A torn file is not read.
LEMMA TruncateKeeps ==
    ASSUME IInv, NEW t \in Terminal, Truncate(t)
    PROVE  IInv'
<1>1. UNCHANGED history
  BY DEF Truncate
<1>2. CASE End(t) /\ UNCHANGED files
  BY <1>1, <1>2, EndKeepsJobs, SameFiles DEF IInv, HistoryTyped
<1>3. CASE files' = Put(job[t].path, Torn) /\ UNCHANGED job
  BY <1>1, <1>3, PutKeepsFiles, SameJobs DEF IInv, HistoryTyped
<1>4. QED
  BY <1>2, <1>3 DEF Truncate

\* What is written is what the command remembered.
LEMMA EmitKeeps ==
    ASSUME IInv, NEW t \in Terminal, Emit(t)
    PROVE  IInv'
<1>1. UNCHANGED history
  BY DEF Emit
<1>2. Good(job[t].data)
  BY DEF IInv, JobsGood, Remembered
<1>3. files' = Put(job[t].path, job[t].data) \/ UNCHANGED files
  BY DEF Emit
<1>4. FilesGood'
  BY <1>2, <1>3, PutKeepsFiles, SameFiles DEF IInv
<1>5. UNCHANGED job \/ End(t)
  BY DEF Emit
<1>6. JobsGood'
  BY <1>5, EndKeepsJobs, SameJobs DEF IInv
<1>7. QED
  BY <1>1, <1>4, <1>6 DEF IInv, HistoryTyped

\* The shell function and `clean` only remove files.
LEMMA ReportKeeps ==
    ASSUME IInv, NEW t \in Terminal, Report(t)
    PROVE  IInv'
<1>1. UNCHANGED history /\ End(t)
  BY DEF Report
<1>2. files' = Without({env[t]}) \/ UNCHANGED files
  BY DEF Report
<1>3. FilesGood'
  BY <1>2, WithoutKeepsFiles, SameFiles DEF IInv
<1>4. QED
  BY <1>1, <1>3, EndKeepsJobs DEF IInv, HistoryTyped

\* Cleaning leaves the running commands alone.
LEMMA CleanKeeps ==
    ASSUME IInv, NEW t \in Terminal, Clean(t)
    PROVE  IInv'
<1>1. UNCHANGED <<job, history>>
  BY DEF Clean
<1>2. FilesGood'
  BY WithoutKeepsFiles DEF IInv, Clean
<1>3. QED
  BY <1>1, <1>2, SameJobs DEF IInv, HistoryTyped

\* A killed command leaves the files as they are at that moment.
LEMMA KillKeeps ==
    ASSUME IInv, NEW t \in Terminal, Kill(t)
    PROVE  IInv'
BY EndKeepsJobs, SameFiles DEF Kill, IInv, HistoryTyped

\* Every step of every terminal keeps the invariant.
LEMMA NextKeeps ==
    ASSUME IInv, [Next]_vars
    PROVE  IInv'
<1>1. ASSUME NEW t \in Terminal, Step(t)
      PROVE  IInv'
  <2>1. CASE Switcher(t, "menu") \/ Switcher(t, "write")
    BY <2>1, SwitcherKeeps
  <2>2. CASE SetContextCommand(t)
    BY <2>2, SetContextKeeps
  <2>3. CASE \E command \in {"last", "previous", "history"} :
                SwitchFromHistory(t, command)
    BY <2>3, SwitchFromHistoryKeeps
  <2>4. CASE SwitchNamespace(t)
    BY <2>4, SwitchNamespaceKeeps
  <2>5. CASE DeleteContext(t)
    BY <2>5, DeleteContextKeeps
  <2>6. CASE UnsetCurrentContext(t)
    BY <2>6, UnsetCurrentContextKeeps
  <2>7. CASE MergeToDefault(t)
    BY <2>7, MergeToDefaultKeeps
  <2>8. CASE Clean(t)
    BY <2>8, CleanKeeps
  <2>9. CASE LookupHistory(t) \/ AppendToHistory(t)
    BY <2>9, HistoryKeeps
  <2>10. CASE MergeDataToTarget(t)
    BY <2>10, MergeDataToTargetKeeps
  <2>11. CASE Truncate(t)
    BY <2>11, TruncateKeeps
  <2>12. CASE Emit(t)
    BY <2>12, EmitKeeps
  <2>13. CASE Report(t)
    BY <2>13, ReportKeeps
  <2>14. CASE Kill(t)
    BY <2>14, KillKeeps
  <2>15. QED
    BY <1>1, <2>1, <2>2, <2>3, <2>4, <2>5, <2>6, <2>7, <2>8, <2>9, <2>10,
       <2>11, <2>12, <2>13, <2>14 DEF Step
<1>2. CASE UNCHANGED vars
  BY <1>2, SameFiles, SameJobs DEF vars, IInv, HistoryTyped
<1>3. QED
  BY <1>1, <1>2 DEF Next, Rest

-----------------------------------------------------------------------------
(* The theorems.                                                           *)

\* Whatever terminals, stores and commands there are, and wherever commands
\* are killed, files and running commands only hold sound kubeconfigs.
THEOREM TerminalsInvariant == Spec => []IInv
BY InitIInv, NextKeeps, PTL DEF Spec

\* No kubeconfig that kswitch leaves behind (kubectx_copied, merge.go) has a
\* context whose cluster or user is not in the file.
THEOREM KubeconfigsStaySound == Spec => []FilesAreSound
<1>1. IInv => FilesAreSound
  BY DEF IInv, FilesGood, FilesAreSound, Good
<1>2. QED
  BY <1>1, TerminalsInvariant, PTL

-----------------------------------------------------------------------------
(* What an action does to the terminal that takes it.                      *)

Steps == {"idle", "lookup", "append", "merge", "truncate", "emit", "report"}

\* What TypeOK says besides the contents of files, jobs and history.
Kinds ==
    /\ DOMAIN files \subseteq Seq(File)
    /\ directory \in BOOLEAN
    /\ env \in [Terminal -> Seq(File)]
    /\ control \in [Terminal -> Steps]
    /\ \A t \in Terminal : /\ job[t].command \in CommandNames \cup {"none"}
                           /\ job[t].path \in Seq(File)
                           /\ job[t].append \in BOOLEAN
    /\ started \in 0..MaxCommands
    /\ selected \in [Terminal -> EntryType]
    /\ cleaned \subseteq Seq(File)

\* The terminal's variables get these values.
Changed(t, c, j, e, s) ==
    /\ control' = [control EXCEPT ![t] = c]
    /\ job' = [job EXCEPT ![t] = j]
    /\ env' = [env EXCEPT ![t] = e]
    /\ selected' = [selected EXCEPT ![t] = s]

\* Types are kept if what changes is typed.
LEMMA KindsChanged ==
    ASSUME Kinds, JobsGood, NEW t \in Terminal, NEW c \in Steps, NEW j,
           NEW e \in Seq(File), NEW s \in EntryType, Changed(t, c, j, e, s),
           j.command \in CommandNames \cup {"none"}, j.path \in Seq(File),
           j.append \in BOOLEAN,
           DOMAIN files' \subseteq Seq(File), directory' \in BOOLEAN,
           started' \in 0..MaxCommands, cleaned' \subseteq Seq(File)
    PROVE  Kinds'
<1>1. /\ env' \in [Terminal -> Seq(File)]
      /\ control' \in [Terminal -> Steps]
      /\ selected' \in [Terminal -> EntryType]
  <2> HIDE DEF Steps
  <2>1. QED
    BY DEF Kinds, Changed
<1>2. ASSUME NEW u \in Terminal
      PROVE  /\ job'[u].command \in CommandNames \cup {"none"}
             /\ job'[u].path \in Seq(File)
             /\ job'[u].append \in BOOLEAN
  <2>1. job'[u] = IF u = t THEN j ELSE job[u]
    BY DEF JobsGood, Changed
  <2>2. QED
    BY <2>1 DEF Kinds
<1>3. (Seq(File))' = Seq(File) /\ EntryType' = EntryType
  BY DEF EntryType
<1>4. QED
  BY <1>1, <1>2, <1>3 DEF Kinds

\* A command that starts.
LEMMA StartStep ==
    ASSUME Kinds, NEW t \in Terminal, NEW command, NEW next, NEW memory,
           Start(t, command, next, memory), UNCHANGED env
    PROVE  /\ control[t] = "idle"
           /\ command \in CommandNames
           /\ started' = started + 1
           /\ started' \in 0..MaxCommands
           /\ UNCHANGED selected =>
                Changed(t, next, [memory EXCEPT !.command = command], env[t],
                        selected[t])
           /\ selected' = [selected EXCEPT ![t] = NoEntry] =>
                Changed(t, next, [memory EXCEPT !.command = command], env[t],
                        NoEntry)
<1>1. /\ env' = [env EXCEPT ![t] = env[t]]
      /\ selected = [selected EXCEPT ![t] = selected[t]]
  BY DEF Kinds
<1>2. started' \in 0..MaxCommands
  BY TerminalsAssumption DEF Start, Kinds
<1>3. QED
  BY <1>1, <1>2, TerminalsAssumption DEF Start, Changed

\* A command that ends.
LEMMA EndStep ==
    ASSUME Kinds, NEW t \in Terminal, End(t), UNCHANGED <<env, selected>>
    PROVE  Changed(t, "idle", NoJob, env[t], selected[t])
BY DEF Kinds, End, Goto, Changed

\* A command that goes on.
LEMMA GotoStep ==
    ASSUME Kinds, JobsGood, NEW t \in Terminal, NEW next, Goto(t, next),
           UNCHANGED <<job, env, selected>>
    PROVE  Changed(t, next, job[t], env[t], selected[t])
BY DEF Kinds, JobsGood, Goto, Changed

\* A job, with all its fields.
Job(command, path, source, data, entry, append, selection) ==
    [command |-> command, path |-> path, source |-> source, data |-> data,
     entry |-> entry, append |-> append, selection |-> selection]

\* What commands start with: those that make a copy, `ns`, delete-context and
\* unset-context, and merge-to-default-kubeconfig.
CopyMemory(path, kc, entry, append, selection) ==
    [NoJob EXCEPT !.path = path, !.source = kc, !.entry = entry,
                  !.append = append, !.selection = selection]
NsMemory(path, kc, entry, append) ==
    [NoJob EXCEPT !.path = path, !.data = kc, !.entry = entry,
                  !.append = append]
EditMemory(path, kc) == [NoJob EXCEPT !.path = path, !.data = kc]
MergeMemory(kc) == [NoJob EXCEPT !.source = kc]

\* All their fields: of those that make a copy,
LEMMA CopyMade ==
    ASSUME NEW path, NEW kc, NEW entry, NEW append, NEW selection
    PROVE  CopyMemory(path, kc, entry, append, selection) =
              Job("none", path, kc, EmptyKubeconfig, entry, append, selection)
<1> DEFINE no == FALSE
           m0 == NoJob
           m1 == [m0 EXCEPT !.path = path]
           m2 == [m1 EXCEPT !.source = kc]
           m3 == [m2 EXCEPT !.entry = entry]
           m4 == [m3 EXCEPT !.append = append]
           m5 == [m4 EXCEPT !.selection = selection]
<1>1. m0 = Job("none", Unnamed, EmptyKubeconfig, EmptyKubeconfig, NoEntry, no,
               NoEntry)
  BY DEF NoJob, Job
<1>2. m5 = CopyMemory(path, kc, entry, append, selection)
  BY DEF CopyMemory
<1> HIDE DEF no, m0
<1>3. m1 = Job("none", path, EmptyKubeconfig, EmptyKubeconfig, NoEntry, no,
               NoEntry)
  BY <1>1 DEF Job
<1> HIDE DEF m1
<1>4. m2 = Job("none", path, kc, EmptyKubeconfig, NoEntry, no, NoEntry)
  BY <1>3 DEF Job
<1> HIDE DEF m2
<1>5. m3 = Job("none", path, kc, EmptyKubeconfig, entry, no, NoEntry)
  BY <1>4 DEF Job
<1> HIDE DEF m3
<1>6. m4 = Job("none", path, kc, EmptyKubeconfig, entry, append, NoEntry)
  BY <1>5 DEF Job
<1> HIDE DEF m4
<1>7. m5 = Job("none", path, kc, EmptyKubeconfig, entry, append, selection)
  BY <1>6 DEF Job
<1>8. QED
  BY <1>2, <1>7

\* of `ns`,
LEMMA NsMade ==
    ASSUME NEW path, NEW kc, NEW entry, NEW append
    PROVE  NsMemory(path, kc, entry, append) =
              Job("none", path, EmptyKubeconfig, kc, entry, append, NoEntry)
<1> DEFINE no == FALSE
           m0 == NoJob
           m1 == [m0 EXCEPT !.path = path]
           m2 == [m1 EXCEPT !.data = kc]
           m3 == [m2 EXCEPT !.entry = entry]
           m4 == [m3 EXCEPT !.append = append]
<1>1. m0 = Job("none", Unnamed, EmptyKubeconfig, EmptyKubeconfig, NoEntry, no,
               NoEntry)
  BY DEF NoJob, Job
<1>2. m4 = NsMemory(path, kc, entry, append)
  BY DEF NsMemory
<1> HIDE DEF no, m0
<1>3. m1 = Job("none", path, EmptyKubeconfig, EmptyKubeconfig, NoEntry, no,
               NoEntry)
  BY <1>1 DEF Job
<1> HIDE DEF m1
<1>4. m2 = Job("none", path, EmptyKubeconfig, kc, NoEntry, no, NoEntry)
  BY <1>3 DEF Job
<1> HIDE DEF m2
<1>5. m3 = Job("none", path, EmptyKubeconfig, kc, entry, no, NoEntry)
  BY <1>4 DEF Job
<1> HIDE DEF m3
<1>6. m4 = Job("none", path, EmptyKubeconfig, kc, entry, append, NoEntry)
  BY <1>5 DEF Job
<1>7. QED
  BY <1>2, <1>6

\* and of the others.
LEMMA EditMade ==
    ASSUME NEW path, NEW kc
    PROVE  \E no : /\ no = FALSE
                   /\ EditMemory(path, kc) =
                         Job("none", path, EmptyKubeconfig, kc, NoEntry, no,
                             NoEntry)
                   /\ MergeMemory(kc) =
                         Job("none", Unnamed, kc, EmptyKubeconfig, NoEntry, no,
                             NoEntry)
<1> DEFINE no == FALSE
           m0 == NoJob
           m1 == [m0 EXCEPT !.path = path]
           m2 == [m1 EXCEPT !.data = kc]
           m3 == [m0 EXCEPT !.source = kc]
<1>1. m0 = Job("none", Unnamed, EmptyKubeconfig, EmptyKubeconfig, NoEntry, no,
               NoEntry)
  BY DEF NoJob, Job
<1>2. m2 = EditMemory(path, kc) /\ m3 = MergeMemory(kc)
  BY DEF EditMemory, MergeMemory
<1>3. no = FALSE
  OBVIOUS
<1> HIDE DEF no, m0
<1>4. m1 = Job("none", path, EmptyKubeconfig, EmptyKubeconfig, NoEntry, no,
               NoEntry)
  BY <1>1 DEF Job
<1> HIDE DEF m1
<1>5. m2 = Job("none", path, EmptyKubeconfig, kc, NoEntry, no, NoEntry)
  BY <1>4 DEF Job
<1>6. m3 = Job("none", Unnamed, kc, EmptyKubeconfig, NoEntry, no, NoEntry)
  BY <1>1 DEF Job
<1>7. QED
  <2> HIDE DEF m2, m3
  <2>1. QED
    BY <1>2, <1>3, <1>5, <1>6, Zenon

\* The job of a command that makes a copy.
CopyJob(command, copy, kc, entry, append, selection) ==
    Job(command, copy, kc, EmptyKubeconfig, entry, append, selection)

\* The path of a new copy, and what a command that makes one records.
NewCopy == <<TemporaryFile(started + 1)>>
CopyEntry(kc, context) ==
    Entry(context, NamespaceOfContext(kc, kc.current), Reaches(kc, kc.current))

\* Such a command starts with a copy nobody has.
LEMMA MakeCopyStep ==
    ASSUME Kinds, NEW t \in Terminal, NEW command, NEW next, NEW kc,
           NEW context, NEW append, NEW selection,
           MakeCopy(t, command, next, kc, context, append, selection)
    PROVE  /\ control[t] = "idle"
           /\ command \in CommandNames
           /\ started' = started + 1
           /\ started' \in 0..MaxCommands
           /\ NewCopy \in Seq(File)
           /\ files' = Put(NewCopy, kc)
           /\ directory' = TRUE
           /\ UNCHANGED <<history, cleaned>>
           /\ Changed(t, next, CopyJob(command, NewCopy, kc,
                                       CopyEntry(kc, context), append,
                                       selection),
                      env[t], selected[t])
<1> DEFINE memory == CopyMemory(NewCopy, kc, CopyEntry(kc, context), append,
                                selection)
<1>1. /\ Start(t, command, next, memory)
      /\ UNCHANGED <<env, selected>>
      /\ files' = Put(NewCopy, kc)
      /\ directory' = TRUE
      /\ UNCHANGED <<history, cleaned>>
  BY DEF MakeCopy, NewCopy, CopyEntry, CopyMemory
<1>2. [memory EXCEPT !.command = command] =
         CopyJob(command, NewCopy, kc, CopyEntry(kc, context), append,
                 selection)
  <2> HIDE DEF memory
  <2>1. memory = Job("none", NewCopy, kc, EmptyKubeconfig,
                     CopyEntry(kc, context), append, selection)
    BY CopyMade DEF memory
  <2>2. QED
    BY <2>1 DEF CopyJob, Job
<1>3. /\ control[t] = "idle"
      /\ command \in CommandNames
      /\ started' = started + 1
      /\ started' \in 0..MaxCommands
      /\ Changed(t, next, [memory EXCEPT !.command = command], env[t],
                 selected[t])
  <2> HIDE DEF memory
  <2>1. QED
    BY <1>1, StartStep
<1>4. NewCopy \in Seq(File)
  <2>1. started + 1 \in 1..MaxCommands
    BY <1>3 DEF Kinds
  <2>2. TemporaryFile(started + 1) \in File
    BY <2>1, TerminalsAssumption DEF TemporaryFile, File, Custom
  <2>3. QED
    BY <2>2 DEF NewCopy
<1>5. QED
  <2> HIDE DEF memory
  <2>1. QED
    BY <1>1, <1>2, <1>3, <1>4

\* So types are kept.
LEMMA MakeCopyKinds ==
    ASSUME Kinds, JobsGood, NEW t \in Terminal, NEW command,
           NEW next \in Steps, NEW kc,
           NEW context, NEW append \in BOOLEAN, NEW selection,
           MakeCopy(t, command, next, kc, context, append, selection)
    PROVE  Kinds'
<1> DEFINE j == CopyJob(command, NewCopy, kc, CopyEntry(kc, context), append,
                        selection)
<1>1. /\ command \in CommandNames
      /\ started' \in 0..MaxCommands
      /\ NewCopy \in Seq(File)
      /\ files' = Put(NewCopy, kc)
      /\ directory' = TRUE
      /\ UNCHANGED cleaned
      /\ Changed(t, next, j, env[t], selected[t])
  BY MakeCopyStep
<1>2. DOMAIN files' \subseteq Seq(File)
  BY <1>1 DEF Kinds, Put
<1>3. /\ j.command = command
      /\ j.path = NewCopy
      /\ j.append = append
  BY DEF CopyJob, Job
<1>4. env[t] \in Seq(File) /\ selected[t] \in EntryType
  BY DEF Kinds
<1>5. cleaned' \subseteq Seq(File)
  BY <1>1 DEF Kinds
<1>6. QED
  <2> HIDE DEF j, Steps
  <2>1. QED
    BY <1>1, <1>2, <1>3, <1>4, <1>5, KindsChanged

\* What `ns` writes and records.
NsData(path, ns) == SetNamespace(files[path], files[path].current, ns)
NsEntry(kc, ns) == Entry(kc.kswitch, ns, Reaches(kc, kc.current))
NsJob(path, ns, append) ==
    Job("ns", path, EmptyKubeconfig, NsData(path, ns),
        NsEntry(NsData(path, ns), ns), append, NoEntry)

\* `ns` starts with a kubeconfig that has a current context.
LEMMA SwitchNamespaceStep ==
    ASSUME Kinds, NEW t \in Terminal, SwitchNamespace(t)
    PROVE  /\ control[t] = "idle"
           /\ started' = started + 1
           /\ started' \in 0..MaxCommands
           /\ Len(CurrentPath(t)) = 1
           /\ Readable(CurrentPath(t))
           /\ files[CurrentPath(t)].current \in
                 Names(files[CurrentPath(t)].contexts)
           /\ UNCHANGED <<files, directory, history, cleaned>>
           /\ \E ns \in Namespaces : \E append \in BOOLEAN :
                 Changed(t, "truncate", NsJob(CurrentPath(t), ns, append),
                         env[t], selected[t])
<1> DEFINE path == CurrentPath(t)
           Memory(ns, append) ==
              NsMemory(path, NsData(path, ns), NsEntry(NsData(path, ns), ns),
                       append)
<1>1. /\ Len(path) = 1
      /\ Readable(path)
      /\ files[path].current \in Names(files[path].contexts)
      /\ UNCHANGED <<files, directory, env, history, selected, cleaned>>
  BY DEF SwitchNamespace, SupportedPath
<1>2. PICK ns \in Namespaces : \E interactive \in BOOLEAN :
         Start(t, "ns", "truncate",
               Memory(ns, ~interactive \/ NsData(path, ns).kswitch # Unset))
  BY DEF SwitchNamespace, NsData, NsEntry, NsMemory
<1>3. PICK append \in BOOLEAN : Start(t, "ns", "truncate", Memory(ns, append))
  <2> HIDE DEF Memory
  <2>1. PICK interactive \in BOOLEAN :
           Start(t, "ns", "truncate",
                 Memory(ns, ~interactive \/ NsData(path, ns).kswitch # Unset))
    BY <1>2
  <2> DEFINE append == ~interactive \/ NsData(path, ns).kswitch # Unset
  <2>2. append \in BOOLEAN
    OBVIOUS
  <2>3. QED
    BY <2>1, <2>2, Zenon
<1>4. [Memory(ns, append) EXCEPT !.command = "ns"] = NsJob(path, ns, append)
  <2> DEFINE memory == Memory(ns, append)
  <2> HIDE DEF memory
  <2>1. memory = Job("none", path, EmptyKubeconfig, NsData(path, ns),
                     NsEntry(NsData(path, ns), ns), append, NoEntry)
    BY NsMade DEF memory
  <2>2. [memory EXCEPT !.command = "ns"] = NsJob(path, ns, append)
    BY <2>1 DEF NsJob, Job
  <2>3. QED
    BY <2>2 DEF memory
<1>5. /\ control[t] = "idle"
      /\ started' = started + 1
      /\ started' \in 0..MaxCommands
      /\ Changed(t, "truncate", [Memory(ns, append) EXCEPT !.command = "ns"],
                 env[t], selected[t])
  <2> HIDE DEF Memory
  <2>1. QED
    BY <1>1, <1>3, StartStep
<1>6. QED
  <2> HIDE DEF Memory
  <2>1. QED
    BY <1>1, <1>4, <1>5

\* Paths are sequences of files.
LEMMA PathsTyped ==
    ASSUME Kinds, NEW t \in Terminal
    PROVE  /\ <<Default>> \in Seq(File)
           /\ env[t] \in Seq(File)
           /\ CurrentPath(t) \in Seq(File)
           /\ WriteTarget(t) \in Seq(File)
<1>1. Default \in File
  BY TerminalsAssumption DEF Default, Custom, File
<1>2. QED
  BY <1>1 DEF Kinds, CurrentPath, WriteTarget

\* So `ns` keeps types.
LEMMA SwitchNamespaceKinds ==
    ASSUME Kinds, JobsGood, NEW t \in Terminal, SwitchNamespace(t)
    PROVE  Kinds'
<1>1. PICK ns \in Namespaces, append \in BOOLEAN :
         Changed(t, "truncate", NsJob(CurrentPath(t), ns, append), env[t],
                 selected[t])
  BY SwitchNamespaceStep
<1> DEFINE j == NsJob(CurrentPath(t), ns, append)
<1>2. /\ j.command = "ns"
      /\ j.path = CurrentPath(t)
      /\ j.append \in BOOLEAN
  BY DEF NsJob, Job
<1>3. /\ started' \in 0..MaxCommands
      /\ UNCHANGED <<files, directory, cleaned>>
  BY SwitchNamespaceStep
<1>4. /\ env[t] \in Seq(File) /\ selected[t] \in EntryType
      /\ CurrentPath(t) \in Seq(File)
  BY PathsTyped DEF Kinds
<1>5. /\ DOMAIN files' \subseteq Seq(File)
      /\ directory' \in BOOLEAN
      /\ cleaned' \subseteq Seq(File)
  BY <1>3 DEF Kinds
<1>6. "truncate" \in Steps /\ "ns" \in CommandNames
  BY DEF Steps, CommandNames
<1>7. j.command \in CommandNames \cup {"none"} /\ j.path \in Seq(File)
  BY <1>2, <1>3, <1>4, <1>6
<1>8. QED
  BY <1>1, <1>2, <1>3, <1>4, <1>5, <1>6, <1>7, KindsChanged

\* What delete-context and unset-context start with,
LEMMA EditInPlaceStep ==
    ASSUME Kinds, NEW t \in Terminal, NEW command, NEW kc,
           EditInPlace(t, command, kc)
    PROVE  /\ control[t] = "idle"
           /\ command \in CommandNames
           /\ started' = started + 1
           /\ started' \in 0..MaxCommands
           /\ UNCHANGED <<files, directory, history, cleaned>>
           /\ \E append \in BOOLEAN :
                 Changed(t, "truncate",
                         Job(command, env[t], EmptyKubeconfig, kc, NoEntry,
                             append, NoEntry),
                         env[t], NoEntry)
<1> DEFINE memory == EditMemory(env[t], kc)
<1>1. PICK no : /\ no = FALSE
                /\ memory = Job("none", env[t], EmptyKubeconfig, kc, NoEntry,
                                no, NoEntry)
  BY EditMade
<1>2. /\ Start(t, command, "truncate", memory)
      /\ UNCHANGED env
      /\ selected' = [selected EXCEPT ![t] = NoEntry]
      /\ UNCHANGED <<files, directory, history, cleaned>>
  BY DEF EditInPlace, EditMemory
<1> HIDE DEF memory
<1>3. [memory EXCEPT !.command = command] =
         Job(command, env[t], EmptyKubeconfig, kc, NoEntry, no, NoEntry)
  BY <1>1 DEF Job
<1>4. /\ control[t] = "idle"
      /\ command \in CommandNames
      /\ started' = started + 1
      /\ started' \in 0..MaxCommands
      /\ Changed(t, "truncate", [memory EXCEPT !.command = command], env[t],
                 NoEntry)
  BY <1>2, StartStep
<1>5. no \in BOOLEAN
  BY <1>1
<1>6. QED
  BY <1>2, <1>3, <1>4, <1>5

\* which is typed;
LEMMA EditInPlaceKinds ==
    ASSUME Kinds, JobsGood, NEW t \in Terminal, NEW command, NEW kc,
           EditInPlace(t, command, kc)
    PROVE  Kinds'
<1>1. PICK append \in BOOLEAN :
         Changed(t, "truncate",
                 Job(command, env[t], EmptyKubeconfig, kc, NoEntry, append,
                     NoEntry), env[t], NoEntry)
  BY EditInPlaceStep
<1> DEFINE j == Job(command, env[t], EmptyKubeconfig, kc, NoEntry, append,
                    NoEntry)
<1>2. /\ j.command = command
      /\ j.path = env[t]
      /\ j.append \in BOOLEAN
  BY DEF Job
<1>3. /\ started' \in 0..MaxCommands
      /\ command \in CommandNames
      /\ UNCHANGED <<files, directory, cleaned>>
  BY EditInPlaceStep
<1>4. env[t] \in Seq(File) /\ NoEntry \in EntryType
  BY NoJobRemembered DEF Kinds
<1>5. /\ DOMAIN files' \subseteq Seq(File)
      /\ directory' \in BOOLEAN
      /\ cleaned' \subseteq Seq(File)
  BY <1>3 DEF Kinds
<1>6. "truncate" \in Steps
  BY DEF Steps
<1>7. j.command \in CommandNames \cup {"none"} /\ j.path \in Seq(File)
  BY <1>2, <1>3, <1>4, <1>6
<1>8. QED
  BY <1>1, <1>2, <1>3, <1>4, <1>5, <1>6, <1>7, KindsChanged

\* and what merge-to-default-kubeconfig does.
LEMMA MergeToDefaultStep ==
    ASSUME Kinds, NEW t \in Terminal, MergeToDefault(t)
    PROVE  /\ control[t] = "idle"
           /\ started' = started + 1
           /\ started' \in 0..MaxCommands
           /\ UNCHANGED <<files, directory, history, cleaned>>
           /\ \E append \in BOOLEAN :
                 Changed(t, "merge",
                         Job("merge", Unnamed, files[CurrentPath(t)],
                             EmptyKubeconfig, NoEntry, append, NoEntry),
                         env[t], selected[t])
<1> DEFINE kc == files[CurrentPath(t)]
           memory == MergeMemory(kc)
<1>1. PICK no : /\ no = FALSE
                /\ memory = Job("none", Unnamed, kc, EmptyKubeconfig, NoEntry,
                                no, NoEntry)
  BY EditMade
<1>2. /\ Start(t, "merge", "merge", memory)
      /\ UNCHANGED <<files, directory, env, history, selected, cleaned>>
  BY DEF MergeToDefault, MergeMemory
<1> HIDE DEF memory
<1>3. [memory EXCEPT !.command = "merge"] =
         Job("merge", Unnamed, kc, EmptyKubeconfig, NoEntry, no, NoEntry)
  BY <1>1 DEF Job
<1>4. /\ control[t] = "idle"
      /\ started' = started + 1
      /\ started' \in 0..MaxCommands
      /\ Changed(t, "merge", [memory EXCEPT !.command = "merge"], env[t],
                 selected[t])
  BY <1>2, StartStep
<1>5. no \in BOOLEAN
  BY <1>1
<1>6. QED
  BY <1>2, <1>3, <1>4, <1>5

\* A started merge keeps what the commands hold well typed.
LEMMA MergeToDefaultKinds ==
    ASSUME Kinds, JobsGood, NEW t \in Terminal, MergeToDefault(t)
    PROVE  Kinds'
<1> DEFINE Of(append) ==
              Job("merge", Unnamed, files[CurrentPath(t)], EmptyKubeconfig,
                  NoEntry, append, NoEntry)
<1>1. PICK append \in BOOLEAN :
         Changed(t, "merge", Of(append), env[t], selected[t])
  BY MergeToDefaultStep
<1> DEFINE j == Of(append)
<1>2. /\ j.command = "merge"
      /\ j.path = Unnamed
      /\ j.append \in BOOLEAN
  BY DEF Job
<1>3. /\ started' \in 0..MaxCommands
      /\ UNCHANGED <<files, directory, cleaned>>
  BY MergeToDefaultStep
<1>4. /\ env[t] \in Seq(File) /\ selected[t] \in EntryType
      /\ Unnamed \in Seq(File)
  BY DEF Kinds, Unnamed
<1>5. /\ DOMAIN files' \subseteq Seq(File)
      /\ directory' \in BOOLEAN
      /\ cleaned' \subseteq Seq(File)
  BY <1>3 DEF Kinds
<1>6. "merge" \in Steps /\ "merge" \in CommandNames
  BY DEF Steps, CommandNames
<1>7. j.command \in CommandNames \cup {"none"} /\ j.path \in Seq(File)
  BY <1>2, <1>3, <1>4, <1>6
<1>8. QED
  BY <1>1, <1>2, <1>3, <1>4, <1>5, <1>6, <1>7, KindsChanged

\* Ending a command, or letting it go on, keeps types.
LEMMA EndKinds ==
    ASSUME Kinds, JobsGood, NEW t \in Terminal, NEW c \in Steps,
           NEW s \in EntryType,
           \/ Changed(t, c, NoJob, env[t], s)
           \/ Changed(t, c, job[t], env[t], s),
           DOMAIN files' \subseteq Seq(File),
           UNCHANGED <<directory, started, cleaned>>
    PROVE  Kinds'
<1>1. /\ NoJob.command = "none"
      /\ NoJob.path = Unnamed
      /\ NoJob.append = FALSE
  BY DEF NoJob
<1>2. /\ NoJob.command \in CommandNames \cup {"none"}
      /\ NoJob.path \in Seq(File)
      /\ NoJob.append \in BOOLEAN
  <2>1. NoJob.append \in BOOLEAN
    BY <1>1, Zenon
  <2>2. QED
    BY <1>1, <2>1 DEF Unnamed
<1>3. /\ job[t].command \in CommandNames \cup {"none"}
      /\ job[t].path \in Seq(File)
      /\ job[t].append \in BOOLEAN
      /\ env[t] \in Seq(File)
  BY DEF Kinds
<1>4. /\ directory' \in BOOLEAN
      /\ started' \in 0..MaxCommands
      /\ cleaned' \subseteq Seq(File)
  BY DEF Kinds
<1>5. QED
  BY <1>2, <1>3, <1>4, KindsChanged

\* What follows the history: the end, the merge of `-w`, or the answer.
LEMMA AfterHistoryStep ==
    ASSUME Kinds, JobsGood, NEW t \in Terminal, AfterHistory(t),
           UNCHANGED <<env, selected>>
    PROVE  \/ /\ job[t].command = "ns"
              /\ Changed(t, "idle", NoJob, env[t], selected[t])
           \/ /\ job[t].command = "write"
              /\ Changed(t, "merge", job[t], env[t], selected[t])
           \/ /\ job[t].command \notin {"ns", "write"}
              /\ Changed(t, "report", job[t], env[t], selected[t])
<1>1. CASE job[t].command = "ns"
  BY <1>1, EndStep DEF AfterHistory
<1>2. CASE job[t].command = "write"
  BY <1>2, GotoStep DEF AfterHistory
<1>3. CASE job[t].command \notin {"ns", "write"}
  <2>1. Goto(t, "report") /\ UNCHANGED job
    BY <1>3 DEF AfterHistory
  <2>2. QED
    BY <1>3, <2>1, GotoStep
<1>4. QED
  BY <1>1, <1>2, <1>3

\* Looking at the history and appending to it keeps types.
LEMMA HistoryKinds ==
    ASSUME Kinds, JobsGood, NEW t \in Terminal,
           LookupHistory(t) \/ AppendToHistory(t)
    PROVE  Kinds'
<1>1. UNCHANGED <<files, directory, env, started, selected, cleaned>>
  BY DEF LookupHistory, AppendToHistory
<1>2. AfterHistory(t) \/ (Goto(t, "append") /\ UNCHANGED job)
  BY DEF LookupHistory, AppendToHistory
<1>3. \E c \in Steps : \/ Changed(t, c, NoJob, env[t], selected[t])
                       \/ Changed(t, c, job[t], env[t], selected[t])
  BY <1>1, <1>2, AfterHistoryStep, GotoStep DEF Steps
<1>4. selected[t] \in EntryType /\ DOMAIN files' \subseteq Seq(File)
  BY <1>1 DEF Kinds
<1>5. QED
  BY <1>1, <1>3, <1>4, EndKinds

\* What MergeDataToTarget merges into, and what becomes of the job.
Target(path) == IF path \in DOMAIN files THEN files[path] ELSE EmptyKubeconfig
MergeJob(t, path) ==
    Job(job[t].command, path, job[t].source,
        Merge(Target(path), job[t].source), job[t].entry, job[t].append,
        job[t].selection)

\* A merge is given up, or will be written.
LEMMA MergeDataToTargetStep ==
    ASSUME Kinds, JobsGood, NEW t \in Terminal, MergeDataToTarget(t)
    PROVE  LET path == WriteTarget(t)
           IN /\ control[t] = "merge"
              /\ UNCHANGED <<directory, history, started, cleaned>>
              /\ \/ /\ Changed(t, "idle", NoJob, env[t], selected[t])
                    /\ UNCHANGED files
                 \/ /\ Target(path) # Torn
                    /\ files' = IF path \in DOMAIN files THEN files
                                ELSE Put(path, EmptyKubeconfig)
                    /\ Changed(t, "truncate", MergeJob(t, path), env[t],
                               selected[t])
<1> DEFINE path == WriteTarget(t)
           merged == Merge(Target(path), job[t].source)
<1>1. /\ control[t] = "merge"
      /\ UNCHANGED <<directory, env, history, started, selected, cleaned>>
  BY DEF MergeDataToTarget
<1>2. CASE End(t) /\ UNCHANGED files
  BY <1>1, <1>2, EndStep
<1>3. CASE /\ Target(path) # Torn
           /\ files' = IF path \in DOMAIN files THEN files
                       ELSE Put(path, EmptyKubeconfig)
           /\ job' = [job EXCEPT ![t].path = path, ![t].data = merged]
           /\ Goto(t, "truncate")
  <2> HIDE DEF merged, path
  <2>1. job[t] = Job(job[t].command, job[t].path, job[t].source, job[t].data,
                     job[t].entry, job[t].append, job[t].selection)
    BY DEF JobsGood, Remembered, Job
  <2> DEFINE m == [job[t] EXCEPT !.path = path, !.data = merged]
             k == [job[t] EXCEPT !.path = path]
  <2>2. k = Job(job[t].command, path, job[t].source, job[t].data,
                job[t].entry, job[t].append, job[t].selection)
    BY <2>1 DEF Job
  <2>3. m = [k EXCEPT !.data = merged]
    OBVIOUS
  <2> HIDE DEF k
  <2>4. m = Job(job[t].command, path, job[t].source, merged, job[t].entry,
                job[t].append, job[t].selection)
    BY <2>2, <2>3 DEF Job
  <2>5. job' = [job EXCEPT ![t] = m]
    BY <1>3
  <2> HIDE DEF m
  <2>6. m = MergeJob(t, path)
    BY <2>4 DEF MergeJob, merged
  <2>7. Changed(t, "truncate", m, env[t], selected[t])
    BY <1>1, <1>3, <2>5 DEF Changed, Goto, Kinds
  <2>8. QED
    BY <1>1, <1>3, <2>6, <2>7 DEF path
<1>4. QED
  BY <1>2, <1>3 DEF MergeDataToTarget, Target

\* Either keeps types.
LEMMA MergeDataToTargetKinds ==
    ASSUME Kinds, JobsGood, NEW t \in Terminal, MergeDataToTarget(t)
    PROVE  Kinds'
<1> DEFINE path == WriteTarget(t)
           j == MergeJob(t, path)
<1>1. /\ UNCHANGED <<directory, started, cleaned>>
      /\ \/ /\ Changed(t, "idle", NoJob, env[t], selected[t])
            /\ UNCHANGED files
         \/ /\ files' = IF path \in DOMAIN files THEN files
                        ELSE Put(path, EmptyKubeconfig)
            /\ Changed(t, "truncate", j, env[t], selected[t])
  BY MergeDataToTargetStep
<1>2. path \in Seq(File) /\ env[t] \in Seq(File) /\ selected[t] \in EntryType
  BY PathsTyped DEF Kinds
<1>3. DOMAIN files' \subseteq Seq(File)
  <2> HIDE DEF path, j
  <2>1. QED
    BY <1>1, <1>2 DEF Kinds, Put
<1>4. /\ j.command = job[t].command
      /\ j.path = path
      /\ j.append = job[t].append
  BY DEF MergeJob, Job
<1>5. /\ j.command \in CommandNames \cup {"none"}
      /\ j.path \in Seq(File)
      /\ j.append \in BOOLEAN
  BY <1>2, <1>4 DEF Kinds
<1>6. /\ directory' \in BOOLEAN
      /\ started' \in 0..MaxCommands
      /\ cleaned' \subseteq Seq(File)
  BY <1>1 DEF Kinds
<1>7. "idle" \in Steps /\ "truncate" \in Steps
  BY DEF Steps
<1>8. CASE Changed(t, "idle", NoJob, env[t], selected[t])
  BY <1>1, <1>2, <1>3, <1>7, <1>8, EndKinds
<1>9. CASE Changed(t, "truncate", j, env[t], selected[t])
  BY <1>2, <1>3, <1>5, <1>6, <1>7, <1>9, KindsChanged
<1>10. QED
  BY <1>1, <1>8, <1>9

\* The file is truncated, unless its directory is gone.
LEMMA TruncateStep ==
    ASSUME Kinds, JobsGood, NEW t \in Terminal, Truncate(t)
    PROVE  /\ control[t] = "truncate"
           /\ UNCHANGED <<directory, history, started, cleaned>>
           /\ \/ /\ Changed(t, "idle", NoJob, env[t], selected[t])
                 /\ UNCHANGED files
                 /\ IsTemporary(job[t].path[1]) /\ ~directory
              \/ /\ Changed(t, "emit", job[t], env[t], selected[t])
                 /\ files' = Put(job[t].path, Torn)
<1>1. /\ control[t] = "truncate"
      /\ UNCHANGED <<directory, env, history, started, selected, cleaned>>
  BY DEF Truncate
<1>2. CASE End(t) /\ UNCHANGED files /\ IsTemporary(job[t].path[1])
             /\ ~directory
  BY <1>1, <1>2, EndStep
<1>3. CASE /\ files' = Put(job[t].path, Torn)
           /\ Goto(t, "emit")
           /\ UNCHANGED job
  BY <1>1, <1>3, GotoStep
<1>4. QED
  BY <1>2, <1>3 DEF Truncate

\* A truncated file changes nothing about what the commands hold.
LEMMA TruncateKinds ==
    ASSUME Kinds, JobsGood, NEW t \in Terminal, Truncate(t)
    PROVE  Kinds'
<1>1. /\ "idle" \in Steps /\ "emit" \in Steps
      /\ selected[t] \in EntryType
      /\ job[t].path \in Seq(File)
  BY DEF Steps, Kinds
<1>2. /\ UNCHANGED files \/ files' = Put(job[t].path, Torn)
      /\ UNCHANGED <<directory, started, cleaned>>
      /\ \E c \in Steps : \/ Changed(t, c, NoJob, env[t], selected[t])
                          \/ Changed(t, c, job[t], env[t], selected[t])
  BY <1>1, TruncateStep
<1>3. DOMAIN files' \subseteq Seq(File)
  BY <1>1, <1>2 DEF Kinds, Put
<1>4. QED
  BY <1>1, <1>2, <1>3, EndKinds

\* The last write, and what follows it.
LEMMA EmitStep ==
    ASSUME Kinds, JobsGood, NEW t \in Terminal, Emit(t)
    PROVE  /\ control[t] = "emit"
           /\ UNCHANGED <<directory, history, started, cleaned>>
           /\ files' = IF job[t].path \in DOMAIN files
                       THEN Put(job[t].path, job[t].data) ELSE files
           /\ \/ /\ job[t].command = "ns"
                 /\ Changed(t, "lookup", job[t], env[t], selected[t])
              \/ /\ job[t].command = "write"
                 /\ Changed(t, "report", job[t], env[t], selected[t])
              \/ /\ job[t].command # "write"
                 /\ Changed(t, "idle", NoJob, env[t], selected[t])
<1>1. /\ control[t] = "emit"
      /\ UNCHANGED <<directory, env, history, started, selected, cleaned>>
      /\ files' = IF job[t].path \in DOMAIN files
                  THEN Put(job[t].path, job[t].data) ELSE files
  BY DEF Emit
<1>2. CASE job[t].command = "ns" /\ job[t].append
  BY <1>1, <1>2, GotoStep DEF Emit
<1>3. CASE job[t].command = "write"
  <2>1. Goto(t, "report") /\ UNCHANGED job
    BY <1>3 DEF Emit
  <2>2. QED
    BY <1>1, <1>3, <2>1, GotoStep
<1>4. CASE /\ ~(job[t].command = "ns" /\ job[t].append)
           /\ job[t].command # "write"
  <2>1. End(t)
    BY <1>4 DEF Emit
  <2>2. QED
    BY <1>1, <1>4, <2>1, EndStep
<1>5. QED
  BY <1>2, <1>3, <1>4

\* Neither does the last write.
LEMMA EmitKinds ==
    ASSUME Kinds, JobsGood, NEW t \in Terminal, Emit(t)
    PROVE  Kinds'
<1>1. /\ {"idle", "lookup", "report"} \subseteq Steps
      /\ selected[t] \in EntryType
      /\ job[t].path \in Seq(File)
  BY DEF Steps, Kinds
<1>2. DOMAIN files' \subseteq Seq(File)
  BY <1>1, EmitStep DEF Kinds, Put
<1>3. UNCHANGED <<directory, started, cleaned>>
  BY EmitStep
<1>4. \E c \in Steps : \/ Changed(t, c, NoJob, env[t], selected[t])
                       \/ Changed(t, c, job[t], env[t], selected[t])
  BY <1>1, EmitStep
<1>5. QED
  BY <1>1, <1>2, <1>3, <1>4, EndKinds

\* A killed command.
LEMMA KillStep ==
    ASSUME Kinds, NEW t \in Terminal, Kill(t)
    PROVE  /\ control[t] # "idle"
           /\ UNCHANGED <<files, directory, history, started, cleaned>>
           /\ \E s \in {selected[t], NoEntry} :
                 /\ control[t] = "emit" => s = NoEntry
                 /\ Changed(t, "idle", NoJob, env[t], s)
<1>1. /\ control[t] # "idle"
      /\ UNCHANGED <<files, directory, env, history, started, cleaned>>
      /\ control' = [control EXCEPT ![t] = "idle"]
      /\ job' = [job EXCEPT ![t] = NoJob]
  BY DEF Kill, End, Goto
<1>2. /\ env = [env EXCEPT ![t] = env[t]]
      /\ selected = [selected EXCEPT ![t] = selected[t]]
  BY DEF Kinds
<1>3. CASE control[t] = "emit"
  BY <1>1, <1>2, <1>3 DEF Kill, Changed
<1>4. CASE control[t] # "emit"
  BY <1>1, <1>2, <1>4 DEF Kill, Changed
<1>5. QED
  BY <1>3, <1>4

\* A killed command leaves the others as they are.
LEMMA KillKinds ==
    ASSUME Kinds, JobsGood, NEW t \in Terminal, Kill(t)
    PROVE  Kinds'
<1>1. PICK s \in {selected[t], NoEntry} :
         Changed(t, "idle", NoJob, env[t], s)
  BY KillStep
<1>2. s \in EntryType /\ "idle" \in Steps
  BY NoJobRemembered DEF Kinds, Steps
<1>3. /\ DOMAIN files' \subseteq Seq(File)
      /\ UNCHANGED <<directory, started, cleaned>>
  BY KillStep DEF Kinds
<1>4. QED
  BY <1>1, <1>2, <1>3, EndKinds

\* `clean` changes files only.
LEMMA CleanKinds ==
    ASSUME Kinds, NEW t \in Terminal, Clean(t)
    PROVE  Kinds'
<1> DEFINE copies == {p \in DOMAIN files : Len(p) = 1 /\ IsTemporary(p[1])}
<1>1. /\ started < MaxCommands
      /\ started' = started + 1
      /\ files' = Without(copies)
      /\ directory' = FALSE
      /\ cleaned' = cleaned \cup copies
      /\ UNCHANGED <<env, control, job, selected>>
  BY DEF Clean
<1>2. started' \in 0..MaxCommands
  BY <1>1, TerminalsAssumption DEF Kinds
<1>3. /\ DOMAIN files' \subseteq Seq(File)
      /\ cleaned' \subseteq Seq(File)
  BY <1>1 DEF Kinds, Without
<1>4. (Seq(File))' = Seq(File) /\ EntryType' = EntryType
  BY DEF EntryType
<1>5. directory' \in BOOLEAN
  BY <1>1, Zenon
<1>6. QED
  BY <1>1, <1>2, <1>3, <1>4, <1>5 DEF Kinds

-----------------------------------------------------------------------------
(* The loop of the shell function.                                         *)

\* The order of the natural numbers is a well-founded relation.
LEMMA LessIsWellFounded ==
    \E R : /\ IsWellFoundedOn(R, Nat)
           /\ \A x, y \in Nat : x < y => <<x, y>> \in R
<1>1. \A x, y \in Nat : x < y => <<x, y>> \in OpToRel(<, Nat)
  BY Zenon DEF OpToRel
<1>2. QED
  BY <1>1, NatLessThanWellFounded, Zenon

\* Induction, for a set of natural numbers.
LEMMA SetInduction ==
    ASSUME NEW S, 0 \in S, \A n \in Nat : n \in S => n + 1 \in S
    PROVE  Nat \subseteq S
<1> DEFINE T == Nat \ S
<1>1. SUFFICES ASSUME T # {} PROVE FALSE
  OBVIOUS
<1>2. PICK R : /\ IsWellFoundedOn(R, Nat)
               /\ \A x, y \in Nat : x < y => <<x, y>> \in R
  BY LessIsWellFounded
<1>3. T \subseteq Nat
  OBVIOUS
<1> HIDE DEF T
<1>4. T # {} /\ T \subseteq Nat /\ IsWellFoundedOn(R, Nat)
  BY <1>1, <1>2, <1>3
<1>5. \E x \in T : \A y \in T : ~ (<<y, x>> \in R)
  BY <1>4, WFMin, Zenon
<1>6. PICK x \in T : \A y \in T : ~ (<<y, x>> \in R)
  BY <1>5
<1>7. x \in Nat /\ x # 0 /\ x \notin S
  BY <1>6 DEF T
<1>8. x - 1 \in Nat /\ x - 1 < x /\ x = (x - 1) + 1
  BY <1>7
<1>9. x - 1 \notin T
  BY <1>2, <1>6, <1>7, <1>8
<1>10. QED
  BY <1>7, <1>8, <1>9 DEF T

\* The new value of KUBECONFIG is a sequence of files that begins with the
\* answer, for the loop only appends.
LEMMA NewPathTyped ==
    ASSUME NEW answer \in Seq(File), answer # <<>>, NEW old \in Seq(File)
    PROVE  /\ NewPath(answer, old) \in Seq(File)
           /\ NewPath(answer, old) # <<>>
           /\ NewPath(answer, old)[1] = answer[1]
<1> DEFINE G == {s \in Seq(File) : s # <<>> /\ s[1] = answer[1]}
           n == Len(old)
           Body(g, i) == IF i = 0 THEN answer
                         ELSE IF IsTemporary(old[i]) THEN g[i - 1]
                              ELSE Append(g[i - 1], old[i])
           Upto(m, g) ==
              g \in [0..m -> G] /\ \A i \in 0..m : g[i] = Body(g, i)
           S == {m \in Nat : m <= n => \E g : Upto(m, g)}
           new == CHOOSE f : f = [i \in 0..n |-> Body(f, i)]
           U == {m \in Nat : m <= n => new[m] \in G}
<1>1. ASSUME NEW s \in G, NEW f \in File
      PROVE  Append(s, f) \in G
  <2>1. s \in Seq(File) /\ Len(s) \in Nat \ {0} /\ s[1] = answer[1]
    OBVIOUS
  <2>2. Append(s, f) \in Seq(File) /\ Len(Append(s, f)) = Len(s) + 1
    BY <2>1
  <2>3. Append(s, f)[1] = s[1]
    BY <2>1
  <2>4. Append(s, f) # <<>>
    BY <2>1, <2>2
  <2>5. QED
    BY <2>1, <2>2, <2>3, <2>4
<1>2. answer \in G
  OBVIOUS
<1> HIDE DEF G
<1>3. n \in Nat /\ \A i \in 1..n : old[i] \in File
  OBVIOUS
<1>4. 0 \in S
  <2>1. Upto(0, [i \in 0..0 |-> answer])
    BY <1>2
  <2>2. QED
    BY <2>1
<1>5. ASSUME NEW m \in Nat, m \in S
      PROVE  m + 1 \in S
  <2> SUFFICES ASSUME m + 1 <= n
               PROVE  \E g : Upto(m + 1, g)
    OBVIOUS
  <2>1. m + 1 <= n /\ m <= n
    BY <1>3
  <2>2. PICK g : Upto(m, g)
    BY <1>5, <2>1
  <2> DEFINE h == [i \in 0..(m + 1) |->
                      IF i = m + 1 THEN Body(g, m + 1) ELSE g[i]]
  <2>3. Body(g, m + 1) \in G
    <3>1. g[m] \in G
      BY <2>2
    <3>2. old[m + 1] \in File
      BY <1>3, <2>1
    <3>3. Append(g[m], old[m + 1]) \in G
      BY <1>1, <3>1, <3>2
    <3>4. QED
      BY <1>2, <3>1, <3>3
  <2>4. h \in [0..(m + 1) -> G]
    BY <2>2, <2>3
  <2>5. ASSUME NEW i \in 0..(m + 1)
        PROVE  h[i] = Body(h, i)
    <3>1. CASE i = 0
      BY <2>2, <3>1
    <3>2. CASE i # 0
      <4>1. i - 1 \in 0..m /\ h[i - 1] = g[i - 1]
        BY <3>2
      <4>2. Body(h, i) = Body(g, i)
        BY <4>1
      <4>3. CASE i = m + 1
        BY <4>2, <4>3
      <4>4. CASE i # m + 1
        <5>1. i \in 0..m
          BY <4>4
        <5>2. QED
          BY <2>2, <4>2, <4>4, <5>1
      <4>5. QED
        BY <4>3, <4>4
    <3>3. QED
      BY <3>1, <3>2
  <2>6. QED
    BY <2>4, <2>5
<1>6. PICK g : Upto(n, g)
  <2> HIDE DEF Upto, n
  <2>1. Nat \subseteq S
    <3> HIDE DEF S
    <3>1. QED
      BY <1>4, <1>5, SetInduction
  <2>2. QED
    BY <1>3, <2>1
<1>7. new = [i \in 0..n |-> Body(new, i)]
  <2>1. g = [i \in 0..n |-> Body(g, i)]
    BY <1>6
  <2>2. QED
    BY <2>1, Zenon
<1>8. \A i \in 0..n : new[i] = Body(new, i)
  <2> HIDE DEF Body, new
  <2>1. QED
    BY <1>7
<1>9. 0 \in U
  <2> HIDE DEF new
  <2>1. QED
    BY <1>2, <1>3, <1>8
<1>10. ASSUME NEW m \in Nat, m \in U
       PROVE  m + 1 \in U
  <2> HIDE DEF new
  <2> SUFFICES ASSUME m + 1 <= n
               PROVE  new[m + 1] \in G
    OBVIOUS
  <2>1. m + 1 <= n /\ m <= n
    BY <1>3
  <2>2. new[m] \in G
    BY <1>10, <2>1
  <2>3. new[m + 1] = Body(new, m + 1)
    BY <1>3, <1>8
  <2>4. old[m + 1] \in File
    BY <1>3, <2>1
  <2>5. Append(new[m], old[m + 1]) \in G
    BY <1>1, <2>2, <2>4
  <2>6. QED
    BY <2>2, <2>3, <2>5
<1>11. new[n] \in G
  <2> HIDE DEF new
  <2>1. Nat \subseteq U
    <3> HIDE DEF U
    <3>1. QED
      BY <1>9, <1>10, SetInduction
  <2>2. QED
    BY <1>3, <2>1
<1>12. NewPath(answer, old) = new[n]
  BY Zenon DEF NewPath
<1>13. QED
  BY <1>11, <1>12 DEF G

-----------------------------------------------------------------------------
(* Types.                                                                  *)

\* No file has an empty path, and a command that writes or answers has one.
Named ==
    /\ <<>> \notin DOMAIN files
    /\ \A t \in Terminal :
          control[t] \notin {"idle", "merge"} => job[t].path # <<>>

\* It is kept by a step that names what it goes on with.
LEMMA NamedChanged ==
    ASSUME Named, Kinds, JobsGood, NEW t \in Terminal, NEW c, NEW j, NEW e,
           NEW s, Changed(t, c, j, e, s),
           c \in {"idle", "merge"} \/ j.path # <<>>,
           <<>> \notin DOMAIN files'
    PROVE  Named'
<1>1. ASSUME NEW u \in Terminal
      PROVE  control'[u] \notin {"idle", "merge"} => job'[u].path # <<>>
  <2>1. /\ job'[u] = IF u = t THEN j ELSE job[u]
        /\ control'[u] = IF u = t THEN c ELSE control[u]
    BY DEF JobsGood, Kinds, Changed
  <2>2. QED
    BY <2>1 DEF Named
<1>2. QED
  BY <1>1 DEF Named

\* A file may be put at a path that is not empty.
LEMMA PutNamed ==
    ASSUME Named, NEW path, NEW contents
    PROVE  /\ path # <<>> => <<>> \notin DOMAIN Put(path, contents)
           /\ \A paths : <<>> \notin DOMAIN Without(paths)
BY DEF Named, Put, Without

\* A new copy has a path, and so have the files that are read or merged into.
LEMMA PathsNamed ==
    ASSUME Named, Kinds, NEW t \in Terminal
    PROVE  /\ NewCopy # <<>>
           /\ CurrentPath(t) # <<>>
           /\ WriteTarget(t) # <<>>
           /\ \A path : Readable(path) => path # <<>>
<1>1. <<Default>> # <<>> /\ NewCopy # <<>>
  BY DEF NewCopy
<1>2. QED
  BY <1>1 DEF CurrentPath, WriteTarget, Readable, Named, Unnamed

\* A new copy is a path, and nothing else becomes one.
LEMMA MakeCopyNamed ==
    ASSUME Named, Kinds, JobsGood, NEW t \in Terminal, NEW command, NEW next,
           NEW kc, NEW context, NEW append, NEW selection,
           MakeCopy(t, command, next, kc, context, append, selection)
    PROVE  Named'
<1> DEFINE j == CopyJob(command, NewCopy, kc, CopyEntry(kc, context), append,
                        selection)
<1>1. Changed(t, next, j, env[t], selected[t]) /\ files' = Put(NewCopy, kc)
  BY MakeCopyStep
<1>2. j.path = NewCopy
  BY DEF CopyJob, Job
<1>3. <<>> \notin DOMAIN files'
  BY <1>1, PathsNamed, PutNamed
<1>4. QED
  <2> HIDE DEF j
  <2>1. QED
    BY <1>1, <1>2, <1>3, PathsNamed, NamedChanged

\* The answer of the shell function.
LEMMA ReportStep ==
    ASSUME Kinds, Named, NEW t \in Terminal, Report(t)
    PROVE  /\ control[t] = "report"
           /\ UNCHANGED <<directory, history, started, cleaned>>
           /\ files' = Without({env[t]}) \/ UNCHANGED files
           /\ Changed(t, "idle", NoJob, NewPath(job[t].path, env[t]),
                      IF job[t].command = "write" THEN NoEntry
                      ELSE job[t].selection)
           /\ NewPath(job[t].path, env[t]) \in Seq(File)
           /\ NewPath(job[t].path, env[t]) # <<>>
           /\ NewPath(job[t].path, env[t])[1] = job[t].path[1]
<1>1. /\ job[t].path \in Seq(File) /\ env[t] \in Seq(File)
      /\ control[t] = "report"
  BY DEF Kinds, Report
<1>2. job[t].path # <<>>
  BY <1>1 DEF Named
<1>3. /\ NewPath(job[t].path, env[t]) \in Seq(File)
      /\ NewPath(job[t].path, env[t]) # <<>>
      /\ NewPath(job[t].path, env[t])[1] = job[t].path[1]
  BY <1>1, <1>2, NewPathTyped
<1>4. /\ UNCHANGED <<directory, history, started, cleaned>>
      /\ files' = Without({env[t]}) \/ UNCHANGED files
      /\ Changed(t, "idle", NoJob, NewPath(job[t].path, env[t]),
                 IF job[t].command = "write" THEN NoEntry
                 ELSE job[t].selection)
  BY DEF Report, Changed, End, Goto
<1>5. QED
  BY <1>1, <1>3, <1>4

\* The answer becomes the path of the terminal.
LEMMA ReportKinds ==
    ASSUME Kinds, Named, JobsGood, NEW t \in Terminal, Report(t)
    PROVE  Kinds'
<1> DEFINE e == NewPath(job[t].path, env[t])
           s == IF job[t].command = "write" THEN NoEntry ELSE job[t].selection
<1>1. /\ Changed(t, "idle", NoJob, e, s)
      /\ e \in Seq(File)
      /\ UNCHANGED <<directory, started, cleaned>>
      /\ files' = Without({env[t]}) \/ UNCHANGED files
  BY ReportStep
<1>2. s \in EntryType
  BY NoJobRemembered DEF JobsGood, Remembered
<1>3. DOMAIN files' \subseteq Seq(File)
  BY <1>1 DEF Kinds, Without
<1>4. /\ NoJob.command = "none"
      /\ NoJob.path = Unnamed
      /\ NoJob.append = FALSE
  BY DEF NoJob
<1>5. /\ NoJob.command \in CommandNames \cup {"none"}
      /\ NoJob.path \in Seq(File)
      /\ NoJob.append \in BOOLEAN
  <2>1. NoJob.append \in BOOLEAN
    BY <1>4, Zenon
  <2>2. QED
    BY <1>4, <2>1 DEF Unnamed
<1>6. /\ directory' \in BOOLEAN
      /\ started' \in 0..MaxCommands
      /\ cleaned' \subseteq Seq(File)
  BY <1>1 DEF Kinds
<1>7. "idle" \in Steps
  BY DEF Steps
<1>8. QED
  <2> HIDE DEF e, s
  <2>1. QED
    BY <1>1, <1>2, <1>3, <1>5, <1>6, <1>7, KindsChanged

\* Types and paths hold at the start,
LEMMA InitKinds ==
    ASSUME Init
    PROVE  Kinds /\ Named
<1>1. /\ Unnamed \in Seq(File)
      /\ <<Default>> \in Seq(File)
      /\ <<Custom>> \in Seq(File)
      /\ <<Default>> # <<>> /\ <<Custom>> # <<>>
  <2>1. Default \in File /\ Custom \in File
    BY TerminalsAssumption DEF Default, Custom, File
  <2>2. QED
    BY <2>1 DEF Unnamed
<1>2. /\ NoJob.command = "none"
      /\ NoJob.path = Unnamed
      /\ NoJob.append = FALSE
  BY DEF NoJob
<1>3. NoJob.append \in BOOLEAN
  BY <1>2, Zenon
<1>4. \A t \in Terminal : /\ job[t] = NoJob
                          /\ control[t] = "idle"
  BY DEF Init
<1>5. /\ env \in [Terminal -> Seq(File)]
      /\ control \in [Terminal -> Steps]
      /\ selected \in [Terminal -> EntryType]
  BY <1>1, NoJobRemembered, TerminalsAssumption DEF Init, Steps
<1>6. DOMAIN files \subseteq Seq(File) /\ <<>> \notin DOMAIN files
  BY <1>1 DEF Init
<1>7. /\ started \in 0..MaxCommands
      /\ cleaned \subseteq Seq(File)
  BY TerminalsAssumption DEF Init
<1>8. directory \in BOOLEAN
  <2>1. directory = FALSE
    BY DEF Init
  <2>2. QED
    BY <2>1, Zenon
<1>9. QED
  BY <1>1, <1>2, <1>3, <1>4, <1>5, <1>6, <1>7, <1>8 DEF Kinds, Named

\* and every step of a terminal keeps them: if it makes a copy,
LEMMA CopyStepKeepsTypes ==
    ASSUME IInv, Kinds, Named, NEW t \in Terminal,
           \/ Switcher(t, "menu") \/ Switcher(t, "write")
           \/ SetContextCommand(t)
           \/ \E command \in {"last", "previous", "history"} :
                 SwitchFromHistory(t, command)
    PROVE  Kinds' /\ Named'
<1>1. JobsGood
  BY DEF IInv
<1>2. \E command, next, kc, context, append, selection :
         /\ next \in Steps /\ append \in BOOLEAN
         /\ MakeCopy(t, command, next, kc, context, append, selection)
  <2>1. "lookup" \in Steps /\ "report" \in Steps /\ TRUE \in BOOLEAN
    BY DEF Steps
  <2>2. ASSUME NEW command, Switcher(t, command)
        PROVE  \E kc, context, selection :
                  MakeCopy(t, command, "lookup", kc, context, TRUE, selection)
    BY <2>2 DEF Switcher
  <2>3. CASE Switcher(t, "menu") \/ Switcher(t, "write")
    BY <2>1, <2>2, <2>3
  <2>4. CASE SetContextCommand(t)
    <3>1. \E kc, context, selection :
             MakeCopy(t, "set", "lookup", kc, context, TRUE, selection)
      BY <2>4 DEF SetContextCommand
    <3>2. QED
      BY <2>1, <3>1
  <2>5. ASSUME NEW command \in {"last", "previous", "history"},
               SwitchFromHistory(t, command)
        PROVE  \E next \in {"lookup", "report"} :
               \E kc, context, selection : \E append \in BOOLEAN :
                  MakeCopy(t, command, next, kc, context, append, selection)
    <3>1. (command = "history") \in BOOLEAN
      OBVIOUS
    <3>2. (IF command = "history" THEN "lookup" ELSE "report") \in
             {"lookup", "report"}
      OBVIOUS
    <3> DEFINE append == command = "history"
               next == IF command = "history" THEN "lookup" ELSE "report"
    <3>3. \E kc, context, selection :
             MakeCopy(t, command, next, kc, context, append, selection)
      BY <2>5 DEF SwitchFromHistory
    <3> HIDE DEF append, next
    <3>4. append \in BOOLEAN /\ next \in {"lookup", "report"}
      BY <3>1, <3>2 DEF append, next
    <3>5. QED
      BY <3>3, <3>4, Zenon
  <2>6. QED
    BY <2>1, <2>3, <2>4, <2>5
<1>3. QED
  BY <1>1, <1>2, MakeCopyKinds, MakeCopyNamed

\* if it starts an edit,
LEMMA EditStepKeepsTypes ==
    ASSUME IInv, Kinds, Named, NEW t \in Terminal,
           \/ SwitchNamespace(t) \/ DeleteContext(t)
           \/ UnsetCurrentContext(t) \/ MergeToDefault(t)
    PROVE  Kinds' /\ Named'
<1>1. JobsGood
  BY DEF IInv
<1>2. CASE SwitchNamespace(t)
  <2>1. PICK ns \in Namespaces, append \in BOOLEAN :
           Changed(t, "truncate", NsJob(CurrentPath(t), ns, append), env[t],
                   selected[t])
    BY <1>2, SwitchNamespaceStep
  <2>2. UNCHANGED files
    BY <1>2, SwitchNamespaceStep
  <2>3. NsJob(CurrentPath(t), ns, append).path = CurrentPath(t)
    BY DEF NsJob, Job
  <2>4. <<>> \notin DOMAIN files'
    BY <2>2 DEF Named
  <2>5. Named'
    BY <1>1, <2>1, <2>3, <2>4, PathsNamed, NamedChanged
  <2>6. QED
    BY <1>1, <1>2, <2>5, SwitchNamespaceKinds
<1>3. ASSUME NEW command, NEW kc, EditInPlace(t, command, kc),
             Readable(env[t])
      PROVE  Kinds' /\ Named'
  <2>1. PICK append \in BOOLEAN :
           Changed(t, "truncate",
                   Job(command, env[t], EmptyKubeconfig, kc, NoEntry, append,
                       NoEntry), env[t], NoEntry)
    BY <1>3, EditInPlaceStep
  <2>2. UNCHANGED files
    BY <1>3, EditInPlaceStep
  <2>3. Job(command, env[t], EmptyKubeconfig, kc, NoEntry, append,
            NoEntry).path = env[t]
    BY DEF Job
  <2>4. <<>> \notin DOMAIN files' /\ env[t] # <<>>
    BY <1>3, <2>2, PathsNamed DEF Named
  <2>5. Named'
    BY <1>1, <2>1, <2>3, <2>4, NamedChanged
  <2>6. QED
    BY <1>1, <1>3, <2>5, EditInPlaceKinds
<1>4. CASE DeleteContext(t) \/ UnsetCurrentContext(t)
  BY <1>3, <1>4 DEF DeleteContext, UnsetCurrentContext
<1>5. CASE MergeToDefault(t)
  <2>1. PICK append \in BOOLEAN :
           Changed(t, "merge",
                   Job("merge", Unnamed, files[CurrentPath(t)],
                       EmptyKubeconfig, NoEntry, append, NoEntry),
                   env[t], selected[t])
    BY <1>5, MergeToDefaultStep
  <2>2. UNCHANGED files
    BY <1>5, MergeToDefaultStep
  <2>3. <<>> \notin DOMAIN files'
    BY <2>2 DEF Named
  <2>4. Named'
    BY <1>1, <2>1, <2>3, NamedChanged
  <2>5. QED
    BY <1>1, <1>5, <2>4, MergeToDefaultKinds
<1>6. QED
  BY <1>2, <1>4, <1>5

\* if it goes on with a command,
LEMMA RunStepKeepsTypes ==
    ASSUME IInv, Kinds, Named, NEW t \in Terminal,
           \/ LookupHistory(t) \/ AppendToHistory(t) \/ MergeDataToTarget(t)
           \/ Truncate(t) \/ Emit(t)
    PROVE  Kinds' /\ Named'
<1>1. JobsGood
  BY DEF IInv
<1>2. ASSUME NEW c \in Steps, NEW s,
             \/ Changed(t, "idle", NoJob, env[t], s)
             \/ Changed(t, c, job[t], env[t], s),
             control[t] \notin {"idle", "merge"}, <<>> \notin DOMAIN files'
      PROVE  Named'
  <2>1. job[t].path # <<>>
    BY <1>2 DEF Named
  <2>2. QED
    BY <1>1, <1>2, <2>1, NamedChanged
<1>3. CASE LookupHistory(t) \/ AppendToHistory(t)
  <2>1. /\ UNCHANGED <<files, env, selected>>
        /\ control[t] \in {"lookup", "append"}
        /\ AfterHistory(t) \/ (Goto(t, "append") /\ UNCHANGED job)
    BY <1>3 DEF LookupHistory, AppendToHistory
  <2>2. \E c \in Steps : \/ Changed(t, "idle", NoJob, env[t], selected[t])
                         \/ Changed(t, c, job[t], env[t], selected[t])
    BY <1>1, <2>1, AfterHistoryStep, GotoStep DEF Steps
  <2>3. <<>> \notin DOMAIN files'
    BY <2>1 DEF Named
  <2>4. Named'
    BY <1>2, <2>1, <2>2, <2>3
  <2>5. QED
    BY <1>1, <1>3, <2>4, HistoryKinds
<1>4. CASE MergeDataToTarget(t)
  <2> DEFINE path == WriteTarget(t)
  <2>1. \/ /\ Changed(t, "idle", NoJob, env[t], selected[t])
           /\ UNCHANGED files
        \/ /\ files' = IF path \in DOMAIN files THEN files
                       ELSE Put(path, EmptyKubeconfig)
           /\ Changed(t, "truncate", MergeJob(t, path), env[t], selected[t])
    BY <1>1, <1>4, MergeDataToTargetStep
  <2>2. MergeJob(t, path).path = path /\ path # <<>>
    BY PathsNamed DEF MergeJob, Job
  <2>3. <<>> \notin DOMAIN files'
    <3> HIDE DEF path
    <3>1. QED
      BY <2>1, <2>2, PutNamed DEF Named
  <2>4. Named'
    <3> HIDE DEF path
    <3>1. QED
      BY <1>1, <2>1, <2>2, <2>3, NamedChanged
  <2>5. QED
    BY <1>1, <1>4, <2>4, MergeDataToTargetKinds
<1>5. CASE Truncate(t)
  <2>1. /\ control[t] = "truncate"
        /\ UNCHANGED files \/ files' = Put(job[t].path, Torn)
        /\ \/ Changed(t, "idle", NoJob, env[t], selected[t])
           \/ Changed(t, "emit", job[t], env[t], selected[t])
    BY <1>1, <1>5, TruncateStep
  <2>2. <<>> \notin DOMAIN files'
    BY <2>1, PutNamed DEF Named
  <2>3. Named'
    BY <1>2, <2>1, <2>2 DEF Steps
  <2>4. QED
    BY <1>1, <1>5, <2>3, TruncateKinds
<1>6. CASE Emit(t)
  <2>1. /\ control[t] = "emit"
        /\ UNCHANGED files \/ files' = Put(job[t].path, job[t].data)
        /\ \E c \in {"lookup", "report"} :
              \/ Changed(t, "idle", NoJob, env[t], selected[t])
              \/ Changed(t, c, job[t], env[t], selected[t])
    BY <1>1, <1>6, EmitStep
  <2>2. <<>> \notin DOMAIN files'
    BY <2>1, PutNamed DEF Named
  <2>3. Named'
    BY <1>2, <2>1, <2>2 DEF Steps
  <2>4. QED
    BY <1>1, <1>6, <2>3, EmitKinds
<1>7. QED
  BY <1>3, <1>4, <1>5, <1>6

\* and if it ends one.
LEMMA LastStepKeepsTypes ==
    ASSUME IInv, Kinds, Named, NEW t \in Terminal,
           Clean(t) \/ Report(t) \/ Kill(t)
    PROVE  Kinds' /\ Named'
<1>1. JobsGood
  BY DEF IInv
<1>2. CASE Clean(t)
  <2>1. UNCHANGED <<control, job>> /\ \E paths : files' = Without(paths)
    BY <1>2 DEF Clean
  <2>2. Named'
    BY <2>1, PutNamed DEF Named
  <2>3. QED
    BY <1>2, <2>2, CleanKinds
<1>3. CASE Report(t)
  <2>1. /\ files' = Without({env[t]}) \/ UNCHANGED files
        /\ \E e, s : Changed(t, "idle", NoJob, e, s)
    BY <1>3, ReportStep
  <2>2. <<>> \notin DOMAIN files'
    BY <2>1, PutNamed DEF Named
  <2>3. Named'
    BY <1>1, <2>1, <2>2, NamedChanged
  <2>4. QED
    BY <1>1, <1>3, <2>3, ReportKinds
<1>4. CASE Kill(t)
  <2>1. UNCHANGED files /\ \E s : Changed(t, "idle", NoJob, env[t], s)
    BY <1>4, KillStep
  <2>2. <<>> \notin DOMAIN files'
    BY <2>1 DEF Named
  <2>3. Named'
    BY <1>1, <2>1, <2>2, NamedChanged
  <2>4. QED
    BY <1>1, <1>4, <2>3, KillKinds
<1>5. QED
  BY <1>2, <1>3, <1>4

TInv == IInv /\ Kinds /\ Named

\* Every step keeps the invariant.
LEMMA NextKeepsTypes ==
    ASSUME TInv, [Next]_vars
    PROVE  TInv'
<1>1. IInv /\ Kinds /\ Named /\ IInv'
  BY NextKeeps DEF TInv
<1>2. ASSUME NEW t \in Terminal, Step(t)
      PROVE  Kinds' /\ Named'
  <2>1. \/ \/ Switcher(t, "menu") \/ Switcher(t, "write")
           \/ SetContextCommand(t)
           \/ \E command \in {"last", "previous", "history"} :
                 SwitchFromHistory(t, command)
        \/ \/ SwitchNamespace(t) \/ DeleteContext(t)
           \/ UnsetCurrentContext(t) \/ MergeToDefault(t)
        \/ \/ LookupHistory(t) \/ AppendToHistory(t) \/ MergeDataToTarget(t)
           \/ Truncate(t) \/ Emit(t)
        \/ Clean(t) \/ Report(t) \/ Kill(t)
    BY <1>2 DEF Step
  <2>2. QED
    BY <1>1, <2>1, CopyStepKeepsTypes, EditStepKeepsTypes, RunStepKeepsTypes,
       LastStepKeepsTypes
<1>3. CASE UNCHANGED vars
  <2>1. (Seq(File))' = Seq(File) /\ EntryType' = EntryType
    BY DEF EntryType
  <2>2. UNCHANGED <<files, directory, env, control, job, started, selected,
                    cleaned>>
    BY <1>3 DEF vars
  <2>3. Kinds'
    BY <1>1, <2>1, <2>2 DEF Kinds
  <2>4. Named'
    BY <1>1, <2>2 DEF Named
  <2>5. QED
    BY <1>1, <2>3, <2>4 DEF TInv
<1>4. QED
  BY <1>1, <1>2, <1>3 DEF TInv, Next, Rest

\* The invariant says everything that TypeOK does.
LEMMA TInvImpliesTypeOK == TInv => TypeOK
<1> SUFFICES ASSUME TInv PROVE TypeOK
  OBVIOUS
<1>1. \A p \in DOMAIN files : files[p] = Torn \/ files[p] \in KubeconfigType
  BY DEF TInv, IInv, FilesGood, Good
<1> DEFINE JobType ==
              [command : CommandNames \cup {"none"}, path : Seq(File),
               source : KubeconfigType, data : KubeconfigType,
               entry : EntryType, append : BOOLEAN, selection : EntryType]
<1>2. ASSUME NEW t \in Terminal
      PROVE  job[t] \in JobType
  <2>1. Remembered(job[t])
    BY DEF TInv, IInv, JobsGood
  <2>2. /\ job[t].command \in CommandNames \cup {"none"}
        /\ job[t].path \in Seq(File)
        /\ job[t].append \in BOOLEAN
    BY DEF TInv, Kinds
  <2>3. /\ job[t].source \in KubeconfigType
        /\ job[t].data \in KubeconfigType
        /\ job[t].entry \in EntryType
        /\ job[t].selection \in EntryType
    BY <2>1 DEF Remembered, Good
  <2>4. job[t] = [command |-> job[t].command, path |-> job[t].path,
                  source |-> job[t].source, data |-> job[t].data,
                  entry |-> job[t].entry, append |-> job[t].append,
                  selection |-> job[t].selection]
    BY <2>1 DEF Remembered
  <2>5. QED
    BY <2>2, <2>3, <2>4, Zenon
<1>3. job \in [Terminal -> JobType]
  <2> HIDE DEF JobType
  <2>1. QED
    BY <1>2 DEF TInv, IInv, JobsGood
<1>4. history \in Seq(EntryType)
  BY DEF TInv, IInv, HistoryTyped
<1>5. QED
  BY <1>1, <1>3, <1>4 DEF TInv, Kinds, Steps, TypeOK

\* Whatever terminals, stores and commands there are, the variables stay in
\* their types (init.go, history, merge.go).
THEOREM TerminalsTypes == Spec => []TypeOK
<1>1. Init => TInv
  BY InitIInv, InitKinds DEF TInv
<1>2. QED
  BY <1>1, NextKeepsTypes, TInvImpliesTypeOK, PTL DEF Spec

-----------------------------------------------------------------------------
(* Where the copies lead.                                                  *)

\* What a context reaches, and its namespace, depend on the sections only.
LEMMA SectionsMatter ==
    ASSUME NEW kc, NEW kd, kc.contexts = kd.contexts,
           kc.clusters = kd.clusters, kc.users = kd.users, NEW name
    PROVE  /\ Reaches(kc, name) = Reaches(kd, name)
           /\ NamespaceOfContext(kc, name) = NamespaceOfContext(kd, name)
BY DEF Reaches, NamespaceOfContext

\* The sections and the other fields after current-context or the context
\* that kswitch knows is set.
LEMMA ScalarsSet ==
    ASSUME NEW kc \in KubeconfigType, NEW name
    PROVE  /\ LET kd == ModifyCurrentContext(kc, name)
              IN /\ kd.contexts = kc.contexts
                 /\ kd.clusters = kc.clusters
                 /\ kd.users = kc.users
                 /\ kd.current = name
                 /\ kd.kswitch = kc.kswitch
           /\ LET kd == SetKswitchContext(kc, name)
              IN /\ kd.contexts = kc.contexts
                 /\ kd.clusters = kc.clusters
                 /\ kd.users = kc.users
                 /\ kd.current = kc.current
                 /\ kd.kswitch = name
BY DEF KubeconfigType, ModifyCurrentContext, SetKswitchContext

\* A renamed context leads where it did, if the name is new.
LEMMA RenamedLeads ==
    ASSUME NEW kc, Good(kc), NEW old \in Names(kc.contexts), NEW new \in Name,
           new = old \/ new \notin Names(kc.contexts)
    PROVE  LET kd == ModifyContextName(kc, old, new)
           IN /\ Reaches(kd, new) = Reaches(kc, old)
              /\ NamespaceOfContext(kd, new) = NamespaceOfContext(kc, old)
              /\ new \in Names(kd.contexts)
              /\ Names(kd.contexts) \subseteq Names(kc.contexts) \cup {new}
              /\ kd.clusters = kc.clusters
              /\ kd.users = kc.users
              /\ kd.current = kc.current
              /\ kd.kswitch = kc.kswitch
<1> DEFINE Renamed(c) == IF c.name = old THEN [c EXCEPT !.name = new] ELSE c
           kd == ModifyContextName(kc, old, new)
<1>1. /\ kd.contexts = {Renamed(c) : c \in kc.contexts}
      /\ kd.clusters = kc.clusters
      /\ kd.users = kc.users
      /\ kd.current = kc.current
      /\ kd.kswitch = kc.kswitch
  BY DEF Good, KubeconfigType, ModifyContextName
<1>2. ASSUME NEW c \in kc.contexts
      PROVE  /\ Renamed(c).cluster = c.cluster
             /\ Renamed(c).user = c.user
             /\ Renamed(c).namespace = c.namespace
             /\ Renamed(c).name = IF c.name = old THEN new ELSE c.name
  BY DEF Good, KubeconfigType, Context
<1>3. ASSUME NEW c \in kc.contexts
      PROVE  Renamed(c).name = new <=> c.name = old
  BY <1>2 DEF Names
<1> DEFINE used == {c \in kc.contexts : c.name = old}
           usedNow == {c \in kd.contexts : c.name = new}
<1>4. usedNow = {Renamed(c) : c \in used}
  <2> HIDE DEF Renamed, kd
  <2>1. QED
    BY <1>1, <1>3
<1>5. {c.namespace : c \in usedNow} = {c.namespace : c \in used}
  <2> HIDE DEF Renamed, usedNow
  <2>1. QED
    BY <1>2, <1>4
<1>6. NamespaceOfContext(kd, new) = NamespaceOfContext(kc, old)
  <2>1. /\ {d \in kd.contexts : d.name = new} = usedNow
        /\ {d \in kc.contexts : d.name = old} = used
    OBVIOUS
  <2> HIDE DEF kd, used, usedNow
  <2>2. QED
    BY <1>5, <2>1 DEF NamespaceOfContext
<1>7. /\ \A l : (\E c \in usedNow : c.cluster = l) <=>
                (\E c \in used : c.cluster = l)
      /\ \A v : (\E c \in usedNow : c.user = v) <=>
                (\E c \in used : c.user = v)
  <2> HIDE DEF Renamed, usedNow
  <2>1. QED
    BY <1>2, <1>4
<1>8. Reaches(kd, new) = Reaches(kc, old)
  <2>1. /\ {l \in kd.clusters : \E c \in usedNow : c.cluster = l.name} =
           {l \in kc.clusters : \E c \in used : c.cluster = l.name}
        /\ {v \in kd.users : \E c \in usedNow : c.user = v.name} =
           {v \in kc.users : \E c \in used : c.user = v.name}
    <3> HIDE DEF kd, used, usedNow
    <3>1. QED
      BY <1>1, <1>7
  <2>2. QED
    BY <2>1 DEF Reaches
<1>9. new \in Names(kd.contexts)
  <2>1. PICK c \in kc.contexts : c.name = old
    BY DEF Names
  <2>2. Renamed(c) \in kd.contexts /\ Renamed(c).name = new
    BY <1>1, <1>2, <2>1
  <2>3. QED
    BY <2>2 DEF Names
<1>10. Names(kd.contexts) \subseteq Names(kc.contexts) \cup {new}
  <2> HIDE DEF Renamed, kd
  <2>1. QED
    BY <1>1, <1>2 DEF Names
<1>11. QED
  BY <1>1, <1>6, <1>8, <1>9, <1>10

\* A namespace changes nothing about where a context leads; a context that is
\* there has it then.
LEMMA NamespaceLeads ==
    ASSUME NEW kc, Good(kc), NEW context, NEW ns \in Name
    PROVE  LET kd == SetNamespace(kc, context, ns)
           IN /\ \A name : Reaches(kd, name) = Reaches(kc, name)
              /\ Names(kd.contexts) = Names(kc.contexts)
              /\ kd.current = kc.current
              /\ kd.kswitch = kc.kswitch
              /\ ns # Unset /\ context \in Names(kc.contexts) =>
                    NamespaceOfContext(kd, context) = ns
<1> DEFINE Set(c) ==
              IF c.name = context THEN [c EXCEPT !.namespace = ns] ELSE c
           kd == SetNamespace(kc, context, ns)
<1>1. /\ kd.contexts = {Set(c) : c \in kc.contexts}
      /\ kd.clusters = kc.clusters
      /\ kd.users = kc.users
      /\ kd.current = kc.current
      /\ kd.kswitch = kc.kswitch
  BY DEF Good, KubeconfigType, SetNamespace
<1>2. ASSUME NEW c \in kc.contexts
      PROVE  /\ Set(c).cluster = c.cluster
             /\ Set(c).user = c.user
             /\ Set(c).name = c.name
             /\ c.name = context => Set(c).namespace = ns
  BY DEF Good, KubeconfigType, Context
<1>3. ASSUME NEW name
      PROVE  Reaches(kd, name) = Reaches(kc, name)
  <2> DEFINE used == {c \in kc.contexts : c.name = name}
             usedNow == {c \in kd.contexts : c.name = name}
  <2>1. usedNow = {Set(c) : c \in used}
    <3> HIDE DEF Set, kd
    <3>1. QED
      BY <1>1, <1>2
  <2>2. /\ \A l : (\E c \in usedNow : c.cluster = l) <=>
                  (\E c \in used : c.cluster = l)
        /\ \A v : (\E c \in usedNow : c.user = v) <=>
                  (\E c \in used : c.user = v)
    <3> HIDE DEF Set, usedNow
    <3>1. QED
      BY <1>2, <2>1
  <2>3. /\ {l \in kd.clusters : \E c \in usedNow : c.cluster = l.name} =
           {l \in kc.clusters : \E c \in used : c.cluster = l.name}
        /\ {v \in kd.users : \E c \in usedNow : c.user = v.name} =
           {v \in kc.users : \E c \in used : c.user = v.name}
    <3> HIDE DEF kd, used, usedNow
    <3>1. QED
      BY <1>1, <2>2
  <2>4. QED
    BY <2>3 DEF Reaches
<1>4. Names(kd.contexts) = Names(kc.contexts)
  <2> HIDE DEF Set, kd
  <2>1. QED
    BY <1>1, <1>2 DEF Names
<1>5. ASSUME ns # Unset, context \in Names(kc.contexts)
      PROVE  NamespaceOfContext(kd, context) = ns
  <2> DEFINE nss == {c.namespace : c \in {d \in kd.contexts :
                                             d.name = context}}
  <2>1. nss = {ns}
    <3>1. nss \subseteq {ns}
      <4> HIDE DEF Set, kd
      <4>1. QED
        BY <1>1, <1>2
    <3>2. PICK c \in kc.contexts : c.name = context
      BY <1>5 DEF Names
    <3>3. Set(c) \in kd.contexts /\ Set(c).name = context
          /\ Set(c).namespace = ns
      <4> HIDE DEF Set, kd
      <4>1. QED
        BY <1>1, <1>2, <3>2
    <3>4. QED
      <4> HIDE DEF Set, kd
      <4>1. QED
        BY <3>1, <3>3
  <2>2. NamespaceOfContext(kd, context) = CHOOSE n \in nss : TRUE
    <3>1. ~(nss \subseteq {Unset})
      BY <1>5, <2>1
    <3>2. QED
      BY <3>1 DEF NamespaceOfContext
  <2>3. QED
    BY <2>1, <2>2
<1>6. QED
  BY <1>1, <1>3, <1>4, <1>5

\* Removing a context changes nothing for the others.
LEMMA RemovedLeads ==
    ASSUME NEW kc, Good(kc), NEW name
    PROVE  LET kd == RemoveContext(kc, name)
           IN /\ \A other : other # name => Reaches(kd, other) =
                                               Reaches(kc, other)
              /\ Names(kd.contexts) = Names(kc.contexts) \ {name}
              /\ kd.current = kc.current
              /\ kd.kswitch = kc.kswitch
<1> DEFINE kept == {c \in kc.contexts : c.name # name}
           kd == RemoveContext(kc, name)
<1>1. /\ kd.contexts = kept
      /\ kd.clusters =
            {k \in kc.clusters : k.name \in {c.cluster : c \in kept}}
      /\ kd.users = {u \in kc.users : u.name \in {c.user : c \in kept}}
      /\ kd.current = kc.current
      /\ kd.kswitch = kc.kswitch
  BY DEF Good, KubeconfigType, RemoveContext
<1>2. Names(kd.contexts) = Names(kc.contexts) \ {name}
  <2> HIDE DEF kd
  <2>1. QED
    BY <1>1 DEF Names
<1>3. ASSUME NEW other, other # name
      PROVE  Reaches(kd, other) = Reaches(kc, other)
  <2> DEFINE used == {c \in kc.contexts : c.name = other}
             usedNow == {c \in kd.contexts : c.name = other}
  <2>1. usedNow = used /\ used \subseteq kept
    <3> HIDE DEF kd
    <3>1. QED
      BY <1>1, <1>3
  <2>2. /\ {l \in kd.clusters : \E c \in usedNow : c.cluster = l.name} =
           {l \in kc.clusters : \E c \in used : c.cluster = l.name}
        /\ {v \in kd.users : \E c \in usedNow : c.user = v.name} =
           {v \in kc.users : \E c \in used : c.user = v.name}
    <3> HIDE DEF kd, used, usedNow, kept
    <3>1. QED
      BY <1>1, <2>1
  <2>3. QED
    BY <2>2 DEF Reaches
<1>4. QED
  BY <1>1, <1>2, <1>3

\* A merged kubeconfig leads, for the contexts of the source, where the source
\* does, also when the target had clusters and users of the same names.
LEMMA MergedLeads ==
    ASSUME NEW dst, Good(dst), NEW src, Good(src),
           NEW name \in Names(src.contexts)
    PROVE  LET kd == Merge(dst, src)
           IN /\ Reaches(kd, name) = Reaches(src, name)
              /\ src.current # Unset => kd.current = src.current
              /\ kd.kswitch = dst.kswitch
<1> DEFINE kd == Merge(dst, src)
           used == {c \in src.contexts : c.name = name}
           usedNow == {c \in kd.contexts : c.name = name}
<1>1. /\ kd.contexts = MergeSection(dst.contexts, src.contexts)
      /\ kd.clusters = MergeSection(dst.clusters, src.clusters)
      /\ kd.users = MergeSection(dst.users, src.users)
      /\ src.current # Unset => kd.current = src.current
      /\ kd.kswitch = dst.kswitch
  BY DEF Good, KubeconfigType, Merge
<1>2. usedNow = used
  <2> HIDE DEF kd
  <2>1. QED
    BY <1>1 DEF MergeSection
<1>3. \A c \in used : /\ c.cluster \in Names(src.clusters)
                      /\ c.user \in Names(src.users)
  BY DEF Good, Sound
<1>4. /\ {l \in kd.clusters : \E c \in usedNow : c.cluster = l.name} =
         {l \in src.clusters : \E c \in used : c.cluster = l.name}
      /\ {v \in kd.users : \E c \in usedNow : c.user = v.name} =
         {v \in src.users : \E c \in used : c.user = v.name}
  <2> HIDE DEF kd, used, usedNow
  <2>1. QED
    BY <1>1, <1>2, <1>3 DEF MergeSection
<1>5. QED
  BY <1>1, <1>4 DEF Reaches

-----------------------------------------------------------------------------
(* Whose copy is whose: the inductive invariant.                           *)

\* A path that begins with a temporary copy, and that copy.
OnCopy(path) == path # <<>> /\ IsTemporary(path[1])
HeadCopy(path) == IF OnCopy(path) THEN {path[1]} ELSE {}

\* The copies that a terminal has in its KUBECONFIG or is working on.
Mine(j, e) == HeadCopy(e) \cup HeadCopy(j.path)

\* A name of the history stands for a context of a store that reaches this.
Denotes(name, target) ==
    \E p \in DOMAIN Stores : \E context \in Names(Stores[p].contexts) :
       Matches(name, context) /\ target = Reaches(Stores[p], context)

\* What a command records leads where its name does, in some namespace.
EntryOK(e) ==
    e.context # Unset => Denotes(e.context, e.target) /\ e.namespace # Unset

\* A kubeconfig with a kswitch-context leads where that name does, if it leads
\* anywhere.  Only copies have one.
Attributed(kc) ==
    kc.kswitch # Unset =>
       /\ Unset \notin Names(kc.contexts)
       /\ kc.current \in Names(kc.contexts) =>
             Denotes(kc.kswitch, Reaches(kc, kc.current))
FileOK(path, kc) == IF OnCopy(path) THEN Attributed(kc) ELSE kc.kswitch = Unset

CopyCommands == {"menu", "write", "set", "last", "previous", "history"}
FromHistory == {"last", "previous", "history"}

\* Which commands a step belongs to.
StepOK(c, j) ==
    /\ c \in {"lookup", "append"} => j.command \in CopyCommands \cup {"ns"}
    /\ c = "merge" => j.command \in {"write", "merge"}
    /\ c = "report" => j.command \in CopyCommands
    /\ c \in {"truncate", "emit"} =>
          j.command \in {"write", "merge", "ns", "delete", "unset"}

\* The command has made a copy and not answered yet.
Copying(c, j) ==
    /\ c \in {"lookup", "append", "merge", "report"}
    /\ j.command \in CopyCommands
    /\ j.command = "write" => c # "report"

\* What a command copied leads to its selection.
SourceOK(command, kc, selection) ==
    /\ selection.context # Unset =>
          Reaches(kc, kc.current) = selection.target
    /\ command \in {"menu", "write"} =>
          /\ selection.context # Unset
          /\ kc.current = selection.context
          /\ kc.current \in Names(kc.contexts)
    /\ command \in FromHistory /\ selection.context # Unset =>
          NamespaceOfContext(kc, kc.current) = selection.namespace

\* Its copy is as it made it, unless it was cleaned.
CopyOK(fs, gone, c, j, e) ==
    Copying(c, j) =>
       /\ OnCopy(j.path) /\ Len(j.path) = 1 /\ j.path # e
       /\ j.path \in DOMAIN fs => fs[j.path] = j.source
       /\ j.path \notin DOMAIN fs => j.path \in gone
       /\ SourceOK(j.command, j.source, j.selection)

\* What `-w` is about to write, or has written, leads to the selection.
WriteOK(c, j) ==
    j.command = "write" /\ c \in {"truncate", "emit", "report"} =>
       /\ ~OnCopy(j.path)
       /\ j.data.current = j.selection.context
       /\ Reaches(j.data, j.data.current) = j.selection.target

\* A copy that is written in place is the terminal's own.
EditOK(c, j, e) ==
    c \in {"truncate", "emit"} =>
       /\ FileOK(j.path, j.data)
       /\ OnCopy(j.path) => j.path = e /\ Len(e) = 1

\* The terminal's copy leads to what it selected, and so does what it is about
\* to write there.
SelectedOK(fs, gone, c, j, e, s) ==
    s.target # NoTarget /\ s.context # Unset =>
       /\ OnCopy(e)
       /\ c \in {"truncate", "emit"} /\ j.path = <<e[1]>> =>
             Reaches(j.data, j.data.current) = s.target
       /\ <<e[1]>> \notin DOMAIN fs => <<e[1]>> \in gone
       /\ <<e[1]>> \in DOMAIN fs /\ ~(c = "emit" /\ j.path = <<e[1]>>) =>
             /\ fs[<<e[1]>>] # Torn
             /\ Reaches(fs[<<e[1]>>], fs[<<e[1]>>].current) = s.target

TerminalOK(fs, gone, n, c, j, e, s) ==
    /\ StepOK(c, j)
    /\ CopyOK(fs, gone, c, j, e)
    /\ WriteOK(c, j)
    /\ EditOK(c, j, e)
    /\ SelectedOK(fs, gone, c, j, e, s)
    /\ EntryOK(j.entry)
    /\ \A f \in Mine(j, e) : f <= Custom + n

PathOK(n, path, contents) ==
    /\ OnCopy(path) => Len(path) = 1 /\ path[1] <= Custom + n
    /\ contents # Torn => FileOK(path, contents)

FilesOK == \A p \in DOMAIN files : PathOK(started, p, files[p])

TerminalsOK ==
    \A t \in Terminal :
       TerminalOK(files, cleaned, started, control[t], job[t], env[t],
                  selected[t])

CopiesAreOwned ==
    \A t, u \in Terminal :
       t # u => Mine(job[t], env[t]) \cap Mine(job[u], env[u]) = {}

HistoryOK == \A i \in 1..Len(history) : EntryOK(history[i])

OInv == FilesOK /\ TerminalsOK /\ CopiesAreOwned /\ HistoryOK

Owned == TInv /\ OInv

-----------------------------------------------------------------------------
(* The copies.                                                             *)

\* A context of a store leads to one place, under any name that matches it,
\* and has a namespace.
LEMMA StoreContext ==
    ASSUME NamesAreUnambiguous, NEW p \in DOMAIN Stores,
           NEW context \in Names(Stores[p].contexts)
    PROVE  /\ context # Unset
           /\ Unset \notin Names(Stores[p].contexts)
           /\ Shown(context) # Unset
           /\ Matches(Shown(context), context)
           /\ Matches(context, context)
           /\ \/ Alias[context] = Unset
              \/ Alias[context] = context
              \/ Alias[context] \notin Names(Stores[p].contexts)
           /\ NamespaceOfContext(Stores[p], context) # Unset
<1>1. /\ \A c, d \in Stores[p].contexts : c.name = d.name => c = d
      /\ \A c \in Names(Stores[p].contexts) :
            /\ c # Unset
            /\ Alias[c] \in Names(Stores[p].contexts) => Alias[c] = c
  BY DEF NamesAreUnambiguous
<1>2. NamespaceOfContext(Stores[p], context) # Unset
  <2> DEFINE nss == {c.namespace : c \in {d \in Stores[p].contexts :
                                             d.name = context}}
  <2>1. PICK c \in Stores[p].contexts : c.name = context
    BY DEF Names
  <2>2. {d \in Stores[p].contexts : d.name = context} = {c}
    BY <1>1, <2>1
  <2>3. nss = {c.namespace}
    BY <2>2
  <2>4. NamespaceOfContext(Stores[p], context) =
           IF nss \subseteq {Unset} THEN DefaultNamespace
                                    ELSE CHOOSE n \in nss : TRUE
    BY DEF NamespaceOfContext
  <2>5. CASE nss \subseteq {Unset}
    BY <2>4, <2>5 DEF Unset, DefaultNamespace
  <2>6. CASE ~(nss \subseteq {Unset})
    <3>1. (CHOOSE n \in nss : TRUE) = c.namespace
      BY <2>3
    <3>2. QED
      BY <2>3, <2>4, <2>6, <3>1
  <2>7. QED
    BY <2>5, <2>6
<1>3. Matches(context, context) /\ Matches(Shown(context), context)
  BY DEF Matches, Shown
<1>4. QED
  BY <1>1, <1>2, <1>3 DEF Shown

\* One name leads to one place.
LEMMA OneTarget ==
    ASSUME NamesAreUnambiguous, NEW p \in DOMAIN Stores,
           NEW context \in Names(Stores[p].contexts), NEW name \in Name,
           name # Unset, Matches(name, context), NEW target,
           Denotes(name, target)
    PROVE  target = Reaches(Stores[p], context)
<1>1. PICK q \in DOMAIN Stores : \E d \in Names(Stores[q].contexts) :
         Matches(name, d) /\ target = Reaches(Stores[q], d)
  BY DEF Denotes
<1>2. PICK d \in Names(Stores[q].contexts) :
         Matches(name, d) /\ target = Reaches(Stores[q], d)
  BY <1>1
<1>3. Reaches(Stores[p], context) = Reaches(Stores[q], d)
  BY <1>2 DEF NamesAreUnambiguous
<1>4. QED
  BY <1>2, <1>3

\* SetContext keeps where a context leads, under its old or its new name.
LEMMA SetContextLeads ==
    ASSUME NEW kc, Good(kc), NEW old \in Names(kc.contexts), NEW new \in Name,
           NEW original, original = Unset => new = old,
           original # Unset => original = old,
           new = old \/ new \notin Names(kc.contexts), NEW wanted
    PROVE  LET kd == SetKswitchContext(SetContext(kc, new, original), wanted)
           IN /\ Reaches(kd, new) = Reaches(kc, old)
              /\ NamespaceOfContext(kd, new) = NamespaceOfContext(kc, old)
              /\ new \in Names(kd.contexts)
              /\ Names(kd.contexts) \subseteq Names(kc.contexts) \cup {new}
              /\ kd.current = new
              /\ kd.kswitch = wanted
<1> DEFINE renamed == IF original = Unset THEN kc
                      ELSE ModifyContextName(kc, original, new)
           set == SetContext(kc, new, original)
           kd == SetKswitchContext(set, wanted)
<1>1. /\ Reaches(renamed, new) = Reaches(kc, old)
      /\ NamespaceOfContext(renamed, new) = NamespaceOfContext(kc, old)
      /\ new \in Names(renamed.contexts)
      /\ Names(renamed.contexts) \subseteq Names(kc.contexts) \cup {new}
  <2>1. CASE original = Unset
    BY <2>1
  <2>2. CASE original # Unset
    <3>1. original = old /\ renamed = ModifyContextName(kc, old, new)
      BY <2>2
    <3>2. QED
      BY <3>1, RenamedLeads
  <2>3. QED
    BY <2>1, <2>2
<1>2. renamed \in KubeconfigType /\ set \in KubeconfigType
  BY ModifyContextNameGood, SetContextGood DEF Good
<1>3. set = ModifyCurrentContext(renamed, new)
  BY DEF SetContext
<1>4. /\ kd.contexts = renamed.contexts
      /\ kd.clusters = renamed.clusters
      /\ kd.users = renamed.users
      /\ kd.current = new
      /\ kd.kswitch = wanted
  <2> HIDE DEF renamed
  <2>1. /\ set.contexts = renamed.contexts
        /\ set.clusters = renamed.clusters
        /\ set.users = renamed.users
        /\ set.current = new
    <3> HIDE DEF set
    <3>1. QED
      BY <1>2, <1>3, ScalarsSet
  <2> HIDE DEF set
  <2>2. QED
    BY <1>2, <2>1, ScalarsSet
<1>5. /\ Reaches(kd, new) = Reaches(renamed, new)
      /\ NamespaceOfContext(kd, new) = NamespaceOfContext(renamed, new)
  <2> HIDE DEF renamed, kd
  <2>1. QED
    BY <1>4, SectionsMatter
<1>6. QED
  <2> HIDE DEF renamed
  <2>1. QED
    BY <1>1, <1>4, <1>5

\* What a copy needs to be for what the invariant says of it.
CopyIsGood(command, kc, context, selection) ==
    /\ Attributed(kc)
    /\ EntryOK(CopyEntry(kc, context))
    /\ SourceOK(command, kc, selection)

\* The fields of what is recorded.
LEMMA EntryFields ==
    ASSUME NEW context, NEW ns, NEW target
    PROVE  /\ Entry(context, ns, target).context = context
           /\ Entry(context, ns, target).namespace = ns
           /\ Entry(context, ns, target).target = target
BY DEF Entry

\* A copy that has one of the store's contexts, under the name new, as its
\* current one, and a kswitch-context that matches it.
LEMMA LeadsAreGood ==
    ASSUME NamesAreUnambiguous, NEW p \in DOMAIN Stores,
           NEW context \in Names(Stores[p].contexts), NEW new, new # Unset,
           NEW wanted, Matches(wanted, context),
           NEW kc, kc.current = new, kc.kswitch = wanted,
           Names(kc.contexts) \subseteq Names(Stores[p].contexts) \cup {new},
           Reaches(kc, new) = Reaches(Stores[p], context),
           wanted # Unset => NamespaceOfContext(kc, new) # Unset
    PROVE  /\ Attributed(kc)
           /\ EntryOK(CopyEntry(kc, wanted))
<1>1. Denotes(wanted, Reaches(kc, kc.current))
  BY DEF Denotes
<1>2. Unset \notin Names(kc.contexts)
  BY StoreContext
<1>3. Attributed(kc)
  BY <1>1, <1>2 DEF Attributed
<1>4. /\ CopyEntry(kc, wanted).context = wanted
      /\ CopyEntry(kc, wanted).namespace = NamespaceOfContext(kc, new)
      /\ CopyEntry(kc, wanted).target = Reaches(kc, kc.current)
  BY EntryFields DEF CopyEntry
<1>5. QED
  BY <1>1, <1>3, <1>4 DEF EntryOK

\* The menu's copy leads where the store's context does, under its alias.
LEMMA SwitcherCopyIsGood ==
    ASSUME NamesAreUnambiguous, NEW command \in {"menu", "write"},
           NEW p \in DOMAIN Stores,
           NEW context \in Names(Stores[p].contexts)
    PROVE  CopyIsGood(command, SwitcherCopy(p, context), Shown(context),
                      Selection(Shown(context), p, context))
<1> DEFINE kc == SwitcherCopy(p, context)
           name == Shown(context)
           original == IF Alias[context] = Unset THEN Unset ELSE context
           selection == Selection(name, p, context)
<1>1. Good(Stores[p]) /\ name \in Name
  BY StoreGood
<1>2. /\ name # Unset
      /\ Matches(name, context)
      /\ name = context \/ name \notin Names(Stores[p].contexts)
      /\ original = Unset => name = context
      /\ original # Unset => original = context
      /\ NamespaceOfContext(Stores[p], context) # Unset
  BY StoreContext DEF Shown
<1>3. kc = SetKswitchContext(SetContext(Stores[p], name, original), name)
  BY DEF SwitcherCopy
<1>4. /\ Reaches(kc, name) = Reaches(Stores[p], context)
      /\ NamespaceOfContext(kc, name) =
            NamespaceOfContext(Stores[p], context)
      /\ name \in Names(kc.contexts)
      /\ Names(kc.contexts) \subseteq Names(Stores[p].contexts) \cup {name}
      /\ kc.current = name
      /\ kc.kswitch = name
  <2> DEFINE kd == SetKswitchContext(SetContext(Stores[p], name, original),
                                     name)
  <2>1. /\ Reaches(kd, name) = Reaches(Stores[p], context)
        /\ NamespaceOfContext(kd, name) =
              NamespaceOfContext(Stores[p], context)
        /\ name \in Names(kd.contexts)
        /\ kd.current = name
        /\ kd.kswitch = name
    <3> HIDE DEF name, original
    <3>1. QED
      BY <1>1, <1>2, SetContextLeads
  <2>2. Names(kd.contexts) \subseteq Names(Stores[p].contexts) \cup {name}
    <3> HIDE DEF name, original
    <3>1. QED
      BY <1>1, <1>2, SetContextLeads
  <2> HIDE DEF kc, kd, name
  <2>3. QED
    BY <1>3, <2>1, <2>2 DEF kd
<1>5. Attributed(kc) /\ EntryOK(CopyEntry(kc, name))
  <2> HIDE DEF kc, name
  <2>1. QED
    BY <1>2, <1>4, LeadsAreGood
<1>6. /\ selection.context = name
      /\ selection.target = Reaches(Stores[p], context)
  <2> HIDE DEF name
  <2>1. QED
    BY EntryFields DEF Selection
<1>7. SourceOK(command, kc, selection)
  <2> HIDE DEF kc, name, selection
  <2>1. command \notin FromHistory
    BY DEF FromHistory
  <2>2. QED
    BY <1>2, <1>4, <1>6, <2>1 DEF SourceOK
<1>8. QED
  BY <1>5, <1>7 DEF CopyIsGood

\* The copy of set-context leads there under the context's own name.
LEMMA SetContextCopyLeads ==
    ASSUME NamesAreUnambiguous, NEW p \in DOMAIN Stores,
           NEW context \in Names(Stores[p].contexts), NEW wanted \in Name
    PROVE  LET kc == SetContextCopy(p, context, wanted)
           IN /\ Good(kc)
              /\ Reaches(kc, context) = Reaches(Stores[p], context)
              /\ NamespaceOfContext(kc, context) # Unset
              /\ context \in Names(kc.contexts)
              /\ Names(kc.contexts) \subseteq
                    Names(Stores[p].contexts) \cup {context}
              /\ kc.current = context
              /\ kc.kswitch = wanted
<1> DEFINE kc == SetContextCopy(p, context, wanted)
           original == IF Alias[context] = Unset THEN Unset ELSE context
<1>1. Good(Stores[p]) /\ context \in Name /\ Good(kc)
  BY StoreGood, SetContextCopyGood
<1>2. kc = SetKswitchContext(SetContext(Stores[p], context, original), wanted)
  BY DEF SetContextCopy
<1>3. original # Unset => original = context
  OBVIOUS
<1>4. NamespaceOfContext(Stores[p], context) # Unset
  BY StoreContext
<1>5. /\ Reaches(kc, context) = Reaches(Stores[p], context)
      /\ NamespaceOfContext(kc, context) =
            NamespaceOfContext(Stores[p], context)
      /\ context \in Names(kc.contexts)
      /\ Names(kc.contexts) \subseteq Names(Stores[p].contexts) \cup {context}
      /\ kc.current = context
      /\ kc.kswitch = wanted
  <2> HIDE DEF kc, original
  <2>1. QED
    BY <1>1, <1>2, <1>3, SetContextLeads
<1>6. QED
  BY <1>1, <1>4, <1>5

\* So it is as the invariant wants it.
LEMMA SetCopyIsGood ==
    ASSUME NamesAreUnambiguous, NEW p \in DOMAIN Stores,
           NEW context \in Names(Stores[p].contexts),
           NEW wanted \in {context, Shown(context)}
    PROVE  CopyIsGood("set", SetContextCopy(p, context, wanted), wanted,
                      Selection(context, p, context))
<1> DEFINE kc == SetContextCopy(p, context, wanted)
           selection == Selection(context, p, context)
<1>1. /\ wanted \in Name
      /\ context # Unset
      /\ Matches(wanted, context)
  BY StoreGood, StoreContext
<1>2. /\ Reaches(kc, context) = Reaches(Stores[p], context)
      /\ NamespaceOfContext(kc, context) # Unset
      /\ Names(kc.contexts) \subseteq Names(Stores[p].contexts) \cup {context}
      /\ kc.current = context
      /\ kc.kswitch = wanted
  BY <1>1, SetContextCopyLeads
<1>3. Attributed(kc) /\ EntryOK(CopyEntry(kc, wanted))
  <2> HIDE DEF kc
  <2>1. QED
    BY <1>1, <1>2, LeadsAreGood
<1>4. selection.target = Reaches(Stores[p], context)
  BY EntryFields DEF Selection
<1>5. SourceOK("set", kc, selection)
  <2> HIDE DEF kc, selection
  <2>1. "set" \notin FromHistory
    BY DEF FromHistory
  <2>2. QED
    BY <1>2, <1>4, <2>1 DEF SourceOK
<1>6. QED
  BY <1>3, <1>5 DEF CopyIsGood

\* What is restored from an entry of the history leads where the entry did, in
\* the namespace of the entry.
LEMMA HistoryCopyIsGood ==
    ASSUME NamesAreUnambiguous, NEW command \in FromHistory,
           NEW p \in DOMAIN Stores,
           NEW context \in Names(Stores[p].contexts),
           NEW entry \in EntryType, EntryOK(entry),
           Matches(entry.context, context)
    PROVE  CopyIsGood(command,
                      Restored(SetContextCopy(p, context, entry.context),
                               entry),
                      entry.context, entry)
<1> DEFINE copy == SetContextCopy(p, context, entry.context)
           kc == Restored(copy, entry)
<1>1. /\ entry.context \in Name
      /\ entry.namespace \in Name
      /\ context # Unset
  BY StoreContext DEF EntryType
<1> DEFINE wanted == entry.context
<1>2. /\ Good(copy)
      /\ Reaches(copy, context) = Reaches(Stores[p], context)
      /\ context \in Names(copy.contexts)
      /\ Names(copy.contexts) \subseteq
            Names(Stores[p].contexts) \cup {context}
      /\ copy.current = context
      /\ copy.kswitch = entry.context
  <2>1. copy = SetContextCopy(p, context, wanted) /\ wanted \in Name
    BY <1>1
  <2> HIDE DEF wanted
  <2>2. LET kd == SetContextCopy(p, context, wanted)
        IN /\ Good(kd)
           /\ Reaches(kd, context) = Reaches(Stores[p], context)
           /\ context \in Names(kd.contexts)
           /\ Names(kd.contexts) \subseteq
                 Names(Stores[p].contexts) \cup {context}
           /\ kd.current = context
           /\ kd.kswitch = wanted
    BY <2>1, SetContextCopyLeads
  <2>3. QED
    <3> HIDE DEF copy
    <3>1. QED
      BY <2>1, <2>2 DEF wanted
<1>3. kc = SetNamespace(copy, context, entry.namespace)
  <2> HIDE DEF copy
  <2>1. QED
    BY <1>2 DEF Restored
<1>4. /\ Reaches(kc, context) = Reaches(Stores[p], context)
      /\ Names(kc.contexts) \subseteq
            Names(Stores[p].contexts) \cup {context}
      /\ kc.current = context
      /\ kc.kswitch = entry.context
      /\ entry.namespace # Unset =>
            NamespaceOfContext(kc, context) = entry.namespace
  <2> HIDE DEF copy, kc
  <2>1. QED
    BY <1>1, <1>2, <1>3, NamespaceLeads
<1>5. entry.context # Unset =>
         /\ entry.namespace # Unset
         /\ entry.target = Reaches(Stores[p], context)
  BY <1>1, OneTarget DEF EntryOK
<1>6. Attributed(kc) /\ EntryOK(CopyEntry(kc, entry.context))
  <2> HIDE DEF kc
  <2>1. QED
    BY <1>1, <1>4, <1>5, LeadsAreGood
<1>7. SourceOK(command, kc, entry)
  <2> HIDE DEF kc
  <2>1. command \notin {"menu", "write"}
    BY DEF FromHistory
  <2>2. QED
    BY <1>4, <1>5, <2>1 DEF SourceOK
<1>8. QED
  BY <1>6, <1>7 DEF CopyIsGood

-----------------------------------------------------------------------------
(* What a step leaves alone.                                               *)

\* A file is as it was, or it has been cleaned.
Untouched(fs, old, gone, path) ==
    \/ /\ path \in DOMAIN fs <=> path \in DOMAIN old
       /\ path \in DOMAIN old => fs[path] = old[path]
    \/ path \notin DOMAIN fs /\ path \in gone

\* A path of one file that is a copy is that copy.
LEMMA OneFile ==
    ASSUME NEW path \in Seq(File)
    PROVE  /\ OnCopy(path) => path[1] \in HeadCopy(path) /\ path[1] \in File
           /\ OnCopy(path) /\ Len(path) = 1 => path = <<path[1]>>
           /\ \A f \in HeadCopy(path) : f \in File /\ IsTemporary(f)
BY DEF OnCopy, HeadCopy, Unnamed

\* A terminal whose copies are untouched, and which holds what it did, is fine.
LEMMA FrameTerminal ==
    ASSUME NEW fs, NEW gone, NEW n \in Nat, NEW old, NEW before,
           NEW m \in Nat, NEW c, NEW j, NEW e \in Seq(File), NEW s,
           j.path \in Seq(File),
           TerminalOK(old, before, m, c, j, e, s),
           m <= n, before \subseteq gone,
           \A f \in Mine(j, e) : Untouched(fs, old, gone, <<f>>)
    PROVE  TerminalOK(fs, gone, n, c, j, e, s)
<1>1. CopyOK(fs, gone, c, j, e)
  <2>1. SUFFICES ASSUME Copying(c, j)
                 PROVE  /\ OnCopy(j.path) /\ Len(j.path) = 1 /\ j.path # e
                        /\ j.path \in DOMAIN fs => fs[j.path] = j.source
                        /\ j.path \notin DOMAIN fs => j.path \in gone
                        /\ SourceOK(j.command, j.source, j.selection)
    BY DEF CopyOK
  <2>2. /\ OnCopy(j.path) /\ Len(j.path) = 1 /\ j.path # e
        /\ j.path \in DOMAIN old => old[j.path] = j.source
        /\ j.path \notin DOMAIN old => j.path \in before
        /\ SourceOK(j.command, j.source, j.selection)
    BY <2>1 DEF TerminalOK, CopyOK
  <2>3. Untouched(fs, old, gone, j.path)
    BY <2>2, OneFile DEF Mine
  <2>4. QED
    BY <2>2, <2>3 DEF Untouched
<1>2. SelectedOK(fs, gone, c, j, e, s)
  <2>1. SUFFICES ASSUME s.target # NoTarget /\ s.context # Unset
                 PROVE  SelectedOK(fs, gone, c, j, e, s)
    BY DEF SelectedOK
  <2>2. /\ OnCopy(e)
        /\ c \in {"truncate", "emit"} /\ j.path = <<e[1]>> =>
              Reaches(j.data, j.data.current) = s.target
        /\ <<e[1]>> \notin DOMAIN old => <<e[1]>> \in before
        /\ <<e[1]>> \in DOMAIN old /\ ~(c = "emit" /\ j.path = <<e[1]>>) =>
              /\ old[<<e[1]>>] # Torn
              /\ Reaches(old[<<e[1]>>], old[<<e[1]>>].current) = s.target
    BY <2>1 DEF TerminalOK, SelectedOK
  <2>3. Untouched(fs, old, gone, <<e[1]>>)
    BY <2>2, OneFile DEF Mine
  <2>4. QED
    <3> DEFINE path == <<e[1]>>
    <3>1. /\ path \notin DOMAIN old => path \in before
          /\ path \in DOMAIN old /\ ~(c = "emit" /\ j.path = path) =>
                /\ old[path] # Torn
                /\ Reaches(old[path], old[path].current) = s.target
          /\ Untouched(fs, old, gone, path)
      BY <2>2, <2>3
    <3>2. /\ path \notin DOMAIN fs => path \in gone
          /\ path \in DOMAIN fs /\ ~(c = "emit" /\ j.path = path) =>
                /\ fs[path] # Torn
                /\ Reaches(fs[path], fs[path].current) = s.target
      <4> HIDE DEF path
      <4>1. QED
        BY <3>1 DEF Untouched
    <3>3. QED
      BY <2>2, <3>2 DEF SelectedOK
<1>3. \A f \in Mine(j, e) : f <= Custom + n
  BY OneFile DEF TerminalOK, Mine, File, Custom
<1>4. QED
  BY <1>1, <1>2, <1>3 DEF TerminalOK

\* The terminals are fine after a step of one of them that is, if it takes no
\* copy of another and the other copies are untouched.
LEMMA StepKeepsOwned ==
    ASSUME OInv, Kinds, JobsGood, NEW t \in Terminal, NEW c, NEW j, NEW e,
           NEW s, Changed(t, c, j, e, s),
           started' \in Nat, started <= started', cleaned \subseteq cleaned',
           \A f \in File :
              IsTemporary(f) /\ f <= Custom + started
                 /\ f \notin Mine(job[t], env[t]) =>
                    Untouched(files', files, cleaned', <<f>>),
           \A f \in Mine(j, e) : f \in Mine(job[t], env[t])
                                    \/ f > Custom + started,
           TerminalOK(files', cleaned', started', c, j, e, s),
           FilesOK', HistoryOK'
    PROVE  OInv'
<1>1. \A u \in Terminal :
         IF u = t
         THEN /\ control'[u] = c /\ job'[u] = j /\ env'[u] = e
              /\ selected'[u] = s
         ELSE /\ control'[u] = control[u] /\ job'[u] = job[u]
              /\ env'[u] = env[u] /\ selected'[u] = selected[u]
  <2> HIDE DEF Steps
  <2>1. QED
    BY DEF Kinds, JobsGood, Changed
<1>2. \A u \in Terminal :
         /\ env[u] \in Seq(File) /\ job[u].path \in Seq(File)
         /\ \A f \in Mine(job[u], env[u]) :
               f \in File /\ IsTemporary(f) /\ f <= Custom + started
         /\ TerminalOK(files, cleaned, started, control[u], job[u], env[u],
                       selected[u])
  <2>1. SUFFICES ASSUME NEW u \in Terminal
                 PROVE  /\ env[u] \in Seq(File) /\ job[u].path \in Seq(File)
                        /\ \A f \in Mine(job[u], env[u]) :
                              /\ f \in File /\ IsTemporary(f)
                              /\ f <= Custom + started
                        /\ TerminalOK(files, cleaned, started, control[u],
                                      job[u], env[u], selected[u])
    OBVIOUS
  <2>2. env[u] \in Seq(File) /\ job[u].path \in Seq(File)
    BY DEF Kinds
  <2>3. TerminalOK(files, cleaned, started, control[u], job[u], env[u],
                   selected[u])
    BY DEF OInv, TerminalsOK
  <2>4. \A f \in Mine(job[u], env[u]) : f \in File /\ IsTemporary(f)
    BY <2>2, OneFile DEF Mine
  <2>5. QED
    BY <2>2, <2>3, <2>4 DEF TerminalOK
<1>3. ASSUME NEW u \in Terminal, u # t
      PROVE  TerminalOK(files', cleaned', started', control[u], job[u],
                        env[u], selected[u])
  <2>1. \A f \in Mine(job[u], env[u]) :
           Untouched(files', files, cleaned', <<f>>)
    <3>1. Mine(job[u], env[u]) \cap Mine(job[t], env[t]) = {}
      BY <1>3 DEF OInv, CopiesAreOwned
    <3>2. QED
      BY <1>2, <3>1
  <2>2. started \in Nat
    BY TerminalsAssumption DEF Kinds
  <2>3. QED
    BY <1>2, <2>1, <2>2, FrameTerminal
<1>4. TerminalsOK'
  <2>1. ASSUME NEW u \in Terminal
        PROVE  TerminalOK(files', cleaned', started', control'[u], job'[u],
                          env'[u], selected'[u])
    BY <1>1, <1>3
  <2>2. QED
    BY <2>1 DEF TerminalsOK
<1>5. CopiesAreOwned'
  <2>1. ASSUME NEW u \in Terminal, u # t
        PROVE  Mine(j, e) \cap Mine(job[u], env[u]) = {}
    <3>1. Mine(job[u], env[u]) \cap Mine(job[t], env[t]) = {}
      BY <2>1 DEF OInv, CopiesAreOwned
    <3>2. ASSUME NEW f \in Mine(j, e), f \in Mine(job[u], env[u])
          PROVE  FALSE
      <4>1. f \in File /\ f <= Custom + started
        BY <1>2, <3>2
      <4>2. f > Custom + started
        BY <3>1, <3>2
      <4>3. f \in Nat /\ started \in Nat
        BY <4>1, TerminalsAssumption DEF File, Custom, Kinds
      <4>4. QED
        BY <4>1, <4>2, <4>3 DEF Custom
    <3>3. QED
      BY <3>2
  <2>2. ASSUME NEW u \in Terminal, NEW v \in Terminal, u # v
        PROVE  Mine(job'[u], env'[u]) \cap Mine(job'[v], env'[v]) = {}
    <3>1. CASE u = t
      BY <1>1, <2>1, <2>2, <3>1
    <3>2. CASE v = t
      BY <1>1, <2>1, <2>2, <3>2
    <3>3. CASE u # t /\ v # t
      BY <1>1, <2>2, <3>3 DEF OInv, CopiesAreOwned
    <3>4. QED
      BY <3>1, <3>2, <3>3
  <2>3. QED
    BY <2>2 DEF CopiesAreOwned
<1>6. QED
  BY <1>4, <1>5 DEF OInv

-----------------------------------------------------------------------------
(* What happens to the files.                                              *)

\* Files that stay are what they were when others are removed,
LEMMA RemovedPaths ==
    ASSUME FilesOK, Kinds, started' \in Nat, started <= started',
           UNCHANGED files \/ \E paths : files' = Without(paths)
    PROVE  FilesOK'
<1>1. /\ DOMAIN files' \subseteq DOMAIN files
      /\ \A p \in DOMAIN files' : files'[p] = files[p]
  BY DEF Without
<1>2. ASSUME NEW p \in DOMAIN files'
      PROVE  PathOK(started', p, files'[p])
  <2>1. PathOK(started, p, files'[p]) /\ p \in Seq(File)
    BY <1>1 DEF FilesOK, Kinds
  <2>2. started \in Nat
    BY TerminalsAssumption DEF Kinds
  <2>3. OnCopy(p) => p[1] \in Nat
    BY <2>1, OneFile DEF File, Custom
  <2>4. QED
    BY <2>1, <2>2, <2>3 DEF PathOK, Custom
<1>3. QED
  BY <1>2 DEF FilesOK

\* or when another one is written.
LEMMA PutPaths ==
    ASSUME FilesOK, Kinds, started' \in Nat, started <= started',
           NEW path, NEW contents, files' = Put(path, contents),
           PathOK(started', path, contents)
    PROVE  FilesOK'
<1>1. ASSUME NEW p \in DOMAIN files'
      PROVE  PathOK(started', p, files'[p])
  <2>1. CASE p = path
    BY <2>1 DEF Put
  <2>2. CASE p # path
    <3>1. p \in DOMAIN files /\ files'[p] = files[p]
      BY <2>2 DEF Put
    <3>2. PathOK(started, p, files'[p]) /\ p \in Seq(File)
      BY <3>1 DEF FilesOK, Kinds
    <3>3. started \in Nat
      BY TerminalsAssumption DEF Kinds
    <3>4. OnCopy(p) => p[1] \in Nat
      BY <3>2, OneFile DEF File, Custom
    <3>5. QED
      BY <3>2, <3>3, <3>4 DEF PathOK, Custom
  <2>3. QED
    BY <2>1, <2>2
<1>2. QED
  BY <1>1 DEF FilesOK

\* Every file but the one that is written is untouched,
LEMMA PutUntouched ==
    ASSUME NEW path, NEW contents, files' = Put(path, contents),
           NEW gone, NEW other, other # path
    PROVE  Untouched(files', files, gone, other)
BY DEF Untouched, Put

\* and so is every file if none is removed but this one.
LEMMA WithoutUntouched ==
    ASSUME NEW path, files' = Without({path}) \/ UNCHANGED files,
           NEW gone, NEW other, other # path
    PROVE  Untouched(files', files, gone, other)
BY DEF Untouched, Without

\* A terminal that runs no command is fine if what it selected is.
LEMMA IdleTerminal ==
    ASSUME NEW fs, NEW gone, NEW n, NEW e, NEW s,
           SelectedOK(fs, gone, "idle", NoJob, e, s),
           \A f \in HeadCopy(e) : f <= Custom + n
    PROVE  /\ TerminalOK(fs, gone, n, "idle", NoJob, e, s)
           /\ Mine(NoJob, e) = HeadCopy(e)
<1>1. NoJob.path = <<>> /\ NoJob.entry = NoEntry
  BY DEF NoJob, Unnamed
<1>2. HeadCopy(NoJob.path) = {}
  BY <1>1 DEF HeadCopy, OnCopy
<1>3. EntryOK(NoJob.entry)
  BY <1>1, EntryFields DEF EntryOK, NoEntry
<1>4. StepOK("idle", NoJob)
  BY DEF StepOK
<1>5. CopyOK(fs, gone, "idle", NoJob, e)
  BY DEF CopyOK, Copying
<1>6. WriteOK("idle", NoJob) /\ EditOK("idle", NoJob, e)
  BY DEF WriteOK, EditOK
<1>7. Mine(NoJob, e) = HeadCopy(e)
  BY <1>2 DEF Mine
<1>8. QED
  BY <1>3, <1>4, <1>5, <1>6, <1>7 DEF TerminalOK

\* What a selection needs of a terminal that does not write, it needs always.
LEMMA SelectedStays ==
    ASSUME NEW fs, NEW gone, NEW c, NEW j, NEW e, NEW s, NEW d, NEW k,
           c # "emit", d \notin {"truncate", "emit"},
           SelectedOK(fs, gone, c, j, e, s)
    PROVE  SelectedOK(fs, gone, d, k, e, s)
BY DEF SelectedOK

\* Nothing is selected by no entry.
LEMMA NothingSelected ==
    ASSUME NEW fs, NEW gone, NEW c, NEW j, NEW e
    PROVE  SelectedOK(fs, gone, c, j, e, NoEntry)
BY EntryFields DEF SelectedOK, NoEntry

\* What the invariant says of one terminal.
LEMMA TerminalFacts ==
    ASSUME OInv, Kinds, NEW t \in Terminal
    PROVE  /\ TerminalOK(files, cleaned, started, control[t], job[t], env[t],
                         selected[t])
           /\ env[t] \in Seq(File)
           /\ job[t].path \in Seq(File)
           /\ started \in Nat
           /\ \A f \in Mine(job[t], env[t]) :
                 f \in Nat /\ IsTemporary(f) /\ f <= Custom + started
<1>1. TerminalOK(files, cleaned, started, control[t], job[t], env[t],
                 selected[t])
  BY DEF OInv, TerminalsOK
<1>2. /\ env[t] \in Seq(File)
      /\ job[t].path \in Seq(File)
      /\ started \in Nat
  BY TerminalsAssumption DEF Kinds
<1>3. \A f \in Mine(job[t], env[t]) : f \in Nat /\ IsTemporary(f)
  BY <1>2, OneFile DEF Mine, File, Custom
<1>4. QED
  BY <1>1, <1>2, <1>3 DEF TerminalOK

-----------------------------------------------------------------------------
(* The actions.                                                            *)

\* A command that ends leaves the terminal as it is, unless it was writing.
LEMMA EndKeepsOwned ==
    ASSUME OInv, Kinds, JobsGood, NEW t \in Terminal,
           NEW s, s = selected[t] \/ s = NoEntry,
           control[t] = "emit" => s = NoEntry,
           Changed(t, "idle", NoJob, env[t], s),
           UNCHANGED <<files, started, cleaned>>, HistoryOK'
    PROVE  OInv'
<1>1. /\ TerminalOK(files, cleaned, started, control[t], job[t], env[t],
                    selected[t])
      /\ started \in Nat
      /\ \A f \in Mine(job[t], env[t]) : f <= Custom + started
  BY TerminalFacts
<1>2. SelectedOK(files, cleaned, "idle", NoJob, env[t], s)
  BY <1>1, SelectedStays, NothingSelected DEF TerminalOK
<1>3. /\ TerminalOK(files, cleaned, started, "idle", NoJob, env[t], s)
      /\ Mine(NoJob, env[t]) \subseteq Mine(job[t], env[t])
  BY <1>1, <1>2, IdleTerminal DEF Mine
<1>4. FilesOK'
  BY <1>1, RemovedPaths DEF OInv
<1>5. \A path : Untouched(files', files, cleaned', path)
  BY DEF Untouched
<1>6. QED
  BY <1>1, <1>3, <1>4, <1>5, StepKeepsOwned

\* A command that makes a good copy owns it.
LEMMA MakeCopyKeepsOwned ==
    ASSUME OInv, Kinds, JobsGood, NEW t \in Terminal,
           NEW command \in CopyCommands, NEW next \in {"lookup", "report"},
           command = "write" => next = "lookup",
           NEW kc, NEW context, NEW append, NEW selection,
           CopyIsGood(command, kc, context, selection),
           MakeCopy(t, command, next, kc, context, append, selection)
    PROVE  OInv'
<1> DEFINE j == CopyJob(command, NewCopy, kc, CopyEntry(kc, context), append,
                        selection)
           e == env[t]
           s == selected[t]
           f == TemporaryFile(started + 1)
<1>1. /\ control[t] = "idle"
      /\ started' = started + 1
      /\ NewCopy \in Seq(File)
      /\ files' = Put(NewCopy, kc)
      /\ UNCHANGED <<history, cleaned>>
      /\ Changed(t, next, j, e, s)
  BY MakeCopyStep
<1>2. /\ j.command = command
      /\ j.path = NewCopy
      /\ j.source = kc
      /\ j.entry = CopyEntry(kc, context)
      /\ j.selection = selection
  BY DEF CopyJob, Job
<1>3. /\ TerminalOK(files, cleaned, started, "idle", job[t], e, s)
      /\ e \in Seq(File)
      /\ started \in Nat
      /\ \A g \in Mine(job[t], e) : g \in Nat /\ g <= Custom + started
  BY <1>1, TerminalFacts
<1>4. /\ f \in Nat
      /\ f > Custom + started
      /\ f <= Custom + (started + 1)
      /\ IsTemporary(f)
  BY <1>3 DEF TemporaryFile, IsTemporary, Custom
<1>5. /\ OnCopy(NewCopy)
      /\ Len(NewCopy) = 1
      /\ NewCopy[1] = f
      /\ HeadCopy(NewCopy) = {f}
  BY <1>4 DEF OnCopy, HeadCopy, NewCopy
<1>6. \A g : g # f => <<g>> # NewCopy
  BY DEF NewCopy
<1>7. ~(f \in Mine(job[t], e))
  BY <1>3, <1>4 DEF Custom
<1>8. OnCopy(e) => e[1] # f
  BY <1>7 DEF Mine, HeadCopy
<1>9. Put(NewCopy, kc)[NewCopy] = kc /\ NewCopy \in DOMAIN Put(NewCopy, kc)
  BY DEF Put
<1> HIDE DEF j, f
<1>10. CopyOK(files', cleaned', next, j, e)
  <2>1. NewCopy # e
    BY <1>5, <1>8
  <2>2. SourceOK(j.command, j.source, j.selection)
    BY <1>2 DEF CopyIsGood
  <2>3. QED
    BY <1>1, <1>2, <1>5, <1>9, <2>1, <2>2 DEF CopyOK
<1>11. SelectedOK(files', cleaned', next, j, e, s)
  <2>1. SUFFICES ASSUME s.target # NoTarget /\ s.context # Unset
                 PROVE  SelectedOK(files', cleaned', next, j, e, s)
    BY DEF SelectedOK
  <2>2. SelectedOK(files, cleaned, "idle", job[t], e, s)
    BY <1>3 DEF TerminalOK
  <2>3. OnCopy(e)
    BY <2>1, <2>2 DEF SelectedOK
  <2>4. <<e[1]>> # NewCopy
    BY <1>6, <1>8, <2>3
  <2> DEFINE path == <<e[1]>>
  <2>5. Untouched(files', files, cleaned', path)
    BY <1>1, <2>4, PutUntouched
  <2>6. /\ path \notin DOMAIN files => path \in cleaned
        /\ path \in DOMAIN files =>
              /\ files[path] # Torn
              /\ Reaches(files[path], files[path].current) = s.target
    BY <2>1, <2>2 DEF SelectedOK
  <2>7. /\ path \notin DOMAIN files' => path \in cleaned'
        /\ path \in DOMAIN files' =>
              /\ files'[path] # Torn
              /\ Reaches(files'[path], files'[path].current) = s.target
    <3> HIDE DEF path
    <3>1. QED
      BY <1>1, <2>5, <2>6 DEF Untouched
  <2>8. QED
    BY <2>3, <2>7 DEF SelectedOK
<1>12. Mine(j, e) \subseteq Mine(job[t], e) \cup {f}
  BY <1>2, <1>5 DEF Mine
<1>13. TerminalOK(files', cleaned', started', next, j, e, s)
  <2>1. StepOK(next, j)
    BY <1>2 DEF StepOK
  <2>2. WriteOK(next, j) /\ EditOK(next, j, e)
    BY <1>2 DEF WriteOK, EditOK
  <2>3. EntryOK(j.entry)
    BY <1>2 DEF CopyIsGood
  <2>4. \A g \in Mine(j, e) : g <= Custom + started'
    BY <1>1, <1>3, <1>4, <1>12 DEF Custom
  <2>5. QED
    BY <1>10, <1>11, <2>1, <2>2, <2>3, <2>4 DEF TerminalOK
<1>14. FilesOK'
  <2>1. PathOK(started', NewCopy, kc)
    BY <1>1, <1>4, <1>5 DEF PathOK, FileOK, CopyIsGood
  <2>2. started' \in Nat /\ started <= started'
    BY <1>1, <1>3
  <2>3. QED
    BY <1>1, <2>1, <2>2, PutPaths DEF OInv
<1>15. HistoryOK'
  BY <1>1 DEF OInv, HistoryOK
<1>16. \A g \in File :
          IsTemporary(g) /\ g <= Custom + started
             /\ g \notin Mine(job[t], env[t]) =>
                Untouched(files', files, cleaned', <<g>>)
  <2>1. SUFFICES ASSUME NEW g \in File, g <= Custom + started
                 PROVE  Untouched(files', files, cleaned', <<g>>)
    OBVIOUS
  <2>2. g # f
    BY <1>3, <1>4, <2>1 DEF File, Custom
  <2>3. QED
    BY <1>1, <1>6, <2>2, PutUntouched
<1>17. QED
  <2>1. /\ started' \in Nat /\ started <= started'
        /\ cleaned \subseteq cleaned'
        /\ \A g \in Mine(j, e) : g \in Mine(job[t], e)
                                    \/ g > Custom + started
    BY <1>1, <1>3, <1>4, <1>12
  <2>2. QED
    BY <1>1, <1>13, <1>14, <1>15, <1>16, <2>1, StepKeepsOwned

\* A command that goes on after the history has what it had.
LEMMA GoOnKeepsOwned ==
    ASSUME OInv, Kinds, JobsGood, NEW t \in Terminal,
           control[t] \in {"lookup", "append"},
           NEW c \in {"append", "merge", "report"},
           c = "merge" => job[t].command = "write",
           c = "report" => job[t].command \notin {"ns", "write"},
           Changed(t, c, job[t], env[t], selected[t]),
           UNCHANGED <<files, started, cleaned>>, HistoryOK'
    PROVE  OInv'
<1> DEFINE j == job[t]
           e == env[t]
           s == selected[t]
<1>1. /\ TerminalOK(files, cleaned, started, control[t], j, e, s)
      /\ started \in Nat
  BY TerminalFacts
<1> HIDE DEF j, e, s
<1>2. j.command \in CopyCommands \cup {"ns"}
  BY <1>1 DEF TerminalOK, StepOK
<1>3. StepOK(c, j)
  BY <1>2 DEF StepOK, j
<1>4. CopyOK(files, cleaned, c, j, e)
  <2>1. Copying(c, j) => Copying(control[t], j)
    BY DEF Copying, j
  <2>2. QED
    BY <1>1, <2>1 DEF TerminalOK, CopyOK
<1>5. WriteOK(c, j) /\ EditOK(c, j, e)
  BY DEF WriteOK, EditOK, j
<1>6. SelectedOK(files, cleaned, c, j, e, s)
  BY <1>1, SelectedStays DEF TerminalOK
<1>7. TerminalOK(files', cleaned', started', c, j, e, s)
  BY <1>1, <1>3, <1>4, <1>5, <1>6 DEF TerminalOK
<1>8. FilesOK'
  BY <1>1, RemovedPaths DEF OInv
<1>9. \A path : Untouched(files', files, cleaned', path)
  BY DEF Untouched
<1>10. QED
  BY <1>1, <1>7, <1>8, <1>9, StepKeepsOwned DEF j, e, s

\* The history only gets entries that lead where their names do.
LEMMA HistoryKeepsOwned ==
    ASSUME OInv, Kinds, IInv, NEW t \in Terminal,
           LookupHistory(t) \/ AppendToHistory(t)
    PROVE  OInv'
<1>1. /\ UNCHANGED <<files, env, started, selected, cleaned>>
      /\ control[t] \in {"lookup", "append"}
      /\ \/ UNCHANGED history
         \/ history' = Append(history, job[t].entry)
      /\ \/ AfterHistory(t)
         \/ Goto(t, "append") /\ UNCHANGED job
  BY DEF LookupHistory, AppendToHistory
<1>2. HistoryOK'
  <2>1. CASE UNCHANGED history
    BY <2>1 DEF OInv, HistoryOK
  <2>2. CASE history' = Append(history, job[t].entry)
    <3>1. EntryOK(job[t].entry)
      BY TerminalFacts DEF TerminalOK
    <3>2. history \in Seq(EntryType) /\ job[t].entry \in EntryType
      BY DEF IInv, HistoryTyped, JobsGood, Remembered
    <3>3. \A i \in 1..Len(history') :
             \/ history'[i] = job[t].entry
             \/ i \in 1..Len(history) /\ history'[i] = history[i]
      BY <2>2, <3>2
    <3>4. QED
      BY <3>1, <3>3 DEF OInv, HistoryOK
  <2>3. QED
    BY <1>1, <2>1, <2>2
<1>3. JobsGood
  BY DEF IInv
<1>4. CASE Goto(t, "append") /\ UNCHANGED job
  <2>1. Changed(t, "append", job[t], env[t], selected[t])
    BY <1>1, <1>3, <1>4, GotoStep
  <2>2. QED
    BY <1>1, <1>2, <1>3, <2>1, GoOnKeepsOwned
<1>5. CASE AfterHistory(t)
  <2>1. \/ /\ job[t].command = "ns"
           /\ Changed(t, "idle", NoJob, env[t], selected[t])
        \/ /\ job[t].command = "write"
           /\ Changed(t, "merge", job[t], env[t], selected[t])
        \/ /\ job[t].command \notin {"ns", "write"}
           /\ Changed(t, "report", job[t], env[t], selected[t])
    BY <1>1, <1>3, <1>5, AfterHistoryStep
  <2>2. CASE Changed(t, "idle", NoJob, env[t], selected[t])
    <3> DEFINE s == selected[t]
    <3>1. /\ control[t] = "emit" => s = NoEntry
          /\ Changed(t, "idle", NoJob, env[t], s)
          /\ s = selected[t]
      BY <1>1, <2>2
    <3> HIDE DEF s
    <3>2. QED
      BY <1>1, <1>2, <1>3, <3>1, EndKeepsOwned
  <2>3. CASE /\ job[t].command = "write"
             /\ Changed(t, "merge", job[t], env[t], selected[t])
    <3>1. "merge" # "report"
      OBVIOUS
    <3>2. QED
      BY <1>1, <1>2, <1>3, <2>3, <3>1, GoOnKeepsOwned
  <2>4. CASE /\ job[t].command \notin {"ns", "write"}
             /\ Changed(t, "report", job[t], env[t], selected[t])
    <3>1. "report" # "merge"
      OBVIOUS
    <3>2. QED
      BY <1>1, <1>2, <1>3, <2>4, <3>1, GoOnKeepsOwned
  <2>5. QED
    BY <2>1, <2>2, <2>3, <2>4
<1>6. QED
  BY <1>1, <1>4, <1>5

\* A killed command leaves what it wrote, but selects nothing if it was
\* writing.
LEMMA KillKeepsOwned ==
    ASSUME OInv, Kinds, JobsGood, NEW t \in Terminal, Kill(t)
    PROVE  OInv'
<1>1. /\ UNCHANGED <<files, history, started, cleaned>>
      /\ \E s \in {selected[t], NoEntry} :
            /\ control[t] = "emit" => s = NoEntry
            /\ Changed(t, "idle", NoJob, env[t], s)
  BY KillStep
<1>2. PICK s \in {selected[t], NoEntry} :
         /\ control[t] = "emit" => s = NoEntry
         /\ Changed(t, "idle", NoJob, env[t], s)
  BY <1>1
<1>3. HistoryOK'
  BY <1>1 DEF OInv, HistoryOK
<1>4. QED
  BY <1>1, <1>2, <1>3, EndKeepsOwned

\* Cleaned copies are missing where they should be.
LEMMA CleanKeepsOwned ==
    ASSUME OInv, Kinds, NEW t \in Terminal, Clean(t)
    PROVE  OInv'
<1> DEFINE copies == {p \in DOMAIN files : Len(p) = 1 /\ IsTemporary(p[1])}
<1>1. /\ started' = started + 1
      /\ files' = Without(copies)
      /\ cleaned' = cleaned \cup copies
      /\ UNCHANGED <<env, control, job, history, selected>>
  BY DEF Clean
<1> HIDE DEF copies
<1>2. started \in Nat /\ started' \in Nat /\ started <= started'
  BY <1>1, TerminalsAssumption DEF Kinds
<1>3. FilesOK'
  BY <1>1, <1>2, RemovedPaths DEF OInv
<1>4. \A path : Untouched(files', files, cleaned', path)
  BY <1>1 DEF Untouched, Without
<1>5. ASSUME NEW u \in Terminal
      PROVE  TerminalOK(files', cleaned', started', control[u], job[u],
                        env[u], selected[u])
  <2>1. /\ TerminalOK(files, cleaned, started, control[u], job[u], env[u],
                      selected[u])
        /\ env[u] \in Seq(File)
        /\ job[u].path \in Seq(File)
    BY TerminalFacts
  <2>2. cleaned \subseteq cleaned'
    BY <1>1
  <2>3. QED
    BY <1>2, <1>4, <2>1, <2>2, FrameTerminal
<1>6. TerminalsOK'
  BY <1>1, <1>5 DEF TerminalsOK
<1>7. CopiesAreOwned' /\ HistoryOK'
  BY <1>1 DEF OInv, CopiesAreOwned, HistoryOK
<1>8. QED
  BY <1>3, <1>6, <1>7 DEF OInv

\* A command that is going to rewrite a file in place holds what belongs there.
LEMMA EditStartsOwned ==
    ASSUME OInv, Kinds, JobsGood, NEW t \in Terminal, NEW j,
           j.command \in {"ns", "delete", "unset"},
           j.path \in DOMAIN files, OnCopy(j.path) => j.path = env[t],
           FileOK(j.path, j.data), EntryOK(j.entry),
           NEW s, SelectedOK(files, cleaned, "truncate", j, env[t], s),
           Changed(t, "truncate", j, env[t], s),
           started' = started + 1, UNCHANGED <<files, history, cleaned>>
    PROVE  OInv'
<1> DEFINE e == env[t]
<1>1. /\ e \in Seq(File)
      /\ started \in Nat
      /\ \A f \in Mine(job[t], e) : f \in Nat /\ f <= Custom + started
  BY TerminalFacts
<1>2. OnCopy(j.path) => Len(j.path) = 1
  BY DEF OInv, FilesOK, PathOK
<1>3. Mine(j, e) \subseteq Mine(job[t], e)
  BY DEF Mine, HeadCopy
<1>4. TerminalOK(files', cleaned', started', "truncate", j, e, s)
  <2>1. StepOK("truncate", j)
    BY DEF StepOK
  <2>2. CopyOK(files, cleaned, "truncate", j, e)
    BY DEF CopyOK, Copying
  <2>3. WriteOK("truncate", j)
    BY DEF WriteOK
  <2>4. EditOK("truncate", j, e)
    BY <1>2 DEF EditOK
  <2>5. \A f \in Mine(j, e) : f <= Custom + started'
    <3> HIDE DEF e
    <3>1. QED
      BY <1>1, <1>3 DEF Custom
  <2>6. QED
    BY <2>1, <2>2, <2>3, <2>4, <2>5 DEF TerminalOK
<1>5. started' \in Nat /\ started <= started'
  BY <1>1
<1>6. FilesOK' /\ HistoryOK'
  BY <1>5, RemovedPaths DEF OInv, HistoryOK
<1>7. \A path : Untouched(files', files, cleaned', path)
  BY DEF Untouched
<1>8. QED
  BY <1>3, <1>4, <1>5, <1>6, <1>7, StepKeepsOwned

\* A file at the path of a command line.
LEMMA CurrentPathFacts ==
    ASSUME FilesOK, Kinds, NEW t \in Terminal
    PROVE  /\ OnCopy(CurrentPath(t)) => CurrentPath(t) = env[t]
           /\ ~OnCopy(WriteTarget(t))
<1>1. ~OnCopy(<<Default>>)
  BY DEF OnCopy, IsTemporary, Default, Custom
<1>2. QED
  BY <1>1 DEF CurrentPath, WriteTarget, OnCopy, Unnamed

\* `ns` keeps where the terminal's kubeconfig leads, and records it under the
\* name it belongs to.
LEMMA SwitchNamespaceKeepsOwned ==
    ASSUME OInv, Kinds, IInv, NEW t \in Terminal, SwitchNamespace(t)
    PROVE  OInv'
<1> DEFINE path == CurrentPath(t)
           kc == files[path]
<1>1. /\ control[t] = "idle"
      /\ started' = started + 1
      /\ Readable(path)
      /\ kc.current \in Names(kc.contexts)
      /\ UNCHANGED <<files, history, cleaned>>
      /\ \E ns \in Namespaces : \E append \in BOOLEAN :
            Changed(t, "truncate", NsJob(path, ns, append), env[t],
                    selected[t])
  BY SwitchNamespaceStep
<1>2. PICK ns \in Namespaces, append \in BOOLEAN :
         Changed(t, "truncate", NsJob(path, ns, append), env[t], selected[t])
  BY <1>1
<1> DEFINE kd == NsData(path, ns)
           entry == NsEntry(kd, ns)
           j == NsJob(path, ns, append)
<1>3. /\ j.command = "ns"
      /\ j.path = path
      /\ j.data = kd
      /\ j.entry = entry
  BY DEF NsJob, Job
<1>4. ns \in Name /\ ns # Unset
  BY TerminalsAssumption
<1>5. Good(kc) /\ path \in DOMAIN files /\ kc # Torn
  BY <1>1, ReadableGood DEF Readable
<1>6. PathOK(started, path, kc)
  BY <1>5 DEF OInv, FilesOK
<1>7. kd = SetNamespace(kc, kc.current, ns)
  BY DEF NsData
<1> HIDE DEF path
<1>8. /\ Reaches(kd, kd.current) = Reaches(kc, kc.current)
      /\ Names(kd.contexts) = Names(kc.contexts)
      /\ kd.current = kc.current
      /\ kd.kswitch = kc.kswitch
  <2> HIDE DEF kc, kd
  <2>1. QED
    BY <1>4, <1>5, <1>7, NamespaceLeads
<1> HIDE DEF kc, kd, j
<1>9. OnCopy(path) => path = env[t]
  BY CurrentPathFacts DEF OInv, path
<1>10. FileOK(path, kd)
  BY <1>5, <1>6, <1>8 DEF PathOK, FileOK, Attributed
<1>11. EntryOK(entry)
  <2>1. /\ entry.context = kd.kswitch
        /\ entry.namespace = ns
        /\ entry.target = Reaches(kd, kd.current)
    BY EntryFields DEF NsEntry
  <2>2. kd.kswitch # Unset => Denotes(kd.kswitch, Reaches(kd, kd.current))
    <3>1. kd.kswitch # Unset => Attributed(kd)
      BY <1>10 DEF FileOK
    <3>2. QED
      BY <1>1, <1>8, <3>1 DEF Attributed
  <2>3. QED
    BY <1>4, <2>1, <2>2 DEF EntryOK
<1>12. SelectedOK(files, cleaned, "truncate", j, env[t], selected[t])
  <2> DEFINE s == selected[t]
             e == env[t]
  <2>1. SelectedOK(files, cleaned, control[t], job[t], e, s)
    BY TerminalFacts DEF TerminalOK
  <2> HIDE DEF s, e
  <2>2. SUFFICES ASSUME s.target # NoTarget /\ s.context # Unset
                 PROVE  SelectedOK(files, cleaned, "truncate", j, e, s)
    BY DEF SelectedOK, s, e
  <2>3. path = <<e[1]>> => Reaches(kd, kd.current) = s.target
    BY <1>1, <1>5, <1>8, <2>1, <2>2 DEF SelectedOK, kc
  <2>4. QED
    BY <1>1, <1>3, <2>1, <2>2, <2>3 DEF SelectedOK
<1>13. QED
  <2>1. Changed(t, "truncate", j, env[t], selected[t])
    BY <1>2 DEF j
  <2>2. JobsGood
    BY DEF IInv
  <2>3. QED
    BY <1>1, <1>3, <1>5, <1>9, <1>10, <1>11, <1>12, <2>1, <2>2,
       EditStartsOwned

\* A context is deleted, or unset, in the terminal's own file, which selects
\* nothing then.
LEMMA EditInPlaceKeepsOwned ==
    ASSUME OInv, Kinds, JobsGood, NEW t \in Terminal,
           NEW command \in {"delete", "unset"}, NEW kc,
           Readable(env[t]), FileOK(env[t], kc), EditInPlace(t, command, kc)
    PROVE  OInv'
<1>1. /\ started' = started + 1
      /\ UNCHANGED <<files, history, cleaned>>
      /\ \E append \in BOOLEAN :
            Changed(t, "truncate",
                    Job(command, env[t], EmptyKubeconfig, kc, NoEntry, append,
                        NoEntry),
                    env[t], NoEntry)
  BY EditInPlaceStep
<1>2. PICK append \in BOOLEAN :
         Changed(t, "truncate",
                 Job(command, env[t], EmptyKubeconfig, kc, NoEntry, append,
                     NoEntry),
                 env[t], NoEntry)
  BY <1>1
<1> DEFINE j == Job(command, env[t], EmptyKubeconfig, kc, NoEntry, append,
                    NoEntry)
<1>3. /\ j.command = command
      /\ j.path = env[t]
      /\ j.data = kc
      /\ j.entry = NoEntry
  BY DEF Job
<1>4. Changed(t, "truncate", j, env[t], NoEntry)
  BY <1>2
<1> HIDE DEF j
<1>5. EntryOK(j.entry)
  BY <1>3, EntryFields DEF EntryOK, NoEntry
<1>6. SelectedOK(files, cleaned, "truncate", j, env[t], NoEntry)
  BY NothingSelected
<1>7. env[t] \in DOMAIN files
  BY DEF Readable
<1>8. QED
  BY <1>1, <1>3, <1>4, <1>5, <1>6, <1>7, EditStartsOwned

\* A deleted context,
LEMMA DeleteContextKeepsOwned ==
    ASSUME OInv, Kinds, IInv, NEW t \in Terminal, DeleteContext(t)
    PROVE  OInv'
<1> DEFINE kc == files[env[t]]
<1>1. PICK name \in Name \ {Unset} :
         EditInPlace(t, "delete", RemoveContext(kc, name))
  BY DEF DeleteContext
<1> DEFINE kd == RemoveContext(kc, name)
<1>2. Readable(env[t])
  BY DEF DeleteContext
<1>3. Good(kc)
  BY <1>2, ReadableGood
<1>4. PathOK(started, env[t], kc) /\ kc # Torn
  BY <1>2 DEF OInv, FilesOK, Readable
<1>5. /\ \A other : other # name => Reaches(kd, other) = Reaches(kc, other)
      /\ Names(kd.contexts) = Names(kc.contexts) \ {name}
      /\ kd.current = kc.current
      /\ kd.kswitch = kc.kswitch
  <2> HIDE DEF kc
  <2>1. QED
    BY <1>3, RemovedLeads
<1>6. FileOK(env[t], kd)
  <2> HIDE DEF kc, kd
  <2>1. QED
    BY <1>4, <1>5 DEF PathOK, FileOK, Attributed
<1>7. JobsGood
  BY DEF IInv
<1>8. QED
  BY <1>1, <1>2, <1>6, <1>7, EditInPlaceKeepsOwned

\* and an unset one.
LEMMA UnsetCurrentContextKeepsOwned ==
    ASSUME OInv, Kinds, IInv, NEW t \in Terminal, UnsetCurrentContext(t)
    PROVE  OInv'
<1> DEFINE kc == files[env[t]]
           kd == ModifyCurrentContext(kc, Unset)
<1>1. Readable(env[t]) /\ EditInPlace(t, "unset", kd)
  BY DEF UnsetCurrentContext
<1>2. Good(kc)
  BY <1>1, ReadableGood
<1>3. PathOK(started, env[t], kc) /\ kc # Torn
  BY <1>1 DEF OInv, FilesOK, Readable
<1>4. /\ kd.contexts = kc.contexts
      /\ kd.current = Unset
      /\ kd.kswitch = kc.kswitch
  <2> HIDE DEF kc
  <2>1. QED
    BY <1>2, ScalarsSet DEF Good
<1>5. FileOK(env[t], kd)
  <2> HIDE DEF kc, kd
  <2>1. QED
    BY <1>3, <1>4 DEF PathOK, FileOK, Attributed
<1>6. JobsGood
  BY DEF IInv
<1>7. QED
  BY <1>1, <1>5, <1>6, EditInPlaceKeepsOwned

\* A merge that starts has no path yet.
LEMMA MergeToDefaultKeepsOwned ==
    ASSUME OInv, Kinds, JobsGood, NEW t \in Terminal, MergeToDefault(t)
    PROVE  OInv'
<1> DEFINE e == env[t]
           s == selected[t]
           Of(append) ==
              Job("merge", Unnamed, files[CurrentPath(t)], EmptyKubeconfig,
                  NoEntry, append, NoEntry)
<1>1. /\ control[t] = "idle"
      /\ started' = started + 1
      /\ UNCHANGED <<files, history, cleaned>>
      /\ \E append \in BOOLEAN : Changed(t, "merge", Of(append), e, s)
  BY MergeToDefaultStep
<1>2. PICK append \in BOOLEAN : Changed(t, "merge", Of(append), e, s)
  BY <1>1
<1> DEFINE j == Of(append)
<1>3. j.command = "merge" /\ j.path = <<>> /\ j.entry = NoEntry
  BY DEF Job, Unnamed
<1> HIDE DEF j, Of, s
<1>4. /\ TerminalOK(files, cleaned, started, control[t], job[t], e, s)
      /\ started \in Nat
      /\ \A f \in Mine(job[t], e) : f \in Nat /\ f <= Custom + started
  BY TerminalFacts DEF s
<1> HIDE DEF e
<1>5. Mine(j, e) \subseteq Mine(job[t], e)
  BY <1>3 DEF Mine, HeadCopy, OnCopy
<1>6. TerminalOK(files', cleaned', started', "merge", j, e, s)
  <2>1. StepOK("merge", j)
    BY <1>3 DEF StepOK
  <2>2. CopyOK(files', cleaned', "merge", j, e)
    BY <1>3 DEF CopyOK, Copying, CopyCommands
  <2>3. WriteOK("merge", j) /\ EditOK("merge", j, e)
    BY <1>3 DEF WriteOK, EditOK
  <2>4. SelectedOK(files, cleaned, "merge", j, e, s)
    <3>1. SelectedOK(files, cleaned, control[t], job[t], e, s)
      BY <1>4 DEF TerminalOK
    <3>2. control[t] # "emit" /\ "merge" \notin {"truncate", "emit"}
      BY <1>1
    <3>3. QED
      BY <3>1, <3>2, SelectedStays
  <2>5. EntryOK(j.entry)
    BY <1>3, EntryFields DEF EntryOK, NoEntry
  <2>6. \A f \in Mine(j, e) : f <= Custom + started'
    BY <1>1, <1>4, <1>5 DEF Custom
  <2>7. QED
    BY <1>1, <2>1, <2>2, <2>3, <2>4, <2>5, <2>6 DEF TerminalOK
<1>7. started' \in Nat /\ started <= started'
  BY <1>1, <1>4
<1>8. FilesOK' /\ HistoryOK'
  BY <1>1, <1>7, RemovedPaths DEF OInv, HistoryOK
<1>9. \A path : Untouched(files', files, cleaned', path)
  BY <1>1 DEF Untouched
<1>10. Changed(t, "merge", j, e, s)
  BY <1>2 DEF j
<1>11. QED
  BY <1>1, <1>5, <1>6, <1>7, <1>8, <1>9, <1>10, StepKeepsOwned DEF e, s

\* The merged document leads where the copy of `-w` does.
LEMMA MergeDataToTargetKeepsOwned ==
    ASSUME OInv, Kinds, IInv, NEW t \in Terminal, MergeDataToTarget(t)
    PROVE  OInv'
<1> DEFINE path == WriteTarget(t)
           e == env[t]
           s == selected[t]
           j == MergeJob(t, path)
           dst == Target(path)
<1>1. JobsGood
  BY DEF IInv
<1>2. /\ control[t] = "merge"
      /\ UNCHANGED <<history, started, cleaned>>
      /\ \/ /\ Changed(t, "idle", NoJob, e, s)
            /\ UNCHANGED files
         \/ /\ dst # Torn
            /\ files' = IF path \in DOMAIN files THEN files
                        ELSE Put(path, EmptyKubeconfig)
            /\ Changed(t, "truncate", j, e, s)
  BY <1>1, MergeDataToTargetStep
<1>3. HistoryOK'
  BY <1>2 DEF OInv, HistoryOK
<1>4. CASE Changed(t, "idle", NoJob, e, s) /\ UNCHANGED files
  <2>1. /\ control[t] = "emit" => s = NoEntry
        /\ s = selected[t]
        /\ UNCHANGED <<files, started, cleaned>>
    BY <1>2, <1>4
  <2> HIDE DEF s
  <2>2. QED
    BY <1>1, <1>3, <1>4, <2>1, EndKeepsOwned
<1>5. CASE /\ dst # Torn
           /\ files' = IF path \in DOMAIN files THEN files
                       ELSE Put(path, EmptyKubeconfig)
           /\ Changed(t, "truncate", j, e, s)
  <2>1. /\ TerminalOK(files, cleaned, started, "merge", job[t], e, s)
        /\ started \in Nat
        /\ \A f \in Mine(job[t], e) : f <= Custom + started
    BY <1>2, TerminalFacts
  <2>2. ~OnCopy(path)
    BY CurrentPathFacts DEF OInv
  <2>3. Good(dst) /\ dst.kswitch = Unset
    <3>1. CASE path \in DOMAIN files
      <4>1. dst = files[path] /\ PathOK(started, path, files[path])
        BY <3>1 DEF Target, OInv, FilesOK
      <4>2. Good(dst)
        BY <1>5, <3>1, <4>1 DEF IInv, FilesGood
      <4>3. QED
        BY <1>5, <2>2, <4>1, <4>2 DEF PathOK, FileOK
    <3>2. CASE path \notin DOMAIN files
      <4>1. dst = EmptyKubeconfig
        BY <3>2 DEF Target
      <4>2. EmptyKubeconfig.kswitch = Unset
        BY DEF EmptyKubeconfig
      <4>3. QED
        BY <4>1, <4>2, EmptyGood
    <3>3. QED
      BY <3>1, <3>2
  <2> DEFINE src == job[t].source
  <2>4. Good(src)
    BY <1>1 DEF JobsGood, Remembered
  <2>5. /\ j.command = job[t].command
        /\ j.path = path
        /\ j.data = Merge(dst, src)
        /\ j.entry = job[t].entry
        /\ j.selection = job[t].selection
    BY DEF MergeJob, Job
  <2>6. j.data.kswitch = Unset
    BY <2>3, <2>5 DEF Merge, Good, KubeconfigType
  <2>7. ASSUME job[t].command = "write"
        PROVE  /\ j.data.current = j.selection.context
               /\ Reaches(j.data, j.data.current) = j.selection.target
    <3> DEFINE wanted == job[t].selection
    <3>1. Copying("merge", job[t])
      BY <2>7 DEF Copying, CopyCommands
    <3>2. SourceOK("write", src, wanted)
      BY <2>1, <2>7, <3>1 DEF TerminalOK, CopyOK
    <3> HIDE DEF src, wanted, dst, j
    <3>3. /\ wanted.context # Unset
          /\ src.current = wanted.context
          /\ src.current \in Names(src.contexts)
          /\ Reaches(src, src.current) = wanted.target
      BY <3>2 DEF SourceOK
    <3> DEFINE name == src.current
               kd == Merge(dst, src)
    <3>4. Reaches(kd, name) = Reaches(src, name) /\ kd.current = name
      <4>1. name \in Names(src.contexts) /\ name # Unset
        BY <3>3
      <4>2. src.current = name
        OBVIOUS
      <4> HIDE DEF name
      <4>3. QED
        BY <2>3, <2>4, <4>1, <4>2, MergedLeads
    <3>5. j.data = kd /\ j.selection = wanted
      BY <2>5 DEF wanted
    <3> HIDE DEF kd
    <3>6. QED
      BY <3>3, <3>4, <3>5
  <2> HIDE DEF j, path, dst, src
  <2>8. TerminalOK(files', cleaned', started', "truncate", j, e, s)
    <3>1. StepOK("truncate", j)
      BY <2>1, <2>5 DEF TerminalOK, StepOK
    <3>2. CopyOK(files', cleaned', "truncate", j, e)
      BY DEF CopyOK, Copying
    <3>3. WriteOK("truncate", j)
      BY <2>2, <2>5, <2>7 DEF WriteOK
    <3>4. EditOK("truncate", j, e)
      BY <2>2, <2>5, <2>6 DEF EditOK, FileOK
    <3>5. EntryOK(j.entry)
      BY <2>1, <2>5 DEF TerminalOK
    <3>6. \A f \in Mine(j, e) : f <= Custom + started'
      BY <1>2, <2>1, <2>2, <2>5 DEF Mine, HeadCopy
    <3>7. SelectedOK(files', cleaned', "truncate", j, e, s)
      <4>1. SUFFICES ASSUME s.target # NoTarget /\ s.context # Unset
                     PROVE  SelectedOK(files', cleaned', "truncate", j, e, s)
        BY DEF SelectedOK
      <4>2. SelectedOK(files, cleaned, "merge", job[t], e, s)
        BY <2>1 DEF TerminalOK
      <4> DEFINE copy == <<e[1]>>
      <4>3. /\ OnCopy(e)
            /\ copy \notin DOMAIN files => copy \in cleaned
            /\ copy \in DOMAIN files =>
                  /\ files[copy] # Torn
                  /\ Reaches(files[copy], files[copy].current) = s.target
        BY <4>1, <4>2 DEF SelectedOK
      <4>4. OnCopy(copy)
        BY <4>3 DEF OnCopy
      <4>5. path # copy
        BY <2>2, <4>4
      <4>6. Untouched(files', files, cleaned', copy)
        <5>1. CASE path \in DOMAIN files
          BY <1>5, <5>1 DEF Untouched
        <5>2. CASE path \notin DOMAIN files
          BY <1>5, <4>5, <5>2, PutUntouched
        <5>3. QED
          BY <5>1, <5>2
      <4>7. /\ copy \notin DOMAIN files' => copy \in cleaned'
            /\ copy \in DOMAIN files' =>
                  /\ files'[copy] # Torn
                  /\ Reaches(files'[copy], files'[copy].current) = s.target
        <5> HIDE DEF copy
        <5>1. QED
          BY <1>2, <4>3, <4>6 DEF Untouched
      <4>8. QED
        BY <2>5, <4>3, <4>5, <4>7 DEF SelectedOK
    <3>8. QED
      BY <3>1, <3>2, <3>3, <3>4, <3>5, <3>6, <3>7 DEF TerminalOK
  <2>9. FilesOK'
    <3>1. started' \in Nat /\ started <= started'
      BY <1>2, <2>1
    <3>2. CASE path \in DOMAIN files
      BY <1>5, <3>1, <3>2, RemovedPaths DEF OInv
    <3>3. CASE path \notin DOMAIN files
      <4>1. PathOK(started', path, EmptyKubeconfig)
        <5>1. EmptyKubeconfig.kswitch = Unset
          BY DEF EmptyKubeconfig
        <5>2. QED
          BY <2>2, <5>1 DEF PathOK, FileOK
      <4>2. QED
        BY <1>5, <3>1, <3>3, <4>1, PutPaths DEF OInv
    <3>4. QED
      BY <3>2, <3>3
  <2>10. ASSUME NEW f \in File, IsTemporary(f)
         PROVE  Untouched(files', files, cleaned', <<f>>)
    <3>1. <<f>> # path
      BY <2>2, <2>10 DEF OnCopy
    <3>2. CASE path \in DOMAIN files
      BY <1>5, <3>2 DEF Untouched
    <3>3. CASE path \notin DOMAIN files
      BY <1>5, <3>1, <3>3, PutUntouched
    <3>4. QED
      BY <3>2, <3>3
  <2>11. Mine(j, e) \subseteq Mine(job[t], e)
    BY <2>2, <2>5 DEF Mine, HeadCopy
  <2>12. QED
    <3>1. /\ started' \in Nat /\ started <= started'
          /\ cleaned \subseteq cleaned'
      BY <1>2, <2>1
    <3>2. QED
      BY <1>1, <1>3, <1>5, <2>8, <2>9, <2>10, <2>11, <3>1, StepKeepsOwned
<1>6. QED
  BY <1>2, <1>4, <1>5

\* The copies that others own are not the path that a command writes.
LEMMA OwnPath ==
    ASSUME NEW t \in Terminal, NEW f, f \notin Mine(job[t], env[t]),
           IsTemporary(f)
    PROVE  /\ <<f>> # job[t].path
           /\ <<f>> # env[t]
BY DEF Mine, HeadCopy, OnCopy

\* What is written keeps where a copy leads that is selected.
LEMMA WriteKeepsSelected ==
    ASSUME OInv, Kinds, NEW t \in Terminal, NEW contents,
           control[t] \in {"truncate", "emit"},
           NEW c, c \notin {"truncate"},
           \/ files' = Put(job[t].path, contents)
           \/ /\ job[t].path \notin DOMAIN files
              /\ UNCHANGED files,
           \/ c = "emit" /\ control[t] = "truncate"
           \/ /\ c # "emit"
              /\ contents = job[t].data
              /\ contents # Torn,
           NEW j, c = "emit" => j = job[t],
           cleaned \subseteq cleaned'
    PROVE  SelectedOK(files', cleaned', c, j, env[t], selected[t])
<1> DEFINE e == env[t]
           s == selected[t]
           old == job[t]
           copy == <<e[1]>>
<1>1. SelectedOK(files, cleaned, control[t], old, e, s)
  BY TerminalFacts DEF TerminalOK
<1>2. SUFFICES ASSUME s.target # NoTarget /\ s.context # Unset
               PROVE  SelectedOK(files', cleaned', c, j, e, s)
  BY DEF SelectedOK
<1>3. /\ OnCopy(e)
      /\ old.path = copy => Reaches(old.data, old.data.current) = s.target
      /\ copy \notin DOMAIN files => copy \in cleaned
      /\ copy \in DOMAIN files /\ ~(control[t] = "emit" /\ old.path = copy) =>
            /\ files[copy] # Torn
            /\ Reaches(files[copy], files[copy].current) = s.target
  BY <1>1, <1>2 DEF SelectedOK
<1> HIDE DEF e, s, old, copy
<1>4. /\ copy \notin DOMAIN files' => copy \in cleaned'
      /\ copy \in DOMAIN files' /\ ~(c = "emit" /\ j.path = copy) =>
            /\ files'[copy] # Torn
            /\ Reaches(files'[copy], files'[copy].current) = s.target
  <2>1. CASE old.path = copy /\ files' = Put(old.path, contents)
    <3>1. copy \in DOMAIN files' /\ files'[copy] = contents
      BY <2>1 DEF Put
    <3>2. CASE c = "emit"
      BY <2>1, <3>1, <3>2 DEF old
    <3>3. CASE c # "emit"
      BY <1>3, <2>1, <3>1, <3>3 DEF old
    <3>4. QED
      BY <3>2, <3>3
  <2>2. CASE old.path # copy /\ files' = Put(old.path, contents)
    <3>1. /\ copy \in DOMAIN files' <=> copy \in DOMAIN files
          /\ copy \in DOMAIN files => files'[copy] = files[copy]
      BY <2>2 DEF Put
    <3>2. QED
      BY <1>3, <2>2, <3>1
  <2>3. CASE old.path \notin DOMAIN files /\ UNCHANGED files
    BY <1>3, <2>3
  <2>4. QED
    BY <2>1, <2>2, <2>3 DEF old
<1>5. c = "emit" /\ j.path = copy =>
         Reaches(j.data, j.data.current) = s.target
  BY <1>3 DEF old
<1>6. QED
  BY <1>3, <1>4, <1>5 DEF SelectedOK, copy

\* A file that is torn is one that its terminal is about to write.
LEMMA TruncateKeepsOwned ==
    ASSUME OInv, Kinds, JobsGood, NEW t \in Terminal, Truncate(t)
    PROVE  OInv'
<1> DEFINE e == env[t]
           s == selected[t]
           j == job[t]
<1>1. /\ control[t] = "truncate"
      /\ UNCHANGED <<history, started, cleaned>>
      /\ \/ /\ Changed(t, "idle", NoJob, e, s)
            /\ UNCHANGED files
         \/ /\ Changed(t, "emit", j, e, s)
            /\ files' = Put(j.path, Torn)
  BY TruncateStep
<1>2. HistoryOK'
  BY <1>1 DEF OInv, HistoryOK
<1>3. CASE Changed(t, "idle", NoJob, e, s) /\ UNCHANGED files
  <2>1. /\ control[t] = "emit" => s = NoEntry
        /\ s = selected[t]
        /\ UNCHANGED <<files, started, cleaned>>
    BY <1>1, <1>3
  <2> HIDE DEF s
  <2>2. QED
    BY <1>2, <1>3, <2>1, EndKeepsOwned
<1>4. CASE Changed(t, "emit", j, e, s) /\ files' = Put(j.path, Torn)
  <2>1. /\ TerminalOK(files, cleaned, started, "truncate", j, e, s)
        /\ started \in Nat
        /\ \A f \in Mine(j, e) : f <= Custom + started
    BY <1>1, TerminalFacts
  <2>2. SelectedOK(files', cleaned', "emit", j, e, s)
    BY <1>1, <1>4, WriteKeepsSelected
  <2>3. \A f \in File :
           IsTemporary(f) /\ f \notin Mine(j, e) =>
              Untouched(files', files, cleaned', <<f>>)
    BY <1>4, OwnPath, PutUntouched
  <2> HIDE DEF e, s, j
  <2>4. OnCopy(j.path) => /\ Len(j.path) = 1
                          /\ j.path[1] <= Custom + started
    BY <2>1 DEF TerminalOK, EditOK, Mine, HeadCopy
  <2>5. TerminalOK(files', cleaned', started', "emit", j, e, s)
    <3>1. StepOK("emit", j)
      BY <2>1 DEF TerminalOK, StepOK
    <3>2. CopyOK(files', cleaned', "emit", j, e)
      BY DEF CopyOK, Copying
    <3>3. WriteOK("emit", j) /\ EditOK("emit", j, e)
      BY <2>1 DEF TerminalOK, WriteOK, EditOK
    <3>4. QED
      BY <1>1, <2>1, <2>2, <3>1, <3>2, <3>3 DEF TerminalOK
  <2>6. FilesOK'
    <3>1. PathOK(started', j.path, Torn)
      BY <1>1, <2>4 DEF PathOK
    <3>2. started' \in Nat /\ started <= started'
      BY <1>1, <2>1
    <3>3. QED
      BY <1>4, <3>1, <3>2, PutPaths DEF OInv
  <2>7. /\ started' \in Nat /\ started <= started'
        /\ cleaned \subseteq cleaned'
    BY <1>1, <2>1
  <2>8. QED
    BY <1>2, <1>4, <2>3, <2>5, <2>6, <2>7, StepKeepsOwned DEF e, s, j
<1>5. QED
  BY <1>1, <1>3, <1>4

\* What is written is what the terminal selected, or what `-w` merged.
LEMMA EmitKeepsOwned ==
    ASSUME OInv, Kinds, IInv, NEW t \in Terminal, Emit(t)
    PROVE  OInv'
<1> DEFINE e == env[t]
           s == selected[t]
           j == job[t]
<1>1. JobsGood
  BY DEF IInv
<1>2. /\ control[t] = "emit"
      /\ UNCHANGED <<history, started, cleaned>>
      /\ files' = IF j.path \in DOMAIN files
                  THEN Put(j.path, j.data) ELSE files
      /\ \/ /\ j.command = "ns"
            /\ Changed(t, "lookup", j, e, s)
         \/ /\ j.command = "write"
            /\ Changed(t, "report", j, e, s)
         \/ Changed(t, "idle", NoJob, e, s)
  BY <1>1, EmitStep
<1>3. HistoryOK'
  BY <1>2 DEF OInv, HistoryOK
<1>4. /\ TerminalOK(files, cleaned, started, "emit", j, e, s)
      /\ started \in Nat
      /\ \A f \in Mine(j, e) : f <= Custom + started
  BY <1>2, TerminalFacts
<1>5. /\ started' \in Nat /\ started <= started'
      /\ cleaned \subseteq cleaned'
  BY <1>2, <1>4
<1>6. j.data # Torn
  <2>1. Good(j.data)
    BY <1>1 DEF JobsGood, Remembered
  <2>2. QED
    BY <2>1, TerminalsAssumption DEF Good
<1>7. ASSUME NEW c, NEW k, c \notin {"truncate", "emit"}
      PROVE  SelectedOK(files', cleaned', c, k, e, s)
  <2>1. \/ files' = Put(j.path, j.data)
        \/ j.path \notin DOMAIN files /\ UNCHANGED files
    BY <1>2
  <2>2. c \notin {"truncate"} /\ c # "emit"
    BY <1>7
  <2>3. QED
    BY <1>2, <1>5, <1>6, <2>1, <2>2, WriteKeepsSelected
<1>8. \A f \in File :
         IsTemporary(f) /\ f \notin Mine(j, e) =>
            Untouched(files', files, cleaned', <<f>>)
  <2>1. CASE j.path \in DOMAIN files
    BY <1>2, <2>1, OwnPath, PutUntouched
  <2>2. CASE j.path \notin DOMAIN files
    BY <1>2, <2>2 DEF Untouched
  <2>3. QED
    BY <2>1, <2>2
<1>9. FilesOK'
  <2>1. CASE j.path \in DOMAIN files
    <3>1. PathOK(started, j.path, files[j.path])
      BY <2>1 DEF OInv, FilesOK
    <3>2. FileOK(j.path, j.data)
      BY <1>4 DEF TerminalOK, EditOK
    <3>3. PathOK(started', j.path, j.data)
      BY <1>2, <3>1, <3>2 DEF PathOK
    <3>4. QED
      BY <1>2, <1>5, <2>1, <3>3, PutPaths DEF OInv
  <2>2. CASE j.path \notin DOMAIN files
    BY <1>2, <1>5, <2>2, RemovedPaths DEF OInv
  <2>3. QED
    BY <2>1, <2>2
<1>10. CASE Changed(t, "idle", NoJob, e, s)
  <2>1. SelectedOK(files', cleaned', "idle", NoJob, e, s)
    BY <1>7
  <2>2. \A f \in HeadCopy(e) : f <= Custom + started'
    BY <1>2, <1>4 DEF Mine
  <2>3. /\ TerminalOK(files', cleaned', started', "idle", NoJob, e, s)
        /\ Mine(NoJob, e) \subseteq Mine(j, e)
    <3> HIDE DEF e, s, j
    <3>1. QED
      BY <2>1, <2>2, IdleTerminal DEF Mine
  <2>4. QED
    BY <1>1, <1>3, <1>5, <1>8, <1>9, <1>10, <2>3, StepKeepsOwned
<1>11. ASSUME NEW c, \/ c = "lookup" /\ j.command = "ns"
                     \/ c = "report" /\ j.command = "write",
              Changed(t, c, j, e, s)
       PROVE  OInv'
  <2>1. SelectedOK(files', cleaned', c, j, e, s)
    BY <1>7, <1>11
  <2>2. TerminalOK(files', cleaned', started', c, j, e, s)
    <3> HIDE DEF e, s, j
    <3>1. StepOK(c, j)
      BY <1>11 DEF StepOK, CopyCommands
    <3>2. CopyOK(files', cleaned', c, j, e)
      BY <1>11 DEF CopyOK, Copying, CopyCommands
    <3>3. WriteOK(c, j)
      BY <1>4, <1>11 DEF TerminalOK, WriteOK
    <3>4. EditOK(c, j, e)
      BY <1>11 DEF EditOK
    <3>5. QED
      BY <1>2, <1>4, <2>1, <3>1, <3>2, <3>3, <3>4 DEF TerminalOK
  <2>3. QED
    BY <1>1, <1>3, <1>5, <1>8, <1>9, <1>11, <2>2, StepKeepsOwned
<1>12. QED
  BY <1>2, <1>10, <1>11

\* The terminal gets the copy of its command for the one it had.
LEMMA ReportKeepsOwned ==
    ASSUME OInv, Kinds, Named, IInv, NEW t \in Terminal, Report(t)
    PROVE  OInv'
<1> DEFINE old == env[t]
           j == job[t]
           e == NewPath(j.path, old)
           s == IF j.command = "write" THEN NoEntry ELSE j.selection
<1>1. JobsGood
  BY DEF IInv
<1>2. /\ control[t] = "report"
      /\ UNCHANGED <<history, started, cleaned>>
      /\ files' = Without({old}) \/ UNCHANGED files
      /\ Changed(t, "idle", NoJob, e, s)
      /\ e # <<>>
      /\ e[1] = j.path[1]
  BY ReportStep
<1>3. j.path # <<>>
  BY <1>2 DEF Named
<1>4. /\ TerminalOK(files, cleaned, started, "report", j, old, selected[t])
      /\ started \in Nat
      /\ j.path \in Seq(File)
      /\ \A f \in Mine(j, old) : f <= Custom + started
  BY <1>2, TerminalFacts
<1>5. j.source # Torn
  <2>1. Good(j.source)
    BY <1>1 DEF JobsGood, Remembered
  <2>2. QED
    BY <2>1, TerminalsAssumption DEF Good
<1>6. \A f \in File :
         IsTemporary(f) /\ f \notin Mine(j, old) =>
            Untouched(files', files, cleaned', <<f>>)
  BY <1>2, OwnPath, WithoutUntouched
<1>7. j.path # old => Untouched(files', files, cleaned', j.path)
  BY <1>2, WithoutUntouched
<1> HIDE DEF e, j, old
<1>8. HeadCopy(e) \subseteq Mine(j, old)
  BY <1>2, <1>3 DEF HeadCopy, OnCopy, Mine
<1>9. SelectedOK(files', cleaned', "idle", NoJob, e, s)
  <2>1. CASE j.command = "write"
    BY <2>1, NothingSelected
  <2>2. CASE j.command # "write" /\ j.selection.context = Unset
    BY <2>2 DEF SelectedOK
  <2>3. CASE j.command # "write" /\ j.selection.context # Unset
    <3>1. Copying("report", j)
      BY <1>4, <2>3 DEF TerminalOK, StepOK, Copying
    <3>2. /\ OnCopy(j.path) /\ Len(j.path) = 1 /\ j.path # old
          /\ j.path \in DOMAIN files => files[j.path] = j.source
          /\ j.path \notin DOMAIN files => j.path \in cleaned
          /\ Reaches(j.source, j.source.current) = j.selection.target
      BY <1>4, <2>3, <3>1 DEF TerminalOK, CopyOK, SourceOK
    <3>3. j.path = <<e[1]>>
      BY <1>2, <1>4, <3>2, OneFile
    <3>4. /\ j.path \notin DOMAIN files' => j.path \in cleaned'
          /\ j.path \in DOMAIN files' => files'[j.path] = j.source
      BY <1>2, <1>7, <3>2 DEF Untouched
    <3>5. OnCopy(e)
      BY <1>2, <3>2 DEF OnCopy
    <3>6. s = j.selection
      BY <2>3
    <3> DEFINE path == <<e[1]>>
    <3>7. /\ path \notin DOMAIN files' => path \in cleaned'
          /\ path \in DOMAIN files' =>
                /\ files'[path] # Torn
                /\ Reaches(files'[path], files'[path].current) = s.target
      <4>1. path = j.path
        BY <3>3
      <4> HIDE DEF path, s
      <4>2. QED
        BY <1>5, <3>2, <3>4, <3>6, <4>1
    <3> HIDE DEF s
    <3>8. QED
      BY <3>5, <3>7 DEF SelectedOK
  <2>4. QED
    BY <2>1, <2>2, <2>3
<1>10. /\ TerminalOK(files', cleaned', started', "idle", NoJob, e, s)
       /\ Mine(NoJob, e) \subseteq Mine(j, old)
  <2>1. \A f \in HeadCopy(e) : f <= Custom + started'
    BY <1>2, <1>4, <1>8
  <2> HIDE DEF s
  <2>2. QED
    BY <1>8, <1>9, <2>1, IdleTerminal
<1>11. FilesOK' /\ HistoryOK'
  <2>1. started' \in Nat /\ started <= started'
    BY <1>2, <1>4
  <2>2. QED
    BY <1>2, <2>1, RemovedPaths DEF OInv, HistoryOK
<1>12. QED
  <2>1. /\ started' \in Nat /\ started <= started'
        /\ cleaned \subseteq cleaned'
    BY <1>2, <1>4
  <2> HIDE DEF s
  <2>2. QED
    BY <1>1, <1>2, <1>6, <1>10, <1>11, <2>1, StepKeepsOwned DEF j, old

\* The commands that make a copy: the menu,
LEMMA SwitcherKeepsOwned ==
    ASSUME NamesAreUnambiguous, OInv, Kinds, JobsGood, NEW t \in Terminal,
           NEW command \in {"menu", "write"}, Switcher(t, command)
    PROVE  OInv'
<1>1. PICK p \in DOMAIN Stores :
         \E context \in Names(Stores[p].contexts) :
            MakeCopy(t, command, "lookup", SwitcherCopy(p, context),
                     Shown(context), TRUE,
                     Selection(Shown(context), p, context))
  BY DEF Switcher
<1>2. PICK context \in Names(Stores[p].contexts) :
         MakeCopy(t, command, "lookup", SwitcherCopy(p, context),
                  Shown(context), TRUE, Selection(Shown(context), p, context))
  BY <1>1
<1>3. CopyIsGood(command, SwitcherCopy(p, context), Shown(context),
                 Selection(Shown(context), p, context))
  BY SwitcherCopyIsGood
<1>4. command \in CopyCommands
  BY DEF CopyCommands
<1>5. QED
  BY <1>2, <1>3, <1>4, MakeCopyKeepsOwned

\* set-context,
LEMMA SetContextKeepsOwned ==
    ASSUME NamesAreUnambiguous, OInv, Kinds, JobsGood, NEW t \in Terminal,
           SetContextCommand(t)
    PROVE  OInv'
<1>1. PICK p \in DOMAIN Stores :
         \E context \in Names(Stores[p].contexts) :
         \E wanted \in {context, Shown(context)} :
            MakeCopy(t, "set", "lookup", SetContextCopy(p, context, wanted),
                     wanted, TRUE, Selection(context, p, context))
  BY DEF SetContextCommand
<1>2. PICK context \in Names(Stores[p].contexts) :
         \E wanted \in {context, Shown(context)} :
            MakeCopy(t, "set", "lookup", SetContextCopy(p, context, wanted),
                     wanted, TRUE, Selection(context, p, context))
  BY <1>1
<1>3. PICK wanted \in {context, Shown(context)} :
         MakeCopy(t, "set", "lookup", SetContextCopy(p, context, wanted),
                  wanted, TRUE, Selection(context, p, context))
  BY <1>2
<1>4. CopyIsGood("set", SetContextCopy(p, context, wanted), wanted,
                 Selection(context, p, context))
  BY SetCopyIsGood
<1>5. "set" \in CopyCommands
  BY DEF CopyCommands
<1>6. QED
  BY <1>3, <1>4, <1>5, MakeCopyKeepsOwned

\* and the commands that take an entry from the history.
LEMMA SwitchFromHistoryKeepsOwned ==
    ASSUME NamesAreUnambiguous, OInv, Kinds, IInv, NEW t \in Terminal,
           NEW command \in FromHistory, SwitchFromHistory(t, command)
    PROVE  OInv'
<1> DEFINE Copy(i, p, context) ==
              Restored(SetContextCopy(p, context, history[i].context),
                       history[i])
           next == IF command = "history" THEN "lookup" ELSE "report"
           append == command = "history"
           Made(i, p, context) ==
              /\ Matches(history[i].context, context)
              /\ MakeCopy(t, command, next, Copy(i, p, context),
                          history[i].context, append, history[i])
<1>1. \E i \in Recorded(command) :
      \E p \in DOMAIN Stores : \E context \in Names(Stores[p].contexts) :
         Made(i, p, context)
  BY DEF SwitchFromHistory
<1> HIDE DEF Made
<1>2. PICK i \in Recorded(command) :
         \E p \in DOMAIN Stores : \E context \in Names(Stores[p].contexts) :
            Made(i, p, context)
  BY <1>1
<1>3. PICK p \in DOMAIN Stores :
         \E context \in Names(Stores[p].contexts) : Made(i, p, context)
  BY <1>2
<1>4. PICK context \in Names(Stores[p].contexts) : Made(i, p, context)
  BY <1>3
<1> DEFINE entry == history[i]
<1>5. i \in 1..Len(history)
  <2>1. Len(history) \in Nat
    BY DEF IInv, HistoryTyped
  <2>2. Len(history) # 0
    BY DEF Recorded
  <2> DEFINE n == Len(history)
  <2>3. CASE command = "last"
    <3>1. Recorded(command) = {n}
      BY <2>2, <2>3 DEF Recorded
    <3>2. QED
      BY <2>1, <2>2, <3>1
  <2>4. CASE command = "previous"
    <3>1. i = IF n = 1 THEN 1 ELSE n - 1
      BY <2>2, <2>4 DEF Recorded
    <3>2. n \in Nat /\ n # 0
      BY <2>1, <2>2
    <3> HIDE DEF n
    <3>3. CASE n = 1
      BY <3>1, <3>3 DEF n
    <3>4. CASE n # 1
      <4>1. i = n - 1
        BY <3>1, <3>4
      <4>2. i \in 1..n
        BY <3>2, <3>4, <4>1
      <4>3. QED
        BY <4>2 DEF n
    <3>5. QED
      BY <3>3, <3>4
  <2>5. CASE command = "history"
    <3>1. Recorded(command) = 1..n
      BY <2>2, <2>5 DEF Recorded
    <3>2. QED
      BY <3>1
  <2>6. QED
    BY <2>3, <2>4, <2>5 DEF FromHistory
<1>6. entry \in EntryType /\ EntryOK(entry)
  BY <1>5 DEF IInv, HistoryTyped, OInv, HistoryOK
<1>7. /\ Matches(entry.context, context)
      /\ MakeCopy(t, command, next, Copy(i, p, context), entry.context,
                  append, entry)
  BY <1>4 DEF Made
<1>8. CopyIsGood(command, Copy(i, p, context), entry.context, entry)
  <2>1. Copy(i, p, context) =
           Restored(SetContextCopy(p, context, entry.context), entry)
    OBVIOUS
  <2> HIDE DEF entry, Copy
  <2>2. QED
    BY <1>6, <1>7, <2>1, HistoryCopyIsGood
<1>9. /\ command \in CopyCommands
      /\ next \in {"lookup", "report"}
      /\ command = "write" => next = "lookup"
  BY DEF FromHistory, CopyCommands
<1>10. JobsGood
  BY DEF IInv
<1> HIDE DEF next, append, Copy, entry
<1>11. QED
  BY <1>7, <1>8, <1>9, <1>10, MakeCopyKeepsOwned

\* At the start there are no copies, and nothing is selected.
LEMMA InitOwned ==
    ASSUME NamesAreUnambiguous, Init
    PROVE  OInv
<1>1. FilesOK
  <2>1. ASSUME NEW p \in DOMAIN files
        PROVE  PathOK(started, p, files[p])
    <3>1. /\ p \in {<<Default>>, <<Custom>>}
          /\ files[p] = InitialFile(p)
          /\ InitialFile(p) # Missing
      BY <2>1 DEF Init
    <3>2. ~OnCopy(p)
      BY <3>1 DEF OnCopy, IsTemporary, Default, Custom
    <3>3. InitialFile(p) \in {DefaultFile, CustomFile}
      BY DEF InitialFile
    <3>4. files[p].kswitch = Unset
      BY <3>1, <3>3 DEF NamesAreUnambiguous
    <3>5. QED
      BY <3>2, <3>4 DEF PathOK, FileOK
  <2>2. QED
    BY <2>1 DEF FilesOK
<1>2. ASSUME NEW t \in Terminal
      PROVE  /\ HeadCopy(env[t]) = {}
             /\ control[t] = "idle"
             /\ job[t] = NoJob
             /\ selected[t] = NoEntry
  <2>1. env[t] \in {Unnamed, <<Default>>, <<Custom>>}
    BY TerminalsAssumption DEF Init
  <2>2. HeadCopy(env[t]) = {}
    BY <2>1 DEF HeadCopy, OnCopy, IsTemporary, Default, Custom, Unnamed
  <2>3. QED
    BY <2>2 DEF Init
<1>3. ASSUME NEW t \in Terminal
      PROVE  /\ TerminalOK(files, cleaned, started, control[t], job[t],
                           env[t], selected[t])
             /\ Mine(job[t], env[t]) = {}
  <2>1. SelectedOK(files, cleaned, "idle", NoJob, env[t], NoEntry)
    BY NothingSelected
  <2>2. QED
    BY <1>2, <2>1, IdleTerminal
<1>4. HistoryOK
  BY DEF Init, HistoryOK
<1>5. QED
  BY <1>1, <1>3, <1>4 DEF OInv, TerminalsOK, CopiesAreOwned

\* Every step keeps the invariant.
LEMMA NextKeepsOwned ==
    ASSUME NamesAreUnambiguous, Owned, [Next]_vars
    PROVE  Owned'
<1>1. TInv /\ OInv /\ IInv /\ Kinds /\ Named /\ JobsGood
  BY DEF Owned, TInv, IInv
<1>2. ASSUME NEW t \in Terminal, Step(t)
      PROVE  OInv'
  <2>1. CASE Switcher(t, "menu") \/ Switcher(t, "write")
    BY <1>1, <2>1, SwitcherKeepsOwned
  <2>2. CASE SetContextCommand(t)
    BY <1>1, <2>2, SetContextKeepsOwned
  <2>3. ASSUME NEW command \in {"last", "previous", "history"},
               SwitchFromHistory(t, command)
        PROVE  OInv'
    BY <1>1, <2>3, SwitchFromHistoryKeepsOwned DEF FromHistory
  <2>4. CASE SwitchNamespace(t)
    BY <1>1, <2>4, SwitchNamespaceKeepsOwned
  <2>5. CASE DeleteContext(t)
    BY <1>1, <2>5, DeleteContextKeepsOwned
  <2>6. CASE UnsetCurrentContext(t)
    BY <1>1, <2>6, UnsetCurrentContextKeepsOwned
  <2>7. CASE MergeToDefault(t)
    BY <1>1, <2>7, MergeToDefaultKeepsOwned
  <2>8. CASE Clean(t)
    BY <1>1, <2>8, CleanKeepsOwned
  <2>9. CASE LookupHistory(t) \/ AppendToHistory(t)
    BY <1>1, <2>9, HistoryKeepsOwned
  <2>10. CASE MergeDataToTarget(t)
    BY <1>1, <2>10, MergeDataToTargetKeepsOwned
  <2>11. CASE Truncate(t)
    BY <1>1, <2>11, TruncateKeepsOwned
  <2>12. CASE Emit(t)
    BY <1>1, <2>12, EmitKeepsOwned
  <2>13. CASE Report(t)
    BY <1>1, <2>13, ReportKeepsOwned
  <2>14. CASE Kill(t)
    BY <1>1, <2>14, KillKeepsOwned
  <2>15. QED
    BY <1>2, <2>1, <2>2, <2>3, <2>4, <2>5, <2>6, <2>7, <2>8, <2>9, <2>10,
       <2>11, <2>12, <2>13, <2>14 DEF Step
<1>3. ASSUME UNCHANGED vars
      PROVE  OInv'
  <2>1. UNCHANGED <<files, env, control, job, history, started, selected,
                    cleaned>>
    BY <1>3 DEF vars
  <2>2. QED
    BY <1>1, <2>1 DEF OInv, FilesOK, TerminalsOK, CopiesAreOwned, HistoryOK
<1>4. TInv'
  BY <1>1, NextKeepsTypes
<1>5. QED
  BY <1>2, <1>3, <1>4 DEF Next, Rest, Owned

-----------------------------------------------------------------------------
(* The theorems about what takes effect.                                   *)

\* Whatever terminals, stores and commands there are, as long as names are
\* unambiguous, no two terminals have or work on the same copy, and each copy
\* is what its terminal selected.
THEOREM CopiesStayOwned ==
    ASSUME NamesAreUnambiguous
    PROVE  Spec => []Owned
<1>1. Init => Owned
  BY InitIInv, InitKinds, InitOwned DEF TInv, Owned
<1>2. Owned /\ [Next]_vars => Owned'
  BY NextKeepsOwned
<1>3. QED
  BY <1>1, <1>2, PTL DEF Spec

\* "Each terminal window operates on its own copy of the kubeconfig file"
\* (docs/how_it_works.md:31), and `-w` writes what was selected: whatever the
\* other terminals do, short of `clean`, a selection takes effect where it was
\* asked for.
THEOREM SelectionsTakeEffect ==
    ASSUME NamesAreUnambiguous
    PROVE  Spec => []SelectionTakesEffect
<1>1. Owned => SelectionTakesEffect
  <2>1. SUFFICES ASSUME Owned PROVE SelectedIsEffective /\ WrittenIsEffective
    BY DEF SelectionTakesEffect
  <2>2. ASSUME NEW t \in Terminal
        PROVE  TerminalOK(files, cleaned, started, control[t], job[t],
                          env[t], selected[t])
    BY <2>1 DEF Owned, OInv, TerminalsOK
  <2>3. SelectedIsEffective
    <3>1. SUFFICES ASSUME NEW t \in Terminal, control[t] = "idle",
                          selected[t].target # NoTarget,
                          selected[t].context # Unset,
                          <<env[t][1]>> \notin cleaned
                   PROVE  /\ Readable(<<env[t][1]>>)
                          /\ Reaches(files[<<env[t][1]>>],
                                     files[<<env[t][1]>>].current) =
                                selected[t].target
      BY DEF SelectedIsEffective
    <3>2. SelectedOK(files, cleaned, control[t], job[t], env[t], selected[t])
      BY <2>2 DEF TerminalOK
    <3>3. QED
      BY <3>1, <3>2 DEF SelectedOK, Readable
  <2>4. WrittenIsEffective
    <3>1. ASSUME NEW t \in Terminal, control[t] = "report",
                 job[t].command = "write"
          PROVE  /\ job[t].data.current = job[t].selection.context
                 /\ Reaches(job[t].data, job[t].data.current) =
                       job[t].selection.target
      BY <2>2, <3>1 DEF TerminalOK, WriteOK
    <3>2. QED
      BY <3>1 DEF WrittenIsEffective
  <2>5. QED
    BY <2>3, <2>4
<1>2. QED
  BY <1>1, CopiesStayOwned, PTL

\* A command that takes an entry from the history (SetLastContext,
\* SetPreviousContext, SwitchToHistory) answers with a copy that leads where
\* the terminal of the entry was, in the recorded namespace.
THEOREM HistoryStaysRestored ==
    ASSUME NamesAreUnambiguous
    PROVE  Spec => []HistoryIsRestored
<1>1. Owned => HistoryIsRestored
  <2>1. SUFFICES ASSUME Owned, NEW t \in Terminal,
                        job[t].selection.context # Unset,
                        control[t] = "report",
                        job[t].command \in {"last", "previous", "history"},
                        job[t].path \in DOMAIN files
                 PROVE  LET kc == files[job[t].path]
                            wanted == job[t].selection
                        IN /\ Reaches(kc, kc.current) = wanted.target
                           /\ NamespaceOfContext(kc, kc.current) =
                                 wanted.namespace
    BY DEF HistoryIsRestored, EntryIsRestored
  <2> DEFINE j == job[t]
             c == control[t]
  <2>2. CopyOK(files, cleaned, c, j, env[t])
    BY <2>1 DEF Owned, OInv, TerminalsOK, TerminalOK
  <2>3. Copying(c, j)
    BY <2>1 DEF Copying, CopyCommands
  <2>4. files[j.path] = j.source /\ SourceOK(j.command, j.source, j.selection)
    BY <2>1, <2>2, <2>3 DEF CopyOK
  <2>5. QED
    BY <2>1, <2>4 DEF SourceOK, FromHistory
<1>2. QED
  BY <1>1, CopiesStayOwned, PTL
=============================================================================
