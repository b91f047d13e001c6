----------------------------- MODULE Terminals ------------------------------
(***************************************************************************)
(* Terminals that share a home directory: each has a KUBECONFIG variable,  *)
(* runs one kswitch command at a time, and lets the shell function that    *)
(* `kswitch init` prints act on the answer.  Shared are the kubeconfig     *)
(* files, the directory of temporary copies and the history.               *)
(*                                                                         *)
(* A command is a process: what it reads at one step may be old at the     *)
(* next, and it may be killed between two steps.  A file that is           *)
(* rewritten in place is empty or torn until the last write.  A command    *)
(* that fails before it has changed anything is not a step.                *)
(***************************************************************************)
EXTENDS Kubeconfig, Naturals, SequencesExt

CONSTANTS
    Terminal,      \* the terminals
    Stores,        \* function from a path in a store to the kubeconfig there
    Alias,         \* the alias of each name, Unset if it has none
    DefaultFile,   \* contents of ~/.kube/config, Missing if there is none
    CustomFile,    \* contents of another file that KUBECONFIG may name
    Namespaces,    \* namespaces that users change to
    Environments,  \* values of KUBECONFIG that a terminal starts with
    Commands,      \* the commands that are used
    MaxCommands,   \* how many are run
    Missing,       \* no file
    Torn           \* contents of a file that is being rewritten

(* A path is what a string in KUBECONFIG stands for: a sequence of files    *)
(* (joined with ":" by the shell).  Only a sequence of one names a file     *)
(* that exists from the start; a longer one, taken for a path, names        *)
(* another file.                                                            *)
Default == 1
Custom == 2
IsTemporary(file) == file > Custom
TemporaryFile(n) == Custom + n
File == 1..(Custom + MaxCommands)

Unnamed == <<>>
CommandNames == {"menu", "write", "set", "last", "previous", "history", "ns",
                 "merge", "delete", "unset", "clean"}

ASSUME TerminalsAssumption ==
    /\ \A p \in DOMAIN Stores :
          Stores[p] \in KubeconfigType /\ Sound(Stores[p])
    /\ \A f \in {DefaultFile, CustomFile} \ {Missing} :
          f \in KubeconfigType /\ Sound(f)
    /\ Missing \notin KubeconfigType /\ Torn \notin KubeconfigType
    /\ Alias \in [Name -> Name]
    /\ Namespaces \subseteq Name \ {Unset}
    /\ Environments \subseteq {Unnamed, <<Default>>, <<Custom>>}
    /\ Commands \subseteq CommandNames
    /\ MaxCommands \in Nat

VARIABLES
    files,     \* function from the paths that exist to their contents
    directory, \* the directory of the temporary copies exists
    env,       \* KUBECONFIG of each terminal, Unnamed if it is not set
    control,   \* next step of the command that a terminal runs, or "idle"
    job,       \* what that command holds in memory
    history,   \* the history file, oldest entry first
    started,   \* how many commands have been started
    selected,  \* history variable: what each terminal works with, see Report
    cleaned    \* history variable: temporary copies that `clean` removed

vars == <<files, directory, env, control, job, history, started, selected,
          cleaned>>

\* The entry's target is a history variable: where its context led to then.
Entry(context, ns, target) ==
    [namespace |-> ns, context |-> context, target |-> target]

NoTarget == {}
NoEntry == Entry(Unset, Unset, NoTarget)
NoJob == [command |-> "none", path |-> Unnamed, source |-> EmptyKubeconfig,
          data |-> EmptyKubeconfig, entry |-> NoEntry, append |-> FALSE,
          selection |-> NoEntry]

InitialFile(path) == IF path = <<Default>> THEN DefaultFile ELSE CustomFile

Init ==
    /\ files = [p \in {q \in {<<Default>>, <<Custom>>} :
                                InitialFile(q) # Missing} |-> InitialFile(p)]
    /\ directory = FALSE
    /\ env \in [Terminal -> Environments]
    /\ control = [t \in Terminal |-> "idle"]
    /\ job = [t \in Terminal |-> NoJob]
    /\ history = <<>>
    /\ started = 0
    /\ selected = [t \in Terminal |-> NoEntry]
    /\ cleaned = {}

-----------------------------------------------------------------------------
(* Where a command reads and writes.                                       *)

Readable(path) == path \in DOMAIN files /\ files[path] # Torn

\* The files when one of them is created or gets other contents, and when some
\* are removed.
Put(path, contents) ==
    [p \in DOMAIN files \cup {path} |->
        IF p = path THEN contents ELSE files[p]]
Without(paths) == [p \in DOMAIN files \ paths |-> files[p]]

\* kubeconfigPath: several files in KUBECONFIG are an error.
CurrentPath(t) == IF env[t] = Unnamed THEN <<Default>> ELSE env[t]
SupportedPath(t) == Len(CurrentPath(t)) = 1

\* ResolveWriteTarget: a string that begins like a temporary copy counts as
\* one; anything else is taken as it is.
WriteTarget(t) ==
    IF env[t] = Unnamed \/ IsTemporary(env[t][1]) THEN <<Default>> ELSE env[t]

\* Starts a command: from here to the end it is t's running command.
Start(t, command, next, memory) ==
    /\ command \in Commands
    /\ control[t] = "idle"
    /\ started < MaxCommands
    /\ started' = started + 1
    /\ control' = [control EXCEPT ![t] = next]
    /\ job' = [job EXCEPT ![t] = [memory EXCEPT !.command = command]]

Goto(t, next) == control' = [control EXCEPT ![t] = next]

\* The command ends without an answer for the shell function.
End(t) == Goto(t, "idle") /\ job' = [job EXCEPT ![t] = NoJob]

-----------------------------------------------------------------------------
(* Commands that make a temporary copy of a kubeconfig from a store.       *)

\* Contexts are offered under their alias, if they have one.
Shown(context) == IF Alias[context] = Unset THEN context ELSE Alias[context]

\* A command makes the copy kc of a kubeconfig, under a name that nobody has
\* used (os.CreateTemp); the history may get an entry with this context.
MakeCopy(t, command, next, kc, context, append, selection) ==
    LET copy == <<TemporaryFile(started + 1)>>
        entry == Entry(context, NamespaceOfContext(kc, kc.current),
                       Reaches(kc, kc.current))
    IN /\ Start(t, command, next,
                [NoJob EXCEPT !.path = copy, !.source = kc, !.entry = entry,
                              !.append = append, !.selection = selection])
       /\ directory' = TRUE
       /\ files' = Put(copy, kc)
       /\ UNCHANGED <<env, history, selected, cleaned>>

\* Where the selected context leads in the store.
Selection(name, p, context) == Entry(name, Unset, Reaches(Stores[p], context))

\* Switcher: the user picks a context in the menu.  It is looked up by its
\* alias, and the copy's context is renamed to that alias.
SwitcherCopy(p, context) ==
    SetKswitchContext(
        SetContext(Stores[p], Shown(context),
                   IF Alias[context] = Unset THEN Unset ELSE context),
        Shown(context))

Switcher(t, command) ==
    \E p \in DOMAIN Stores : \E context \in Names(Stores[p].contexts) :
       MakeCopy(t, command, "lookup", SwitcherCopy(p, context),
                Shown(context), TRUE, Selection(Shown(context), p, context))

\* What SetContext of package set-context accepts for a wanted name.
Matches(wanted, context) == wanted \in {context, Alias[context]}

\* The copy that it makes: alias or not, the context keeps its name.
SetContextCopy(p, context, wanted) ==
    SetKswitchContext(
        SetContext(Stores[p], context,
                   IF Alias[context] = Unset THEN Unset ELSE context),
        wanted)

\* set-context: the first context that the search delivers and that matches.
SetContextCommand(t) ==
    \E p \in DOMAIN Stores : \E context \in Names(Stores[p].contexts) :
    \E wanted \in {context, Shown(context)} :
       /\ Matches(wanted, context)
       /\ MakeCopy(t, "set", "lookup", SetContextCopy(p, context, wanted),
                   wanted, TRUE, Selection(context, p, context))

\* Entries that a command takes from the history, newest first.
Recorded(command) ==
    LET n == Len(history)
    IN IF n = 0 THEN {}
       ELSE CASE command = "last" -> {n}
              [] command = "previous" -> {IF n = 1 THEN 1 ELSE n - 1}
              [] command = "history" -> 1..n

\* Variant: the copy keeps the namespace it has in the store.
RestoredUnchanged(copy, entry) == copy

\* The copy is written a second time, with the recorded namespace.
Restored(copy, entry) == SetNamespace(copy, copy.current, entry.namespace)

\* SetLastContext, SetPreviousContext, SwitchToHistory: the copy is made as
\* by set-context; only `history` appends the entry again.
SwitchFromHistory(t, command) ==
    \E i \in Recorded(command) :
    \E p \in DOMAIN Stores : \E context \in Names(Stores[p].contexts) :
       LET entry == history[i]
           copy == SetContextCopy(p, context, entry.context)
       IN /\ Matches(entry.context, context)
          /\ MakeCopy(t, command,
                      IF command = "history" THEN "lookup" ELSE "report",
                      Restored(copy, entry), entry.context,
                      command = "history", entry)

-----------------------------------------------------------------------------
(* Commands that rewrite a kubeconfig in place.                            *)

\* `ns`: a namespace is set on the current context, and recorded under the
\* kswitch-context, which only the temporary copies have.  The interactive
\* form records nothing without one.
SwitchNamespace(t) ==
    LET path == CurrentPath(t)
    IN /\ SupportedPath(t)
       /\ Readable(path)
       /\ files[path].current \in Names(files[path].contexts)
       /\ \E ns \in Namespaces : \E interactive \in BOOLEAN :
             LET kc == SetNamespace(files[path], files[path].current, ns)
             IN Start(t, "ns", "truncate",
                   [NoJob EXCEPT
                      !.path = path,
                      !.data = kc,
                      !.entry = Entry(kc.kswitch, ns, Reaches(kc, kc.current)),
                      !.append = ~interactive \/ kc.kswitch # Unset])
       /\ UNCHANGED <<files, directory, env, history, selected, cleaned>>

\* delete-context and unset-context take KUBECONFIG for a path.
EditInPlace(t, command, kc) ==
    /\ Start(t, command, "truncate",
             [NoJob EXCEPT !.path = env[t], !.data = kc])
    /\ selected' = [selected EXCEPT ![t] = NoEntry]
    /\ UNCHANGED <<files, directory, env, history, cleaned>>

DeleteContext(t) ==
    /\ Readable(env[t])
    /\ \E name \in Name \ {Unset} :
          EditInPlace(t, "delete", RemoveContext(files[env[t]], name))

UnsetCurrentContext(t) ==
    /\ Readable(env[t])
    /\ EditInPlace(t, "unset", ModifyCurrentContext(files[env[t]], Unset))

\* merge-to-default-kubeconfig reads the kubeconfig of the terminal.
MergeToDefault(t) ==
    /\ SupportedPath(t)
    /\ Readable(CurrentPath(t))
    /\ Start(t, "merge", "merge",
             [NoJob EXCEPT !.source = files[CurrentPath(t)]])
    /\ UNCHANGED <<files, directory, env, history, selected, cleaned>>

\* `clean` removes the temporary copies of every terminal.
Clean(t) ==
    LET copies == {p \in DOMAIN files : Len(p) = 1 /\ IsTemporary(p[1])}
    IN /\ "clean" \in Commands
       /\ control[t] = "idle"
       /\ started < MaxCommands
       /\ started' = started + 1
       /\ files' = Without(copies)
       /\ directory' = FALSE
       /\ cleaned' = cleaned \cup copies
       /\ UNCHANGED <<env, control, job, history, selected>>

-----------------------------------------------------------------------------
(* The steps that commands share.                                          *)

\* What follows the history: the answer, or the merge of `-w`.
AfterHistory(t) ==
    CASE job[t].command = "ns" -> End(t)
      [] job[t].command = "write" -> Goto(t, "merge") /\ UNCHANGED job
      [] OTHER -> Goto(t, "report") /\ UNCHANGED job

\* AppendToHistory reads the last line of the file ...
LookupHistory(t) ==
    /\ control[t] = "lookup"
    /\ IF /\ history # <<>>
          /\ Last(history).context = job[t].entry.context
          /\ Last(history).namespace = job[t].entry.namespace
       THEN AfterHistory(t)
       ELSE Goto(t, "append") /\ UNCHANGED job
    /\ UNCHANGED <<files, directory, env, history, started, selected, cleaned>>

\* Variant: the entry is kept for good, and so is the job.
AppendAndStay(t) ==
    /\ control[t] = "append"
    /\ history' = Append(history, job[t].entry)
    /\ Goto(t, "appended")
    /\ UNCHANGED <<files, directory, env, job, started, selected, cleaned>>

\* ... and appends the entry if the line was another one.
AppendToHistory(t) ==
    /\ control[t] = "append"
    /\ history' = Append(history, job[t].entry)
    /\ AfterHistory(t)
    /\ UNCHANGED <<files, directory, env, started, selected, cleaned>>

\* MergeDataToTarget up to the merged document: the target is created if it
\* does not exist.  The copy that `-w` merges must still be there.
MergeDataToTarget(t) ==
    LET target == WriteTarget(t)
        exists == target \in DOMAIN files
        dst == IF exists THEN files[target] ELSE EmptyKubeconfig
    IN /\ control[t] = "merge"
       /\ IF \/ dst = Torn
             \/ job[t].command = "write" /\ job[t].path \notin DOMAIN files
          THEN End(t) /\ UNCHANGED files
          ELSE /\ files' = IF exists THEN files ELSE Put(target, dst)
               /\ job' = [job EXCEPT ![t].path = target,
                                     ![t].data = Merge(dst, job[t].source)]
               /\ Goto(t, "truncate")
       /\ UNCHANGED <<directory, env, history, started, selected, cleaned>>

\* The file is opened for writing, and truncated; it is created if it is gone
\* but its directory is not.
Truncate(t) ==
    LET path == job[t].path
    IN /\ control[t] = "truncate"
       /\ IF IsTemporary(path[1]) /\ ~directory
          THEN End(t) /\ UNCHANGED files
          ELSE /\ files' = Put(path, Torn)
               /\ Goto(t, "emit")
               /\ UNCHANGED job
       /\ UNCHANGED <<directory, env, history, started, selected, cleaned>>

\* The last write; what goes to a file that was removed meanwhile is lost.
Emit(t) ==
    LET path == job[t].path
    IN /\ control[t] = "emit"
       /\ files' = IF path \in DOMAIN files
                   THEN Put(path, job[t].data) ELSE files
       /\ CASE job[t].command = "ns" /\ job[t].append ->
                  Goto(t, "lookup") /\ UNCHANGED job
            [] job[t].command = "write" -> Goto(t, "report") /\ UNCHANGED job
            [] OTHER -> End(t)
       /\ UNCHANGED <<directory, env, history, started, selected, cleaned>>

\* The loop of the shell function: to the answer it appends the files of the
\* old value that are no temporary copies.
NewPath(answer, old) ==
    LET new[i \in 0..Len(old)] ==
          IF i = 0 THEN answer
          ELSE IF IsTemporary(old[i]) THEN new[i - 1]
                                     ELSE Append(new[i - 1], old[i])
    IN new[Len(old)]

\* The shell function: the file that KUBECONFIG names is removed if it looks
\* like a temporary copy, and the new value is the answer with what remains of
\* the old one.
Report(t) ==
    LET old == env[t]
    IN /\ control[t] = "report"
       /\ files' = IF \E i \in DOMAIN old : IsTemporary(old[i])
                   THEN Without({old}) ELSE files
       /\ env' = [env EXCEPT ![t] = NewPath(job[t].path, old)]
       /\ selected' = [selected EXCEPT ![t] =
             IF job[t].command = "write" THEN NoEntry ELSE job[t].selection]
       /\ End(t)
       /\ UNCHANGED <<directory, history, started, cleaned>>

\* The command is killed: nothing is answered, and the shell function leaves
\* the terminal as it is.
Kill(t) ==
    /\ control[t] # "idle"
    /\ End(t)
    /\ selected' = IF control[t] = "emit"
                   THEN [selected EXCEPT ![t] = NoEntry] ELSE selected
    /\ UNCHANGED <<files, directory, env, history, started, cleaned>>

Step(t) ==
    \/ Switcher(t, "menu") \/ Switcher(t, "write") \/ SetContextCommand(t)
    \/ \E command \in {"last", "previous", "history"} :
          SwitchFromHistory(t, command)
    \/ SwitchNamespace(t) \/ DeleteContext(t) \/ UnsetCurrentContext(t)
    \/ MergeToDefault(t) \/ Clean(t)
    \/ LookupHistory(t) \/ AppendToHistory(t) \/ MergeDataToTarget(t)
    \/ Truncate(t) \/ Emit(t) \/ Report(t) \/ Kill(t)

\* Every command has ended, and no further one is looked at.
Rest ==
    /\ started = MaxCommands
    /\ \A t \in Terminal : control[t] = "idle"
    /\ UNCHANGED vars

Next == (\E t \in Terminal : Step(t)) \/ Rest

Spec == Init /\ [][Next]_vars

-----------------------------------------------------------------------------
(* Properties.                                                             *)

EntryType ==
    [context : Name, namespace : Name, target : SUBSET (Server \X Secret)]

TypeOK ==
    /\ DOMAIN files \subseteq Seq(File)
    /\ \A p \in DOMAIN files : files[p] = Torn \/ files[p] \in KubeconfigType
    /\ directory \in BOOLEAN
    /\ env \in [Terminal -> Seq(File)]
    /\ control \in [Terminal -> {"idle", "lookup", "append", "merge",
                                 "truncate", "emit", "report"}]
    /\ job \in [Terminal ->
          [command : CommandNames \cup {"none"}, path : Seq(File),
           source : KubeconfigType, data : KubeconfigType, entry : EntryType,
           append : BOOLEAN, selection : EntryType]]
    /\ history \in Seq(EntryType)
    /\ started \in 0..MaxCommands
    /\ selected \in [Terminal -> EntryType]
    /\ cleaned \subseteq Seq(File)

\* "Each terminal window operates on its own copy of the kubeconfig file"
\* (docs/how_it_works.md:31): whatever the other terminals do, short of
\* `clean`, and whatever else this one does, a terminal that has switched
\* reaches, through the first file of its KUBECONFIG, the cluster and the user
\* that the store has for the context it selected.  (An entry of the history
\* without a context selects anything: see LastContextIsRecorded.)
SelectedIsEffective ==
    \A t \in Terminal :
       control[t] = "idle" /\ selected[t].target # NoTarget
         /\ selected[t].context # Unset =>
          LET copy == <<env[t][1]>>
          IN copy \notin cleaned =>
               /\ Readable(copy)
               /\ Reaches(files[copy], files[copy].current) =
                     selected[t].target

\* After `-w` the target file, unless somebody has written it since, sets the
\* selected context as current and reaches what the store has for it, also
\* when it had contexts, clusters or users of the same names
\* (docs/write_to_kubeconfig.md:23).
WrittenIsEffective ==
    \A t \in Terminal :
       LET path == job[t].path
       IN control[t] = "report" /\ job[t].command = "write"
            /\ path \in DOMAIN files /\ files[path] = job[t].data =>
            /\ files[path].current = job[t].selection.context
            /\ Reaches(files[path], files[path].current) =
                  job[t].selection.target

\* What makes a name mean one context, which the two properties around need:
\* in a kubeconfig of a store, names are unique, are not empty, and are not the
\* alias of another context; a name or an alias that matches contexts of
\* several kubeconfigs leads to the same place in all of them; and only the
\* temporary copies have a kswitch-context.
NamesAreUnambiguous ==
    /\ \A p \in DOMAIN Stores :
          /\ \A c, d \in Stores[p].contexts : c.name = d.name => c = d
          /\ \A context \in Names(Stores[p].contexts) :
                /\ context # Unset
                /\ Alias[context] \in Names(Stores[p].contexts) =>
                      Alias[context] = context
    /\ \A p, q \in DOMAIN Stores :
       \A c \in Names(Stores[p].contexts), d \in Names(Stores[q].contexts) :
       \A name \in Name \ {Unset} :
          Matches(name, c) /\ Matches(name, d) =>
             Reaches(Stores[p], c) = Reaches(Stores[q], d)
    /\ \A f \in {DefaultFile, CustomFile} \ {Missing} : f.kswitch = Unset

\* A selection takes effect where it was asked for: in the terminal, or in the
\* file that `-w` writes.
SelectionTakesEffect == SelectedIsEffective /\ WrittenIsEffective

\* No kubeconfig that kswitch leaves behind, by whatever sequence of switches,
\* merges, deletions and namespace changes, has a context whose cluster or user
\* is not in the file: removeOrphanedClusters and removeOrphanedUsers remove
\* nothing that is still in use.
FilesAreSound ==
    \A p \in DOMAIN files : files[p] # Torn => Sound(files[p])

\* A command that takes an entry from the history answers with a copy that
\* leads where the entry's terminal was, in the recorded namespace.
EntryIsRestored(t) ==
    LET path == job[t].path
        wanted == job[t].selection
    IN control[t] = "report"
         /\ job[t].command \in {"last", "previous", "history"}
         /\ path \in DOMAIN files =>
         /\ Reaches(files[path], files[path].current) = wanted.target
         /\ NamespaceOfContext(files[path], files[path].current) =
               wanted.namespace

\* So it is for every entry that has a context.
HistoryIsRestored ==
    \A t \in Terminal : job[t].selection.context # Unset => EntryIsRestored(t)

\* "Switch to the last used context from the history"
\* (cmd/kswitch/context.go:58): so it should be for every entry.
LastContextIsRecorded == \A t \in Terminal : EntryIsRestored(t)

\* "cleanup old temporary kubeconfig file" (cmd/kswitch/init.go:93): a terminal
\* that gets a new KUBECONFIG leaves no temporary copy of the old one behind.
OldCopyIsRemoved ==
    [][\A t \in Terminal : env'[t] # env[t] =>
          \A i \in DOMAIN env[t] :
             IsTemporary(env[t][i]) => <<env[t][i]>> \notin DOMAIN files']_vars

\* "$KUBECONFIG points to a real file ...: that file"
\* (docs/write_to_kubeconfig.md:59): what is written is one file.
WriteTargetIsOneFile ==
    \A t \in Terminal : control[t] \in {"truncate", "emit"} =>
       Len(job[t].path) = 1

\* "Entries not present in the selected kubeconfig are left untouched"
\* (docs/write_to_kubeconfig.md:68): a merge is written over what it was
\* computed from.
MergeLosesNothing ==
    \A t \in Terminal :
       LET path == job[t].path
       IN control[t] = "truncate" /\ job[t].command \in {"merge", "write"}
            /\ Readable(path) =>
            Names(files[path].contexts) \subseteq Names(job[t].data.contexts)

\* "do not entry history entry if previous entry is identical"
\* (history/util/util.go:68).
NoRepeatedEntry ==
    \A i \in 1..(Len(history) - 1) :
       \/ history[i].context # history[i + 1].context
       \/ history[i].namespace # history[i + 1].namespace
=============================================================================
