----------------------------- MODULE AliasState -----------------------------
(***************************************************************************)
(* The alias directory (pkg/subcommands/alias/state) and the commands that *)
(* use it: "alias <name>=<context>", the auto-alias of a search, "alias    *)
(* rm" and "alias ls".  An alias is a file: its name is the alias, its     *)
(* content the context.  A command first loads the whole directory, file   *)
(* by file, into a mapping from contexts to aliases; the first load after  *)
(* an upgrade migrates the single legacy file.  There is no lock: every    *)
(* system call is a step, commands interleave, and each can be killed      *)
(* between two steps.                                                      *)
(*                                                                         *)
(* writeAliasFile renames a complete temporary file, so a write is one     *)
(* step, and a command killed before it leaves only a dotfile that nothing *)
(* reads.                                                                  *)
(***************************************************************************)
EXTENDS Naturals, FiniteSetsExt

CONSTANTS
    Procs,      \* commands that can overlap
    Aliases,    \* alias names, in the order in which ReadDir lists them
    Contexts,
    Scenarios,  \* what may happen at the same time, see Scenario
    Kills,      \* TRUE: a command may be killed
    None        \* no context, no alias, no legacy file

\* runs[p] is what p may run; there may be a legacy file after an upgrade.
Scenario == [runs : [Procs -> SUBSET {"set", "rm", "list"}], upgrade : BOOLEAN]

\* A command line; "rm" ignores the context, "list" ignores both.
Request == [command : {"set", "rm", "list"}, alias : Aliases, context : Contexts]

ASSUME AliasAssumption ==
    /\ Aliases \subseteq Nat
    /\ Scenarios \subseteq Scenario
    /\ Kills \in BOOLEAN
    /\ None \notin Aliases \cup Contexts
    /\ None \notin Request

\* ContextToAliasMapping.
Mapping == [Contexts -> Aliases \cup {None}]
NoAlias == [n \in Contexts |-> None]
Named(mapping) == {mapping[n] : n \in Contexts} \ {None}

VARIABLES
    scenario,   \* what may happen
    aliasFile,  \* the content of an alias file, None if there is no such file
    aliasDir,   \* the alias directory exists
    legacy,     \* the mapping in the legacy file, None if there is none
    pc,         \* where a command is
    request,    \* its command line
    content,    \* ContextToAliasMapping in its memory
    migrating,  \* it is in migrateFromLegacy
    todo        \* what is left of the loop it is in: aliases or contexts

vars  == <<scenario, aliasFile, aliasDir, legacy, pc, request, content,
           migrating, todo>>
files == <<aliasFile, aliasDir, legacy>>

TypeOK ==
    /\ scenario \in Scenarios
    /\ aliasFile \in [Aliases -> Contexts \cup {None}]
    /\ aliasDir \in BOOLEAN
    /\ legacy \in Mapping \cup {None}
    /\ pc \in [Procs -> {"idle", "stat", "readDir", "readFiles", "statLegacy",
                         "readLegacy", "mkdir", "removeLegacy", "nil",
                         "loaded", "write", "sweep", "notFound", "failed", "done"}]
    /\ request \in [Procs -> Request \cup {None}]
    /\ content \in [Procs -> Mapping]
    /\ migrating \in [Procs -> BOOLEAN]
    /\ todo \in [Procs -> (SUBSET Aliases) \cup (SUBSET Contexts)]

\* A legacy file held one context for an alias.
LegacyMapping ==
    {m \in Mapping : \A n, k \in Contexts : m[n] = m[k] /\ m[n] # None => n = k}

\* Without a legacy file the directory holds whatever "alias" has put there;
\* before an upgrade there is no directory.
Init ==
    /\ scenario \in Scenarios
    /\ \/ /\ ~scenario.upgrade
          /\ aliasDir = TRUE
          /\ aliasFile \in [Aliases -> Contexts \cup {None}]
          /\ legacy = None
       \/ /\ scenario.upgrade
          /\ aliasDir = FALSE
          /\ aliasFile = [a \in Aliases |-> None]
          /\ legacy \in LegacyMapping \cup {None}
    /\ pc = [p \in Procs |-> "idle"]
    /\ request = [p \in Procs |-> None]
    /\ content = [p \in Procs |-> NoAlias]
    /\ migrating = [p \in Procs |-> FALSE]
    /\ todo = [p \in Procs |-> {}]

Goto(p, label) == pc' = [pc EXCEPT ![p] = label]

Start(p) ==
    /\ pc[p] = "idle"
    /\ Goto(p, "stat")
    /\ \E r \in Request : /\ r.command \in scenario.runs[p]
                           /\ request' = [request EXCEPT ![p] = r]
    /\ UNCHANGED <<scenario, files, content, migrating, todo>>

-----------------------------------------------------------------------------
(* GetDefaultAlias.                                                        *)

\* load: is there an alias directory?
Stat(p) ==
    /\ pc[p] = "stat"
    /\ Goto(p, IF aliasDir THEN "readDir" ELSE "statLegacy")
    /\ UNCHANGED <<scenario, files, request, content, migrating, todo>>

OnDisk == {a \in Aliases : aliasFile[a] # None}

\* Variant: dotfiles (0 stands for the name of a temporary file) are aliases.
ReadDirWithDotfiles(p) ==
    /\ pc[p] = "readDir"
    /\ todo' = [todo EXCEPT ![p] = OnDisk \cup {0}]
    /\ Goto(p, "readFiles")
    /\ UNCHANGED <<scenario, files, request, content, migrating>>

\* loadFromDir: the names are listed once, the files are read one by one.
ReadDir(p) ==
    /\ pc[p] = "readDir"
    /\ todo' = [todo EXCEPT ![p] = OnDisk]
    /\ Goto(p, "readFiles")
    /\ UNCHANGED <<scenario, files, request, content, migrating>>

\* Of two aliases of one context the mapping keeps the one read last.
ReadFile(p) ==
    /\ pc[p] = "readFiles"
    /\ todo[p] # {}
    /\ LET a == Min(todo[p])
       IN  /\ aliasFile[a] # None
           /\ content' = [content EXCEPT ![p][aliasFile[a]] = a]
           /\ todo' = [todo EXCEPT ![p] = @ \ {a}]
    /\ UNCHANGED <<scenario, files, pc, request, migrating>>

\* A file that was removed after it was listed fails the load.
ReadFileFails(p) ==
    /\ pc[p] = "readFiles"
    /\ todo[p] # {}
    /\ aliasFile[Min(todo[p])] = None
    /\ Goto(p, "failed")
    /\ UNCHANGED <<scenario, files, request, content, migrating, todo>>

EndLoad(p) ==
    /\ pc[p] = "readFiles"
    /\ todo[p] = {}
    /\ Goto(p, "loaded")
    /\ UNCHANGED <<scenario, files, request, content, migrating, todo>>

\* migrateFromLegacy: without a legacy file the mapping stays nil.
StatLegacy(p) ==
    /\ pc[p] = "statLegacy"
    /\ Goto(p, IF legacy = None THEN "nil" ELSE "readLegacy")
    /\ UNCHANGED <<scenario, files, request, content, migrating, todo>>

\* Another command may have removed the legacy file by now.
ReadLegacy(p) ==
    /\ pc[p] = "readLegacy"
    /\ IF legacy = None
       THEN Goto(p, "failed") /\ UNCHANGED content
       ELSE Goto(p, "mkdir") /\ content' = [content EXCEPT ![p] = legacy]
    /\ UNCHANGED <<scenario, files, request, migrating, todo>>

\* Enter WriteAllAliases with a mapping: its contexts are to be written.
WriteAll(p, mapping) ==
    /\ Goto(p, "write")
    /\ content' = [content EXCEPT ![p] = mapping]
    /\ todo' = [todo EXCEPT ![p] = {n \in Contexts : mapping[n] # None}]

\* Variant: the legacy file is removed as soon as it has been read.
MkdirAllRemovingLegacy(p) ==
    /\ pc[p] = "mkdir"
    /\ aliasDir' = TRUE
    /\ legacy' = None
    /\ migrating' = [migrating EXCEPT ![p] = TRUE]
    /\ WriteAll(p, content[p])
    /\ UNCHANGED <<scenario, aliasFile, request>>

MkdirAll(p) ==
    /\ pc[p] = "mkdir"
    /\ aliasDir' = TRUE
    /\ migrating' = [migrating EXCEPT ![p] = TRUE]
    /\ WriteAll(p, content[p])
    /\ UNCHANGED <<scenario, aliasFile, legacy, request>>

RemoveLegacy(p) ==
    /\ pc[p] = "removeLegacy"
    /\ legacy' = None
    /\ migrating' = [migrating EXCEPT ![p] = FALSE]
    /\ Goto(p, "loaded")
    /\ UNCHANGED <<scenario, aliasFile, aliasDir, request, content, todo>>

-----------------------------------------------------------------------------
(* WriteAllAliases: rewrite the file of every context in the mapping, then *)
(* list the directory and remove the files of all other aliases.           *)

WriteOne(p) ==
    /\ pc[p] = "write"
    /\ \E n \in todo[p] :
          /\ aliasFile' = [aliasFile EXCEPT ![content[p][n]] = n]
          /\ todo' = [todo EXCEPT ![p] = @ \ {n}]
    /\ UNCHANGED <<scenario, aliasDir, legacy, pc, request, content,
                   migrating>>

\* Variant: the files of the mapping are swept too.
ListEverything(p) ==
    /\ pc[p] = "write"
    /\ todo[p] = {}
    /\ todo' = [todo EXCEPT ![p] = OnDisk]
    /\ Goto(p, "sweep")
    /\ UNCHANGED <<scenario, files, request, content, migrating>>

\* Variant: the mapping is written, no file is removed.
ListNothing(p) ==
    /\ pc[p] = "write"
    /\ todo[p] = {}
    /\ Goto(p, "sweep")
    /\ UNCHANGED <<scenario, files, request, content, migrating, todo>>

\* What is listed now and is not in the mapping will be removed.
ListStale(p) ==
    /\ pc[p] = "write"
    /\ todo[p] = {}
    /\ todo' = [todo EXCEPT ![p] = OnDisk \ Named(content[p])]
    /\ Goto(p, "sweep")
    /\ UNCHANGED <<scenario, files, request, content, migrating>>

\* The files are removed in the order of the listing; os.Remove may find that
\* a file is gone already.
Sweep(p) ==
    /\ pc[p] = "sweep"
    /\ todo[p] # {}
    /\ aliasFile' = [aliasFile EXCEPT ![Min(todo[p])] = None]
    /\ todo' = [todo EXCEPT ![p] = @ \ {Min(todo[p])}]
    /\ UNCHANGED <<scenario, aliasDir, legacy, pc, request, content,
                   migrating>>

EndSweep(p) ==
    /\ pc[p] = "sweep"
    /\ todo[p] = {}
    /\ Goto(p, IF migrating[p] THEN "removeLegacy" ELSE "done")
    /\ UNCHANGED <<scenario, files, request, content, migrating, todo>>

-----------------------------------------------------------------------------
(* The commands, once the mapping is loaded.                               *)

\* With a nil mapping "rm" and "ls" say that there are no aliases and return.
Runs(p, name) ==
    /\ pc[p] = "loaded" \/ (pc[p] = "nil" /\ name = "set")
    /\ request[p].command = name

\* Variant: the alias is added to the mapping and the mapping is saved.
SetAliasBySaving(p) ==
    /\ Runs(p, "set")
    /\ aliasDir' = TRUE
    /\ WriteAll(p, [content[p] EXCEPT ![request[p].context] = request[p].alias])
    /\ UNCHANGED <<scenario, aliasFile, legacy, request, migrating>>

\* Alias, or the auto-alias of a search, has found the context: WriteAlias
\* renames one file into place, whatever is in memory.
SetAlias(p) ==
    /\ Runs(p, "set")
    /\ aliasDir' = TRUE
    /\ aliasFile' = [aliasFile EXCEPT ![request[p].alias] = request[p].context]
    /\ Goto(p, "done")
    /\ UNCHANGED <<scenario, legacy, request, content, migrating, todo>>

\* RemoveAlias of an alias that is in the mapping.
RemoveAlias(p) ==
    /\ Runs(p, "rm")
    /\ request[p].alias \in Named(content[p])
    /\ WriteAll(p, [n \in Contexts |->
                       IF content[p][n] = request[p].alias THEN None
                       ELSE content[p][n]])
    /\ UNCHANGED <<scenario, files, request, migrating>>

\* "alias with name %q does not exist"
RemoveNothing(p) ==
    /\ Runs(p, "rm")
    /\ request[p].alias \notin Named(content[p])
    /\ Goto(p, "notFound")
    /\ UNCHANGED <<scenario, files, request, content, migrating, todo>>

\* A command returns ("alias" also when its search finds no such context), or
\* it is killed, which also stands for an error of one of its system calls;
\* another one can follow.
Ended(p) ==
    \/ pc[p] \in {"nil", "notFound", "failed", "done"}
    \/ pc[p] = "loaded" /\ request[p].command # "rm"

Exit(p) ==
    /\ pc[p] # "idle"
    /\ Ended(p) \/ Kills
    /\ Goto(p, "idle")
    /\ request' = [request EXCEPT ![p] = None]
    /\ content' = [content EXCEPT ![p] = NoAlias]
    /\ migrating' = [migrating EXCEPT ![p] = FALSE]
    /\ todo' = [todo EXCEPT ![p] = {}]
    /\ UNCHANGED <<scenario, files>>

Step(p) ==
    Start(p) \/ Stat(p) \/ ReadDir(p) \/ ReadFile(p) \/ ReadFileFails(p)
    \/ EndLoad(p) \/ StatLegacy(p) \/ ReadLegacy(p) \/ MkdirAll(p)
    \/ RemoveLegacy(p) \/ WriteOne(p) \/ ListStale(p) \/ Sweep(p)
    \/ EndSweep(p) \/ SetAlias(p) \/ RemoveAlias(p) \/ RemoveNothing(p)
    \/ Exit(p)

Next == \E p \in Procs : Step(p)

Spec == Init /\ [][Next]_vars

-----------------------------------------------------------------------------
(* Properties.                                                             *)

\* What the properties are about: commands that set and list aliases, any
\* number of them; one that writes, and may remove, among others that list;
\* and after an upgrade only commands that list.
IsCalm(s) ==
    \/ ~s.upgrade /\ \A p \in Procs : "rm" \notin s.runs[p]
    \/ ~s.upgrade /\ \E w \in Procs : \A p \in Procs \ {w} :
                        s.runs[p] \subseteq {"list"}
    \/ s.upgrade /\ \A p \in Procs : s.runs[p] \subseteq {"list"}

Names(p, a) ==
    /\ request[p] # None
    /\ request[p].command \in {"set", "rm"}
    /\ request[p].alias = a

\* An alias changes or disappears only through a command that names it:
\* nothing that happens to the other aliases, to the directory or to the
\* legacy file, and no kill, may touch it.  (Creating a missing file from the
\* legacy mapping is no change.)
OnlyNamedAliasChanges ==
    [][\A a \in Aliases : aliasFile[a] \notin {None, aliasFile'[a]} =>
          \E p \in Procs : Names(p, a)]_vars

\* As above, but for what a removal may take along: the other aliases of a
\* context that has several.  An alias whose context has no other alias stays,
\* whatever is listed, set, migrated or killed half way through rewriting the
\* directory at the same time.
OthersAreSpared ==
    [][\A a \in Aliases : aliasFile[a] \notin {None, aliasFile'[a]} =>
          \/ \E p \in Procs : Names(p, a)
          \/ /\ \E p \in Procs : request[p] # None /\ request[p].command = "rm"
             /\ \E b \in Aliases \ {a} : aliasFile[b] = aliasFile[a]]_vars

\* Commands that only set and list aliases never make each other fail.
LoadsSucceed ==
    /\ ~scenario.upgrade
    /\ \A p \in Procs : "rm" \notin scenario.runs[p]
    => \A p \in Procs : pc[p] # "failed"

\* A removal that returned has removed the alias.
RemovalIsEffective ==
    \A p \in Procs :
        pc[p] = "done" /\ request[p].command = "rm" =>
            aliasFile[request[p].alias] = None

\* While the legacy file is migrated every alias in it stays on disk, in the
\* file or in the directory, whatever is killed and however often the
\* migration starts again.
LegacyRemovedLast ==
    [][legacy' # legacy =>
          \A n \in Contexts : legacy[n] # None =>
              aliasFile[legacy[n]] # None]_vars

\* The two together: what no command names is not lost, in the directory or
\* on its way there.
NothingElseIsLost ==
    [][/\ \A a \in Aliases : aliasFile[a] \notin {None, aliasFile'[a]} =>
             \/ \E p \in Procs : Names(p, a)
             \/ /\ \E p \in Procs : /\ request[p] # None
                                   /\ request[p].command = "rm"
                /\ \E b \in Aliases \ {a} : aliasFile[b] = aliasFile[a]
       /\ legacy' # legacy =>
             \A n \in Contexts : legacy[n] # None =>
                 aliasFile[legacy[n]] # None]_vars

\* "Automatically migrates from the legacy single YAML file on first use": a
\* load never yields fewer aliases than a legacy file that is still there.
LoadSeesLegacy ==
    \A p \in Procs : pc[p] = "loaded" /\ legacy # None =>
        Named(legacy) \subseteq Named(content[p])

\* "alias with name %q does not exist": said only of an alias without a file.
NotFoundIsTrue ==
    \A p \in Procs : pc[p] = "notFound" => aliasFile[request[p].alias] = None
=============================================================================
