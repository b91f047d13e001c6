------------------------------ MODULE ConfigFile ------------------------------
(***************************************************************************)
(* The configuration file and its migration (pkg/config).  A file in the   *)
(* old format is replaced when a command loads it: a copy is written       *)
(* beside it, then the file is truncated and written in the new format.    *)
(* Commands of several terminals load the file without a lock, and each    *)
(* may be killed or fail to write on the way.                              *)
(***************************************************************************)
CONSTANT Process

VARIABLES
  file, backup, \* what switch-config.yaml and switch-config.yaml.old hold
  loader        \* what each process is doing with them

fileVars == <<file, backup, loader>>

(***************************************************************************)
(* A file is absent, empty, unreadable, or text: with or without a version *)
(* and with some of the settings.  The old format has paths where the new  *)
(* one has stores, both have hooks, and only the new one has a preview     *)
(* (which stands for showPreview, writeToKubeconfig and execShell).  A     *)
(* mistyped text is YAML with a value of the wrong type in a field of the  *)
(* new format only: it cannot be read as a Config, but as a ConfigOld.     *)
(***************************************************************************)
Setting == {"paths", "stores", "hooks", "preview"}
Text ==
  [form : {"text", "mistyped"}, version : BOOLEAN, has : SUBSET Setting]
Bare(form) == [form |-> form, version |-> FALSE, has |-> {}]
Content == Text \cup {Bare(form) : form \in {"absent", "empty", "garbage"}}

\* An error of the first Unmarshal, or no version and no stores.
IsOld(c) ==
  \/ c.form = "mistyped"
  \/ c.form = "text" /\ ~c.version /\ "stores" \notin c.has

\* What is left of a configuration that is read as a ConfigOld.
AsOld(c) ==
  [form |-> "text", version |-> FALSE, has |-> c.has \cap {"paths", "hooks"}]

\* ConvertConfiguration: the paths become stores.
Convert(old) ==
  [form |-> "text", version |-> TRUE,
   has |-> (old.has \cap {"hooks"})
             \cup (IF "paths" \in old.has THEN {"stores"} ELSE {})]

\* What a Write that fails leaves: nothing, or the first lines, of which the
\* last may be cut within a value.
Prefixes(c) ==
  {Bare("empty"), Bare("garbage"), [c EXCEPT !.version = FALSE, !.has = {}]}
    \cup {[c EXCEPT !.form = cut, !.has = @ \cap {"hooks"}] :
            cut \in {"text", "mistyped"}}

Resting == [pc |-> "resting"]
Loaded(c) == [pc |-> "loaded", config |-> c]
FailedToLoad == [pc |-> "failed"]
Migrating(pc, old) == [pc |-> pc, old |-> old]
MigrationStep == {"createBackup", "writeBackup", "create", "write"}

Loader ==
  {Resting, FailedToLoad} \cup {Loaded(c) : c \in Content}
    \cup {Migrating(pc, c) : pc \in MigrationStep, c \in Text}

FileInit ==
  /\ file \in {Bare("absent"), Bare("garbage"),
               [form |-> "text", version |-> FALSE,
                has |-> {"paths", "hooks"}],
               [form |-> "text", version |-> TRUE,
                has |-> {"stores", "hooks", "preview"}],
               [form |-> "mistyped", version |-> TRUE,
                has |-> {"stores", "hooks", "preview"}]}
  /\ backup = Bare("absent")
  /\ loader = [p \in Process |-> Resting]

SetLoader(p, l) == loader' = [loader EXCEPT ![p] = l]

\* Variant: the error of the second Unmarshal is not looked at, and whatever
\* is there goes into the migration.
LoadConfigUnchecked(p) ==
  /\ SetLoader(p, IF file.form = "garbage"
                  THEN Migrating("createBackup", file)
                  ELSE IF IsOld(file)
                       THEN Migrating("createBackup", AsOld(file))
                       ELSE Loaded(file))
  /\ UNCHANGED <<file, backup>>

\* LoadConfigFromFile.
LoadConfig(p) ==
  /\ SetLoader(p, IF file.form = "garbage" THEN FailedToLoad
                  ELSE IF IsOld(file)
                       THEN Migrating("createBackup", AsOld(file))
                       ELSE Loaded(file))
  /\ UNCHANGED <<file, backup>>

\* Variant: the file is replaced before its copy is written.
MigrateReplacingFirst(p) ==
  /\ loader[p].pc \in MigrationStep
  /\ LET old == loader[p].old
         next(pc) == SetLoader(p, Migrating(pc, old)) IN
     CASE loader[p].pc = "createBackup" ->
            file' = Bare("empty") /\ next("writeBackup") /\ UNCHANGED backup
       [] loader[p].pc = "writeBackup" ->
            file' = Convert(old) /\ next("create") /\ UNCHANGED backup
       [] loader[p].pc = "create" ->
            backup' = Bare("empty") /\ next("write") /\ UNCHANGED file
       [] loader[p].pc = "write" ->
            backup' = old /\ SetLoader(p, Loaded(Convert(old)))
              /\ UNCHANGED file

(***************************************************************************)
(* MigrateConfig: os.Create truncates, then one Write fills.               *)
(***************************************************************************)
Migrate(p) ==
  /\ loader[p].pc \in MigrationStep
  /\ LET old == loader[p].old
         next(pc) == SetLoader(p, Migrating(pc, old)) IN
     \/ /\ loader[p].pc = "createBackup" /\ next("writeBackup")
        /\ backup' = Bare("empty") /\ UNCHANGED file
     \/ /\ loader[p].pc = "writeBackup" /\ next("create")
        /\ backup' = old /\ UNCHANGED file
     \/ /\ loader[p].pc = "create" /\ next("write")
        /\ file' = Bare("empty") /\ UNCHANGED backup
     \/ /\ loader[p].pc = "write" /\ SetLoader(p, Loaded(Convert(old)))
        /\ file' = Convert(old) /\ UNCHANGED backup

\* A Write fails: the command ends with an error.
MigrationFails(p) ==
  /\ loader[p].pc \in {"writeBackup", "write"}
  /\ SetLoader(p, FailedToLoad)
  /\ LET old == loader[p].old IN
     \/ /\ loader[p].pc = "writeBackup"
        /\ backup' \in Prefixes(old) /\ UNCHANGED file
     \/ /\ loader[p].pc = "write"
        /\ file' \in Prefixes(Convert(old)) /\ UNCHANGED backup

=============================================================================
