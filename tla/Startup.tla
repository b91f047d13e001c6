------------------------------- MODULE Startup -------------------------------
(***************************************************************************)
(* The start of a command, up to the search.  A command that changes the   *)
(* context first loads the configuration and runs the hooks that are due;  *)
(* then every command loads the configuration, validates it and builds the *)
(* stores.  `kswitch hooks` only does the first part.  Commands of several *)
(* terminals start at any time, and any of them may be killed.             *)
(***************************************************************************)
EXTENDS Setup, Naturals

CONSTANTS
  Process,
  Hook, Interval, MaxTime,      \* of Hooks
  MaxFaults                     \* bound on commands killed or failing to write

ASSUME BoundsAssumption ==
  /\ MaxFaults \in Nat /\ MaxTime \in Nat
  /\ Interval \in [DOMAIN Interval -> Nat]
  /\ Hook \in Seq(ToSet(Hook)) /\ Hook # << >>

VARIABLES
  settings,     \* what the user has configured (Config)
  environment,  \* what the commands find beside it
  file, backup, loader,
  now, stamp, runner, ran, mishap,
  phase,        \* where each process is
  command,      \* what it was asked for
  stores,       \* what it has built
  faults,       \* how many were killed or failed to write
  spoilt        \* a write of the configuration file has failed, or the user
                \* has given a field of it a value of the wrong type

Files == INSTANCE ConfigFile
HookRuns == INSTANCE Hooks

fileVars == <<file, backup, loader>>
hookVars == <<now, stamp, runner, ran, mishap>>
userVars == <<settings, environment, command>>
vars == <<userVars, fileVars, hookVars, phase, stores, faults, spoilt>>

Command == {"setContext", "switch", "hooks"} \cup HookRuns!HookName
Phase == {"idle", "loadHooks", "hooks", "load", "done", "failed", "killed"}

\* Every part of the settings that the text of a file has, and no other.
Settings(c) ==
  IF c.form # "text" THEN EmptyConfig
  ELSE [settings EXCEPT
          !.version = c.version,
          !.stores = IF "stores" \in c.has THEN @ ELSE << >>,
          !.name = IF c.has = {} THEN Unset ELSE @]

HasHooks(c) == "hooks" \in c.has

\* What the old format can say.
IsOldStyle(c) ==
  \A i \in DOMAIN c.stores :
    LET s == c.stores[i] IN
    /\ s.kind \in {"filesystem", "vault"} /\ s.id = "default"
    /\ s.name = Unset /\ ~s.refresh /\ s.required /\ s.cache = Unset

Init ==
  /\ settings \in Config /\ environment \in Environment
  /\ Files!FileInit
  /\ "paths" \in file.has => IsOldStyle(settings)
  /\ HookRuns!HooksInit
  /\ ConfigIsValid(settings)
  /\ phase = [p \in Process |-> "idle"]
  /\ command \in [Process -> Command]
  /\ stores = [p \in Process |-> Refused]
  /\ faults = 0 /\ spoilt = (file.form = "mistyped")

Go(p, to) == phase' = [phase EXCEPT ![p] = to]

Begin(p) ==
  /\ phase[p] = "idle"
  /\ Go(p, IF command[p] = "switch" THEN "load" ELSE "loadHooks")
  /\ UNCHANGED <<userVars, fileVars, hookVars, stores, faults, spoilt>>

Load(p) ==
  /\ phase[p] \in {"loadHooks", "load"}
  /\ \/ loader[p].pc = "resting" /\ Files!LoadConfig(p)
     \/ Files!Migrate(p)
  /\ UNCHANGED <<userVars, hookVars, phase, stores, faults, spoilt>>

\* The disk is full: only a Write of the new format spoils the file.
LoadFailsToWrite(p) ==
  /\ phase[p] \in {"loadHooks", "load"} /\ faults < MaxFaults
  /\ Files!MigrationFails(p)
  /\ faults' = faults + 1
  /\ spoilt' = (spoilt \/ loader[p].pc = "write")
  /\ UNCHANGED <<userVars, hookVars, phase, stores>>

LoadFails(p) ==
  /\ phase[p] \in {"loadHooks", "load"} /\ loader[p].pc = "failed"
  /\ Go(p, "failed")
  /\ UNCHANGED <<userVars, fileVars, hookVars, stores, faults, spoilt>>

\* Hooks, once the configuration is loaded: without hooks nothing is done.
BeginHooks(p) ==
  /\ phase[p] = "loadHooks" /\ loader[p].pc = "loaded"
  /\ Files!SetLoader(p, Files!Resting)
  /\ IF HasHooks(loader[p].config)
     THEN /\ HookRuns!BeginHooks(p,
               CASE command[p] = "setContext" -> "due"
                 [] command[p] = "hooks" -> "all"
                 [] OTHER -> command[p])
          /\ Go(p, "hooks")
     ELSE /\ Go(p, IF command[p] = "setContext" THEN "load" ELSE "done")
          /\ UNCHANGED hookVars
  /\ UNCHANGED <<userVars, file, backup, stores, faults, spoilt>>

RunHooks(p) ==
  /\ phase[p] = "hooks"
  /\ HookRuns!Look(p) \/ HookRuns!CreateStamp(p) \/ HookRuns!TakeTime(p)
       \/ HookRuns!WriteStamp(p) \/ HookRuns!Execute(p)
  /\ UNCHANGED <<userVars, fileVars, phase, stores, faults, spoilt>>

HooksFailToWrite(p) ==
  /\ phase[p] = "hooks" /\ faults < MaxFaults
  /\ HookRuns!WriteStampFails(p)
  /\ faults' = faults + 1
  /\ UNCHANGED <<userVars, fileVars, phase, stores, spoilt>>

\* set-context goes on, unless the hooks have returned an error.
EndHooks(p) ==
  /\ phase[p] = "hooks" /\ runner[p].pc \in {"finished", "failed"}
  /\ Go(p, IF runner[p].pc = "failed" THEN "failed"
           ELSE IF command[p] = "setContext" THEN "load" ELSE "done")
  /\ UNCHANGED <<userVars, fileVars, hookVars, stores, faults, spoilt>>

\* Variant: a configuration that is empty counts as none.
ConfigureLeniently(p) ==
  /\ phase[p] = "load" /\ loader[p].pc = "loaded"
  /\ LET c == Settings(loader[p].config)
         none == loader[p].config.form \in {"absent", "empty"}
         ok == none \/ ConfigIsValid(c)
         built == IF ok THEN BuildStores(c, environment) ELSE Refused IN
     /\ stores' = [stores EXCEPT ![p] = built]
     /\ Go(p, IF built.ok THEN "done" ELSE "failed")
  /\ UNCHANGED <<userVars, fileVars, hookVars, faults, spoilt>>

(***************************************************************************)
(* `initialize` with the configuration it has loaded: without a file there *)
(* is nothing to validate.                                                 *)
(***************************************************************************)
Configure(p) ==
  /\ phase[p] = "load" /\ loader[p].pc = "loaded"
  /\ LET c == Settings(loader[p].config)
         ok == loader[p].config.form = "absent" \/ ConfigIsValid(c)
         built == IF ok THEN BuildStores(c, environment) ELSE Refused IN
     /\ stores' = [stores EXCEPT ![p] = built]
     /\ Go(p, IF built.ok THEN "done" ELSE "failed")
  /\ UNCHANGED <<userVars, fileVars, hookVars, faults, spoilt>>

Running == {p \in Process : phase[p] \in {"loadHooks", "hooks", "load"}}

Kill(p) ==
  /\ p \in Running /\ faults < MaxFaults
  /\ Go(p, "killed")
  /\ faults' = faults + 1
  /\ UNCHANGED <<userVars, fileVars, hookVars, stores, spoilt>>

TimePasses ==
  /\ HookRuns!Tick
  /\ UNCHANGED <<userVars, fileVars, phase, stores, faults, spoilt>>

Next ==
  \/ \E p \in Process :
       Begin(p) \/ Load(p) \/ LoadFailsToWrite(p) \/ LoadFails(p)
         \/ BeginHooks(p) \/ RunHooks(p) \/ HooksFailToWrite(p) \/ EndHooks(p)
         \/ Configure(p) \/ Kill(p)
  \/ TimePasses

Spec == Init /\ [][Next]_vars

(***************************************************************************)
(* Type invariant.                                                         *)
(***************************************************************************)
TypeOK ==
  /\ file \in Files!Content /\ backup \in Files!Content
  /\ loader \in [Process -> Files!Loader]
  /\ now \in HookRuns!Time
  /\ stamp \in [HookRuns!HookName -> HookRuns!Stamp]
  /\ \A p \in Process : runner[p] \in HookRuns!Runner
  /\ ran \in [HookRuns!HookName -> SUBSET HookRuns!Time]
  /\ mishap \in [HookRuns!HookName -> SUBSET HookRuns!Mishap]
  /\ phase \in [Process -> Phase] /\ command \in [Process -> Command]
  /\ DOMAIN stores = Process
  /\ faults \in 0 .. MaxFaults /\ spoilt \in BOOLEAN

(***************************************************************************)
(* The migration does not lose the settings: while the file has no text in *)
(* it they are in the copy, or a command that is still running writes them *)
(* down; whatever the overlap of commands, and even if one of them dies or *)
(* cannot write.  It takes two that die, or a file that the next command   *)
(* takes for an old configuration: with a first line of the new format, or *)
(* with a value of the wrong type (spoilt).                                *)
(***************************************************************************)
Kept(c) == {IF s = "paths" THEN "stores" ELSE s : s \in c.has \ {"preview"}}

SettingsSurvive ==
  \/ file.form \in {"absent", "garbage"}
  \/ \E c \in {file, backup} : Kept(c) = {"stores", "hooks"}
  \/ \E p \in Running : loader[p].pc \in Files!MigrationStep
  \/ faults > 1 \/ spoilt

(***************************************************************************)
(* A command that starts has all the stores of the user: one that reads    *)
(* the file while another migrates it is refused, and does not go on with  *)
(* what is there by default.  Only a spoilt file lets one go on without.   *)
(***************************************************************************)
NeverHalfConfigured ==
  \A p \in Process :
    phase[p] = "done" /\ stores[p].ok =>
      \/ loader[p].config.form = "absent"
      \/ spoilt
      \/ stores[p] = BuildStores(settings, environment)

(***************************************************************************)
(* What a comment of LoadConfigFromFile says, and the code does not do: a  *)
(* file that has stores is not migrated.                                   *)
(***************************************************************************)
NewConfigIsKept ==
  [][\A p \in Process :
       "stores" \in file.has /\ loader[p].pc = "resting" =>
         loader'[p].pc \notin Files!MigrationStep]_vars

(***************************************************************************)
(* The stores of a command, which all write an index named by their GetID, *)
(* write different files.  The validation sees to it with a key of its     *)
(* own, and only for a store that refreshes its index: so not if the later *)
(* of two does not, if one has no ID and the other the ID "default", or if *)
(* one has an ID that kswitch gives the stores it adds.                    *)
(***************************************************************************)
IndexesAreApart ==
  \A p \in Process : stores[p].ok =>
    \A i, j \in DOMAIN stores[p].stores :
      LET s == stores[p].stores[i]  t == stores[p].stores[j] IN
      i < j /\ StoreID(s) = StoreID(t) =>
        Indistinct(s, t) \/ ~RefreshesIndex(Settings(loader[p].config), t)

(***************************************************************************)
(* NOT properties of the code, three ways in which stores are not what     *)
(* comments say.  The name of kubeconfigs is the store's own or else the   *)
(* global one: the name of a store stays with the stores after it.  An ID  *)
(* is distinct: see the exceptions of IndexesAreApart.  And a kubernetes   *)
(* store reaches its peer through the peer of that one: not if it comes    *)
(* first.                                                                  *)
(***************************************************************************)
NamesAreOwn ==
  \A p \in Process : \A i \in DOMAIN stores[p].names :
    loader[p].config.form = "text" =>
      stores[p].names[i] =
        Or(stores[p].stores[i].name, Or(settings.name, DefaultName))

IDsAreDistinct ==
  \A p \in Process : \A i, j \in DOMAIN stores[p].stores :
    i # j => StoreID(stores[p].stores[i]) # StoreID(stores[p].stores[j])

PeersAreReached ==
  \A p \in Process : \A i \in DOMAIN stores[p].stores :
    LET built == stores[p].stores IN
    RefersToPeer(built[i]) =>
      LET j == Max(PeersOf(built, i)) IN
      stores[p].via[i] = Append(stores[p].via[j], j)

(***************************************************************************)
(* The state file of a hook that can be read tells when it ran last: no    *)
(* run is missing from it, so that a hook is not due within its interval,  *)
(* unless two commands stamped the hook at once or a failed write has cut  *)
(* its time.  And it tells of no run that has not been, but for the one of *)
(* a command between the two, or killed there, and for a time that is cut. *)
(***************************************************************************)
NoRunIsMissing(h) ==
  stamp[h].form = "whole" /\ mishap[h] = {} =>
    \A t \in ran[h] : t <= stamp[h].at

NoRunIsInvented(h) ==
  stamp[h].form = "whole" /\ "cut" \notin mishap[h] =>
    \/ stamp[h].at \in ran[h]
    \/ \E p \in Process :
         HookRuns!Runs(p, "execute", h) /\ runner[p].at = stamp[h].at

HooksKeepTime ==
  \A h \in HookRuns!HookName : NoRunIsMissing(h) /\ NoRunIsInvented(h)

(***************************************************************************)
(* NOT a property of the code: the state file is that of the latest run.   *)
(* A command that took its time before another's can write it after.       *)
(***************************************************************************)
StampsAreLatest ==
  \A h \in HookRuns!HookName :
    stamp[h].form = "whole" => \A t \in ran[h] : t <= stamp[h].at
=============================================================================
