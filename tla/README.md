# kswitch: TLA+ specifications, checks and proofs

kswitch finds the contexts of all kubeconfigs in a set of *stores* (files,
cloud providers, Vault, plugins, ...), lets the user pick one, and points the
`KUBECONFIG` of the terminal to a temporary copy of its kubeconfig.  This
directory holds a specification of the parts in which goroutines, processes,
terminals or messages meet, model-checked with TLC and, for ten of them,
proved with TLAPS.

    tlc -config MCSearch.cfg MCSearch          # a run, see "Runs"
    tlapm SearchProofs.tla                     # a module of proofs

`PROJECT.json` lists the components, the runs, a mutant for each checked
property (a plausible bug of the code that the property must detect), the
source lines of each definition, and the hazards the properties are aimed at.

## The system

| Component (source) | State | Operations | What is hard |
| --- | --- | --- | --- |
| Parallel search (`pkg/search.go`) | a WaitGroup, one result channel, one channel per store, `os.Stdout` | `doSearch`: load aliases, per store skip / replay its index / search it; close the channel | goroutines per store on one unbuffered channel, early error returns, readers that stop early |
| Search index (`pkg/index`, `writeIndex`) | index file and state file per store | `New`, `ShouldBeUsed`, `Write`, `WriteState` | files rewritten in place by invocations that overlap, are killed or fail half way |
| Aliases (`subcommands/alias`) | a directory with a file per alias, a legacy file | `alias`, `alias rm`, `alias ls`, migration | no lock; read file by file, swept by listing |
| Lazy initialisation (`store/lazy_init.go`) | atomic flag, mutex, the fields of a store | `ensure`, `done` | concurrent callers, initialisation that fails half way and is retried |
| Stores behind an API (`pkg/store/kubeconfig_store_*`: GKE, EKS, Azure, DigitalOcean, Exoscale, Scaleway, OVH, Akamai, Rancher, Kubernetes, CAPI, kind, Gardener) | client, map of clusters found | initialize, search scope by scope, fetch by path and tags, preview | a later process has only path and tags; a scope that cannot be listed; names that are not unique |
| Kubeconfig caches (`pkg/cache`) | a map per process, a directory for all | get, flush (`clean`) | goroutines that miss at once; entries rewritten in place, torn, or removed; TTL |
| Stores that are trees (`kubeconfig_store_file.go`, `_vault.go`) | configured paths, a WaitGroup | verify the paths, walk | goroutines per path or directory, errors that are swallowed, links, a search that is left alone |
| Plugin stores (`store/plugins`) | two processes, a gRPC stream, two channels | `StartSearch` on both sides | the plugin dies; who closes which channel |
| Configuration (`pkg/config`) | a YAML file, a copy of the old one | load, validate, migrate | the migration rewrites in place, in every terminal at once |
| Start of a command (`cmd/kswitch/switcher.go`) | the list of stores | build the stores of configuration, flags, `KUBECONFIG`, and by default; wire peers | identities, a global name, references between stores |
| Hooks (`subcommands/hooks`, `pkg/state`) | a state file per hook | run what is due | the state is written before the hook runs, in place |
| Interactive selection (`pkg/tui`) | items, filter, cursor, window, previews and expansions under way | `Update`, one message at a time | answers of previews and expansions arrive late and out of order |
| Kubeconfig editing (`kubectx_copied`, `merge-to-default`, `delete-context`, `unset-context`) | a YAML document, kubeconfig files | rename, set current, namespace, remove with orphans, merge | names shared between kubeconfigs; files rewritten in place |
| Terminals and history (`pkg/main.go`, `set-context`, `history`, the shell function in `cmd/kswitch/init.go`) | `KUBECONFIG` per terminal, the directory of copies, the history file | menu, `-w`, set-context, `-`, `.`, history, `ns`, merge, `clean` | several terminals on one home directory, kills, stale reads |
| Namespaces (`subcommands/ns`) | a cache file per context | choose a namespace | menu between read and write |
| Context filters, generated code, rendering | none | | sequential, without state |

How they interact: a command loads the configuration, which it may have to
migrate, runs the hooks that are due, and builds its stores; a Kubernetes store
that refers to another one searches that one for its kubeconfig.  Then it calls
`doSearch` and ranges over the channel it returns.  `doSearch` reads the alias
directory once, reads each store's index, and calls `StartSearch` and
`GetKubeconfigForPath` of the stores from goroutines, the latter through the
store's cache; a store initialises itself on first use, and a plugin store calls
another process.  The menu reads the channel into the TUI, which fetches
kubeconfigs for its previews.  What the user selects is fetched again, edited,
written to a temporary copy, recorded in the history, and answered to the shell
function, which sets `KUBECONFIG`.  Processes share only files: configuration,
hook states, indexes, cache entries, aliases, history, copies.  None of them is
locked.

## Modules

| Module | Models | Used by |
| --- | --- | --- |
| `ResultStream` | what `doSearch` promises: refused, or a stream that is closed once, after the last store has ended | abstract specification |
| `Search` | one `doSearch` and the command that reads its results; implements `ResultStream` | `MCSearch`, `SearchProofs` |
| `SearchIndex` | index and state file of one store | `MCStores`, `StoreProofs` |
| `AliasState` | the alias directory and its commands | `MCAliasState`, `AliasProofs` |
| `LazyInit` | `lazyInit.ensure` with the fields of the Azure store | `MCStores`, `StoreProofs` |
| `CloudStores` | the thirteen stores behind an API: search, paths, tags, lookup | `StoreAccess` |
| `KubeconfigCache` | the memory cache and the file cache | `StoreAccess` (INSTANCE) |
| `StoreAccess` | a process that searches, indexes and fetches through a cache; composes the two | `MCStoreAccess`, `StoreAccessProofs` |
| `TreeStores` | searches of directories and of Vault, one for a reference and one of the command | `MCTreeStores`, `TreeStoresProofs` |
| `PluginStream` | a search through a plugin | `MCStores`, `MCPluginStream.cfg`, `StoreProofs` |
| `ConfigFile` | the configuration file and its migration | `Startup` (INSTANCE) |
| `Hooks` | which hooks run, and their state files | `Startup` (INSTANCE) |
| `Setup` | validation and construction of stores, as operators | `Startup` |
| `Startup` | commands of several terminals up to their search; composes the three | `MCStartup` (two configurations), `StartupProofs` |
| `Tui` | `model.Update` and the commands beside it | `MCTui`, `TuiProofs` |
| `Kubeconfig` | a kubeconfig and each edit of it, as operators | `Terminals` |
| `Terminals` | terminals, commands, shared files, history; composes the operators of `Kubeconfig` | `MCTerminals`, `TerminalsProofs` |

`Search` and `SearchIndex` look at the index from two sides: in `Search` one
invocation with all goroutines and an index that is written in one step, in
`SearchIndex` many invocations, each reduced to its system calls.  `StoreAccess`
looks at it from a third: what of a cluster is left in an index for the next
process.

`MCStores` puts three small modules that share no variable - `PluginStream`,
`LazyInit`, `SearchIndex` - into one run: a part of the behaviours for each.

### Search

`pc` and `next` are the loop of `doSearch` over the stores; `searcher`,
`worker`, `inbox`, `outbox` and `local` are the goroutines of each store with
what they hold; `wg`, `closed`, `consumer` and `delivered` the WaitGroup, the
channel and its reader.  Actions are named for what the loop does with a store
(`SkipOptionalStore`, `AbandonSearch`, `LaunchReplay`, `LaunchSearch`) and for
what the goroutines do (`SendResult`, `FinishSearch`, `CollectError`,
`CollectUnusable`, `CollectKubeconfig`, `Deliver`, `WriteIndex`, `WorkerDone`,
`CloseResults`).  Channels are unbuffered, so a send and its receive are one
step.  `produced` and `storeFailed` are history variables.

A command either drains the channel or returns at the first wanted context; the
goroutines then stay blocked until the process ends, which is why a search that
is not drained is still part of the state space.  A failing write of the index
is left to `SearchIndex`.

A store may announce two paths, each with tags of its own, and one context at
both.  The collector keeps the path and the tags in two maps, and does not
replace tags by none (`search.go:254`): `Remembered` are the entries that can
come of it.

### SearchIndex

Every system call on the two files is a step.  The content of an index is
abstracted to the time its search began, and its form to absent, empty, torn
(a prefix that still parses), corrupt, whole.  Processes end anywhere (`Exit`)
and others follow.  `damaged` remembers that a write has failed half way.

### AliasState

A load lists the directory and reads the files one by one; a removal rewrites
the file of every context in the loaded mapping, lists the directory again and
removes the rest; the first load after an upgrade migrates the legacy file.
`writeAliasFile` renames a complete file, so a write is one step and a kill
before it leaves only a dotfile that nothing reads.  Legacy entries whose name
is not a valid alias are left out (the code drops them).

### LazyInit

The fields of a store are assigned one after the other, an attempt may fail
after any of them, and `fields` remembers which attempt assigned each.
`MaxAttempts` bounds the attempts: the last one does not fail.

### CloudStores, KubeconfigCache and StoreAccess

A cluster has an id, a name, and the scope it is listed in (a project, resource
group, zone, namespace, page).  `PathOf`, `Tagged`, `Parsed` and `Prefix` say
what each kind of store prints of that into the path, the tags and the name of
the context; `Resolve` how it finds a cluster again, with one operator for each
way of looking.  The search lists scope by scope; `StopsAtError`,
`SkipsSilently`, `Parallel`, `ListsFirst`, `Remembers` are the sets of stores
that differ in what they do then.  Azure and OVH fetch a list in pieces, of
which a later one can fail (`ListScopeBreaks`); CAPI ends without an error if
the cluster it asks has no such resource (`ListScopeNoMatch`).  What a
kubeconfig says beyond the cluster it leads to is abstracted.  A managed seed of
Gardener is taken to have the name of its Shoot, as the code does.

In `KubeconfigCache`, `call` is the program counter of each goroutine with what
it holds.  A file entry is absent, empty, torn or whole, and remembers whose
write it is and whether somebody else has written into it; truncating and
writing in pieces are steps of their own.  A prefix that is read may or may not
parse.  `KeepFails` is an answer of the store that is no kubeconfig, or a write
that stops half way.  `clean` lists the entries and removes them one by one.
Time is coarse: none passes while a goroutine writes, or between the read of an
entry and the look at its age.

`StoreAccess` adds the collector, the index and the menu: `Announce` hands a
result to the collector, `Collect` enters it under the name of its context (of
two with one name the later stays), `Restart` ends the process at any step and
starts one that has the index only.

### TreeStores

`pc`, `early`, `walkers` and `wg` are, for each of two searches of one store,
the phase, the files sent first, the goroutines with what they have still to
visit, and the WaitGroup.  The search for a `reference` has a buffered channel
and a reader that leaves at the first match (`resolveContextPath`); its
goroutines may then be stuck while the search of the `command` begins in the
same store.  Links to directories are leaves of the walk, because the code never
gets below one.  The verification of paths fails if none exists, or one cannot
be looked at.

### PluginStream

Six parties: the plugin, its gRPC handler, the stream, the client, the goroutine
of `doSearch` that closes the channel, the collector.  gRPC and the plugin
process are modelled from how the code uses them (reliable, ordered, ended by
EOF or by the death of the process).  Results of the plugin are paths or errors
(`Failing`); the message on the stream has no place for an error, so `PathIn`
makes it an empty path, which the collector cannot tell from a result. When the
stream ends the client closes the search channel, and the searcher closes it
again: `searcher` is then `"panicked"`.  A plugin need not close its own
channel; the handler waits for nothing else.  `StreamInit`, `StreamNext` and so
on, like `EnsureInit` of `LazyInit`, have names of their own so that
`StoreProofs` can extend both and `SearchIndex`.

### ConfigFile, Hooks, Setup and Startup

`settings` is what the user wrote and never changes; the file holds some of it,
in the old format or the new one, or nothing, or cannot be read, or is
`mistyped`: a value of the wrong type in a field that only the new format has,
so that it cannot be read as a `Config` but can as a `ConfigOld` (`IsOld`,
`AsOld`).  The migration is four steps: create and write the copy, truncate and
write the file.  Every write may fail and leave a prefix, every process may be
killed, `MaxFaults` times in all.  `spoilt` is a history variable: the file in
the new format is mistyped from the start, or a write of it has failed.

A hook is looked at, its file truncated, the time taken, the time written, and
the hook executed, each in a step of its own.  Time does not go back.  A failed
write leaves a stamp that cannot be read, or one whose time is cut and is read
as an earlier one.  `ran` (the times that its runs have taken) and `mishap`
(two commands held a time that was not written; a time was cut) are history
variables.

`BuildStores` makes of a configuration and an environment what `initialize`
makes of it: the stores in order - that of `--store` with its kind, `backend` -,
the name of kubeconfig files each was built with, and `via`, the stores through
which each one reaches its cluster.  `RefreshesIndex` says which stores the
validation compares; all of them write an index.

### Tui

`m` is the Bubble Tea model, `batches`, `previews` and `expansions` the
commands under way; each action is one case of `Update`.  Of the text the user
types two queries are told apart.  `end` is how the program ended; `"hangs"`
stands for the loop of `isDescendant` that does not leave.  `Clusters[p]` is
what an expansion of `p` finds, every time; previews are always on.  Several
contexts of one kubeconfig have the same path, and each of them can be expanded:
their clusters are then listed twice, or are there while one of them is marked.

### Kubeconfig and Terminals

Sections of a kubeconfig are sets of named entries.  `Reaches(kc, name)` is what
a context is for: the servers and secrets behind it.  A path is a sequence of
files, because the shell function makes `KUBECONFIG` a list, and other parts of
the code take the whole string for the name of one file.

A command is a process: `control` is its next step, `job` what it holds in
memory.  Copying a kubeconfig is one step, for nobody else knows the new name
yet; rewriting a file in place is two (`Truncate`, `Emit`), with `Torn` between
them.  `Report` is the shell function.  `Kill` may come before any step.
`selected` and the `target` of a history entry are history variables: what was
selected, and where it led.

Left out: commands that fail before they change anything; entries that old
versions wrote to the history, without a namespace; aliases that equal the name
of another context of the same file; prefixes of context names; a subshell that
inherits `KUBECONFIG`; whether a namespace exists, which only the cluster
knows.  A file that is cut off is unreadable, although a prefix of YAML may
parse.  A history command writes its copy twice, before anyone knows its name;
this is one step.

## Runs

| Run | Question | Bounds | States |
| --- | --- | --- | --- |
| `MCSearch` | Do WaitGroup, channels and indexes agree, does the search implement `ResultStream`, do commands return? | a required and an optional store, the second may fail; two contexts, one alias, two paths that share a context; every state of both indexes, for a command that looks for one context (`ReturnInit`) one fresh index; the menu, the listing, a command that stops early | 648,000 |
| `MCStores` | Do the results of a plugin arrive in order and completely, and does its search end? Is a lazy initialisation whole, once, and does everybody return? What do kills and half-written files do to the next user of an index? | six results, one of them an error, the plugin may die; three goroutines, two fields, two failures; one invocation at a time, clock to 4, refresh after 2 | 21,700 |
| `MCAlias` | Do two commands lose or invent aliases, or fail each other, killed anywhere? | three aliases, two contexts; three scenarios: both set and list; one writes and one lists; both list after an upgrade (`IsCalm`) | 1.3 million |
| `MCStoreAccess` | Does a fetch reach its cluster, in this process or a later one, is the cache as young as its TTL, is a search without error complete, does every fetch return? | three clusters in two scopes, two with one name, one with the separator in its name, one managed seed; all thirteen kinds behind the memory cache; OVH and Kubernetes behind the file cache with an index, TTL 1, clock to 2 | 81,000 |
| `MCTreeStores` | Does nothing send after the end, is everything found, does the search end? | a directory in a directory, a link, a file; two paths, of which one is below the other; every set of directories that cannot be listed; a buffer of one | 390,000 |
| `MCTreeLinks` | (violation) Is what is below a link found? | the same | |
| `MCPluginStream` | (violation) Is the search channel closed once? | one result | |
| `MCStartup` | Do settings survive the migration, are commands fully configured, indexes apart, hooks on time? | three kinds of command in two terminals over one configuration, absent, unreadable, old, new or mistyped, clock to 2, two faults; or one command for each of many configurations and environments | 5.5 million |
| `MCMigration` | (violation) Is a configuration that has stores left alone by the migration? | the same, without faults | |
| `MCTui` | Do cursor, filter, previews and expansions stay consistent? | two batches with three contexts, of which two are of one kubeconfig and have one path, with two clusters; windows of one and two rows, two expansions of that path at once | 1.2 million |
| `MCTuiNested` | (violation) Does collapsing end? | clusters in clusters | |
| `MCTerminals` | Does each terminal keep its cluster, do merges reach what was selected, are files sound, is the history restored? | two terminals, three commands of all eleven kinds, kills; see below | 1 million |

Why these bounds are enough to be interesting: two stores are the least with
one goroutine pair that delays another; a context at two paths is what the
mapping of an index cannot represent; a third alias is one that neither of two
commands names; a third goroutine is one that waits while the second retries; a
window of one row makes every move scroll; three commands are a switch, a change
and a further switch, or two that race with a third terminal state in between.
Three clusters allow two with one name and one more to be confused with them;
two scopes let one fail while the other is announced; a clock of two passes a
TTL of one.  A buffer of one is full after one result, as 64 are after 64.  Two
faults are a kill and a failing write, or two kills in one migration.  Two
contexts with one path are what a kubeconfig with two contexts gives, and let two
expansions of one path overlap.  Kubernetes makes its requests under a deadline
and OVH does not, so behind the file cache `CallsReturn` and `ServedIsFresh` each
meet torn entries.
In `MCTerminals` two kubeconfigs of the store give the same names to different
clusters and users, and a real file has two contexts that share a cluster, one
of which has the name of a context in the store: merges overwrite, and removals
have orphans and entries that are still used.  The configurations of `MCStartup`
are pairs of stores that share a kind, in every combination of IDs (`Sharing`,
`Gardens`); stores that fail, opt out, or have an unknown cache (`Outcomes`);
and Kubernetes stores that refer to each other, to a third, or to nothing
(`Referring`).  Symmetry is used for terminals and for the contexts of aliases,
in runs without liveness properties.  Deadlock is not checked where commands and
searches come to an end (`MCStartup`, `MCTreeStores`).

What the passing runs show, beyond types:

- `EndsCleanly`: on each of the ways a store can end its slot of the WaitGroup
  is given back exactly once, and only after its last message: nothing is sent
  on the closed channel, and who drains it has everything and leaves no
  goroutine behind.  `IndexesAreSound`: an index is replaced only by the whole
  result of a search whose messages all have been consumed, for commands that
  stop early too, and not by goroutines that an error return leaves behind.
  `ImplementsStream`, `CommandReturns`.
- `KillsAreHarmless`, `GatedUseIsDescribed`: killed invocations leave an empty
  index or a state file that is older than the index, and neither is replayed as
  if it were whole and young.
- `LoadsSucceed`, `RemovalIsEffective`, `NothingElseIsLost`: what commands on
  aliases may do to each other, and that the legacy file goes last - for the
  commands that `IsCalm` allows. A removal beside a command that sets or removes
  is not among them, for there all three fail.
- `UsersSeeOneInit`, `InitHappensOnce`, `EnsureReturns`.
- `FetchReachesCluster`: a fetch reaches a cluster with the path it asked for,
  by its tags exactly the one announced; and a cluster that was announced can be
  found again, but for three cases that the property names.  `ServedIsFresh`:
  the file cache hands out nothing older than its TTL, but for one race.
  `SilentSearchIsComplete`: without an error all clusters were announced, but
  for four stores (GKE, Exoscale, Gardener, CAPI).  `CallsReturn`, behind either
  cache and whatever is in its entries.
- `SearchesAreSound`: nothing is sent after the end, and a search without error
  over directories that can be listed has announced every kubeconfig, once for
  each path above it.  `CommandSearchEnds`, beside one that is stuck.
- `DeliveredInOrder`: one message for each result of the plugin, in order; of a
  result that is an error, an empty path.  `SearchEnds`: once the plugin has
  closed its channel or died, the client returns.
- `SettingsSurvive`: after one fault the settings are in the file or its copy,
  or a command is about to write them.  `NeverHalfConfigured`: no command goes
  on with part of the stores.  Both except a spoilt file, which is what
  `MCMigration` is about.  `IndexesAreApart`: no two stores of a command write
  one index, but for three cases that the property names, because the
  validation lets them pass.  `HooksKeepTime`: a state file that can be read
  misses no run, unless two commands held a time that was not written at once or
  a failed write cut it; and it tells of no run that has not been or is about to
  be.
- `ListIsCoherent`, `PreviewBelongsToSelection`.  `ExpansionsSettle`: all
  clusters of a path are listed while one of its contexts is expanded, none
  otherwise, and a spinner only while an answer is under way.
- `SelectionTakesEffect`: short of `clean`, nothing that another terminal does
  moves a terminal to a different cluster, and a written or merged context
  reaches its own.  `FilesAreSound`, `HistoryIsRestored`.

### Fairness

Safety needs none.  `CommandReturns` assumes weak fairness of the goroutines:
the Go scheduler runs what can run, and it is assumed that store calls return
(one that does not blocks the command in the code as well).  `EnsureReturns`
assumes weak fairness of each caller's next step and strong fairness of taking
the lock: `sync.Mutex` hands the lock to a starving waiter.  It holds because
failures are bounded by `MaxAttempts`.  `SearchEnds` of `PluginStream` assumes
weak fairness of both processes, and says nothing of a plugin that neither
closes its channel nor dies: nothing in this repository makes it, the example
plugin does not, and the command then hangs.  `CallsReturn` assumes weak
fairness of each goroutine's next step, and that a request ends only for the
stores that make theirs under a deadline (`Deadline`); of the others, and of the
user, nothing is assumed. `CommandSearchEnds` assumes weak fairness of the
command's own search (its goroutines run, its collector receives), and nothing
of the search for a reference, which the code leaves alone.

## Where the code and its documentation disagree

Each of these is a property that TLC refutes.  Those with a run of their own are
findings in `PROJECT.json`; the others are refuted when the property is added to
the configuration named (`<-` names a definition of the MC module).

| Property | What happens | Run or configuration |
| --- | --- | --- |
| `NeverHangs` (`Tui`) | a context in a context answers its expansion after it was collapsed away; the next collapse loops forever | run `MCTuiNested` |
| `LinksAreFollowed` (`TreeStores`) | a link to a directory is never walked: `WalkDir` does not follow its root, and the target already counts as visited | run `MCTreeLinks` |
| `OnlyNamedAliasChanges` (`AliasState`) | `alias rm` rewrites the directory from a mapping that keeps one alias per context, so the context's other aliases vanish | `MCAlias.cfg`, `Procs <- Alone`, `Scenarios <- OneCommand` |
| `NotFoundIsTrue` (`AliasState`) | `alias rm` says that an alias does not exist when another alias of its context was read later | the same |
| `LoadSeesLegacy` (`AliasState`) | an interrupted migration is never resumed | `Procs <- Alone`, `Scenarios <- OneUpgrade` |
| `OnlyNamedAliasChanges`, first use | a migration overwrites an alias that another command has set since the directory exists | `Procs <- Two`, `Scenarios <- UpgradeAndSet` |
| `ClosedOnce` (`PluginStream`) | the client of a plugin and `doSearch` both close the search channel; the second close panics | run `MCPluginStream` |
| `NewConfigIsKept` (`Startup`) | a configuration in the new format with a value of the wrong type is migrated as an old one, and loses its stores in the file and in the copy | run `MCMigration` |
| `NoIndexIgnoresIndex` (`SearchIndex`) | an index that does not parse fails a search with `--no-index` | `MCStores.cfg` |
| `KillsAreHarmless` (`SearchIndex`) | two invocations that write at once may interleave their contents | `MCStores.cfg`, `Procs = {p1, p2}` |
| `SilentWhileSearching` (`Search`) | `os.Stdout` is restored when `doSearch` returns, not when the search is over | `MCSearch.cfg` |
| `EnvAndFlagHasNoIndex` (`Search`) | an index is written for the store of flags and variables, although never read by the gate | `MCSearch.cfg` with store 1 in `EnvAndFlag` |
| `NoIndexAfterStoreError` (`Search`) | a search that reported an error still replaces the index if it found a context | `MCSearch.cfg` |
| `EntriesBelongTogether` (`Search`) | of two paths with one context the index can have the path of the one and the tags of the other: the tags are not replaced by none (`search.go:255`) | `MCSearch.cfg` |
| `NothingElseIsLost`, `RemovalIsEffective` (`AliasState`), beyond `IsCalm` | the sweep of `alias rm` removes a file that another command has set since the directory was read; of two removals one writes the other's alias again | `MCAlias.cfg`, `Scenarios <- RemovalBesideSet` or `TwoRemovals` |
| `FetchedIsAnnounced` (`StoreAccess`) | of two clusters with one name, Scaleway and OVH fetch by the id (`scaleway.go:159`, `ovh.go:135`), but the cache in front of them knows the name only: the second gets the kubeconfig of the first | `MCStoreAccess.cfg` |
| `ServedIsWhole` (`StoreAccess`) | a prefix of a kubeconfig, left by a kill or a failing write, is served if it parses | `MCStoreAccess.cfg` |
| `ClientIsThere` (`StoreAccess`) | CAPI, asked for a context from an index, dereferences a client that only its search makes | `MCStoreAccess.cfg` |
| `SecretsAreAnnounced` (`TreeStores`) | Vault announces directories as if they were secrets | `MCTreeStores.cfg` |
| `AnnouncedOnce` (`TreeStores`) | every verification adds the paths to Vault's list: after a lookup for a reference everything is found twice | `MCTreeStores.cfg` |
| `NamesAreOwn` (`Startup`) | `kubeconfigName` of a store stays for the stores that follow | `MCStartup.cfg` |
| `IDsAreDistinct` (`Startup`) | an ID is "used to write distinct index files for each store" (`types/config.go:110`), but the validation only compares stores with refreshIndexAfter, takes a missing ID for another one than "default", and does not know the IDs that kswitch gives itself: such stores write one index (`validation.go:91`) | `MCStartup.cfg` |
| `PeersAreReached` (`Startup`) | a Kubernetes store whose peer comes later in the configuration reads its secrets through a peer that is not wired yet | `MCStartup.cfg` |
| `StampsAreLatest` (`Startup`) | a command that took the time of its hook before another one did can write it after (`state.go:66`): the file then misses a run | `MCStartup.cfg` |
| `ChildrenOnce` (`Tui`) | two contexts of one kubeconfig have one path, and each that is expanded inserts the clusters (`model.go:564`) | `MCTui.cfg` |
| `CursorVisible` (`Tui`) | clearing the query, new items and a resize move the cursor or the window, not both | `MCTui.cfg`, `Batches <- ThreeContexts`, `Clusters <- NoClusters` |
| `PreviewBelongsToSelection` (`Tui`), two stores with one path | previews are matched by path only | `Batches <- SharedPath` |
| `LastContextIsRecorded` (`Terminals`) | `kswitch ns` in a kubeconfig that kswitch did not make records an entry without a context, which then matches the first context that has no alias | `MCTerminals.cfg` |
| `OldCopyIsRemoved` (`Terminals`) | once `KUBECONFIG` is a list, `rm -f "$KUBECONFIG"` removes nothing | `MCTerminals.cfg` |
| `WriteTargetIsOneFile` (`Terminals`) | the second `-w` writes to a file whose name is the list | `MCTerminals.cfg` |
| `MergeLosesNothing` (`Terminals`) | of two merges at once the first is lost | `MCTerminals.cfg` |
| `NoRepeatedEntry` (`Terminals`) | two terminals append the same entry | `MCTerminals.cfg` |

Some more that the models show, where no comment says otherwise:

- Configuration. A file of the new format without a version and without stores
  is taken for an old one, and loses its preview, exec and write settings in the
  migration, also in the copy; and so, with its stores, is a file in which one
  value has the wrong type (run `MCMigration`). The torn first line of a new
  file is taken for an old file as well. A command that reads the file while
  another migrates it silently skips its hooks. A store with `required: false`
  still ends the command if its cache is unknown.
- Hooks.  The state file is stamped before the hook runs, so that a hook that is
  killed is silent for its interval; one whose state file is torn never runs
  again by itself.
- Plugins.  A result of a plugin that is an error arrives as an empty path without
  an error (`grpc.go:128`).  A plugin that does not close its channel hangs the
  command.
- Aliases.  A load fails if another command removes a file after it was listed.
- Caches.  The kubeconfig of a peer that is fetched before the peer is wired
  stays in its memory cache.  The content of an entry is read before its age is
  looked at (`fileCache.go:177`), which is why `ServedIsFresh` excepts an entry
  that was replaced in between.
- Stores. Exoscale cannot fetch from an index, and skips a zone with a warning;
  GKE goes on with part of the projects; Gardener skips a namespace it may not
  list; CAPI without a kubeconfig of its own says nothing if the current cluster
  has no such resource. A name that contains `--` is announced and then refused.
  The path of CAPI, `<namespace>-<name>`, is not unique.
- The same path given by `--kubeconfig-path` and `KUBECONFIG` is searched twice.

## Proofs

All theorems hold for every value of the constants that meets the named
assumptions of the module (`SearchAssumption`, `LazyInitAssumption`,
`NamesAssumption`, `TerminalsAssumption`, `TreeAssumption`, `CacheAssumption`,
`PluginAssumption`, `SetupAssumption`, `BoundsAssumption`,
`IndexAssumption`, `AliasAssumption`, `TuiAssumption`).

| Theorem | Property | Run |
| --- | --- | --- |
| `SearchTypes` | `TypeOK` | `MCSearch` |
| `SlotsBalanced`, `ClosedIsQuiet`, `DrainedIsComplete`, `DrainedIsFinished`, together `SearchEndsCleanly` | `EndsCleanly` | `MCSearch` |
| `IndexesAreComplete`, `AbandonedSearchIsInert`, together `IndexesStaySound` | `IndexesAreSound` | `MCSearch` |
| `SearchImplementsStream` | `ImplementsStream` | `MCSearch` |
| `IndexTypes`; `KillsDoNoHarm`, `GateIsHonest` for one invocation after another | `TypeOK`, `KillsAreHarmless`, `GatedUseIsDescribed` | `MCStores` |
| `AliasTypes`, `LoadsAlwaysSucceed` | `TypeOK`, `LoadsSucceed` | `MCAlias` |
| `RemovalsAreEffective`, `NothingIsLost` | `RemovalIsEffective`, `NothingElseIsLost` | `MCAlias` |
| `LazyInitTypes`, `Serialised`, `FullyPopulated`, `OnceOnly` | `LazyTypeOK`, `UsersSeeOneInit`, `InitHappensOnce` | `MCStores` |
| `TreeTypes` | `TypeOK` | `MCTreeStores` |
| `EndedIsQuiet`, and with it `SearchesStaySound` | the first half of `SearchesAreSound`, all of it | `MCTreeStores` |
| `StreamTypes`, `StreamIsFaithful` | `StreamTypeOK`, `DeliveredInOrder` | `MCStores` |
| `StoreAccessTypes` | `TypeOK` | `MCStoreAccess` |
| `FetchedLeadsHome`, and with it `FetchesReachClusters` | the first half of `FetchReachesCluster`, all of it | `MCStoreAccess` |
| `ServedStaysFresh` | `ServedIsFresh` | `MCStoreAccess` |
| `SilentSearchesAreComplete` | `SilentSearchIsComplete` | `MCStoreAccess` |
| `StartupTypes` | `TypeOK` | `MCStartup` |
| `HooksStayOnTime` | `HooksKeepTime` | `MCStartup` |
| `SettingsSurviveMigration` | `SettingsSurvive` | `MCStartup` |
| `CommandsAreConfigured` | `NeverHalfConfigured` | `MCStartup` |
| `IndexesStayApart` | `IndexesAreApart` | `MCStartup` |
| `KubeconfigsStaySound` | `FilesAreSound` | `MCTerminals` |
| `TerminalsTypes` | `TypeOK` | `MCTerminals` |
| `TuiTypes`, `ListStaysCoherent` | `TypeOK`, `ListIsCoherent` | `MCTui` |
| `PreviewsBelong` | `PreviewBelongsToSelection` | `MCTui` |
| `SpinnersWaitForAnswers`, and with it `ExpansionsStaySettled` | the second half of `ExpansionsSettle`, all of it | `MCTui` |
| `SelectionsTakeEffect`, `HistoryStaysRestored`, both from `CopiesStayOwned` | `SelectionTakesEffect`, `HistoryIsRestored` | `MCTerminals` |

**Search** (`SearchProofs`).  The inductive invariant is

    IInv == Types /\ LoopInv /\ SlotInv /\ WorkerInv /\ CloseInv /\ FlowInv

`SlotInv` (the WaitGroup counts the stores whose work is not over) is
`WaitGroupBalanced`; it is inductive only with `LoopInv`, which says which
stores have been started, because a slot is reserved before its worker exists.
`CloseInv` ties the channel to an empty WaitGroup, `WorkerInv` says that a
worker without a slot holds nothing, and `FlowInv` that a message is in an
outbox or delivered.  The refinement of `ResultStream` maps each step to one of
the stream or to a stutter: a delivery needs `FlowInv` (the message is named
after its store) and `WorkerInv` (its store still searches).  `LocalInv`, a
second invariant over the first, says that what a collector has recorded is
what it has delivered; `IndexIsComplete` follows.

**Search index** (`StoreProofs`).  Under `OneByOne` (there is one process
at a time, each may be killed) `WholeInv`: a file that is about to be written is
empty, so that nothing of an old index can stick out of a new one, and without a
failed write everything is absent, empty or whole.  `TimeInv`: an index is no
older than its state says, since who writes the state has written the index of
the same search before.  With two writers at once the first is refuted (see the
table above), so the assumption is needed.

**Aliases** (`AliasProofs`).  `TypesInv` types what a command holds and says,
step by step, what it is: a mapping that is to be written comes from the legacy
file, or is that of a removal and lacks its alias.  `Settled`: without an
upgrade the directory is there, and nobody migrates.  There are then three
invariants, one for each way in which commands meet (`IsCalm`).  `LoadsInv`:
while nobody removes, what was listed is there to be read.  `WriterInv`: the only
one that writes has read a prefix of the directory in order (`Reads`), so that
its mapping has the last alias of each context; what it writes again is there
already (`WritesNothingNew`), and the sweep, in the order of the listing, comes
to the alias that is removed after the others of its context (`SweepsInOrder`).
That order is why an alias that goes along always has another one beside it,
also when the command is killed.  `UpgradeInv`: all commands migrate the same
mapping, nothing else gets into the directory, so nothing is swept, and who is
about to remove the legacy file has seen all of it written.

The last two theorems are proved under `IsCalm` of every scenario: any number of
commands that set and list, one that writes among others that list, or, after an
upgrade, only commands that list.  Beyond it they are false: a removal beside a
command that sets or removes, which is the interleaving that loses aliases, is
ruled out by the assumption and not shown to be harmless (see the table above).
`MCAliasState` repeats it as an assumption, which TLC evaluates.

**Lazy initialisation** (`StoreProofs`).  `MutexInv` (who is inside holds the
mutex), `ProgressInv` (the running attempt has assigned the first fields, and
the flag is not set), `ReadyInv` (a set flag means that all fields come from the
last attempt) and `UserInv` (who uses the store has seen the flag).

**Tree stores** (`TreeStoresProofs`).  `IInv == TypeOK /\ Counted /\ Phases /\
SettledPaths`.  `Counted`: the goroutines of a search are finitely many and no
more than its WaitGroup says; a goroutine that starts another counts it first,
and one is counted off only when it leaves (`ReplaceOne`, `VisitedVault`,
`CountedOff`).  With `Phases` (goroutines exist only while their search runs,
the files are sent before) a WaitGroup of zero means that nobody is left to
send.  `SettledPaths` is needed for the types: a goroutine knows its path by the
position, and another verification may run meanwhile.  What a search of the
command finds needs `FoundInv` over it.  The paths are settled, for no search
for a reference begins after the command's (`PathsKnown`).  Every kubeconfig
below a path was sent, or lies below what a goroutine of that path has still to
visit (`NothingIsLost`); two goroutines of one path, and two things that one has
to visit, have nothing below them in common (`Goroutines`); so the number of
times it was sent is at most that of the paths which do not expect it any more
(`NothingIsRepeated`). It needs of the tree what file paths have, and
`TreeAssumption` says so: nothing has two parents, nothing is below itself.
`Below` is the least set of nodes closed under entering, not a recursion, so
that the argument is one of sets.

**Plugin stream** (`StoreProofs`).  `InOrder`: what was received, what
the client holds, what is on the wire and what the server holds are, one after
the other, the messages of the results 1, 2, ... in the order they were sent, an
empty path for each that is an error.  `Control` says that nothing is held once
a party has returned, and that the channel is closed only then; `Flow` that
either the call failed at once, or `InOrder`.

**Store access** (`StoreAccessProofs`).  `LeadInv`: every request was announced
for a cluster with its path (`ContextsAnnounced`), whatever is in a cache under
a path leads to a cluster with that path (`EntriesLead`), and so does what a
goroutine holds (`CallsLead`); `ResolveLeads` says it of every kind of store.
`AgeInv`, over the first: an entry is as old as the kubeconfig in it
(`EntriesAge`), because who writes has asked the store at the same time, and
whoever writes into the entry of somebody else does so at that time too
(`CallsAge`).  `ReachInv`: a call that failed because the store does not know
the cluster has one of three reasons, and keeps it.  That an Exoscale store
which learns of the cluster a moment later does not make the failure unjust
needs that no search begins in a process that has an index; that GKE's does not,
that the projects are listed once.  `SilentInv`: the clusters of a list that
arrived were announced or will be, a list that did not arrive was reported, and
who ends without an error has been through all lists.  `TypesInv`, over the
first two: ages are no less than zero since nothing that was read is of the
future, and a context is named after a cluster with the path of its request.

**Startup** (`StartupProofs`).  `HookInv`: all times are of the past
(`TimesArePast`), who has not begun holds no time (`Begun`), and for each hook
without a mishap `InOrder`: only one command at a time holds a time that it has
not written (`WritesAlone`), that time is no older than that of any run, been or
about to be (`WritesLatest`), and the file is no older than the time that a
command is about to execute with (`ExecutesStamped`), for others may stamp it in
between but time does not go back.  Without `WritesAlone` this is false, as
`StampsAreLatest` is. `FileInv`: while it is not spoilt the file is absent,
unreadable, empty or whole, and who migrates it has read it whole
(`FileIsSettled`); it is empty only if a running process is about to write it,
or one was killed there (`EmptyIsPassing`).  The latter needs `BackupIsKept`:
before the first fault, when somebody writes, there is a copy, and it is whole
or a *running* process is about to fill it; so the one process that dies leaves
either a copy or another one behind.  `StoresInv` adds that a command with
stores is done, and was configured with all settings: the empty file, the only
one that is not whole, fails the validation.  `TypesInv` types all of it: who
works on hooks has one left, which needs that a configuration with hooks has at
least one (`BoundsAssumption`); without one the code returns early
(`hooks.go:89`).

`IndexesStayApart` is about any configuration, so about what the loop over its
entries computes.  `ConstructedSelects`: what `initialize` builds is a selection
of the entries that could be built, each at most once; so two of its stores are
two entries, which the validation has compared if the later one refreshes its
index, or one is kswitch's own (`BuiltFrom`).  `KeysTellApart`: if it told them
apart and `GetID` does not, one has no ID and the other the ID "default" - for a
Gardener, also as the name of its landscape, a case the property had left out
and the proof asked for.  The induction over positions is by `SetInduction`,
which follows from the existence of minimal elements and needs no operator as a
parameter.  `WiredInv` adds to `StoresInv` what a command has built its stores
of: a configuration that has passed, or none.

**Terminals** (`TerminalsProofs`).  For any stores, terminals and sequences of
commands, killed anywhere, every kubeconfig that is not torn defines the
clusters and users that its contexts refer to.  A lemma for each operation of
`Kubeconfig` says that it preserves this: for a removal because an orphan is
what no *remaining* context refers to, for a merge because a section that is
merged loses no name.  The invariant needs two more parts: what a command holds
in memory is sound (`JobsGood`), for it is written without another look at the
file, and history entries are well typed (`HistoryTyped`), for names come back
from there.

`Owned` says whose copies are whose (`CopiesStayOwned`).  `TInv` types what a
process holds, and says in which step of which command it is; `OInv` has four
parts.  `CopiesAreOwned`: the copies that a terminal has in its `KUBECONFIG` or
is working on are those of no other terminal.  `TerminalsOK`: a copy that was
just made is as its command made it, unless it was cleaned; and the copy of a
terminal leads to what was selected there, unless the terminal is writing it in
place, when what it will write leads there.  `FilesOK`: only copies have a
`kswitch-context`, which leads where their current context does.  `HistoryOK`:
so does the name that an entry of the history holds.  `SelectionTakesEffect`
needs all four: between the copy and the step in which the shell function puts
it into `KUBECONFIG`, `clean`, merges and the commands of other terminals run.
The lemmas about `NewPath` say which files the loop of the shell function keeps
of an old `KUBECONFIG`.

These three are proved under `NamesAreUnambiguous`, about the files that are
there at the start: the contexts of a kubeconfig have different names, and none
is the alias of another; a name or alias that matches contexts of several
kubeconfigs leads to the same place in all of them; and no kubeconfig contains a
key `kswitch-context`, which only kswitch writes, into its copies.  Without it
the name in the history does not say which context was selected (the code takes
the first match).  `MCTerminals` repeats it as an assumption, which TLC
evaluates, so that the values of that run satisfy it.

**Interactive selection** (`TuiProofs`).  The helpers of `Update` are functions
from a model to a model, and each has a lemma of its own: what it does to a
`Good` model, in which the cursor is in the filtered list and the list is what
the query finds in the items.  `ClampMakesGood` needs only the second of a model
and brings about the first, which is why every handler may move the cursor
anywhere before it clamps it; `FilterSamePaths` is why those that only mark
items (`markLoading`, an expansion that finds nothing) need not clamp: of two
lists with the same paths the same is found.  `UInv` adds `AwaitsSelection`, the
preview that is awaited is the one of the selection, because `fetchPreviewCmd`
follows each change of the list or the cursor (`ShowPreviewKeeps`), except in
`Expand`, which keeps all paths; and `AnswersAwaited`, the content that is shown
answers what is awaited.  Where `isDescendant` leads is left open: the theorems
hold for trees on which it never ends, too.

`PreviewsBelong` is proved under `PathsTellStores`: no path is found in two
stores.  It is needed (`Batches <- SharedPath` in the table above), and `MCTui`
repeats it as an assumption for the values of its runs.

`SpinnersWaitForAnswers` holds for every tree: a spinner is the mark of an item
whose path has an expansion at work, and the answer to the last one takes it
away.  `ExpansionsStaySettled` is proved under `IsFlat`, repeated by `MCTui`: no
cluster hosts clusters, and none is a context of a store.  Several contexts may
share a path, as those of one kubeconfig do, expansions of one path may overlap,
and answers may come after a collapse.  For clusters in clusters the theorem is
false (`MCTuiNested`).  The invariant `FInv` says what the list looks like.
`Tree`: every item is a context of a store or a cluster of one (`Kinds`), a
cluster is listed only while a context with the path of its parent is marked
(`Present`), and then all clusters of that path are (`Complete`).  `Awaited`:
where an expansion that will find clusters is at work, a context with its path
is listed, so that the answer finds one to mark.  It is all about which items
there are and not where, so that inserting a block is adding a set
(`InsertKeepsAll`, `LitTree`) and collapsing a path is taking one away
(`CollapsedTree`).  Collapsing removes what `isDescendant` finds, whose walk over
the items is a recursive function of a position; in a tree of one level each
walk ends after a step or two (`WalkInTree`), which is also why the loop never
hangs there (`FlatTreesNeverHang`).

Only model-checked: everything under fairness (`CommandReturns`,
`EnsureReturns`, `SearchEnds`, `CallsReturn`, `CommandSearchEnds`), which the
installed provers do not treat.
No module uses recursive operators.

## Not modelled

- The content of requests, answers, tokens and kubeconfigs of the stores behind
  an API, their authentication, and the two versions of Vault's engine: data
  that no property here tells apart.
- Gardener's `initialize` also rewrites the files of gardenlogin and gardenctl
  (`gardener.go:159`), without a lock and in place: a truncated file is read as
  empty, and the gardens of other terminals are lost.  The files belong to other
  programs, whose reads are not in this repository.  The control plane command
  uses the Gardener store, which it does not find behind a cache.
- The plugin protocol (generated), the validation of single fields, the wiring
  of flags and completions, the rendering of lists and trees, the expansion of
  variables in paths, context filters (a pure function of a name): sequential
  and reached by unit tests.
- The cache of namespaces, the running of a command for each context in `exec`,
  subshells, and the old entries of the history.

## Plan

1. `NamespaceCache`: the menu between the read and the write of the cache file.
   The gardenlogin and gardenctl files as a shared document that several
   terminals rewrite.
2. `Exec` as a further reader of `ResultStream`; `ContextFilters` as operators,
   checked against every order of discovery.
3. `Terminals`: prefixes, old history entries, subshells, aliases that equal a
   context's name.
4. Proofs: what holds of `Tui` for clusters in clusters as long as none of them
   hosts itself.
