--------------------------- MODULE KubeconfigCache ---------------------------
(***************************************************************************)
(* The caches around a store: pkg/cache/memory keeps the kubeconfigs of    *)
(* one process in a map, pkg/cache/file keeps them in a directory that all *)
(* processes share.  Both are keyed by the path of a kubeconfig alone, and *)
(* both ask the store without holding a lock.                              *)
(*                                                                         *)
(* The callers are the goroutines of a process: the collector of a search, *)
(* the preview, the command that fetches what was selected.  What the      *)
(* store answers is a parameter (Answer, Refuse): module StoreAccess says  *)
(* what it is.                                                             *)
(***************************************************************************)
EXTENDS Naturals, FiniteSets

CONSTANTS
  Caller,       \* goroutines that fetch kubeconfigs
  Request,      \* [path, tags] as discovered, with the cluster it stands for
  Cluster,      \* clusters a kubeconfig can lead to
  TTL,          \* of the file cache, 0 when none is configured
  MaxTime       \* bound on the clock

VARIABLES
  cacheKind,    \* "memory" or "file"
  clock,
  memo,         \* memoryCache.cache
  entry,        \* the files in the directory of the cache
  call,         \* what each caller is doing, and its last result
  cleaner       \* a `kswitch clean` of another terminal

cacheVars == <<cacheKind, clock, memo, entry, call, cleaner>>

Path == {r.path : r \in Request}
Time == 0 .. MaxTime

(***************************************************************************)
(* A kubeconfig: the cluster it leads to, when the store made it, and      *)
(* whether it is all there.                                                *)
(***************************************************************************)
Kubeconfig == [of : Cluster, at : Time, whole : BOOLEAN]
Nothing == [none |-> TRUE]

(***************************************************************************)
(* A file: form is what reading it yields, at its modification time,       *)
(* writer who truncated it last, mixed that someone else has written into  *)
(* it since.                                                               *)
(***************************************************************************)
Absent == [form |-> "absent"]
File == [form : {"empty", "torn", "whole"}, kc : Kubeconfig, at : Time,
         writer : Caller, mixed : BOOLEAN]

Idle == [pc |-> "idle"]
Ended == {"served", "answered", "failed"}

CacheInit ==
  /\ clock = 0
  /\ memo = [p \in Path |-> Nothing]
  /\ entry = [p \in Path |-> Absent]
  /\ call = [c \in Caller |-> Idle]
  /\ cleaner = [pc |-> "idle", list |-> {}]

Resting(c) == call[c].pc \in {"idle"} \cup Ended
Step(c, pc) == call' = [call EXCEPT ![c] = pc]

\* GetKubeconfigForPath of the cache is called.
Call(c, r) ==
  /\ Resting(c)
  /\ Step(c, [pc |-> "lookup", req |-> r])
  /\ UNCHANGED <<cacheKind, clock, memo, entry, cleaner>>

(***************************************************************************)
(* The memory cache.                                                       *)
(***************************************************************************)
\* Variant: what the map returns is taken for a kubeconfig.
LookupMemoUnchecked(c) ==
  /\ cacheKind = "memory" /\ call[c].pc = "lookup"
  /\ Step(c, [pc |-> "served", req |-> call[c].req,
              kc |-> memo[call[c].req.path], age |-> 0, replaced |-> FALSE])
  /\ UNCHANGED <<cacheKind, clock, memo, entry, cleaner>>

LookupMemo(c) ==
  /\ cacheKind = "memory" /\ call[c].pc = "lookup"
  /\ LET r == call[c].req IN
     IF memo[r.path] = Nothing
     THEN Step(c, [pc |-> "ask", req |-> r])
     ELSE Step(c, [pc |-> "served", req |-> r, kc |-> memo[r.path],
                   age |-> 0, replaced |-> FALSE])
  /\ UNCHANGED <<cacheKind, clock, memo, entry, cleaner>>

StoreMemo(c) ==
  /\ cacheKind = "memory" /\ call[c].pc = "keep"
  /\ LET r == call[c].req IN
     /\ memo' = [memo EXCEPT ![r.path] = call[c].kc]
     /\ Step(c, [pc |-> "answered", req |-> r, kc |-> call[c].kc])
  /\ UNCHANGED <<cacheKind, clock, entry, cleaner>>

(***************************************************************************)
(* The file cache.  The file is read and parsed; a prefix of a kubeconfig  *)
(* may parse, a file that was just truncated does not.                     *)
(***************************************************************************)
Parses(f, kc) ==
  \/ f.form = "whole" /\ kc = f.kc
  \/ f.form = "torn" /\ kc.of = f.kc.of /\ kc.at = f.kc.at /\ ~kc.whole

\* Variant: an entry that somebody has begun to write is waited for.
ReadEntryWaiting(c) ==
  /\ cacheKind = "file" /\ call[c].pc = "lookup"
  /\ LET r == call[c].req
         f == entry[r.path] IN
     \/ /\ f = Absent
        /\ Step(c, [pc |-> "ask", req |-> r])
     \/ \E kc \in Kubeconfig :
          /\ Parses(f, kc)
          /\ Step(c, [pc |-> "check", req |-> r, kc |-> kc, at |-> f.at])
  /\ UNCHANGED <<cacheKind, clock, memo, entry, cleaner>>

ReadEntry(c) ==
  /\ cacheKind = "file" /\ call[c].pc = "lookup"
  /\ LET r == call[c].req
         f == entry[r.path] IN
     \/ /\ f.form # "whole"
        /\ Step(c, [pc |-> "ask", req |-> r])
     \/ \E kc \in Kubeconfig :
          /\ Parses(f, kc)
          /\ Step(c, [pc |-> "check", req |-> r, kc |-> kc, at |-> f.at])
  /\ UNCHANGED <<cacheKind, clock, memo, entry, cleaner>>

(***************************************************************************)
(* isExpired: the file is looked at again, by its name.  A file that is    *)
(* used has its mode changed, which leaves its modification time alone.    *)
(***************************************************************************)
IsExpired(f) == TTL > 0 /\ (f = Absent \/ clock - f.at > TTL)

Served(c, kc) ==
  LET f == entry[call[c].req.path] IN
  [pc |-> "served", req |-> call[c].req, kc |-> kc, age |-> clock - kc.at,
   replaced |-> f = Absent \/ f.at # call[c].at]

\* Variant: using an entry makes it young again.
CheckEntryAndTouch(c) ==
  /\ call[c].pc = "check"
  /\ LET r == call[c].req IN
     IF IsExpired(entry[r.path])
     THEN /\ Step(c, [pc |-> "ask", req |-> r])
          /\ UNCHANGED entry
     ELSE /\ Step(c, Served(c, call[c].kc))
          /\ entry' = IF entry[r.path] = Absent THEN entry
                      ELSE [entry EXCEPT ![r.path].at = clock]
  /\ UNCHANGED <<cacheKind, clock, memo, cleaner>>

CheckEntry(c) ==
  /\ call[c].pc = "check"
  /\ LET r == call[c].req IN
     IF IsExpired(entry[r.path])
     THEN Step(c, [pc |-> "ask", req |-> r])
     ELSE Step(c, Served(c, call[c].kc))
  /\ UNCHANGED <<cacheKind, clock, memo, entry, cleaner>>

\* kubeconfigutil.New and WriteKubeconfigFile: the entry is truncated ...
TruncateEntry(c) ==
  /\ cacheKind = "file" /\ call[c].pc = "keep"
  /\ entry' = [entry EXCEPT ![call[c].req.path] =
       [form |-> "empty", kc |-> call[c].kc, at |-> clock, writer |-> c,
        mixed |-> FALSE]]
  /\ Step(c, [pc |-> "emit", req |-> call[c].req, kc |-> call[c].kc])
  /\ UNCHANGED <<cacheKind, clock, memo, cleaner>>

(***************************************************************************)
(* ... and written in pieces.  Who writes into a file that somebody else   *)
(* has truncated leaves a mixture of both; who writes into a file that was *)
(* removed changes nothing that has a name.                                *)
(***************************************************************************)
Emitted(c, form) ==
  LET f == entry[call[c].req.path]
      mine == f.writer = c IN
  IF f = Absent THEN f
  ELSE [form |-> IF mine THEN form ELSE "torn", kc |-> f.kc, at |-> clock,
        writer |-> f.writer, mixed |-> f.mixed \/ ~mine]

EmitPart(c) ==
  /\ call[c].pc = "emit"
  /\ entry' = [entry EXCEPT ![call[c].req.path] = Emitted(c, "torn")]
  /\ Step(c, [pc |-> "emitRest", req |-> call[c].req, kc |-> call[c].kc])
  /\ UNCHANGED <<cacheKind, clock, memo, cleaner>>

EmitRest(c) ==
  /\ call[c].pc = "emitRest"
  /\ LET p == call[c].req.path IN
     \E form \in IF entry[p] # Absent /\ entry[p].mixed
                 THEN {"torn", "whole"} ELSE {"whole"} :
       entry' = [entry EXCEPT ![p] = Emitted(c, form)]
  /\ Step(c, [pc |-> "answered", req |-> call[c].req, kc |-> call[c].kc])
  /\ UNCHANGED <<cacheKind, clock, memo, cleaner>>

\* What the store answers is no kubeconfig, or the write stops half way: the
\* caller gets an error, and the entry stays as it is.
KeepFails(c) ==
  /\ cacheKind = "file" /\ call[c].pc \in {"keep", "emit", "emitRest"}
  /\ Step(c, [pc |-> "failed", req |-> call[c].req, cause |-> "write"])
  /\ UNCHANGED <<cacheKind, clock, memo, entry, cleaner>>

(***************************************************************************)
(* The upstream store answers, or returns an error, which is not cached.   *)
(***************************************************************************)
Answer(c, cluster) ==
  /\ call[c].pc = "ask"
  /\ Step(c, [pc |-> "keep", req |-> call[c].req,
              kc |-> [of |-> cluster, at |-> clock, whole |-> TRUE]])
  /\ UNCHANGED <<cacheKind, clock, memo, entry, cleaner>>

Refuse(c, cause) ==
  /\ call[c].pc = "ask"
  /\ Step(c, [pc |-> "failed", req |-> call[c].req, cause |-> cause])
  /\ UNCHANGED <<cacheKind, clock, memo, entry, cleaner>>

(***************************************************************************)
(* `kswitch clean` lists the entries of the store and removes them one by  *)
(* one.                                                                    *)
(***************************************************************************)
ListEntries ==
  /\ cacheKind = "file" /\ cleaner.pc = "idle"
  /\ cleaner' = [pc |-> "flush", list |-> {p \in Path : entry[p] # Absent}]
  /\ UNCHANGED <<cacheKind, clock, memo, entry, call>>

RemoveEntry ==
  /\ cleaner.pc = "flush"
  /\ \E p \in cleaner.list :
       /\ entry' = [entry EXCEPT ![p] = Absent]
       /\ cleaner' = [cleaner EXCEPT !.list = @ \ {p}]
  /\ UNCHANGED <<cacheKind, clock, memo, call>>

EndFlush ==
  /\ cleaner.pc = "flush" /\ cleaner.list = {}
  /\ cleaner' = [cleaner EXCEPT !.pc = "idle"]
  /\ UNCHANGED <<cacheKind, clock, memo, entry, call>>

\* The process ends, wherever its goroutines are, and another one starts.
Forget ==
  /\ memo' = [p \in Path |-> Nothing]
  /\ call' = [c \in Caller |-> Idle]

(***************************************************************************)
(* Time is counted in units that are long against what a goroutine does    *)
(* with a file: no time passes between the answer of the store and the end *)
(* of the write, or between a read and the check of the age.               *)
(***************************************************************************)
Hurries == {"keep", "emit", "emitRest", "check"}

Tick ==
  /\ cacheKind = "file" /\ clock < MaxTime
  /\ \A c \in Caller : call[c].pc \notin Hurries
  /\ clock' = clock + 1
  /\ UNCHANGED <<cacheKind, memo, entry, call, cleaner>>

CallerStep(c) ==
  \/ LookupMemo(c) \/ StoreMemo(c)
  \/ ReadEntry(c) \/ CheckEntry(c) \/ TruncateEntry(c)
  \/ EmitPart(c) \/ EmitRest(c) \/ KeepFails(c)

Flush == ListEntries \/ RemoveEntry \/ EndFlush
-----------------------------------------------------------------------------
\* Why a fetch failed: the write of the entry did, or what the store says.
Cause == {"write", "init", "unknown", "request"}

CallType ==
  {Idle}
    \cup [pc : {"lookup", "ask"}, req : Request]
    \cup [pc : {"keep", "emit", "emitRest", "answered"}, req : Request,
          kc : Kubeconfig]
    \cup [pc : {"check"}, req : Request, kc : Kubeconfig, at : Time]
    \cup [pc : {"served"}, req : Request, kc : Kubeconfig, age : Time,
          replaced : BOOLEAN]
    \cup [pc : {"failed"}, req : Request, cause : Cause]

CacheTypeOK ==
  /\ cacheKind \in {"memory", "file"}
  /\ clock \in Time
  /\ memo \in [Path -> Kubeconfig \cup {Nothing}]
  /\ entry \in [Path -> File \cup {Absent}]
  /\ \A c \in Caller : call[c] \in CallType
  /\ cleaner \in [pc : {"idle", "flush"}, list : SUBSET Path]

(***************************************************************************)
(* With a TTL no kubeconfig from the file cache was made by the store      *)
(* longer ago than the TTL, whichever goroutines and processes have        *)
(* written, torn or used the entry since.  One race remains: the content   *)
(* is read before the age of the file is looked at (fileCache.go:177), so  *)
(* an old content passes if the file is rewritten in between.              *)
(***************************************************************************)
ServedIsFresh ==
  \A c \in Caller :
    call[c].pc = "served" /\ cacheKind = "file" /\ TTL > 0
      => call[c].age <= TTL \/ call[c].replaced

(***************************************************************************)
(* A kubeconfig from a cache is complete.  The code does not have this:    *)
(* the entry is rewritten in place, in pieces (kubeconfig.go:180), and who *)
(* reads it meanwhile, or after a kill or a failing write, gets a prefix.  *)
(***************************************************************************)
ServedIsWhole == \A c \in Caller : call[c].pc = "served" => call[c].kc.whole
=============================================================================
