------------------------------ MODULE LazyInit ------------------------------
(***************************************************************************)
(* lazyInit (pkg/store/lazy_init.go), embedded by the stores that connect  *)
(* to their backing API lazily (Azure, GKE, EKS, DigitalOcean, Gardener):  *)
(* ensure() is called by StartSearch, by GetKubeconfigForPath and by the   *)
(* goroutine a preview spawns.  initialize() assigns the store's fields    *)
(* one after the other; it may fail anywhere, and is then run again by the *)
(* next caller.                                                            *)
(***************************************************************************)
EXTENDS Naturals

CONSTANTS
    Callers,      \* goroutines that use the store
    NumFields,    \* fields that initialize() assigns, in this order
    MaxAttempts,  \* bound: the last attempt to initialize does not fail
    NoCaller      \* the mutex is free

Fields == 1..NumFields

ASSUME LazyInitAssumption ==
    /\ NumFields \in Nat
    /\ MaxAttempts \in Nat \ {0}
    /\ NoCaller \notin Callers

VARIABLES
    ready,     \* the atomic flag
    mu,        \* the caller that holds the mutex
    fields,    \* which attempt has assigned a field, 0 if none has
    attempts,  \* attempts to initialize so far
    position,  \* how many fields the running attempt has assigned
    caller     \* where a caller is

ensureVars == <<ready, mu, fields, attempts, position, caller>>

LazyTypeOK ==
    /\ ready \in BOOLEAN
    /\ mu \in Callers \cup {NoCaller}
    /\ fields \in [Fields -> 0..MaxAttempts]
    /\ attempts \in 0..MaxAttempts
    /\ position \in 0..NumFields
    /\ caller \in [Callers -> {"idle", "load", "lock", "recheck", "init",
                               "unlock", "using", "failed"}]

EnsureInit ==
    /\ ready = FALSE
    /\ mu = NoCaller
    /\ fields = [f \in Fields |-> 0]
    /\ attempts = 0
    /\ position = 0
    /\ caller = [c \in Callers |-> "idle"]

Reach(c, label) == caller' = [caller EXCEPT ![c] = label]

\* GetKubeconfigForPath and GetSearchPreview ask done() first.
Done(c) ==
    /\ caller[c] = "idle"
    /\ ready
    /\ Reach(c, "using")
    /\ UNCHANGED <<ready, mu, fields, attempts, position>>

\* StartSearch, or one of them that was told the store is not ready.
Ensure(c) ==
    /\ caller[c] = "idle"
    /\ Reach(c, "load")
    /\ UNCHANGED <<ready, mu, fields, attempts, position>>

\* The fast path of ensure().
Load(c) ==
    /\ caller[c] = "load"
    /\ Reach(c, IF ready THEN "using" ELSE "lock")
    /\ UNCHANGED <<ready, mu, fields, attempts, position>>

\* Variant: the mutex is not there.
LockNothing(c) ==
    /\ caller[c] = "lock"
    /\ mu' = c
    /\ Reach(c, "recheck")
    /\ UNCHANGED <<ready, fields, attempts, position>>

Lock(c) ==
    /\ caller[c] = "lock"
    /\ mu = NoCaller
    /\ mu' = c
    /\ Reach(c, "recheck")
    /\ UNCHANGED <<ready, fields, attempts, position>>

StartInit(c) ==
    /\ caller[c] = "recheck"
    /\ attempts < MaxAttempts
    /\ attempts' = attempts + 1
    /\ position' = 0
    /\ Reach(c, "init")
    /\ UNCHANGED <<ready, mu, fields>>

\* Variant: the flag is not checked again under the lock.
RecheckNothing(c) == StartInit(c)

\* Another caller may have initialised the store meanwhile.
Recheck(c) ==
    \/ ~ready /\ StartInit(c)
    \/ /\ caller[c] = "recheck"
       /\ ready
       /\ Reach(c, "unlock")
       /\ UNCHANGED <<ready, mu, fields, attempts, position>>

\* Variant: off by one at the last field.
AssignPastEnd(c) ==
    /\ caller[c] = "init"
    /\ position <= NumFields
    /\ position' = position + 1
    /\ fields' = [fields EXCEPT ![position'] = attempts]
    /\ UNCHANGED <<ready, mu, attempts, caller>>

\* initialize() assigns the next field.
Assign(c) ==
    /\ caller[c] = "init"
    /\ position < NumFields
    /\ position' = position + 1
    /\ fields' = [fields EXCEPT ![position'] = attempts]
    /\ UNCHANGED <<ready, mu, attempts, caller>>

\* initialize() returns an error, ensure() unlocks and returns it.
Fail(c) ==
    /\ caller[c] = "init"
    /\ attempts < MaxAttempts
    /\ mu' = NoCaller
    /\ Reach(c, "failed")
    /\ UNCHANGED <<ready, fields, attempts, position>>

\* Variant: the flag is set although initialize() is still at work.
PublishEarly(c) ==
    /\ caller[c] = "init"
    /\ ready' = TRUE
    /\ UNCHANGED <<mu, fields, attempts, position, caller>>

\* initialize() has returned nil: ready.Store(true).
Publish(c) ==
    /\ caller[c] = "init"
    /\ position = NumFields
    /\ ready' = TRUE
    /\ Reach(c, "unlock")
    /\ UNCHANGED <<mu, fields, attempts, position>>

\* Variant: the slow path returns with the mutex locked.
UnlockNever(c) ==
    /\ caller[c] = "unlock"
    /\ Reach(c, "using")
    /\ UNCHANGED <<ready, mu, fields, attempts, position>>

Unlock(c) ==
    /\ caller[c] = "unlock"
    /\ mu' = NoCaller
    /\ Reach(c, "using")
    /\ UNCHANGED <<ready, fields, attempts, position>>

\* The caller is done with the fields, or with the error.
Return(c) ==
    /\ caller[c] \in {"using", "failed"}
    /\ Reach(c, "idle")
    /\ UNCHANGED <<ready, mu, fields, attempts, position>>

\* What a caller inside ensure() does next.
Advance(c) ==
    Load(c) \/ Lock(c) \/ Recheck(c) \/ Assign(c) \/ Fail(c) \/ Publish(c)
    \/ Unlock(c)

EnsureNext ==
    \E c \in Callers : Done(c) \/ Ensure(c) \/ Advance(c) \/ Return(c)

EnsureSpec == EnsureInit /\ [][EnsureNext]_ensureVars

\* A goroutine that can run does, initialize() returns, and sync.Mutex hands
\* the lock to a waiter that has been starving.
EnsureFairness ==
    \A c \in Callers : WF_ensureVars(Advance(c)) /\ SF_ensureVars(Lock(c))

EnsureFairSpec == EnsureSpec /\ EnsureFairness

-----------------------------------------------------------------------------
(* Properties.                                                             *)

\* "serialises a fallible, one-time initialisation": initialize() never runs
\* twice at the same time, and its caller is the one that holds the mutex.
InitIsSerial ==
    \A c \in Callers : caller[c] \in {"recheck", "init", "unlock"} => mu = c

\* "running the initialisation [not] more than once" and "exposing [no]
\* half-populated fields": whoever uses the store sees every field as the one
\* successful attempt has assigned it, also after earlier attempts failed half
\* way.
UsersSeeOneInit ==
    \A c \in Callers : caller[c] = "using" =>
        /\ ready
        /\ \A f \in Fields : fields[f] = attempts

\* After the first success no field is assigned and nothing starts anew.
InitHappensOnce ==
    [][ready => UNCHANGED <<ready, fields, attempts>>]_ensureVars

\* Nobody waits forever: ensure() returns to every caller, although a failed
\* initialisation sends the next one through the whole of it again.
EnsureReturns ==
    \A c \in Callers : caller[c] = "load" ~> caller[c] \in {"using", "failed"}
=============================================================================
