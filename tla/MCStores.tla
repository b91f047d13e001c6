------------------------------ MODULE MCStores ------------------------------
(***************************************************************************)
(* Three parts of a search that share nothing, one run: a plugin store     *)
(* that is searched through its stream, a store that its callers           *)
(* initialise, and the index of a store, by one invocation after another.  *)
(* Two of them rest, so that the states add up and do not multiply.        *)
(***************************************************************************)
EXTENDS LazyInit, PluginStream, SearchIndex

CONSTANTS search, fetch, preview, p1

Goroutines == {search, fetch, preview}
SecondFails == {2, 5}
OneAtATime == {p1}

VARIABLE part  \* the one at work: "plugin", "lazy" or "index"

allVars == <<part, streamVars, ensureVars, vars>>

StoresInit ==
    part \in {"plugin", "lazy", "index"} /\ StreamInit /\ EnsureInit /\ Init

\* A step of the part at work.
Plugin(A) == part = "plugin" /\ A /\ UNCHANGED <<part, ensureVars, vars>>
Lazy(A) == part = "lazy" /\ A /\ UNCHANGED <<part, streamVars, vars>>
OfIndex(A) == part = "index" /\ A /\ UNCHANGED <<part, streamVars, ensureVars>>

StoresNext == Plugin(StreamNext) \/ Lazy(EnsureNext) \/ OfIndex(Next)

\* StreamFairness and EnsureFairness of the part at work.
Fairness ==
    /\ WF_allVars(Plugin(HostStep)) /\ WF_allVars(Plugin(PluginStep))
    /\ \A c \in Callers :
        WF_allVars(Lazy(Advance(c))) /\ SF_allVars(Lazy(Lock(c)))

FairSpec == StoresInit /\ [][StoresNext]_allVars /\ Fairness
=============================================================================
