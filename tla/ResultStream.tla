---------------------------- MODULE ResultStream ----------------------------
(***************************************************************************)
(* What doSearch promises a command that ranges over its result channel:   *)
(* either it fails and nothing is ever received, or the channel carries    *)
(* messages of stores that are still searching, and it is closed, once,    *)
(* when no store is.  How many goroutines a store has, where its contexts  *)
(* come from and how they are synchronised is not visible here.            *)
(***************************************************************************)
CONSTANTS
    Stores,    \* the configured stores
    Message    \* what a store can report, a record with a field "store"

VARIABLES
    channel,   \* "none" while doSearch runs, "refused", "open" or "closed"
    searching, \* stores that may still report something
    received   \* messages the command has received

vars == <<channel, searching, received>>

Init ==
    /\ channel = "none"
    /\ searching = Stores
    /\ received = {}

\* doSearch returns an error instead of a channel.
Refuse ==
    /\ channel = "none"
    /\ channel' = "refused"
    /\ UNCHANGED <<searching, received>>

\* doSearch returns the channel.
Open ==
    /\ channel = "none"
    /\ channel' = "open"
    /\ UNCHANGED <<searching, received>>

\* A store that is still searching reports a context or an error.
Receive(m) ==
    /\ channel = "open"
    /\ m.store \in searching
    /\ received' = received \cup {m}
    /\ UNCHANGED <<channel, searching>>

\* A store has nothing more to report.
StoreEnds(s) ==
    /\ s \in searching
    /\ searching' = searching \ {s}
    /\ UNCHANGED <<channel, received>>

\* The channel is closed after the last store has ended.
Close ==
    /\ channel = "open"
    /\ searching = {}
    /\ channel' = "closed"
    /\ UNCHANGED <<searching, received>>

Next ==
    \/ Refuse
    \/ Open
    \/ \E m \in Message : Receive(m)
    \/ \E s \in Stores : StoreEnds(s)
    \/ Close

Spec == Init /\ [][Next]_vars
=============================================================================
