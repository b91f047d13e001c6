---------------------------- MODULE PluginStream ----------------------------
(***************************************************************************)
(* A search through a plugin store: the plugin's own StartSearch, the gRPC *)
(* server that wraps it in the plugin process (GRPCServer.StartSearch),    *)
(* the stream, the client in kswitch (GRPCClient.StartSearch, called by    *)
(* PluginStore.StartSearch), the searcher goroutine of doSearch that       *)
(* called it and closes the search channel when it returns, and the        *)
(* collector that ranges over that channel.                                *)
(*                                                                         *)
(* A result of the plugin is a path, or an error.  The message on the      *)
(* stream has a path only: the server leaves the error out, so that it     *)
(* reaches the collector as an ordinary result with an empty path.         *)
(*                                                                         *)
(* Go channels are unbuffered: a send and its receive are one step.  The   *)
(* stream is reliable and ordered, and ends with io.EOF when the handler   *)
(* returns or with another error when the plugin process dies.             *)
(***************************************************************************)
EXTENDS Naturals, SequencesExt

CONSTANTS
    NumResults,      \* results of the plugin: 1, 2, ..., in this order
    Failing,         \* which of them are errors
    PluginDies       \* TRUE: the plugin process may die

SearchError == 0     \* the client could not start the plugin or the stream
NoResult == NumResults + 1
EmptyPath == NumResults + 2

ASSUME PluginAssumption ==
    /\ NumResults \in Nat
    /\ Failing \subseteq 1..NumResults
    /\ PluginDies \in BOOLEAN

\* The path in the message that the server makes of a result.
PathIn(result) == IF result \in Failing THEN EmptyPath ELSE result

Paths == 1..NumResults \cup {EmptyPath}

VARIABLES
    impl,        \* the plugin's StartSearch: "idle", "running", "returned"
    sent,        \* how many results it has handed to the server
    implClosed,  \* the plugin's channel is closed
    held,        \* result the server has received and not sent yet
    server,      \* the handler: "idle", "ranging", "returned", "dead"
    stream,      \* paths on the wire
    client,      \* "init", "call", "recv", "send", "returned"
    message,     \* path the client has received and not passed on
    closes,      \* how often the search channel has been closed
    searcher,    \* goroutine of doSearch: "searching", "ended", "panicked"
    received     \* what the collector has received: paths, or an error

streamVars == <<impl, sent, implClosed, held, server, stream, client, message,
                closes, searcher, received>>
pluginVars == <<impl, sent, implClosed, held, server>>
clientVars == <<client, message, closes, searcher, received>>

StreamTypeOK ==
    /\ impl \in {"idle", "running", "returned"}
    /\ sent \in 0..NumResults
    /\ implClosed \in BOOLEAN
    /\ held \in 1..NoResult
    /\ server \in {"idle", "ranging", "returned", "dead"}
    /\ stream \in Seq(Paths)
    /\ client \in {"init", "call", "recv", "send", "returned"}
    /\ message \in Paths \cup {NoResult}
    /\ closes \in 0..1
    /\ searcher \in {"searching", "ended", "panicked"}
    /\ received \in Seq(Paths \cup {SearchError})

StreamInit ==
    /\ impl = "idle"
    /\ sent = 0
    /\ implClosed = FALSE
    /\ held = NoResult
    /\ server = "idle"
    /\ stream = <<>>
    /\ client = "init"
    /\ message = NoResult
    /\ closes = 0
    /\ searcher = "searching"
    /\ received = <<>>

-----------------------------------------------------------------------------
(* The client in kswitch.                                                  *)

\* A single error result goes to the collector, and StartSearch returns.
Report(label) ==
    /\ received' = Append(received, SearchError)
    /\ client' = label

\* PluginStore.StartSearch: InitializePluginStore launches the plugin.
InitializePluginStore ==
    /\ client = "init"
    /\ \/ client' = "call" /\ UNCHANGED received
       \/ Report("returned")
    /\ UNCHANGED <<pluginVars, stream, message, closes, searcher>>

\* The call opens the stream and starts the handler in the plugin.
OpenStream ==
    /\ client = "call"
    /\ server = "idle"
    /\ client' = "recv"
    /\ server' = "ranging"
    /\ impl' = "running"
    /\ UNCHANGED <<sent, implClosed, held, stream, message, closes, searcher,
                   received>>

OpenFails ==
    /\ client = "call"
    /\ Report("returned")
    /\ UNCHANGED <<pluginVars, stream, message, closes, searcher>>

\* stream.Recv returns a result.
Recv ==
    /\ client = "recv"
    /\ stream # <<>>
    /\ message' = Head(stream)
    /\ stream' = Tail(stream)
    /\ client' = "send"
    /\ UNCHANGED <<pluginVars, closes, searcher, received>>

\* Variant: a result handed on is counted as a close.
ForwardAndClose ==
    /\ client = "send"
    /\ received' = Append(received, message)
    /\ message' = NoResult
    /\ client' = "recv"
    /\ closes' = closes + 1
    /\ UNCHANGED <<pluginVars, stream, searcher>>

\* The client hands it to the collector, as a result without an error.
Forward ==
    /\ client = "send"
    /\ received' = Append(received, message)
    /\ message' = NoResult
    /\ client' = "recv"
    /\ UNCHANGED <<pluginVars, stream, closes, searcher>>

\* stream.Recv returns an error: io.EOF after the last result, or the end of
\* the plugin process.  The client closes the search channel and returns.
RecvFails ==
    /\ client = "recv"
    /\ \/ server = "returned" /\ stream = <<>>
       \/ server = "dead"
    /\ closes' = closes + 1
    /\ client' = "returned"
    /\ UNCHANGED <<pluginVars, stream, message, searcher, received>>

\* The searcher goroutine: StartSearch has returned, the deferred close runs.
\* To close a channel that is closed panics, and ends the process.
SearcherEnds ==
    /\ client = "returned"
    /\ searcher = "searching"
    /\ \/ /\ closes = 0
          /\ closes' = 1
          /\ searcher' = "ended"
       \/ /\ closes = 1
          /\ searcher' = "panicked"
          /\ UNCHANGED closes
    /\ UNCHANGED <<pluginVars, stream, client, message, received>>

-----------------------------------------------------------------------------
(* The plugin process.                                                     *)

\* The plugin sends its next result, the range loop of the server gets it.
ImplSends ==
    /\ impl = "running"
    /\ server = "ranging"
    /\ held = NoResult
    /\ sent < NumResults
    /\ sent' = sent + 1
    /\ held' = sent'
    /\ UNCHANGED <<impl, implClosed, server, stream, clientVars>>

\* The plugin's StartSearch returns; whether it closes its channel is up to
\* the plugin: its interface does not say.
ImplReturns ==
    /\ impl = "running"
    /\ server # "dead"
    /\ sent = NumResults
    /\ impl' = "returned"
    /\ implClosed' \in BOOLEAN
    /\ UNCHANGED <<sent, held, server, stream, clientVars>>

\* Variant: the server drops a result that is an error.
ServerSkipsErrors ==
    /\ server = "ranging"
    /\ held # NoResult
    /\ stream' = IF held \in Failing THEN stream
                                     ELSE Append(stream, PathIn(held))
    /\ held' = NoResult
    /\ UNCHANGED <<impl, sent, implClosed, server, clientVars>>

\* The server sends the path and the tags of a result.
ServerSends ==
    /\ server = "ranging"
    /\ held # NoResult
    /\ stream' = Append(stream, PathIn(held))
    /\ held' = NoResult
    /\ UNCHANGED <<impl, sent, implClosed, server, clientVars>>

\* Variant: the server waits for an answer of the client before it returns.
ServerReturnsWhenRead ==
    /\ server = "ranging"
    /\ held = NoResult
    /\ implClosed
    /\ client = "send"
    /\ server' = "returned"
    /\ UNCHANGED <<impl, sent, implClosed, held, stream, clientVars>>

\* The range loop ends when the plugin's channel is closed.
ServerReturns ==
    /\ server = "ranging"
    /\ held = NoResult
    /\ implClosed
    /\ server' = "returned"
    /\ UNCHANGED <<impl, sent, implClosed, held, stream, clientVars>>

Die ==
    /\ PluginDies
    /\ server \in {"ranging", "returned"}
    /\ server' = "dead"
    /\ impl' = "returned"
    /\ UNCHANGED <<sent, implClosed, held, stream, clientVars>>

HostStep ==
    InitializePluginStore \/ OpenStream \/ OpenFails \/ Recv \/ Forward
    \/ RecvFails \/ SearcherEnds

PluginStep == ImplSends \/ ImplReturns \/ ServerSends \/ ServerReturns

\* The search is over.
Ended == searcher # "searching" /\ UNCHANGED streamVars

StreamNext == HostStep \/ PluginStep \/ Die \/ Ended

StreamSpec == StreamInit /\ [][StreamNext]_streamVars

\* Both processes run, and the stream delivers.
StreamFairness == WF_streamVars(HostStep) /\ WF_streamVars(PluginStep)

StreamFairSpec == StreamSpec /\ StreamFairness

-----------------------------------------------------------------------------
(* Properties.                                                             *)

\* One message for each result of the plugin, in the plugin's order.
Messages == [i \in 1..NumResults |-> PathIn(i)]

\* The collector gets a message for each of the plugin's results, in the
\* plugin's order, each once and none skipped; or one error: never both, even
\* if the plugin dies.
ReceivedInOrder ==
    \/ received = <<SearchError>>
    \/ IsPrefix(received, Messages)

\* Unless the plugin dies, a search channel is closed after all of them.
NothingLostOnStream ==
    closes > 0 /\ server # "dead" =>
        received = <<SearchError>> \/ received = Messages

\* Nothing is lost, doubled or reordered between the two processes.  That an
\* error of the plugin arrives as an empty path is part of what is said here.
DeliveredInOrder == ReceivedInOrder /\ NothingLostOnStream

\* When the plugin has closed its channel, or has died, StartSearch of the
\* client returns, with whatever is still on its way.  (The goroutine that
\* called it then closes the channel again, and panics: see ClosedOnce.)
SearchEnds ==
    client \in {"recv", "send"} /\ (implClosed \/ server = "dead")
        ~> searcher # "searching"

\* "only close when directory search is over" (search.go): the channel that
\* the searcher goroutine closes is still open.
ClosedOnce == searcher # "panicked"
=============================================================================
