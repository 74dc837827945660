------------------------------ MODULE ChatStream ------------------------------
(* POST /chat/stream: the handler (handler/chat_handler.go) and the goroutine  *)
(* it starts, which reads the LLM's stream line by line (client/llm_client.go) *)
(* and writes the response through the handler's gin context; and POST /chat,  *)
(* which waits for the LLM's whole answer.                                     *)
EXTENDS Naturals, Sequences, SequencesExt

CONSTANTS
    Streams,        \* slots: requests that are handled at the same time
    MaxDeltas       \* deltas of a stream

ASSUME DeltasAssumption == MaxDeltas \in Nat

VARIABLES
    handler,        \* where ChatStreamHandler stands, or ChatHandler
    child,          \* where its goroutine stands, inside ChatStream
    result,         \* errCh, and then the handler's err
    events,         \* what was written to the response of a stream
    broken          \* history: streams the LLM did not serve to their end

streamVars == <<handler, child, result, events, broken>>

StreamInit ==
    /\ handler = [r \in Streams |-> "idle"]
    /\ child   = [r \in Streams |-> "none"]
    /\ result  = [r \in Streams |-> "none"]
    /\ events  = [r \in Streams |-> <<>>]
    /\ broken  = {}

-------------------------------------------------------------------------------
Begin(r, handlerAt, childAt) ==
    /\ handler[r] = "idle"
    /\ handler' = [handler EXCEPT ![r] = handlerAt]
    /\ child'   = [child EXCEPT ![r] = childAt]
    /\ result'  = [result EXCEPT ![r] = "none"]
    /\ events'  = [events EXCEPT ![r] = <<>>]
    /\ broken'  = broken \ {r}

(* The headers are set and the goroutine started; a request for ChatHandler;   *)
(* the slot turns to another service.                                          *)
ReceiveStream(r) == Begin(r, "wait", "call")
ReceiveChat(r)   == Begin(r, "chat", "none")
ForgetStream(r)  == Begin(r, "idle", "none")

Child(r, at, next) ==
    /\ child[r] = at
    /\ child' = [child EXCEPT ![r] = next]
    /\ UNCHANGED handler

(* ChatStream returns, and the goroutine ends: errCh has room for its error.   *)
(* And one that only speaks of success.                                        *)
ReturnSilent(r, at, err) ==
    /\ Child(r, at, "none")
    /\ result' = [result EXCEPT ![r] = IF err = "nil" THEN err ELSE @]
    /\ UNCHANGED events
Return(r, at, err) ==
    /\ Child(r, at, "none")
    /\ result' = [result EXCEPT ![r] = err]
    /\ UNCHANGED events

Breaks(r) == broken' = broken \cup {r}

(* No connection, a status other than 200, 30 s over. *)
LLMUnreachable(r) == Return(r, "call", "err") /\ Breaks(r)
LLMAccepts(r) == Child(r, "call", "read") /\ UNCHANGED <<result, events, broken>>

(* The next line with a delta; lines that are not data, or broken, or without  *)
(* a delta are skipped.                                                        *)
ScanDelta(r) ==
    /\ Len(events[r]) < MaxDeltas
    /\ Child(r, "read", "send")
    /\ UNCHANGED <<result, events, broken>>

(* [DONE], or the end of the body without it. *)
ScanEnd(r) == Return(r, "read", "nil") /\ UNCHANGED broken

(* 30 s over, a line of more than 64 KB, the connection broken; and a version  *)
(* that does not look at scanner.Err.                                          *)
ScanNoErr(r) == Return(r, "read", "nil") /\ Breaks(r)
ScanFails(r) == Return(r, "read", "err") /\ Breaks(r)

Written(r, event) == events' = [events EXCEPT ![r] = Append(@, event)]

(* onChunk: SSEvent and Flush; what became of the client is not looked at.     *)
(* And one that sends the event again.                                         *)
OnChunkTwice(r) ==
    /\ Child(r, "send", "read")
    /\ events' = [events EXCEPT ![r] = @ \o <<"delta", "delta">>]
    /\ UNCHANGED <<result, broken>>
OnChunk(r) ==
    /\ Child(r, "send", "read")
    /\ Written(r, "delta")
    /\ UNCHANGED <<result, broken>>

ChildStep(r) ==
    \/ LLMUnreachable(r) \/ LLMAccepts(r)
    \/ ScanDelta(r) \/ ScanEnd(r) \/ ScanFails(r) \/ OnChunk(r)

-------------------------------------------------------------------------------
Handler(r, at, next) ==
    /\ handler[r] = at
    /\ handler' = [handler EXCEPT ![r] = next]
    /\ UNCHANGED <<child, result, broken>>

(* <-errCh; and a handler that also goes on when the client has left.          *)
GoOn(r) ==
    /\ Handler(r, "wait", IF result[r] = "err" THEN "fallback" ELSE "done")
    /\ UNCHANGED events
ReceiveErr(r) == result[r] # "none" /\ GoOn(r)

WriteFallback(r) == Handler(r, "fallback", "done") /\ Written(r, "fallback")
WriteDone(r)     == Handler(r, "done", "idle") /\ Written(r, "done")

(* ChatHandler: the answer, or 5001 for any error of Chat. *)
ChatReturns(r) ==
    /\ handler[r] = "chat"
    /\ handler' = [handler EXCEPT ![r] = "idle"]
    /\ \E err \in {"nil", "err"} : result' = [result EXCEPT ![r] = err]
    /\ UNCHANGED <<child, events, broken>>

StreamStep(r) ==
    \/ ChildStep(r) \/ ReceiveErr(r) \/ WriteFallback(r) \/ WriteDone(r)
    \/ ChatReturns(r)

-------------------------------------------------------------------------------
StreamTypeOK ==
    /\ handler \in [Streams -> {"idle", "chat", "wait", "fallback", "done"}]
    /\ child   \in [Streams -> {"none", "call", "read", "send"}]
    /\ result  \in [Streams -> {"none", "nil", "err"}]
    /\ broken \subseteq Streams
    /\ \A r \in Streams : /\ ToSet(events[r]) \subseteq {"delta", "fallback", "done"}
                           /\ Len(events[r]) <= MaxDeltas + 2

(* The goroutine writes through the handler's context only while the handler   *)
(* waits for it: never beside the handler, never after it returned, when gin   *)
(* has given the context to another request (chat_handler.go:52-69).           *)
OneWriter == \A r \in Streams : child[r] # "none" => handler[r] = "wait"

(* A response that was written to its end is any deltas, the fallback if and   *)
(* only if the LLM failed, be it after some deltas, and one done.              *)
StreamWellFormed ==
    \A r \in Streams :
        handler[r] = "idle" /\ events[r] # <<>> =>
            LET tail == IF r \in broken THEN <<"fallback", "done">> ELSE <<"done">>
                n    == Len(events[r]) - Len(tail)
            IN  events[r] = [k \in 1..n |-> "delta"] \o tail
===============================================================================
