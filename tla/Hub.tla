---------------------------------- MODULE Hub ----------------------------------
(* The WebSocket hub: internal/websocket/hub.go, the two pumps of every        *)
(* connection (internal/websocket/client.go), the upgrade handler that joins   *)
(* them (internal/handler/ws_handler.go) and, of the code that calls the hub,  *)
(* what reaches it: the orchestrator's reply or broadcast, run inside          *)
(* ReadPump, and the broadcast of the MQTT status callback in cmd/server.      *)
(*                                                                             *)
(* One goroutine runs the hub, two run each connection.  Register, Unregister  *)
(* and Broadcast are unbuffered channels, so a send and its receive are one    *)
(* step (HubTake...); what the hub then does under its mutex is another.       *)
EXTENDS Naturals, FiniteSets

CONSTANTS
    Conns,      \* client objects (*Client); a finished one may be used again
    Users,      \* user ids
    UserOf,     \* the user a connection was authenticated as
    SendCap,    \* capacity of Client.Send (256 in the code)
    NoConn      \* no connection

ASSUME ConnsAssumption   == IsFiniteSet(Conns) /\ NoConn \notin Conns
ASSUME UserOfAssumption  == UserOf \in [Conns -> Users]
ASSUME SendCapAssumption == SendCap \in Nat \ {0}

VARIABLES
    clients,    \* Hub.Clients: user -> set of connections ({}: no such key)
    closed,     \* connections whose Send channel has been closed
    pending,    \* number of messages buffered in Send
    readPump,   \* where the upgrade handler, then ReadPump, of c stands
    writePump,  \* where WritePump of c stands
    socket,     \* "open" until either pump calls Conn.Close
    hubAt,      \* where Hub.run stands
    hubConn,    \* the client of the case being executed
    hubTodo,    \* members the broadcast loop has still to visit
    seen,       \* members SendToUser's unlocked range has gone past
    target,     \* the member SendToUser is about to send to
    mqtt,       \* the MQTT status callback: "idle" or "posting" a broadcast
    crashed     \* why the process died, or "no"

connVars == <<pending, readPump, writePump, socket, seen, target>>
hubVars  == <<clients, closed, hubAt, hubConn, hubTodo>>
vars     == <<clients, closed, pending, readPump, writePump, socket, hubAt,
              hubConn, hubTodo, seen, target, mqtt, crashed>>

ReadStates  == {"idle", "register", "reading", "handling", "range", "send",
                "posting", "leaving", "closing", "gone"}
WriteStates == {"none", "select", "writing", "gone"}
HubStates   == {"select", "register", "markOnline", "unregister",
                "markOffline", "broadcast"}
Faults      == {"no", "sendOnClosed", "hubSendOnClosed", "closeOfClosed",
                "mapFault"}

Init ==
    /\ clients   = [u \in Users |-> {}]
    /\ closed    = {}
    /\ pending   = [c \in Conns |-> 0]
    /\ readPump  = [c \in Conns |-> "idle"]
    /\ writePump = [c \in Conns |-> "none"]
    /\ socket    = [c \in Conns |-> "open"]
    /\ hubAt     = "select"
    /\ hubConn   = NoConn
    /\ hubTodo   = {}
    /\ seen      = [c \in Conns |-> {}]
    /\ target    = [c \in Conns |-> NoConn]
    /\ mqtt      = "idle"
    /\ crashed   = "no"

Registered == UNION {clients[u] : u \in Users}

(* Every goroutine stops when one of them panics. *)
Running == crashed = "no"

ReadStep(c, from, to) ==
    /\ Running
    /\ readPump[c] = from
    /\ readPump' = [readPump EXCEPT ![c] = to]

WriteStep(c, from, to) ==
    /\ Running
    /\ writePump[c] = from
    /\ writePump' = [writePump EXCEPT ![c] = to]

HubStep(from, to) ==
    /\ Running
    /\ hubAt = from
    /\ hubAt' = to

-------------------------------------------------------------------------------
(* select { case client.Send <- msg: default: }: dropped when the buffer is    *)
(* full, so that no member makes its sender wait.  Twice wrong: with no limit, *)
(* and without the default.                                                    *)
EnqueueUnbounded(d) == pending' = [pending EXCEPT ![d] = @ + 1]
EnqueueOrWait(d) ==
    /\ pending[d] < SendCap
    /\ pending' = [pending EXCEPT ![d] = @ + 1]
Enqueue(d) ==
    pending' = [pending EXCEPT ![d] = IF @ < SendCap THEN @ + 1 ELSE @]

(* The upgrade handler: the connection is authenticated and upgraded, the      *)
(* client is made, and the handler blocks on hub.Register <- client.           *)
Connect(c) ==
    /\ ReadStep(c, "idle", "register")
    /\ UNCHANGED <<hubVars, pending, writePump, socket, seen, target, mqtt,
                   crashed>>

(* ReadMessage returned a frame; ReadPump calls Hub.OnMessage.  A frame read   *)
(* ahead may still be returned after the socket was closed.                    *)
ReadMessage(c) ==
    /\ ReadStep(c, "reading", "handling")
    /\ UNCHANGED <<hubVars, pending, writePump, socket, seen, target, mqtt,
                   crashed>>

(* The peer left, the read deadline passed or the socket was closed. *)
ReadError(c) ==
    /\ ReadStep(c, "reading", "leaving")
    /\ UNCHANGED <<hubVars, pending, writePump, socket, seen, target, mqtt,
                   crashed>>

(* HandleMessage answers the user alone: SendToUser looks the user's set up    *)
(* under the read lock, releases it, and ranges over the set.  The set object  *)
(* it holds stays the one in clients for the whole range: c itself is a member *)
(* of it, or is the client the hub is inserting, until c's own ReadPump ends.  *)
ReplyToUser(c) ==
    /\ ReadStep(c, "handling",
                IF clients[UserOf[c]] = {} THEN "reading" ELSE "range")
    /\ UNCHANGED <<hubVars, pending, writePump, socket, seen, target, mqtt,
                   crashed>>

(* HandleMessage took the command branch: hub.Broadcast <- result blocks until *)
(* the hub receives it.                                                        *)
PostBroadcast(c) ==
    /\ ReadStep(c, "handling", "posting")
    /\ UNCHANGED <<hubVars, pending, writePump, socket, seen, target, mqtt,
                   crashed>>

Unvisited(c) == clients[UserOf[c]] \ seen[c]

(* The range yields its next key, without the lock. *)
SendNext(c, d) ==
    /\ d \in Unvisited(c)
    /\ ReadStep(c, "range", "send")
    /\ seen'   = [seen EXCEPT ![c] = @ \cup {d}]
    /\ target' = [target EXCEPT ![c] = d]
    /\ UNCHANGED <<hubVars, pending, writePump, socket, mqtt, crashed>>

(* A non-blocking send; a panic when the hub closed the channel meanwhile.     *)
SendTry(c) ==
    LET d == target[c] IN
    /\ Running
    /\ readPump[c] = "send"
    /\ IF d \in closed
       THEN /\ crashed' = "sendOnClosed"
            /\ UNCHANGED <<pending, readPump, target>>
       ELSE /\ Enqueue(d)
            /\ readPump' = [readPump EXCEPT ![c] = "range"]
            /\ target'   = [target EXCEPT ![c] = NoConn]
            /\ UNCHANGED crashed
    /\ UNCHANGED <<hubVars, writePump, socket, seen, mqtt>>

SendDone(c) ==
    /\ Unvisited(c) = {}
    /\ ReadStep(c, "range", "reading")
    /\ seen' = [seen EXCEPT ![c] = {}]
    /\ UNCHANGED <<hubVars, pending, writePump, socket, target, mqtt, crashed>>

(* The rest of ReadPump's defer, after the hub took the Unregister: Conn.Close *)
ReaderClose(c) ==
    /\ ReadStep(c, "closing", "gone")
    /\ socket' = [socket EXCEPT ![c] = "closed"]
    /\ UNCHANGED <<hubVars, pending, writePump, seen, target, mqtt, crashed>>

(* No goroutine refers to c any more; the slot serves a later connection. *)
Recycle(c) ==
    /\ Running
    /\ readPump[c] = "gone" /\ writePump[c] = "gone"
    /\ hubConn # c
    /\ \A d \in Conns : target[d] # c
    /\ readPump'  = [readPump EXCEPT ![c] = "idle"]
    /\ writePump' = [writePump EXCEPT ![c] = "none"]
    /\ socket'    = [socket EXCEPT ![c] = "open"]
    /\ pending'   = [pending EXCEPT ![c] = 0]
    /\ closed'    = closed \ {c}
    /\ UNCHANGED <<clients, hubAt, hubConn, hubTodo, seen, target, mqtt, crashed>>

-------------------------------------------------------------------------------
(* WritePump: one select over Send and the ping ticker. *)
WriterReceive(c) ==
    /\ pending[c] > 0
    /\ WriteStep(c, "select", "writing")
    /\ pending' = [pending EXCEPT ![c] = @ - 1]
    /\ UNCHANGED <<hubVars, readPump, socket, seen, target, mqtt, crashed>>

WriterTick(c) ==
    /\ WriteStep(c, "select", "writing")
    /\ UNCHANGED <<hubVars, pending, readPump, socket, seen, target, mqtt,
                   crashed>>

(* Send is closed and drained: a close frame, then the deferred Conn.Close. *)
WriterClosed(c) ==
    /\ c \in closed /\ pending[c] = 0
    /\ WriteStep(c, "select", "gone")
    /\ socket' = [socket EXCEPT ![c] = "closed"]
    /\ UNCHANGED <<hubVars, pending, readPump, seen, target, mqtt, crashed>>

WriteOk(c) ==
    /\ socket[c] = "open"
    /\ WriteStep(c, "writing", "select")
    /\ UNCHANGED <<hubVars, pending, readPump, socket, seen, target, mqtt,
                   crashed>>

(* A WritePump whose defer does not close the socket. *)
WriteErrorNoClose(c) ==
    /\ WriteStep(c, "writing", "gone")
    /\ UNCHANGED <<hubVars, pending, readPump, socket, seen, target, mqtt, crashed>>

(* The write failed or its 10 s deadline passed; the defer closes the socket. *)
WriteError(c) ==
    /\ WriteStep(c, "writing", "gone")
    /\ socket' = [socket EXCEPT ![c] = "closed"]
    /\ UNCHANGED <<hubVars, pending, readPump, seen, target, mqtt, crashed>>

-------------------------------------------------------------------------------
(* Hub.run.  The rendezvous on Register returns the upgrade handler, which     *)
(* starts both pumps before the hub has inserted the client.                   *)
HubTakeRegister(c) ==
    /\ HubStep("select", "register")
    /\ readPump[c] = "register"
    /\ readPump'  = [readPump EXCEPT ![c] = "reading"]
    /\ writePump' = [writePump EXCEPT ![c] = "select"]
    /\ hubConn' = c
    /\ UNCHANGED <<clients, closed, hubTodo, pending, socket, seen, target, mqtt,
                   crashed>>

(* Under the lock.  A range in progress over the same set may yield the new    *)
(* key or go past it: passed are the ranges that will not.                     *)
HubRegister ==
    LET u == UserOf[hubConn]
    IN  /\ HubStep("register", IF clients[u] = {} THEN "markOnline" ELSE "select")
        /\ clients' = [clients EXCEPT ![u] = @ \cup {hubConn}]
        /\ hubConn' = IF clients[u] = {} THEN hubConn ELSE NoConn
        /\ \E passed \in SUBSET {d \in Conns : /\ UserOf[d] = u
                                               /\ readPump[d] \in {"range", "send"}} :
              seen' = [d \in Conns |-> IF d \in passed THEN seen[d] \cup {hubConn}
                                                       ELSE seen[d]]
        /\ UNCHANGED <<closed, hubTodo, pending, readPump, writePump, socket,
                       target, mqtt, crashed>>

(* markUserOnline / markUserOffline: the Redis calls, made outside the lock by *)
(* the hub's own goroutine (their effect is the subject of UserPresence).      *)
HubMark ==
    /\ HubStep(hubAt, "select")
    /\ hubAt \in {"markOnline", "markOffline"}
    /\ hubConn' = NoConn
    /\ UNCHANGED <<clients, closed, hubTodo, connVars, mqtt, crashed>>

HubTakeUnregister(c) ==
    /\ HubStep("select", "unregister")
    /\ readPump[c] = "leaving"
    /\ readPump' = [readPump EXCEPT ![c] = "closing"]
    /\ hubConn' = c
    /\ UNCHANGED <<clients, closed, hubTodo, pending, writePump, socket, seen,
                   target, mqtt, crashed>>

(* delete(set, client), and Send closed without it. *)
WithoutForgotten(set, c) == set
Without(set, c) == set \ {c}

(* close(client.Send), and an Unregister that forgets it. *)
NothingClosed(c) == closed
Closing(c) == closed \cup {c}

(* Under the lock: a client that is not in its user's set is skipped; the      *)
(* others leave the set and have their Send closed.                            *)
HubUnregister ==
    LET u      == UserOf[hubConn]
        absent == hubConn \notin clients[u]
        isLast == clients[u] = {hubConn}
    IN  /\ HubStep("unregister", IF isLast THEN "markOffline" ELSE "select")
        /\ clients' = [clients EXCEPT ![u] = Without(@, hubConn)]
        /\ closed'  = IF absent THEN closed ELSE Closing(hubConn)
        /\ crashed' = IF ~absent /\ hubConn \in closed THEN "closeOfClosed"
                                                       ELSE crashed
        /\ hubConn' = IF isLast THEN hubConn ELSE NoConn
        /\ UNCHANGED <<hubTodo, connVars, mqtt>>

(* The map of one user is written under the lock while a SendToUser of that    *)
(* user ranges over it without: the Go runtime may stop the process ("fatal    *)
(* error: concurrent map iteration and map write").                            *)
MapFault ==
    /\ Running
    /\ \/ hubAt = "register"
       \/ hubAt = "unregister" /\ hubConn \in clients[UserOf[hubConn]]
    /\ \E c \in Conns : UserOf[c] = UserOf[hubConn] /\ readPump[c] = "range"
    /\ crashed' = "mapFault"
    /\ UNCHANGED <<hubVars, connVars, mqtt>>

HubTakeBroadcast(c) ==
    /\ HubStep("select", "broadcast")
    /\ readPump[c] = "posting"
    /\ readPump' = [readPump EXCEPT ![c] = "reading"]
    /\ hubTodo' = Registered
    /\ UNCHANGED <<clients, closed, hubConn, pending, writePump, socket, seen,
                   target, mqtt, crashed>>

(* The broadcast loop visits one member: a non-blocking send, as above. *)
HubBroadcastSend(d) ==
    /\ HubStep("broadcast", "broadcast")
    /\ d \in hubTodo
    /\ hubTodo' = hubTodo \ {d}
    /\ IF d \in closed
       THEN crashed' = "hubSendOnClosed" /\ UNCHANGED pending
       ELSE /\ Enqueue(d)
            /\ UNCHANGED crashed
    /\ UNCHANGED <<clients, closed, hubConn, readPump, writePump, socket, seen,
                   target, mqtt>>

HubBroadcastDone ==
    /\ hubTodo = {}
    /\ HubStep("broadcast", "select")
    /\ UNCHANGED <<clients, closed, hubConn, hubTodo, connVars, mqtt, crashed>>

-------------------------------------------------------------------------------
(* cmd/server/main.go: the MQTT client runs the status callback one message at *)
(* a time; each one ends with hub.Broadcast <- msg.                            *)
MqttStatus ==
    /\ Running
    /\ mqtt = "idle"
    /\ mqtt' = "posting"
    /\ UNCHANGED <<hubVars, connVars, crashed>>

HubTakeStatus ==
    /\ HubStep("select", "broadcast")
    /\ mqtt = "posting"
    /\ mqtt' = "idle"
    /\ hubTodo' = Registered
    /\ UNCHANGED <<clients, closed, hubConn, connVars, crashed>>

(* The supervisor starts the process again: every connection is new. *)
Restart ==
    /\ ~Running
    /\ clients'   = [u \in Users |-> {}]
    /\ closed'    = {}
    /\ pending'   = [c \in Conns |-> 0]
    /\ readPump'  = [c \in Conns |-> "idle"]
    /\ writePump' = [c \in Conns |-> "none"]
    /\ socket'    = [c \in Conns |-> "open"]
    /\ hubAt'     = "select"
    /\ hubConn'   = NoConn
    /\ hubTodo'   = {}
    /\ seen'      = [c \in Conns |-> {}]
    /\ target'    = [c \in Conns |-> NoConn]
    /\ mqtt'      = "idle"
    /\ crashed'   = "no"

HubInternal ==
    \/ HubRegister
    \/ HubMark
    \/ HubUnregister
    \/ \E d \in Conns : HubBroadcastSend(d)
    \/ HubBroadcastDone

SendStep(c) == (\E d \in Conns : SendNext(c, d)) \/ SendTry(c) \/ SendDone(c)

Next ==
    \/ \E c \in Conns :
          \/ Connect(c) \/ ReadMessage(c) \/ ReadError(c)
          \/ ReplyToUser(c) \/ PostBroadcast(c)
          \/ SendStep(c)
          \/ ReaderClose(c) \/ Recycle(c)
          \/ WriterReceive(c) \/ WriterTick(c) \/ WriterClosed(c)
          \/ WriteOk(c) \/ WriteError(c)
          \/ HubTakeRegister(c) \/ HubTakeUnregister(c) \/ HubTakeBroadcast(c)
    \/ HubInternal
    \/ HubTakeStatus
    \/ MapFault
    \/ MqttStatus
    \/ Restart

Spec == Init /\ [][Next]_vars

(* The steps a connection's reading goroutine takes without waiting for the    *)
(* peer or for the hub, and the rendezvous it waits for in hub.run.            *)
ReaderStep(c) == ReplyToUser(c) \/ PostBroadcast(c) \/ SendStep(c) \/ ReaderClose(c)
HubTake(c)    == HubTakeRegister(c) \/ HubTakeUnregister(c) \/ HubTakeBroadcast(c)

(* What the Go scheduler and the deadlines in the code justify.  A goroutine   *)
(* that can run does.  A goroutine waiting on an unbuffered channel is in the  *)
(* channel's FIFO queue and the select of Hub.run picks among its ready cases  *)
(* at random, so one that is enabled again and again is taken in the end       *)
(* (strong fairness); the same for the select of WritePump.  A read of a       *)
(* closed socket fails once what was read ahead is used up.  HandleMessage     *)
(* ends: the LLM call has a deadline, and the MQTT broker answers.  Nothing    *)
(* makes a client connect, speak or leave, and no MQTT message need come.      *)
Fairness ==
    /\ WF_vars(HubInternal)
    /\ \A c \in Conns :
          /\ WF_vars(ReaderStep(c))
          /\ SF_vars(socket[c] = "closed" /\ ReadError(c))
          /\ SF_vars(HubTake(c))
          /\ WF_vars(WriteOk(c) \/ WriteError(c))
          /\ SF_vars(WriterReceive(c) \/ WriterClosed(c))

FairSpec == Spec /\ Fairness
-------------------------------------------------------------------------------
(* The values the variables range over. *)
TypeOK ==
    /\ clients   \in [Users -> SUBSET Conns]
    /\ closed    \subseteq Conns
    /\ pending   \in [Conns -> 0..SendCap]
    /\ readPump  \in [Conns -> ReadStates]
    /\ writePump \in [Conns -> WriteStates]
    /\ socket    \in [Conns -> {"open", "closed"}]
    /\ hubAt     \in HubStates
    /\ hubConn   \in Conns \cup {NoConn}
    /\ hubTodo   \subseteq Conns
    /\ seen      \in [Conns -> SUBSET Conns]
    /\ target    \in [Conns -> Conns \cup {NoConn}]
    /\ mqtt      \in {"idle", "posting"}
    /\ crashed   \in Faults

(* A member of the registry can be sent to: its Send is open, it is filed      *)
(* under its own user, and its ReadPump has not finished unless the hub is in  *)
(* the middle of removing it.  The delete and the close of hub.go:65-66 stand  *)
(* in one locked section for this.                                             *)
RegistryOpen ==
    \A u \in Users : \A c \in clients[u] :
        /\ c \notin closed
        /\ UserOf[c] = u
        /\ \/ readPump[c] \notin {"idle", "register", "closing", "gone"}
           \/ hubAt = "unregister" /\ hubConn = c

(* A ReadPump that ended leaves nothing behind: once the hub is done with its  *)
(* Unregister, the client is out of the registry and its Send is closed, the   *)
(* only signal that ends an idle WritePump; and no Send is closed while the    *)
(* client's own ReadPump could still pass it to SendToUser.                    *)
EndedIsClosed ==
    \A c \in Conns :
        /\ readPump[c] \in {"closing", "gone"} =>
              \/ c \in closed /\ c \notin Registered
              \/ hubAt = "unregister" /\ hubConn = c
        /\ c \in closed => readPump[c] \in {"closing", "gone"}

(* The only way this process dies is SendToUser ranging over the connections   *)
(* of a user without the lock while another connection of the same user comes  *)
(* or goes (hub.go:94-106).  The hub's own sends and its close never panic,    *)
(* and a user with a single connection cannot bring the process down.          *)
CrashNeedsPeer ==
    /\ crashed \notin {"hubSendOnClosed", "closeOfClosed"}
    /\ crashed = "sendOnClosed" =>
          \E c \in Conns : /\ readPump[c] = "send"
                           /\ target[c] # c
                           /\ UserOf[target[c]] = UserOf[c]
                           /\ readPump[target[c]] \in {"closing", "gone"}
    /\ crashed = "mapFault" =>
          \E c, d \in Conns : /\ c # d /\ UserOf[c] = UserOf[d]
                              /\ readPump[c] = "range" /\ hubConn \in {c, d}

(* The members' buffers behave as MemberQueues says: a message is only ever    *)
(* added to a connection that joined and did not leave, by any of the three    *)
(* senders, and a connection joins and leaves once.                            *)
Queues == INSTANCE MemberQueues
             WITH Cap <- SendCap, member <- Registered, left <- closed,
                  waiting <- pending

MembersServed == Queues!Spec

(* docs/MyNotes.md and README.md say that a send on a closed Send cannot       *)
(* happen, because delete comes before close and only Hub.run writes to Send.  *)
NoSendOnClosed == crashed # "sendOnClosed"

(* When one pump of a connection ends the other does too (README: no goroutine *)
(* is leaked), whatever the peer does from then on.                            *)
PumpsEndTogether ==
    \A c \in Conns :
        (readPump[c] = "gone" \/ writePump[c] = "gone")
           ~> \/ readPump[c] \in {"gone", "idle"} /\ writePump[c] \in {"gone", "none"}
              \/ ~Running

(* The hub always comes back to its select: no member, however slow, can hold  *)
(* Register, Unregister and Broadcast up for the others.                       *)
HubComesBack == []<>(hubAt = "select" \/ ~Running)

(* A client that was upgraded becomes a member, however busy the hub is. *)
EveryoneJoins ==
    \A c \in Conns : readPump[c] = "register" ~> (c \in Registered \/ ~Running)
===============================================================================
