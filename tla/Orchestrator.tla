----------------------------- MODULE Orchestrator -----------------------------
(* A message's way from a connection to a device (chat_orchestrator.go): the   *)
(* LLM's intent, the choice of one of the user's devices, the command over the *)
(* MQTT link, the announcement.  One handler for each connection, in its       *)
(* ReadPump; the owners of devices change meanwhile as Ownership allows, the   *)
(* link comes and goes (MqttLink), devices report (DevicePresence), and main   *)
(* may end.                                                                    *)
EXTENDS MqttLink, DevicePresence, IntentParser

CONSTANTS
    Users, UserOf,      \* the user of a connection (a sender)
    RoomOf, TypeOf,     \* of each device
    NoUser, Absent      \* owners: nobody, no such row

ASSUME OrchestratorAssumption ==
    /\ Devices \subseteq Nat
    /\ \A rows \in (SUBSET Devices) \ {{}} :   \* as in any finite table
          \E d \in rows : \A e \in rows : d >= e
    /\ UserOf \in [Senders -> Users]
    /\ RoomOf \in [Devices -> Rooms] /\ TypeOf \in [Devices -> Types]
    /\ NoUser \notin Users /\ Absent \notin Users /\ NoUser # Absent
    /\ Unnamed \notin Devices \cup Rooms

VARIABLES
    owner,      \* owner_id of each device
    pc,         \* where HandleMessage stands
    intent,     \* what parseIntent returned
    target,     \* targetDevice
    running,    \* the process has not ended
    held,       \* history: devices the user owned at some time since the
                \* message came
    kept        \* history: devices the user has owned ever since

history == <<held, kept>>
vars == <<linkVars, presenceVars, owner, pc, intent, target, running, history>>

Registry == INSTANCE Ownership

(* What becomes of the LLM's replies; longer ones are LLMReply's concern. *)
Replies  == {parseIntent(<<t>>) : t \in Pieces}
Stages   == {"idle", "llm", "resolve", "byType", "check", "publish", "waiting",
             "announce"}

OwnedBy(u) == {d \in Devices : owner[d] = u}

Init ==
    /\ LinkInit /\ PresenceInit /\ Registry!Init
    /\ pc      = [c \in Senders |-> "idle"]
    /\ intent  = [c \in Senders |-> NoIntent]
    /\ target  = [c \in Senders |-> Unnamed]
    /\ running = TRUE
    /\ held    = [c \in Senders |-> {}]
    /\ kept    = [c \in Senders |-> {}]

Stage(c, at, next) ==
    /\ running
    /\ pc[c] = at
    /\ pc' = [pc EXCEPT ![c] = next]
    /\ UNCHANGED <<presenceVars, owner, running>>

(* HandleMessage returns, having replied to the user or announced a command.   *)
(* A message that is in the store stays there.                                 *)
Return(c, at) ==
    /\ Stage(c, at, "idle")
    /\ intent'  = [intent EXCEPT ![c] = NoIntent]
    /\ target'  = [target EXCEPT ![c] = Unnamed]
    /\ held'    = [held EXCEPT ![c] = {}]
    /\ kept'    = [kept EXCEPT ![c] = {}]
    /\ token'   = [token EXCEPT ![c] = "none"]
    /\ mid'     = [mid EXCEPT ![c] = NoId]
    /\ arrived' = arrived \ {c}
    /\ UNCHANGED <<link, subscribed, message>>

-------------------------------------------------------------------------------
(* ReadPump hands over a message. *)
HandleMessage(c) ==
    /\ Stage(c, "idle", "llm")
    /\ held' = [held EXCEPT ![c] = OwnedBy(UserOf[c])]
    /\ kept' = [kept EXCEPT ![c] = OwnedBy(UserOf[c])]
    /\ UNCHANGED <<linkVars, intent, target>>

(* Chat fails: an error, or 10 s without an answer. *)
LLMFails(c) == Return(c, "llm")

(* A reply that is no intent, an unknown one or one without params ends the    *)
(* handling.                                                                   *)
LLMUnclear(c) == NoIntent \in Replies /\ Return(c, "llm")

LLMAnswers(c, i) ==
    /\ Stage(c, "llm", "resolve")
    /\ intent' = [intent EXCEPT ![c] = i]
    /\ UNCHANGED <<linkVars, target, history>>

Resolved(c, at, d) ==
    /\ Stage(c, at, "check")
    /\ target' = [target EXCEPT ![c] = d]
    /\ UNCHANGED <<linkVars, intent, history>>

(* The first of the rows, which are read ORDER BY id DESC. *)
First(rows) == Max(rows)

(* An intent that names a device: the user must own it; and the same without   *)
(* that check.                                                                 *)
ResolveUnchecked(c) ==
    LET d == intent[c].dev IN
    /\ pc[c] = "resolve" /\ d # Unnamed
    /\ Resolved(c, "resolve", d)
ResolveByID(c) ==
    LET d == intent[c].dev IN
    /\ pc[c] = "resolve" /\ d # Unnamed
    /\ IF owner[d] = UserOf[c] THEN Resolved(c, "resolve", d)
                               ELSE Return(c, "resolve")

(* An intent that names a room: the user's first device there.  Where there is *)
(* none, and for an intent without a room, the type decides; and a version     *)
(* that does not look at the room.                                             *)
SkipRoom(c) ==
    /\ pc[c] = "resolve" /\ intent[c].dev = Unnamed
    /\ Stage(c, "resolve", "byType")
    /\ UNCHANGED <<linkVars, intent, target, history>>
ResolveByRoom(c) ==
    LET found == {d \in OwnedBy(UserOf[c]) : RoomOf[d] = intent[c].room} IN
    /\ pc[c] = "resolve" /\ intent[c].dev = Unnamed
    /\ IF intent[c].room # Unnamed /\ found # {}
       THEN Resolved(c, "resolve", First(found))
       ELSE /\ Stage(c, "resolve", "byType")
            /\ UNCHANGED <<linkVars, intent, target, history>>

(* A second reading of the user's devices: the first of the type. *)
ResolveByType(c) ==
    LET found == {d \in OwnedBy(UserOf[c]) : TypeOf[d] = intent[c].type} IN
    /\ pc[c] = "byType"
    /\ IF found # {} THEN Resolved(c, "byType", First(found))
                     ELSE Return(c, "byType")

(* A query failed: no device, for all the user learns. *)
QueryFails(c) == Return(c, "resolve") \/ Return(c, "byType")

CheckLink(c) ==
    /\ Stage(c, "check", IF IsConnected THEN "publish" ELSE "announce")
    /\ UNCHANGED <<linkVars, intent, target, history>>

(* PublishCommand waits for the token, without a deadline, and its error is    *)
(* only logged.                                                                *)
PublishCommand(c) ==
    /\ Stage(c, "publish", "waiting")
    /\ Publish(c)
    /\ UNCHANGED <<intent, target, history>>

TokenDone(c) ==
    /\ token[c] \in {"refused", "done", "failed"}
    /\ Stage(c, "waiting", "announce")
    /\ UNCHANGED <<linkVars, intent, target, history>>

(* hub.Broadcast takes the announcement, whatever became of the command. *)
Announce(c) == Return(c, "announce")

Handle(c) ==
    \/ LLMFails(c) \/ LLMUnclear(c)
    \/ \E i \in Replies \ {NoIntent} : LLMAnswers(c, i)
    \/ ResolveByID(c) \/ ResolveByRoom(c) \/ ResolveByType(c) \/ QueryFails(c)
    \/ CheckLink(c) \/ PublishCommand(c) \/ TokenDone(c) \/ Announce(c)

-------------------------------------------------------------------------------
(* The requests that register, bind and unbind devices. *)
OwnersChange ==
    /\ running
    /\ Registry!Next
    /\ held' = [c \in Senders |->
                  IF pc[c] = "idle" THEN {}
                  ELSE held[c] \cup {d \in Devices : owner'[d] = UserOf[c]}]
    /\ kept' = [c \in Senders |-> {d \in kept[c] : owner'[d] = UserOf[c]}]
    /\ UNCHANGED <<linkVars, presenceVars, pc, intent, target, running>>

Broker ==
    /\ running
    /\ LinkStep
    /\ UNCHANGED <<presenceVars, owner, pc, intent, target, running, history>>

StatusArrives(d) ==
    /\ running
    /\ link = "up" /\ subscribed
    /\ Receive(d)
    /\ UNCHANGED <<linkVars, owner, pc, intent, target, running, history>>

StatusStep ==
    /\ running
    /\ CallbackStep
    /\ UNCHANGED <<linkVars, owner, pc, intent, target, running, history>>

(* Redis goes on without the server. *)
KeyEnds(d) ==
    /\ KeyExpires(d)
    /\ UNCHANGED <<linkVars, owner, pc, intent, target, running, history>>

(* main ends after a signal: HTTP requests are waited for, handlers of         *)
(* WebSocket messages are not; the link is closed and the process gone.        *)
Shutdown ==
    /\ running
    /\ Disconnect
    /\ UNCHANGED <<presenceVars, owner, pc, intent, target, running, history>>

(* The process ends so, or dies at any moment, and is started again: its       *)
(* memory is empty, MySQL and Redis are as they were left.                     *)
Exit ==
    /\ running
    /\ running' = FALSE
    /\ link' = "closed"
    /\ message' = [i \in Ids |-> "free"]
    /\ token'   = [c \in Senders |-> "none"]
    /\ mid'     = [c \in Senders |-> NoId]
    /\ arrived' = {}
    /\ pc'      = [c \in Senders |-> "idle"]
    /\ intent'  = [c \in Senders |-> NoIntent]
    /\ target'  = [c \in Senders |-> Unnamed]
    /\ held'    = [c \in Senders |-> {}]
    /\ kept'    = [c \in Senders |-> {}]
    /\ PresenceDies
    /\ UNCHANGED <<subscribed, owner>>
Restart ==
    /\ ~running
    /\ running' = TRUE
    /\ link' = "up"
    /\ subscribed' \in BOOLEAN
    /\ UNCHANGED <<message, token, mid, arrived, presenceVars, owner, pc, intent,
                   target, history>>

Next ==
    \/ \E c \in Senders : HandleMessage(c) \/ Handle(c)
    \/ OwnersChange
    \/ Broker
    \/ \E d \in Reporters : StatusArrives(d) \/ KeyEnds(d)
    \/ StatusStep
    \/ Shutdown \/ Exit \/ Restart

Spec == Init /\ [][Next]_vars

(* A handler that can run does; the LLM call and the queries have deadlines.   *)
(* A link that is up resends, and its broker takes and acknowledges.  Nothing  *)
(* makes a lost link come back, a user write or a device report.               *)
FairSpec ==
    /\ Spec
    /\ \A c \in Senders : WF_vars(Handle(c))
    /\ \A i \in Ids : WF_vars(Broker /\ Serves(i))

-------------------------------------------------------------------------------
(* The values the variables range over. *)
TypeOK ==
    /\ LinkTypeOK /\ PresenceTypeOK
    /\ owner  \in [Devices -> Users \cup {NoUser, Absent}]
    /\ pc     \in [Senders -> Stages]
    /\ intent \in [Senders -> Intents \cup {NoIntent}]
    /\ target \in [Senders -> Devices \cup {Unnamed}]
    /\ running \in BOOLEAN
    /\ held \in [Senders -> SUBSET Devices]
    /\ kept \in [Senders -> SUBSET Devices]

(* A command is published only for a device that its user owned at some time   *)
(* while the message was handled, whichever way the intent named it and        *)
(* whoever bound and released devices meanwhile (chat_orchestrator.go:97-143). *)
CommandsOwned ==
    \A c \in Senders : token[c] # "none" => target[c] \in held[c]

(* Who asks for a room gets another one only if no device of the room was      *)
(* theirs all the time, though room and type are looked up by two queries.     *)
RoomRespected ==
    \A c \in Senders :
        LET i == intent[c] IN
        (target[c] # Unnamed /\ i.dev = Unnamed /\ i.room # Unnamed
            /\ RoomOf[target[c]] # i.room) =>
                \A d \in kept[c] : RoomOf[d] # i.room

(* A command whose publication was not refused at once (no link, or no message *)
(* id left) is not lost before main closes the link: when PublishCommand comes *)
(* back, whatever its token says and however often the link broke meanwhile,   *)
(* the broker has received it or the store still sends it (README: QoS 1).     *)
CommandKept ==
    \A c \in Senders :
        (token[c] \in {"waiting", "done", "failed"} /\ link # "closed") =>
            c \in arrived \/ InStore(c)

(* A message is answered or announced if the link is up from some time on;     *)
(* until then PublishCommand may wait for good.                                *)
MessagesEnd ==
    <>[](link = "up") =>
        \A c \in Senders : pc[c] = "llm" ~> pc[c] = "idle"

(* docs/02, NFR-S3: every interface of a device checks who owns it.  So the    *)
(* user of a command owns its device when it is sent.                          *)
OwnedWhenSent ==
    [][\A c \in Senders :
          PublishCommand(c) => owner[target[c]] = UserOf[c]]_vars
===============================================================================
