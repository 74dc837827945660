------------------------------- MODULE MqttLink -------------------------------
(* The server's link to the MQTT broker, client/mqtt_client.go over            *)
(* paho.mqtt.golang 1.5.1 with the options it sets: automatic reconnection, a  *)
(* clean session, an in-memory store of unacknowledged messages that is sent   *)
(* again after a reconnection, and no renewal of subscriptions.  The token a   *)
(* sender waits for and the message in the store go their own ways.            *)
CONSTANTS
    Senders,        \* goroutines that publish, one message at a time each
    Ids,            \* message ids: how many messages the store may hold
    NoId            \* no message

ASSUME IdsAssumption == NoId \notin Ids

VARIABLES
    link,           \* the state of the connection
    subscribed,     \* the broker has the subscription to device statuses
    message,        \* how far the message of an id has come
    token,          \* what a sender's token says of its command
    mid,            \* the id of that command, while the store has it
    arrived         \* history: senders whose command has reached the broker

linkVars == <<link, subscribed, message, token, mid, arrived>>

Links    == {"up", "reconnecting", "closed"}
Messages == {"free", "stored", "resume", "queued", "taken"}
Tokens   == {"none", "refused", "waiting", "done", "failed"}

(* NewMQTTClient returns connected, or main exits.  A subscription that failed *)
(* is only logged.                                                             *)
LinkInit ==
    /\ link = "up"
    /\ subscribed \in BOOLEAN
    /\ message = [i \in Ids |-> "free"]
    /\ token   = [s \in Senders |-> "none"]
    /\ mid     = [s \in Senders |-> NoId]
    /\ arrived = {}

(* With AutoReconnect the library calls a link it is restoring connected. *)
IsConnected == link \in {"up", "reconnecting"}

Free == {i \in Ids : message[i] = "free"}

(* Publish returns at once, and there is no message. *)
Answers(s, result) ==
    /\ token' = [token EXCEPT ![s] = result]
    /\ UNCHANGED <<link, subscribed, message, mid, arrived>>

(* The message is in the store, and on its way or not. *)
Stores(s, i, state, result) ==
    /\ message' = [message EXCEPT ![i] = state]
    /\ mid'     = [mid EXCEPT ![s] = i]
    /\ token'   = [token EXCEPT ![s] = result]
    /\ UNCHANGED <<link, subscribed, arrived>>

(* A link that is down keeps the message for later.  One that is up takes it   *)
(* from the sender, or does not within the 30 s of its write timeout: an error *)
(* then, though the store has the message.  And at QoS 0 a link that is down   *)
(* drops it.                                                                   *)
PublishQoS0(s) ==
    IF link = "up" THEN \E i \in Free : Stores(s, i, "queued", "waiting")
                   ELSE Answers(s, "done")
Publish(s) ==
    \/ /\ ~IsConnected \/ Free = {}
       /\ Answers(s, "refused")
    \/ /\ IsConnected
       /\ \E i \in Free :
             \/ link = "up" /\ Stores(s, i, "queued", "waiting")
             \/ link = "up" /\ Stores(s, i, "stored", "failed")
             \/ link = "reconnecting" /\ Stores(s, i, "stored", "waiting")

(* What senders that still wait for message i learn. *)
Completed(i, result) ==
    token' = [s \in Senders |->
                 IF mid[s] = i /\ token[s] = "waiting" THEN result ELSE token[s]]

(* After a reconnection the library claims the ids of the stored messages for  *)
(* tokens of its own: it completes the one that waits, and resends.            *)
Resume(i) ==
    /\ link = "up" /\ message[i] = "resume"
    /\ message' = [message EXCEPT ![i] = "queued"]
    /\ Completed(i, "done")
    /\ UNCHANGED <<link, subscribed, mid, arrived>>

BrokerTakes(i) ==
    /\ link = "up" /\ message[i] = "queued"
    /\ message' = [message EXCEPT ![i] = "taken"]
    /\ arrived' = arrived \cup {s \in Senders : mid[s] = i}
    /\ UNCHANGED <<link, subscribed, token, mid>>

(* The acknowledgement takes the message from the store. *)
PubAck(i) ==
    /\ link = "up" /\ message[i] = "taken"
    /\ message' = [message EXCEPT ![i] = "free"]
    /\ mid' = [s \in Senders |-> IF mid[s] = i THEN NoId ELSE mid[s]]
    /\ Completed(i, "done")
    /\ UNCHANGED <<link, subscribed, arrived>>

(* What was not acknowledged will be sent again; and a client that forgets it. *)
LinkLostForgets ==
    /\ link = "up"
    /\ link' = "reconnecting"
    /\ message' = [i \in Ids |-> IF i \in Free THEN "free" ELSE "lost"]
    /\ UNCHANGED <<subscribed, token, mid, arrived>>
Breaks ==
    /\ link = "up"
    /\ link' = "reconnecting"
    /\ message' = [i \in Ids |-> IF i \in Free THEN "free" ELSE "stored"]
    /\ UNCHANGED <<subscribed, mid, arrived>>
LinkLost == Breaks /\ UNCHANGED token

(* The write of a message failed, and with it the link: the one case in which  *)
(* a loss reaches a token at once.                                             *)
WriteError(i) ==
    /\ message[i] = "queued"
    /\ Breaks
    /\ Completed(i, "failed")

(* OnConnect only logs, and the broker starts a new session. *)
Reconnect ==
    /\ link = "reconnecting"
    /\ link' = "up"
    /\ subscribed' = FALSE
    /\ message' = [i \in Ids |-> IF message[i] = "stored" THEN "resume" ELSE message[i]]
    /\ UNCHANGED <<token, mid, arrived>>

(* At the end of main: every token still waiting fails, and the store is gone. *)
Disconnect ==
    /\ link # "closed"
    /\ link' = "closed"
    /\ token' = [s \in Senders |-> IF token[s] = "waiting" THEN "failed" ELSE token[s]]
    /\ message' = [i \in Ids |-> "free"]
    /\ mid' = [s \in Senders |-> NoId]
    /\ UNCHANGED <<subscribed, arrived>>

Serves(i) == Resume(i) \/ BrokerTakes(i) \/ PubAck(i)

LinkStep ==
    \/ \E i \in Ids : Serves(i) \/ WriteError(i)
    \/ LinkLost \/ Reconnect

LinkTypeOK ==
    /\ link \in Links
    /\ subscribed \in BOOLEAN
    /\ message \in [Ids -> Messages]
    /\ token   \in [Senders -> Tokens]
    /\ mid     \in [Senders -> Ids \cup {NoId}]
    /\ arrived \subseteq Senders

(* The command of s is in the store, from which it is sent until the broker    *)
(* has acknowledged it.                                                        *)
InStore(s) == mid[s] \in Ids /\ message[mid[s]] \in Messages \ {"free"}
===============================================================================
