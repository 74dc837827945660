-------------------------- MODULE OrchestratorProofs --------------------------
(* Proofs about Orchestrator, for any connections, users and devices.          *)
EXTENDS Orchestrator, SequenceTheorems, TLAPS

(* What a handler has follows from where it stands. *)
Placed ==
    \A c \in Senders :
        /\ pc[c] \notin {"idle", "llm"} => intent[c] \in Intents
        /\ pc[c] \in {"idle", "llm", "resolve", "byType"} => target[c] = Unnamed
        /\ pc[c] \in {"check", "publish", "waiting", "announce"} =>
              target[c] \in held[c]
        /\ token[c] # "none" => pc[c] \in {"waiting", "announce"}

(* The histories say what they are meant to say. *)
Remembered ==
    \A c \in Senders :
        /\ pc[c] # "idle" => OwnedBy(UserOf[c]) \subseteq held[c]
        /\ kept[c] \subseteq OwnedBy(UserOf[c])

(* A room that was named and had no device has none of those kept. *)
RoomTried ==
    \A c \in Senders :
        pc[c] = "byType" /\ intent[c].room # Unnamed =>
            \A d \in kept[c] : RoomOf[d] # intent[c].room

(* A message with a sender is in the store until its acknowledgement, before   *)
(* which it has arrived; and a process that has ended has no senders.          *)
Delivered ==
    /\ \A c \in Senders :
          /\ mid[c] \in Ids => message[mid[c]] # "free"
          /\ mid[c] \in Ids /\ message[mid[c]] = "taken" => c \in arrived
          /\ token[c] \in {"waiting", "done", "failed"} /\ link # "closed" =>
                c \in arrived \/ mid[c] \in Ids
    /\ ~running => \A c \in Senders : token[c] = "none"

IInv ==
    /\ TypeOK
    /\ Placed /\ Remembered /\ RoomTried /\ RoomRespected
    /\ Delivered
    /\ SilentDevicesGo

-------------------------------------------------------------------------------
(* White space around a token is trimmed; that is all that is there to trim.   *)
LEMMA TrimOne ==
  ASSUME NEW t PROVE TrimSpace(<<t>>) \in {<<t>>, <<>>}
<1>1. DOMAIN <<t>> = {1}
  OBVIOUS
<1>2. Min({1}) = 1 /\ Max({1}) = 1
  BY DEF Min, Max
<1>3. SubSeq(<<t>>, 1, 1) = <<t>>
  <2>. DEFINE s == SubSeq(<<t>>, 1, 1)
  <2>1. \A i \in 1..1 : <<t>>[i] \in {t}
    OBVIOUS
  <2>2. s \in Seq({t}) /\ Len(s) = 1
    BY <2>1, SubSeqProperties
  <2>3. <<t>> \in Seq({t}) /\ Len(<<t>>) = 1
    OBVIOUS
  <2>4. \A i \in 1..Len(s) : s[i] = <<t>>[i]
    BY <2>2, <2>3
  <2>. HIDE DEF s
  <2>5. s = <<t>>
    BY <2>2, <2>3, <2>4, SeqEqual
  <2>. QED  BY <2>5 DEF s
<1>4. DOMAIN <<t>> \ Positions(<<t>>, {"space"}) \in {{}, {1}}
  BY <1>1 DEF Positions
<1>. QED  BY <1>2, <1>3, <1>4 DEF TrimSpace

(* Of nothing, nothing is left. *)
LEMMA TrimNone == TrimSpace(<<>>) = <<>>
<1>1. DOMAIN <<>> \ Positions(<<>>, {"space"}) = {}
  OBVIOUS
<1>. QED  BY <1>1 DEF TrimSpace

(* A reply of one token is understood or not. *)
LEMMA OneToken ==
  ASSUME NEW t \in Pieces PROVE parseIntent(<<t>>) \in Intents \cup {NoIntent}
<1>0. t.intent \in Intents \cup {NoIntent}
  BY DEF Pieces, Objects, Piece
<1>. DEFINE raw == TrimSpace(<<t>>)
<1>1. raw \in {<<t>>, <<>>}
  BY TrimOne
<1>2. extractJSON(<<t>>) \in {<<t>>, <<>>}
  <2>1. \A k \in Positions(raw, {"fence"}), l \in Positions(raw, {"fence", "object", "open"}) : k = l
    BY <1>1 DEF Positions
  <2>2. Positions(raw, {"fence"}) # {} =>
           {k \in Braces(raw) : k > Min(Positions(raw, {"fence"}))} = {}
    <3>. SUFFICES ASSUME Positions(raw, {"fence"}) # {} PROVE Braces(raw) = {}
      OBVIOUS
    <3>. QED  BY <1>1 DEF Positions, Braces
  <2>3. Positions(raw, {"fence"}) # {} => Fenced(raw) = raw
    BY <2>2 DEF Fenced
  <2>4. 1 \notin Braces(raw) => Closing(raw) = {}
    BY <1>1 DEF Braces, Closing, Positions
  <2>5. 1 \notin Braces(raw) => Outermost(raw) = raw
    BY <2>4 DEF Outermost
  <2>6. extractJSON(<<t>>) = raw
    BY <2>3, <2>5 DEF extractJSON
  <2>. QED  BY <1>1, <2>6
<1>. DEFINE json == TrimSpace(extractJSON(<<t>>))
<1>3. json \in {<<t>>, <<>>}
  BY <1>2, TrimOne, TrimNone
<1>4. Len(json) = 1 => json[1] = t
  BY <1>3
<1>. HIDE DEF json
<1>5. parseIntent(<<t>>) \in {t.intent, NoIntent}
  BY <1>4 DEF parseIntent, json
<1>. QED  BY <1>0, <1>5

(* So is every answer of the LLM: an intent, or none. *)
LEMMA RepliesAreIntents == Replies \subseteq Intents \cup {NoIntent}
BY OneToken DEF Replies

(* The first of some rows is one of them. *)
LEMMA FirstIsRow ==
  ASSUME NEW rows \in SUBSET Devices, rows # {} PROVE First(rows) \in rows
BY OrchestratorAssumption DEF First, Max

-------------------------------------------------------------------------------
(* A message comes. *)
LEMMA HandleInv ==
  ASSUME IInv, NEW c \in Senders, HandleMessage(c) PROVE IInv'
<1>. USE DEF IInv, HandleMessage, Stage, linkVars, presenceVars
<1>1. TypeOK'
  BY DEF TypeOK, LinkTypeOK, PresenceTypeOK, Stages, OwnedBy
<1>2. Placed'
  BY DEF TypeOK, LinkTypeOK, Placed
<1>3. Remembered' /\ RoomTried'
  BY DEF TypeOK, Remembered, RoomTried, OwnedBy
<1>4. RoomRespected'
  BY DEF TypeOK, Placed, RoomRespected
<1>5. Delivered' /\ SilentDevicesGo'
  BY DEF TypeOK, Delivered, SilentDevicesGo
<1>. QED  BY <1>1, <1>2, <1>3, <1>4, <1>5

(* The handling ends, wherever it stands. *)
LEMMA ReturnInv ==
  ASSUME IInv, NEW c \in Senders, NEW at, Return(c, at) PROVE IInv'
<1>. USE DEF IInv, Return, Stage, linkVars, presenceVars
<1>1. TypeOK'
  <2>1. LinkTypeOK'
    BY DEF TypeOK, LinkTypeOK, Tokens
  <2>2. pc' \in [Senders -> Stages]
    BY DEF TypeOK, Stages
  <2>3. /\ intent' \in [Senders -> Intents \cup {NoIntent}]
        /\ target' \in [Senders -> Devices \cup {Unnamed}]
        /\ held' \in [Senders -> SUBSET Devices] /\ kept' \in [Senders -> SUBSET Devices]
    BY DEF TypeOK
  <2>. QED  BY <2>1, <2>2, <2>3 DEF TypeOK, PresenceTypeOK
<1>2. Placed'
  BY DEF TypeOK, LinkTypeOK, Placed
<1>3. Remembered' /\ RoomTried'
  BY DEF TypeOK, Remembered, RoomTried, OwnedBy
<1>4. RoomRespected'
  BY DEF TypeOK, RoomRespected
<1>5. Delivered'
  <2>1. ASSUME NEW d \in Senders
        PROVE  \/ mid'[d] = mid[d] /\ token'[d] = token[d]
                  /\ (d \in arrived => d \in arrived')
               \/ mid'[d] = NoId /\ token'[d] = "none"
    BY DEF TypeOK, LinkTypeOK
  <2>2. message' = message /\ link' = link /\ running' = running
    OBVIOUS
  <2>. QED  BY <2>1, <2>2, IdsAssumption DEF Delivered
<1>6. SilentDevicesGo'
  BY DEF SilentDevicesGo
<1>. QED  BY <1>1, <1>2, <1>3, <1>4, <1>5, <1>6

(* The LLM's reply is an intent. *)
LEMMA AnswerInv ==
  ASSUME IInv, NEW c \in Senders, NEW i \in Replies \ {NoIntent}, LLMAnswers(c, i)
  PROVE  IInv'
<1>. USE DEF IInv, LLMAnswers, Stage, linkVars, presenceVars, history
<1>0. i \in Intents
  BY RepliesAreIntents
<1>1. TypeOK'
  BY <1>0 DEF TypeOK, LinkTypeOK, PresenceTypeOK, Stages
<1>2. Placed'
  BY <1>0 DEF TypeOK, LinkTypeOK, Placed
<1>3. Remembered' /\ RoomTried'
  BY DEF TypeOK, Remembered, RoomTried, OwnedBy
<1>4. RoomRespected'
  BY DEF TypeOK, Placed, RoomRespected
<1>5. Delivered' /\ SilentDevicesGo'
  BY DEF TypeOK, Delivered, SilentDevicesGo
<1>. QED  BY <1>1, <1>2, <1>3, <1>4, <1>5

(* A device is chosen: one of the user's, and, if a room was named, one of it  *)
(* or none of those kept is.                                                   *)
LEMMA ResolvedInv ==
  ASSUME IInv, NEW c \in Senders, NEW at \in {"resolve", "byType"},
         NEW d \in OwnedBy(UserOf[c]), Resolved(c, at, d),
         \/ intent[c].dev # Unnamed \/ intent[c].room = Unnamed
         \/ RoomOf[d] = intent[c].room
         \/ \A e \in kept[c] : RoomOf[e] # intent[c].room
  PROVE  IInv'
<1>. USE DEF IInv, Resolved, Stage, linkVars, presenceVars, history
<1>0. d \in Devices /\ d \in held[c]
  BY DEF OwnedBy, Remembered
<1>1. TypeOK'
  BY <1>0 DEF TypeOK, LinkTypeOK, PresenceTypeOK, Stages
<1>2. Placed'
  BY <1>0 DEF TypeOK, LinkTypeOK, Placed
<1>3. Remembered' /\ RoomTried'
  BY DEF TypeOK, Remembered, RoomTried, OwnedBy
<1>4. RoomRespected'
  BY DEF TypeOK, RoomRespected
<1>5. Delivered' /\ SilentDevicesGo'
  BY DEF TypeOK, Delivered, SilentDevicesGo
<1>. QED  BY <1>1, <1>2, <1>3, <1>4, <1>5

(* The three cases of resolveDevice. *)
LEMMA ResolveInv ==
  ASSUME IInv, NEW c \in Senders,
         ResolveByID(c) \/ ResolveByRoom(c) \/ ResolveByType(c)
  PROVE  IInv'
<1>. USE DEF IInv
<1>0. pc[c] \in {"resolve", "byType"} /\ intent[c] \in Intents
  BY DEF ResolveByID, ResolveByRoom, ResolveByType, Placed
<1>1. CASE ResolveByID(c)
  <2>1. CASE owner[intent[c].dev] = UserOf[c]
    <3>1. intent[c].dev \in OwnedBy(UserOf[c])
      BY <1>0, <1>1, <2>1 DEF ResolveByID, Intents, OwnedBy
    <3>2. Resolved(c, "resolve", intent[c].dev) /\ intent[c].dev # Unnamed
      BY <1>1, <2>1 DEF ResolveByID
    <3>. QED  BY <3>1, <3>2, ResolvedInv
  <2>2. CASE owner[intent[c].dev] # UserOf[c]
    BY <1>1, <2>2, ReturnInv DEF ResolveByID
  <2>. QED  BY <2>1, <2>2
<1>2. CASE ResolveByRoom(c)
  <2>. DEFINE found == {d \in OwnedBy(UserOf[c]) : RoomOf[d] = intent[c].room}
  <2>1. CASE intent[c].room # Unnamed /\ found # {}
    <3>1. First(found) \in found
      BY <2>1, FirstIsRow DEF OwnedBy
    <3>2. Resolved(c, "resolve", First(found))
      BY <1>2, <2>1 DEF ResolveByRoom
    <3>. QED  BY <3>1, <3>2, ResolvedInv
  <2>2. CASE ~(intent[c].room # Unnamed /\ found # {})
    <3>1. /\ Stage(c, "resolve", "byType")
          /\ UNCHANGED <<linkVars, intent, target, history>>
      BY <1>2, <2>2 DEF ResolveByRoom
    <3>. USE <3>1 DEF Stage, linkVars, presenceVars, history
    <3>2. TypeOK'
      BY DEF TypeOK, LinkTypeOK, PresenceTypeOK, Stages
    <3>3. Placed' /\ Remembered'
      BY DEF TypeOK, LinkTypeOK, Placed, Remembered, OwnedBy
    <3>4. RoomTried'
      BY <2>2 DEF TypeOK, RoomTried, Remembered
    <3>5. RoomRespected' /\ Delivered' /\ SilentDevicesGo'
      BY DEF TypeOK, RoomRespected, Delivered, SilentDevicesGo
    <3>. QED  BY <3>2, <3>3, <3>4, <3>5
  <2>. QED  BY <2>1, <2>2
<1>3. CASE ResolveByType(c)
  <2>. DEFINE found == {d \in OwnedBy(UserOf[c]) : TypeOf[d] = intent[c].type}
  <2>1. CASE found # {}
    <3>1. First(found) \in found
      BY <2>1, FirstIsRow DEF OwnedBy
    <3>2. Resolved(c, "byType", First(found)) /\ pc[c] = "byType"
      BY <1>3, <2>1 DEF ResolveByType
    <3>. QED  BY <3>1, <3>2, ResolvedInv DEF RoomTried
  <2>2. CASE found = {}
    BY <1>3, <2>2, ReturnInv DEF ResolveByType
  <2>. QED  BY <2>1, <2>2
<1>. QED  BY <1>1, <1>2, <1>3

(* The link is asked for; the token is there. *)
LEMMA CommandInv ==
  ASSUME IInv, NEW c \in Senders, CheckLink(c) \/ TokenDone(c)
  PROVE  IInv'
<1>. USE DEF IInv, CheckLink, TokenDone, IsConnected, Stage, linkVars,
             presenceVars, history
<1>1. TypeOK'
  BY DEF TypeOK, LinkTypeOK, PresenceTypeOK, Stages
<1>2. Placed'
  BY DEF TypeOK, LinkTypeOK, Placed
<1>3. Remembered' /\ RoomTried'
  BY DEF TypeOK, Remembered, RoomTried, OwnedBy
<1>4. RoomRespected' /\ SilentDevicesGo'
  BY DEF TypeOK, RoomRespected, SilentDevicesGo
<1>5. Delivered'
  BY DEF Delivered
<1>. QED  BY <1>1, <1>2, <1>3, <1>4, <1>5

(* The command is published: refused, or stored under a free id. *)
LEMMA PublishInv ==
  ASSUME IInv, NEW c \in Senders, PublishCommand(c) PROVE IInv'
<1>. USE DEF IInv, PublishCommand, Stage, presenceVars, history
<1>0. /\ link' = link /\ subscribed' = subscribed /\ arrived' = arrived
      /\ \E t \in Tokens \ {"none"} : token' = [token EXCEPT ![c] = t]
      /\ \/ message' = message /\ mid' = mid /\ token' = [token EXCEPT ![c] = "refused"]
         \/ \E i \in Free, m \in {"stored", "queued"} :
               /\ message' = [message EXCEPT ![i] = m]
               /\ mid' = [mid EXCEPT ![c] = i]
  BY DEF Publish, Answers, Stores, Tokens
<1>1. TypeOK'
  <2>1. LinkTypeOK'
    <3>1. token' \in [Senders -> Tokens]
      BY <1>0 DEF TypeOK, LinkTypeOK
    <3>2. message' \in [Ids -> Messages] /\ mid' \in [Senders -> Ids \cup {NoId}]
      BY <1>0 DEF TypeOK, LinkTypeOK, Messages, Free
    <3>. QED  BY <1>0, <3>1, <3>2 DEF TypeOK, LinkTypeOK
  <2>. QED  BY <2>1 DEF TypeOK, PresenceTypeOK, Stages
<1>2. Placed'
  BY <1>0 DEF TypeOK, LinkTypeOK, Placed
<1>3. Remembered' /\ RoomTried'
  BY DEF TypeOK, Remembered, RoomTried, OwnedBy
<1>4. RoomRespected' /\ SilentDevicesGo'
  BY DEF TypeOK, RoomRespected, SilentDevicesGo
<1>5. Delivered'
  <2>1. CASE message' = message /\ mid' = mid /\ token' = [token EXCEPT ![c] = "refused"]
    BY <1>0, <2>1 DEF TypeOK, LinkTypeOK, Delivered
  <2>2. CASE \E i \in Free, m \in {"stored", "queued"} :
               /\ message' = [message EXCEPT ![i] = m]
               /\ mid' = [mid EXCEPT ![c] = i]
    <3>1. PICK i \in Free, m \in {"stored", "queued"} :
             message' = [message EXCEPT ![i] = m] /\ mid' = [mid EXCEPT ![c] = i]
      BY <2>2
    <3>2. ASSUME NEW d \in Senders
          PROVE  /\ mid'[d] \in Ids => message'[mid'[d]] # "free"
                 /\ mid'[d] \in Ids /\ message'[mid'[d]] = "taken" => d \in arrived
                 /\ d # c => mid'[d] = mid[d] /\ token'[d] = token[d]
                 /\ mid'[c] \in Ids
      BY <3>1, <1>0 DEF TypeOK, LinkTypeOK, Delivered, Free
    <3>. QED  BY <3>2, <1>0 DEF Delivered
  <2>. QED  BY <1>0, <2>1, <2>2
<1>. QED  BY <1>1, <1>2, <1>3, <1>4, <1>5

(* Every step of a handler. *)
LEMMA HandlerInv ==
  ASSUME IInv, NEW c \in Senders, Handle(c) PROVE IInv'
BY ReturnInv, AnswerInv, ResolveInv, CommandInv, PublishInv
   DEF Handle, LLMFails, LLMUnclear, QueryFails, Announce

-------------------------------------------------------------------------------
(* A device is registered, bound or released. *)
LEMMA OwnersInv ==
  ASSUME IInv, OwnersChange PROVE IInv'
<1>. USE DEF IInv, OwnersChange, linkVars, presenceVars
<1>0. owner' \in [Devices -> Users \cup {NoUser, Absent}]
  BY DEF TypeOK, Registry!Next, Registry!Register, Registry!Bind, Registry!Release
<1>1. TypeOK'
  BY <1>0 DEF TypeOK, LinkTypeOK, PresenceTypeOK
<1>2. Placed'
  BY DEF TypeOK, Placed
<1>3. Remembered'
  BY DEF TypeOK, Remembered, OwnedBy
<1>4. RoomTried' /\ RoomRespected'
  BY DEF TypeOK, RoomTried, RoomRespected
<1>5. Delivered' /\ SilentDevicesGo'
  BY DEF Delivered, SilentDevicesGo
<1>. QED  BY <1>1, <1>2, <1>3, <1>4, <1>5

(* The link and the broker; the link's end. *)
LEMMA LinkInv ==
  ASSUME IInv, Broker \/ Shutdown PROVE IInv'
<1>. USE DEF IInv, Broker, Shutdown, Disconnect, LinkStep, Serves, Resume,
             BrokerTakes, PubAck, WriteError, LinkLost, Breaks, Reconnect,
             Completed, presenceVars, history
<1>0. /\ link' \in Links /\ subscribed' \in BOOLEAN /\ arrived' \subseteq Senders
      /\ arrived \subseteq arrived'
  BY DEF TypeOK, LinkTypeOK, Links
<1>1. /\ token' \in [Senders -> Tokens]
      /\ \A c \in Senders :
            \/ token'[c] = token[c]
            \/ token[c] = "waiting" /\ token'[c] \in {"done", "failed"}
  BY DEF TypeOK, LinkTypeOK, Tokens
<1>2. message' \in [Ids -> Messages] /\ mid' \in [Senders -> Ids \cup {NoId}]
  BY DEF TypeOK, LinkTypeOK, Messages
<1>3. TypeOK'
  BY <1>0, <1>1, <1>2 DEF TypeOK, LinkTypeOK, PresenceTypeOK
<1>4. Placed'
  BY <1>1 DEF Placed
<1>5. Remembered' /\ RoomTried' /\ RoomRespected'
  BY DEF Remembered, RoomTried, RoomRespected, OwnedBy
<1>6. Delivered'
  <2>1. CASE Shutdown
    BY <2>1, IdsAssumption DEF TypeOK, LinkTypeOK, Delivered
  <2>2. CASE Broker
    <3>. SUFFICES ASSUME NEW c \in Senders
                  PROVE  /\ mid'[c] \in Ids => message'[mid'[c]] # "free"
                         /\ mid'[c] \in Ids /\ message'[mid'[c]] = "taken" => c \in arrived'
                         /\ mid[c] \in Ids => c \in arrived' \/ mid'[c] \in Ids
                         /\ link # "closed"
      BY <2>2, <1>0, <1>1 DEF Delivered
    <3>0. /\ mid[c] \in Ids => message[mid[c]] # "free"
          /\ mid[c] \in Ids /\ message[mid[c]] = "taken" => c \in arrived
      BY DEF Delivered
    <3>1. CASE \E i \in Ids : Resume(i)
      BY <3>0, <3>1 DEF TypeOK, LinkTypeOK
    <3>2. CASE \E i \in Ids : BrokerTakes(i)
      BY <3>0, <3>2 DEF TypeOK, LinkTypeOK
    <3>3. CASE \E i \in Ids : PubAck(i)
      BY <3>0, <3>3, IdsAssumption DEF TypeOK, LinkTypeOK
    <3>4. CASE Breaks
      BY <3>0, <3>4 DEF TypeOK, LinkTypeOK, Free
    <3>5. CASE Reconnect
      BY <3>0, <3>5 DEF TypeOK, LinkTypeOK
    <3>. QED  BY <2>2, <3>1, <3>2, <3>3, <3>4, <3>5
  <2>. QED  BY <2>1, <2>2
<1>7. SilentDevicesGo'
  BY DEF SilentDevicesGo
<1>. QED  BY <1>3, <1>4, <1>5, <1>6, <1>7

(* A status is handled; a key runs out. *)
LEMMA StatusInv ==
  ASSUME IInv, StatusStep \/ \E d \in Reporters : StatusArrives(d) \/ KeyEnds(d)
  PROVE  IInv'
<1>. USE DEF IInv, StatusStep, StatusArrives, KeyEnds, CallbackStep, Receive,
             HSetDevice, ExpireDevice, RedisFails, Returns, BroadcastStatus,
             KeyExpires, Makes, Limits, linkVars, history
<1>1. TypeOK'
  <2>1. callback' \in {"idle", "hset", "expire", "broadcast"}
    BY DEF TypeOK, PresenceTypeOK
  <2>2. reporter' \in IF callback' = "idle" THEN {NoReporter} ELSE Reporters
    BY DEF TypeOK, PresenceTypeOK
  <2>3. deviceKey' \in [Reporters -> {"absent", "immortal", "mortal"}]
    BY DEF TypeOK, PresenceTypeOK
  <2>4. cut' \subseteq Reporters
    BY DEF TypeOK, PresenceTypeOK
  <2>6. PresenceTypeOK'
    BY <2>1, <2>2, <2>3, <2>4 DEF PresenceTypeOK
  <2>. QED  BY <2>6 DEF TypeOK, LinkTypeOK
<1>2. Placed' /\ Remembered' /\ RoomTried' /\ RoomRespected' /\ Delivered'
  BY DEF Placed, Remembered, RoomTried, RoomRespected, Delivered, OwnedBy
<1>3. SilentDevicesGo'
  BY DEF TypeOK, PresenceTypeOK, SilentDevicesGo
<1>. QED  BY <1>1, <1>2, <1>3

(* The process ends, wherever it stands, and is started again. *)
LEMMA ExitInv ==
  ASSUME IInv, Exit \/ Restart PROVE IInv'
<1>. USE DEF IInv, Exit, Restart, PresenceDies, presenceVars, history
<1>1. TypeOK'
  <2>1. LinkTypeOK'
    BY DEF TypeOK, LinkTypeOK, Links, Messages, Tokens
  <2>2. PresenceTypeOK'
    BY DEF TypeOK, PresenceTypeOK
  <2>. QED  BY <2>1, <2>2 DEF TypeOK, Stages
<1>2. Placed' /\ Remembered' /\ RoomTried' /\ RoomRespected'
  BY DEF Placed, Remembered, RoomTried, RoomRespected, OwnedBy
<1>3. Delivered'
  BY IdsAssumption DEF Delivered
<1>4. SilentDevicesGo'
  BY DEF SilentDevicesGo
<1>. QED  BY <1>1, <1>2, <1>3, <1>4

(* It holds while no message is handled and no device has reported. *)
LEMMA InitInv == Init => IInv
<1>. SUFFICES ASSUME Init PROVE IInv
  OBVIOUS
<1>. USE DEF Init, LinkInit, PresenceInit, Registry!Init
<1>1. TypeOK
  <2>1. LinkTypeOK
    BY DEF LinkTypeOK, Links, Messages, Tokens
  <2>2. PresenceTypeOK
    BY DEF PresenceTypeOK
  <2>3. /\ owner \in [Devices -> Users \cup {NoUser, Absent}]
        /\ pc \in [Senders -> Stages] /\ running \in BOOLEAN
    BY DEF Stages
  <2>4. /\ intent \in [Senders -> Intents \cup {NoIntent}]
        /\ target \in [Senders -> Devices \cup {Unnamed}]
    OBVIOUS
  <2>5. held \in [Senders -> SUBSET Devices] /\ kept \in [Senders -> SUBSET Devices]
    OBVIOUS
  <2>. QED  BY <2>1, <2>2, <2>3, <2>4, <2>5 DEF TypeOK
<1>2. Placed /\ Remembered /\ RoomTried /\ RoomRespected
  BY DEF Placed, Remembered, RoomTried, RoomRespected
<1>3. Delivered /\ SilentDevicesGo
  BY IdsAssumption DEF Delivered, SilentDevicesGo
<1>. QED  BY <1>1, <1>2, <1>3 DEF IInv

(* IInv is inductive. *)
THEOREM Inductive == IInv /\ [Next]_vars => IInv'
<1>. SUFFICES ASSUME IInv, [Next]_vars PROVE IInv'
  OBVIOUS
<1>1. ASSUME NEW c \in Senders, HandleMessage(c) \/ Handle(c) PROVE IInv'
  BY <1>1, HandleInv, HandlerInv
<1>2. CASE OwnersChange
  BY <1>2, OwnersInv
<1>3. CASE Broker \/ Shutdown
  BY <1>3, LinkInv
<1>4. CASE StatusStep \/ \E d \in Reporters : StatusArrives(d) \/ KeyEnds(d)
  BY <1>4, StatusInv
<1>5. CASE Exit \/ Restart
  BY <1>5, ExitInv
<1>6. CASE UNCHANGED vars
  BY <1>6 DEF vars, linkVars, presenceVars, history, IInv, TypeOK, LinkTypeOK,
     PresenceTypeOK, Placed, Remembered, RoomTried, RoomRespected, Delivered,
     SilentDevicesGo, OwnedBy
<1>. QED  BY <1>1, <1>2, <1>3, <1>4, <1>5, <1>6 DEF Next

(* IInv always holds. *)
THEOREM Invariance == Spec => []IInv
<1>. QED  BY InitInv, Inductive, PTL DEF Spec

(* The variables keep their types. *)
THEOREM TypeCorrect == Spec => []TypeOK
<1>1. IInv => TypeOK
  BY DEF IInv
<1>. QED  BY <1>1, Invariance, PTL

(* A command is for a device its user owned (chat_orchestrator.go:97-143). *)
THEOREM CommandsAreOwned == Spec => []CommandsOwned
<1>1. IInv => CommandsOwned
  BY DEF IInv, Placed, CommandsOwned
<1>. QED  BY <1>1, Invariance, PTL

(* Another room only for want of devices (chat_orchestrator.go:116-143). *)
THEOREM RoomsRespected == Spec => []RoomRespected
<1>1. IInv => RoomRespected
  BY DEF IInv
<1>. QED  BY <1>1, Invariance, PTL

(* Only a SetDeviceOnline that was cut off between HSET and EXPIRE, by a       *)
(* failed command or by the end of the process, leaves a key without an expiry *)
(* (redis.go:51-55), and no longer than until the next complete one.           *)
THEOREM SilentGo == Spec => []SilentDevicesGo
<1>1. IInv => SilentDevicesGo
  BY DEF IInv
<1>. QED  BY <1>1, Invariance, PTL

(* What was published and not refused has arrived or is in the store, as long  *)
(* as main has not closed the link (mqtt_client.go:49-60).                     *)
THEOREM CommandsKept == Spec => []CommandKept
<1>1. ASSUME IInv PROVE CommandKept
  <2>1. \A c \in Senders : mid[c] \in Ids => InStore(c)
    BY <1>1 DEF IInv, TypeOK, LinkTypeOK, Delivered, InStore
  <2>. QED  BY <1>1, <2>1 DEF IInv, Delivered, CommandKept
<1>. QED  BY <1>1, Invariance, PTL
===============================================================================
