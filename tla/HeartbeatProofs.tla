---------------------------- MODULE HeartbeatProofs ----------------------------
(* Proofs about Heartbeat, for any periods with PingPeriod < PongWait.         *)
EXTENDS Heartbeat, SequenceTheorems, TLAPS

Reading == reader \in {"read", "handle"}

(* Time since the read deadline was set, until it has passed. *)
Elapsed == PongWait - deadline

(* How far the heartbeat has come since the deadline was set: there is a pong  *)
(* to read, or a ping to answer, or a tick to take, or the ticker runs.  What  *)
(* passed since then is the period, the peer's part and what was held.         *)
Within(age) == held = Slack \/ Elapsed <= PingPeriod + age + held
Progress ==
    \/ Contains(unread, "pong") /\ Within(MaxAnswer)
    \/ asked # No /\ Within(asked)
    \/ tick # No /\ Within(0)
    \/ Elapsed <= ticker

OnBeat == peer = "there" /\ open /\ Reading => Progress

(* What ReadPump may still have to wait for: the deadline, which a pong that is *)
(* still to be read sets again.                                                *)
Wait    == IF unread = <<>> THEN deadline ELSE PongWait
Patient == Reading => silence + Wait <= PongWait

NotMissed == peer = "there" => silence = 0

IInv ==
    /\ TypeOK
    /\ NotMissed
    /\ OnBeat
    /\ DroppedOnlyWhenHeld
    /\ Patient

-------------------------------------------------------------------------------
Frames == {"message", "pong"}

(* A pong that is not taken is still there. *)
LEMMA PongStays ==
  ASSUME NEW s \in Seq(Frames), s # <<>>, Contains(s, "pong"), Head(s) # "pong"
  PROVE  Contains(Tail(s), "pong")
<1>1. /\ Len(s) \in Nat \ {0} /\ Head(s) = s[1]
      /\ Len(Tail(s)) = Len(s) - 1
      /\ \A i \in 1..Len(s) - 1 : Tail(s)[i] = s[i + 1]
  BY HeadTailProperties, EmptySeq
<1>2. PICK i \in 1..Len(s) : s[i] = "pong"
  BY DEF Contains
<1>3. i - 1 \in 1..Len(s) - 1 /\ Tail(s)[i - 1] = "pong"
  BY <1>1, <1>2
<1>. QED  BY <1>1, <1>3 DEF Contains

(* What arrives goes behind what is there. *)
LEMMA PongArrives ==
  ASSUME NEW s \in Seq(Frames), NEW f \in Frames
  PROVE  /\ Append(s, f) \in Seq(Frames) /\ Append(s, f) # <<>>
         /\ Len(Append(s, f)) = Len(s) + 1
         /\ Contains(Append(s, f), "pong") <=> Contains(s, "pong") \/ f = "pong"
<1>1. Len(s) \in Nat
  OBVIOUS
<1>. QED  BY <1>1, AppendProperties DEF Contains

(* A pong that came last is there. *)
LEMMA PongIsLast ==
  ASSUME NEW s \in Seq(Frames), s # <<>>, Last(s) = "pong"
  PROVE  Contains(s, "pong")
<1>1. Len(s) \in 1..Len(s)
  BY EmptySeq
<1>. QED  BY <1>1 DEF Contains, Last

(* The slack is a time, which does not change. *)
LEMMA SlackIsNat == Slack \in Nat /\ Slack' = Slack
BY PeriodsAssumption DEF Slack

-------------------------------------------------------------------------------
(* The peer answers a ping: there is a pong, within what the answer may take.  *)
LEMMA AnsweredInTime ==
  ASSUME IInv, PeerAnswers, Contains(unread', "pong"), Progress PROVE Progress'
<1>. USE DEF IInv, PeerAnswers, Arrives, sendVars, readVars
<1>1. asked # No /\ UNCHANGED <<held, deadline, tick, ticker>>
  OBVIOUS
<1>2. Within(asked) => Within(MaxAnswer)'
  BY <1>1, PeriodsAssumption, SlackIsNat DEF TypeOK, Within, Elapsed, No
<1>. QED  BY <1>1, <1>2, SlackIsNat DEF Progress, Within, Elapsed

(* What ReadPump has waited and may still wait does not grow. *)
LEMMA NoLonger ==
  ASSUME NEW spent \in Nat, NEW left \in Nat, NEW more \in Nat, NEW rest \in Nat,
         spent + left <= PongWait,
         (more = spent /\ rest <= left) \/ (more <= spent + 1 /\ rest = left - 1)
  PROVE  more + rest <= PongWait
BY PeriodsAssumption

(* A frame arrives: a message, or the pong that answers a ping. *)
LEMMA ArrivesInv ==
  ASSUME IInv, PeerSends \/ PeerAnswers PROVE IInv'
<1>. USE DEF IInv, PeerSends, PeerAnswers, Arrives, sendVars, readVars
<1>0. unread \in Seq(Frames)
  BY DEF TypeOK, Frames
<1>1. UNCHANGED <<peer, silence, ahead, reader, deadline, ticker, tick, open, held>>
  OBVIOUS
<1>2. asked' \in No..MaxAnswer
  BY PeriodsAssumption DEF TypeOK, No
<1>3. /\ unread' \in Seq(Frames) /\ ahead' \in 0..Len(unread')
      /\ Contains(unread, "pong") => Contains(unread', "pong")
      /\ PeerAnswers => Contains(unread', "pong")
      /\ PeerSends => asked' = asked
  <2>1. CASE unread' = unread /\ PeerAnswers /\ unread # <<>> /\ Last(unread) = "pong"
    <3>1. Contains(unread, "pong")
      BY <1>0, <2>1, PongIsLast
    <3>2. ~PeerSends \/ asked' = asked
      OBVIOUS
    <3>. QED  BY <1>0, <1>1, <2>1, <3>1, <3>2 DEF TypeOK
  <2>2. ASSUME NEW f \in Frames, unread' = Append(unread, f), f = "pong" \/ ~PeerAnswers
        PROVE  /\ unread' \in Seq(Frames) /\ ahead' \in 0..Len(unread')
               /\ Contains(unread, "pong") => Contains(unread', "pong")
               /\ PeerAnswers => Contains(unread', "pong")
               /\ PeerSends => asked' = asked
    <3>1. /\ Append(unread, f) \in Seq(Frames)
          /\ Len(Append(unread, f)) = Len(unread) + 1
          /\ Contains(Append(unread, f), "pong") <=> Contains(unread, "pong") \/ f = "pong"
      BY <1>0, PongArrives
    <3>2. ahead' \in 0..Len(unread')
      BY <1>0, <1>1, <2>2, <3>1 DEF TypeOK
    <3>. QED  BY <2>2, <3>1, <3>2
  <2>. QED  BY <2>1, <2>2 DEF Frames
<1>4. TypeOK'
  BY <1>1, <1>2, <1>3 DEF TypeOK, Frames
<1>5. NotMissed' /\ DroppedOnlyWhenHeld'
  BY <1>1 DEF NotMissed, DroppedOnlyWhenHeld
<1>6. OnBeat'
  <2>. SUFFICES ASSUME peer = "there", open, Reading PROVE Progress'
    BY <1>1 DEF OnBeat, Reading
  <2>1. Progress
    BY DEF OnBeat
  <2>2. CASE PeerAnswers
    BY <1>3, <2>1, <2>2, AnsweredInTime
  <2>3. CASE PeerSends
    BY <1>1, <1>3, <2>1, <2>3, SlackIsNat DEF Progress, Within, Elapsed
  <2>. QED  BY <2>2, <2>3
<1>7. Patient'
  BY <1>1, PeriodsAssumption DEF NotMissed, Patient, Reading, TypeOK, Wait
<1>. QED  BY <1>4, <1>5, <1>6, <1>7

(* The peer vanishes. *)
LEMMA VanishesInv ==
  ASSUME IInv, PeerVanishes PROVE IInv'
<1>. USE DEF IInv, PeerVanishes, readVars, sendVars
<1>1. TypeOK'
  BY DEF TypeOK
<1>2. NotMissed' /\ OnBeat' /\ DroppedOnlyWhenHeld' /\ Patient'
  BY DEF NotMissed, OnBeat, DroppedOnlyWhenHeld, Patient, Reading, Wait
<1>. QED  BY <1>1, <1>2

(* ReadPump has a frame: a pong sets the deadline, a message is handled. *)
LEMMA TakeInv ==
  ASSUME IInv, reader = "read", unread # <<>>,
         NEW more \in 0..(Len(unread) - 1), Take(more)
  PROVE  IInv'
<1>. USE DEF IInv, Take, SetReadDeadline, peerVars, sendVars
<1>0. /\ unread \in Seq(Frames) /\ unread' \in Seq(Frames)
      /\ Head(unread) \in Frames /\ Len(unread') = Len(unread) - 1
  BY HeadTailProperties DEF TypeOK, Frames
<1>1. TypeOK'
  BY <1>0, PeriodsAssumption, SlackIsNat DEF TypeOK, Frames
<1>2. NotMissed'
  BY DEF NotMissed
<1>3. OnBeat' /\ DroppedOnlyWhenHeld'
  <2>1. CASE Head(unread) = "pong"
    BY <2>1, PeriodsAssumption DEF TypeOK, OnBeat, Progress, Elapsed, DroppedOnlyWhenHeld
  <2>2. CASE Head(unread) # "pong"
    <3>1. Contains(unread, "pong") => Contains(unread', "pong")
      BY <1>0, <2>2, PongStays
    <3>2. UNCHANGED <<deadline, held, peer, open, asked, tick, ticker>> /\ reader' = "handle"
      BY <2>2
    <3>3. Progress => Progress'
      BY <3>1, <3>2 DEF Progress, Within, Elapsed, Slack
    <3>. QED  BY <3>2, <3>3 DEF OnBeat, Reading, DroppedOnlyWhenHeld
  <2>. QED  BY <2>1, <2>2
<1>4. Patient'
  <2>1. Wait' <= Wait
    BY <1>1, PeriodsAssumption DEF TypeOK, Wait
  <2>2. silence + Wait <= PongWait /\ silence' = silence
    BY DEF Patient, Reading
  <2>3. Wait \in Nat /\ Wait' \in Nat /\ silence \in Nat
    BY <1>1, PeriodsAssumption DEF TypeOK, Wait
  <2>. QED  BY <2>1, <2>2, <2>3, NoLonger DEF Patient
<1>. QED  BY <1>1, <1>2, <1>3, <1>4

(* ReadPump's read succeeds or fails. *)
LEMMA ReadInv ==
  ASSUME IInv, Read PROVE IInv'
<1>. USE DEF IInv
<1>1. CASE ReadBuffered
  <2>1. unread # <<>> /\ ahead - 1 \in 0..(Len(unread) - 1)
    BY <1>1 DEF ReadBuffered, TypeOK
  <2>. QED  BY <1>1, <2>1, TakeInv DEF ReadBuffered
<1>2. CASE ReadMessage
  <2>. PICK n \in 1..Len(unread) : Take(n - 1)
    BY <1>2 DEF ReadMessage
  <2>1. unread # <<>> /\ n - 1 \in 0..(Len(unread) - 1)
    BY <1>2 DEF ReadMessage, CanFill, TypeOK
  <2>. QED  BY <1>2, <2>1, TakeInv DEF ReadMessage
<1>3. CASE ReadTimeout
  <2>. USE <1>3 DEF ReadTimeout, ReadFails, peerVars, sendVars
  <2>1. TypeOK'
    BY DEF TypeOK
  <2>2. NotMissed' /\ OnBeat' /\ Patient'
    BY DEF NotMissed, OnBeat, Patient, Reading
  <2>3. DroppedOnlyWhenHeld'
    <3>. SUFFICES ASSUME peer = "there" PROVE held >= Slack - MaxAnswer
      BY SlackIsNat DEF DroppedOnlyWhenHeld
    <3>1. Progress /\ Elapsed = PongWait
      BY PeriodsAssumption DEF OnBeat, Reading, Elapsed
    <3>. QED  BY <3>1, PeriodsAssumption, SlackIsNat
              DEF TypeOK, Progress, Within, Slack, No
  <2>. QED  BY <2>1, <2>2, <2>3
<1>4. CASE ReadClosed
  <2>. USE <1>4 DEF ReadClosed, ReadFails, peerVars, sendVars
  <2>1. TypeOK'
    BY DEF TypeOK
  <2>2. NotMissed' /\ OnBeat' /\ DroppedOnlyWhenHeld' /\ Patient'
    BY DEF NotMissed, OnBeat, DroppedOnlyWhenHeld, Patient, Reading
  <2>. QED  BY <2>1, <2>2
<1>. QED  BY <1>1, <1>2, <1>3, <1>4 DEF Read

(* The handler returns to reading. *)
LEMMA HandlerReturnsInv ==
  ASSUME IInv, HandlerReturns PROVE IInv'
<1>. USE DEF IInv, HandlerReturns, peerVars, sendVars
<1>1. TypeOK' /\ NotMissed'
  BY DEF TypeOK, NotMissed
<1>2. OnBeat' /\ DroppedOnlyWhenHeld' /\ Patient'
  BY DEF OnBeat, Progress, Within, Elapsed, Slack, Reading, DroppedOnlyWhenHeld,
         Patient, Wait
<1>. QED  BY <1>1, <1>2

(* WritePump pings: the tick is taken, and there is something to answer. *)
LEMMA PingInv ==
  ASSUME IInv, Ping PROVE IInv'
<1>. USE DEF IInv, Ping, readVars
<1>1. TypeOK' /\ NotMissed'
  BY PeriodsAssumption DEF TypeOK, NotMissed, No
<1>2. OnBeat'
  <2>1. UNCHANGED <<unread, deadline, held, ticker, peer, open, reader>>
    OBVIOUS
  <2>2. asked' \in Nat /\ (asked # No => asked' = asked)
    BY PeriodsAssumption DEF TypeOK, No
  <2>3. asked # No /\ Within(asked) => Within(asked)'
    BY <2>1, <2>2, SlackIsNat DEF Within, Elapsed
  <2>4. Within(0) => Within(asked)'
    BY <2>1, <2>2, PeriodsAssumption, SlackIsNat
    DEF TypeOK, Within, Elapsed
  <2>5. Contains(unread, "pong") /\ Within(MaxAnswer) =>
           Contains(unread, "pong")' /\ Within(MaxAnswer)'
    BY <2>1, SlackIsNat DEF Within, Elapsed
  <2>6. asked' # No
    BY <2>2 DEF No
  <2>7. Progress => Progress'
    BY <2>1, <2>3, <2>4, <2>5, <2>6 DEF Progress, Elapsed
  <2>. QED  BY <2>1, <2>7 DEF OnBeat, Reading
<1>3. DroppedOnlyWhenHeld' /\ Patient'
  BY SlackIsNat DEF DroppedOnlyWhenHeld, Patient, Reading, Wait
<1>. QED  BY <1>1, <1>2, <1>3

(* WritePump ends. *)
LEMMA WriteFailsInv ==
  ASSUME IInv, WriteFails PROVE IInv'
<1>. USE DEF IInv, WriteFails, peerVars, readVars
<1>1. TypeOK' /\ NotMissed'
  <2>1. ticker' \in 0..(PingPeriod - 1) /\ tick' \in No..MaxWait
    BY PeriodsAssumption DEF No
  <2>. QED  BY <2>1, SlackIsNat DEF TypeOK, NotMissed
<1>2. OnBeat'
  BY DEF OnBeat
<1>3. DroppedOnlyWhenHeld' /\ Patient'
  BY SlackIsNat DEF DroppedOnlyWhenHeld, Patient, Reading, Wait
<1>. QED  BY <1>1, <1>2, <1>3

(* A unit of time goes by. *)
LEMMA TimeInv ==
  ASSUME IInv, TimePasses PROVE IInv'
<1>. USE DEF IInv, TimePasses, Settled
<1>1. TypeOK'
  BY PeriodsAssumption, SlackIsNat DEF TypeOK, Older, No
<1>2. NotMissed'
  BY DEF NotMissed
<1>3. OnBeat' /\ DroppedOnlyWhenHeld'
  <2>1. DroppedOnlyWhenHeld'
    BY DEF DroppedOnlyWhenHeld
  <2>2. ASSUME peer = "there", open, Reading PROVE Progress'
    <3>0. Slack \in Nat /\ Elapsed' <= Elapsed + 1 /\ Elapsed \in Nat /\ Elapsed' \in Nat
      BY <1>1, PeriodsAssumption, SlackIsNat DEF TypeOK, Elapsed
    <3>1. CASE Contains(unread, "pong") /\ Within(MaxAnswer)
      BY <3>0, <3>1, PeriodsAssumption DEF TypeOK, Progress, Within, Waiting
    <3>2. CASE asked # No /\ Within(asked)
      BY <2>2, <3>0, <3>2, PeriodsAssumption
      DEF TypeOK, Progress, Within, Waiting, Older, No
    <3>3. CASE tick # No /\ Within(0)
      BY <3>0, <3>3, PeriodsAssumption DEF TypeOK, Progress, Within, Waiting, Older, No
    <3>4. CASE Elapsed <= ticker
      <4>1. CASE ticker + 1 < PingPeriod
        BY <2>2, <3>0, <3>4, <4>1, PeriodsAssumption DEF TypeOK, Progress
      <4>2. CASE ticker + 1 = PingPeriod
        <5>1. tick' # No
          BY <2>2, <4>2 DEF TypeOK, Older, No
        <5>2. Within(0)'
          BY <1>1, <3>0, <3>4, <4>2, PeriodsAssumption DEF TypeOK, Within
        <5>. QED  BY <5>1, <5>2 DEF Progress
      <4>. QED  BY <4>1, <4>2, PeriodsAssumption DEF TypeOK
    <3>. QED  BY <2>2, <3>1, <3>2, <3>3, <3>4 DEF OnBeat, Progress
  <2>. QED  BY <2>1, <2>2 DEF OnBeat, Reading
<1>4. Patient'
  <2>0. /\ UNCHANGED <<unread, reader>> /\ silence + Wait <= PongWait
        /\ silence \in Nat /\ deadline \in 0..PongWait
    BY DEF Patient, Reading, TypeOK
  <2>1. CASE reader = "read"
    <3>1. Wait = deadline /\ deadline \in Nat \ {0} /\ Wait' = deadline - 1
      BY <2>0, <2>1 DEF Wait
    <3>2. silence' \in Nat /\ silence' <= silence + 1
      BY <2>0
    <3>3. silence + deadline <= PongWait
      BY <2>0, <3>1
    <3>4. silence' + (deadline - 1) <= PongWait
      BY <2>0, <3>1, <3>2, <3>3, PeriodsAssumption
    <3>. QED  BY <3>1, <3>4 DEF Patient
  <2>2. CASE reader = "handle"
    <3>1. silence' = silence
      BY <2>2
    <3>2. Wait' <= Wait /\ Wait \in Nat /\ Wait' \in Nat
      BY <2>0, PeriodsAssumption DEF Wait
    <3>. QED  BY <2>0, <3>1, <3>2, NoLonger DEF Patient
  <2>. QED  BY <2>1, <2>2
<1>. QED  BY <1>1, <1>2, <1>3, <1>4

(* It holds of a connection that has just been upgraded. *)
LEMMA InitInv == Init => IInv
<1>. SUFFICES ASSUME Init PROVE IInv
  OBVIOUS
<1>. USE DEF Init
<1>1. TypeOK
  BY PeriodsAssumption, SlackIsNat DEF TypeOK, No
<1>2. OnBeat
  BY PeriodsAssumption DEF OnBeat, Progress, Elapsed
<1>3. NotMissed /\ DroppedOnlyWhenHeld
  BY DEF NotMissed, DroppedOnlyWhenHeld
<1>4. Patient
  BY PeriodsAssumption DEF Patient, Wait
<1>. QED  BY <1>1, <1>2, <1>3, <1>4 DEF IInv

(* Every step of the peer, the pumps and the clock preserves it. *)
THEOREM Inductive == IInv /\ [Next]_vars => IInv'
<1>. SUFFICES ASSUME IInv, [Next]_vars PROVE IInv'
  OBVIOUS
<1>1. CASE Next
  BY <1>1, ArrivesInv, VanishesInv, ReadInv, HandlerReturnsInv, PingInv,
     WriteFailsInv, TimeInv DEF Next
<1>2. CASE UNCHANGED vars
  BY <1>2, SlackIsNat DEF vars, peerVars, readVars, sendVars, IInv, TypeOK,
              NotMissed, OnBeat, Progress, Within, Elapsed, Reading,
              DroppedOnlyWhenHeld, Patient, Wait
<1>. QED  BY <1>1, <1>2

(* So it holds in every state. *)
THEOREM Invariance == Spec => []IInv
<1>. QED  BY InitInv, Inductive, PTL DEF Spec

(* The variables keep their types. *)
THEOREM TypeCorrect == Spec => []TypeOK
<1>1. IInv => TypeOK
  BY DEF IInv
<1>. QED  BY <1>1, Invariance, PTL

(* A peer that answers within MaxAnswer is given up only when the server held  *)
(* a ping or a pong for the rest of PongWait - PingPeriod, whatever the        *)
(* periods (client.go:11-13, 47-52, 101-104).                                  *)
THEOREM DropsAreHeld == Spec => []DroppedOnlyWhenHeld
<1>1. IInv => DroppedOnlyWhenHeld
  BY DEF IInv
<1>. QED  BY <1>1, Invariance, PTL

(* From the moment the peer vanishes, ReadPump waits for frames PongWait at    *)
(* most, however many messages and pongs were left behind and however long     *)
(* HandleMessage takes for each of them (client.go:45-71).                     *)
THEOREM VanishedIsDropped == Spec => []VanishedIsNoticed
<1>1. IInv => VanishedIsNoticed
  <2>. SUFFICES ASSUME IInv, Reading PROVE silence <= PongWait
    BY DEF VanishedIsNoticed, Reading
  <2>1. silence + Wait <= PongWait
    BY DEF IInv, Patient
  <2>2. silence \in Nat /\ Wait \in Nat
    BY PeriodsAssumption DEF IInv, TypeOK, Wait
  <2>. QED  BY <2>1, <2>2, PeriodsAssumption
<1>. QED  BY <1>1, Invariance, PTL
===============================================================================
