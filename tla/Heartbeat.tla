------------------------------ MODULE Heartbeat ------------------------------
(* The heartbeat of one connection (websocket/client.go), in time: WritePump   *)
(* pings every pingPeriod, the peer answers, and ReadPump, if a read has to    *)
(* wait past the deadline, gives the connection up.  Pongs are only seen by    *)
(* ReadMessage, and so wait while ReadPump is inside HandleMessage, which has  *)
(* no deadline of its own: it waits for MySQL and for the broker's PUBACK.     *)
(*                                                                             *)
(* Time passes in units of 2 s, which divides all of the code's periods.  What *)
(* can run does within a unit.                                                 *)
EXTENDS Integers, Sequences, SequencesExt

CONSTANTS
    PongWait, PingPeriod,   \* those of client.go, in units
    MaxWait,        \* bound of the instance: how long a tick waits for select
                    \* to take it, behind the writes of messages
    MaxAnswer,      \* longest time for a ping to reach a peer and be answered
    MaxUnread       \* messages of the peer not read yet

ASSUME PeriodsAssumption ==
    /\ PongWait \in Nat /\ PingPeriod \in Nat \ {0} /\ PingPeriod < PongWait
    /\ MaxWait \in Nat /\ MaxAnswer \in Nat /\ MaxUnread \in Nat \ {0}

VARIABLES
    peer,       \* the peer answers, or has vanished without a word
    unread,     \* frames that arrived: messages and pongs
    ahead,      \* how many of them are in the connection's read buffer
    reader,     \* where ReadPump stands
    open,       \* the connection has not been closed
    deadline,   \* time to the read deadline; 0: it has passed
    ticker,     \* time since the last tick
    tick,       \* how long a tick has waited in the ticker's channel; -1: none
    asked,      \* age of the ping the peer has to answer; -1: none
    held,       \* history: how long the server itself has kept a ping or a
                \* pong waiting since it set the deadline
    silence     \* history: time that ReadPump has spent waiting for a frame
                \* since the peer vanished

peerVars == <<peer, asked, silence>>
readVars == <<unread, ahead, reader, deadline>>
sendVars == <<ticker, tick, open>>
vars == <<peerVars, readVars, sendVars, held>>

No      == -1
Slack   == PongWait - PingPeriod

Init ==
    /\ peer = "there" /\ asked = No /\ silence = 0
    /\ unread = <<>> /\ ahead = 0
    /\ reader = "read" /\ open = TRUE
    /\ deadline = PongWait
    /\ ticker = 0 /\ tick = No
    /\ held = 0

-------------------------------------------------------------------------------
(* The peer: a message, the answer to a ping, silence for good.  Pongs that    *)
(* lie next to each other are read at once, and are one.                       *)
Arrives(frame) ==
    /\ peer = "there" /\ open
    /\ unread' = Append(unread, frame)
    /\ UNCHANGED <<peer, silence, ahead, reader, deadline, sendVars, held>>

PeerSends == Len(unread) < MaxUnread /\ Arrives("message") /\ UNCHANGED asked
PeerAnswers ==
    /\ asked # No
    /\ asked' = No
    /\ IF unread # <<>> /\ Last(unread) = "pong"
       THEN peer = "there" /\ open
            /\ UNCHANGED <<peer, silence, readVars, sendVars, held>>
       ELSE Arrives("pong")

PeerVanishes ==
    /\ peer = "there"
    /\ peer' = "gone"
    /\ UNCHANGED <<asked, silence, readVars, sendVars, held>>

-------------------------------------------------------------------------------
(* ReadMessage takes what is in the buffer; when it is empty it reads from the *)
(* connection, which fails once the deadline has passed, even if frames have   *)
(* arrived.  A pong moves the deadline; and a PongHandler that does not, and   *)
(* one that takes the deadline for milliseconds.                               *)
CanFill == ahead = 0 /\ open /\ deadline > 0 /\ unread # <<>>

SetReadDeadlineMillis == deadline' = 1000 * PongWait /\ held' = 0
SetReadDeadline == deadline' = PongWait /\ held' = 0

TakeNoPong(more) ==
    /\ unread' = Tail(unread)
    /\ ahead' = more
    /\ reader' = IF Head(unread) = "pong" THEN reader ELSE "handle"
    /\ UNCHANGED <<deadline, held, peerVars, sendVars>>
Take(more) ==
    /\ unread' = Tail(unread)
    /\ ahead' = more
    /\ IF Head(unread) = "pong"
       THEN SetReadDeadline /\ UNCHANGED reader
       ELSE reader' = "handle" /\ UNCHANGED <<deadline, held>>
    /\ UNCHANGED <<peerVars, sendVars>>

ReadBuffered ==
    /\ reader = "read"
    /\ ahead > 0
    /\ Take(ahead - 1)

ReadMessage ==
    /\ reader = "read"
    /\ CanFill
    /\ \E n \in 1..Len(unread) : Take(n - 1)

(* The read fails: for the deadline, or because WritePump closed the           *)
(* connection; ReadPump ends.  And a ReadPump that reads on after a timeout.   *)
ReadFails ==
    /\ reader = "read" /\ ahead = 0
    /\ UNCHANGED <<unread, ahead, peerVars, sendVars>>
ReadOn ==
    /\ ReadFails
    /\ open /\ deadline = 0
    /\ SetReadDeadline
    /\ UNCHANGED reader
ReadTimeout ==
    /\ ReadFails
    /\ open /\ deadline = 0
    /\ reader' = "timedOut"
    /\ UNCHANGED <<deadline, held>>
ReadClosed ==
    /\ ReadFails
    /\ ~open
    /\ reader' = "closed"
    /\ UNCHANGED <<deadline, held>>

(* HandleMessage returns, whenever that is. *)
HandlerReturns ==
    /\ reader = "handle"
    /\ reader' = "read"
    /\ UNCHANGED <<unread, ahead, deadline, peerVars, sendVars, held>>

-------------------------------------------------------------------------------
(* WritePump takes the tick and pings: at once, or after the writes of the     *)
(* messages that select takes first.  A ping not answered yet stays the older  *)
(* one.  What the write of the ping takes is part of MaxAnswer.                *)
Ping ==
    /\ tick # No
    /\ tick' = No
    /\ asked' = IF asked = No THEN 0 ELSE asked
    /\ UNCHANGED <<ticker, open, peer, silence, readVars, held>>

(* A write ran into its deadline: WritePump ends and closes the connection. *)
WriteFails ==
    /\ open
    /\ open' = FALSE /\ tick' = No /\ ticker' = 0
    /\ UNCHANGED <<peerVars, readVars, held>>

-------------------------------------------------------------------------------
Waiting == tick # No \/ Contains(unread, "pong")

(* Nothing that should happen within the unit is left: no read that can        *)
(* return, no answer that is due, and no tick that has waited for MaxWait.     *)
(* HandleMessage may still run: nothing bounds it.                             *)
Settled ==
    /\ reader = "read" => ahead = 0 /\ open /\ deadline > 0 /\ unread = <<>>
    /\ tick < MaxWait
    /\ peer = "there" /\ open => asked < MaxAnswer

Older(age) == IF age = No THEN No ELSE age + 1

TimePasses ==
    /\ reader \in {"read", "handle"}
    /\ Settled
    /\ deadline' = IF deadline > 0 THEN deadline - 1 ELSE 0
    /\ ticker' = IF open /\ ticker + 1 < PingPeriod THEN ticker + 1 ELSE 0
    /\ tick' = IF tick = No /\ open /\ ticker + 1 = PingPeriod THEN 0 ELSE Older(tick)
    /\ asked' = IF peer = "there" /\ open THEN Older(asked) ELSE asked
    /\ held' = IF Waiting /\ held < Slack THEN held + 1 ELSE held
    /\ silence' = IF peer = "gone" /\ reader = "read" /\ silence <= PongWait
                  THEN silence + 1 ELSE silence
    /\ UNCHANGED <<peer, unread, ahead, reader, open>>

Read  == ReadBuffered \/ ReadMessage \/ ReadTimeout \/ ReadClosed
Next ==
    \/ PeerSends \/ PeerAnswers \/ PeerVanishes
    \/ Read \/ HandlerReturns
    \/ Ping \/ WriteFails
    \/ TimePasses

Spec == Init /\ [][Next]_vars

(* Goroutines that can run do, and time goes on.  That HandleMessage returns   *)
(* is not assumed.                                                             *)
FairSpec == Spec /\ WF_vars(Read) /\ WF_vars(Ping) /\ WF_vars(TimePasses)

-------------------------------------------------------------------------------
(* The values the variables range over. *)
TypeOK ==
    /\ peer \in {"there", "gone"}
    /\ asked \in No..MaxAnswer /\ silence \in 0..(PongWait + 1)
    /\ unread \in Seq({"message", "pong"}) /\ ahead \in 0..Len(unread)
    /\ reader \in {"read", "handle", "timedOut", "closed"}
    /\ deadline \in 0..PongWait
    /\ ticker \in 0..(PingPeriod - 1)
    /\ tick \in No..MaxWait /\ open \in BOOLEAN
    /\ held \in 0..Slack

(* The 6 s between pingPeriod and pongWait are the server's own budget: a peer *)
(* that answers is only given up if the server kept a ping (behind a slow      *)
(* write) or a pong (behind messages being handled) waiting for all that the   *)
(* peer's answer leaves of them (client.go:11-13,47-52,68-69,101-104).         *)
DroppedOnlyWhenHeld ==
    reader = "timedOut" /\ peer = "there" => held >= Slack - MaxAnswer

(* Once the peer has vanished without a word, ReadPump waits for a frame for   *)
(* pongWait and no longer, all its reads taken together: the pongs and the     *)
(* messages that the peer left behind buy no more than the last of them, and   *)
(* only HandleMessage may take longer (client.go:45-62,71).                    *)
VanishedIsNoticed ==
    reader \in {"read", "handle"} => silence <= PongWait

(* ... and so ReadPump ends, unless it stays in HandleMessage for good. *)
VanishedGoes ==
    []<>(reader # "handle") => (peer = "gone" ~> reader \in {"timedOut", "closed"})

(* docs/MyNotes.md: as long as the client is alive, the deadline is pushed     *)
(* back again and again.                                                       *)
AliveStays == reader = "timedOut" => peer = "gone"
===============================================================================
