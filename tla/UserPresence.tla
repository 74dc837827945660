------------------------------ MODULE UserPresence ------------------------------
(* Who is online, as Redis has it: the hash user:<id> with its 120 s life and  *)
(* the set online_users that GET /online/users reads (repository/redis.go),    *)
(* written by the hub when a user's first connection comes and the last one    *)
(* goes (hub.go), kept alive by every connection's 54 s ticker (client.go).    *)
(*                                                                             *)
(* Time passes in units of 6 s, the common measure of the code's periods:      *)
(* PingPeriod = 9 and OnlineTTL = 20.  Nothing bounds how long a tick waits in *)
(* WritePump: its select picks at random between Send and the ticker, and each *)
(* write may take writeWait = 10 s.  MaxDelay is the bound of an instance.     *)
EXTENDS Integers, FiniteSets

CONSTANTS
    Conns, Users,
    UserOf,         \* the user of a connection
    NoConn,         \* no connection
    PingPeriod,     \* pingPeriod, in units
    OnlineTTL,      \* userOnlineTTL, in units
    MaxDelay,       \* longest wait of a tick in an instance, in units
    MaxFaults       \* failed commands and writes, crashes, losses of data

ASSUME ConnsAssumption  == NoConn \notin Conns
ASSUME UserOfAssumption == UserOf \in [Conns -> Users]
ASSUME TimesAssumption  == /\ PingPeriod \in Nat \ {0} /\ OnlineTTL \in Nat \ {0}
                           /\ MaxDelay \in Nat /\ MaxFaults \in Nat
ASSUME TTLAssumption    == PingPeriod < OnlineTTL

VARIABLES
    phase,          \* where a connection is, from its upgrade to its last pump
    members,        \* connections in Hub.Clients
    writers,        \* connections whose WritePump runs, and with it its ticker
    ticker,         \* time since the connection's last tick
    due,            \* connections with a tick that WritePump has not taken
    lag,            \* how long that tick has waited
    hubAt, hubConn, \* where Hub.run stands, and for which client
    ttl,            \* life left to user:<id>; 0: no such key; NoExpiry: none set
    onlineUsers,    \* the set online_users
    faults,         \* failures so far
    keepers,        \* history: connections whose last word to Redis set or
                    \* found their user's key, and it lost nothing since
    told            \* history: users whose last SetUserOnline or
                    \* SetUserOffline came to its end, and nothing was lost

history  == <<keepers, told>>
timeVars == <<ticker, due, lag>>
hubVars  == <<hubAt, hubConn>>
vars     == <<phase, members, writers, ticker, due, lag, hubAt, hubConn, ttl,
              onlineUsers, faults, keepers, told>>

Phases    == {"off", "joining", "on", "leaving", "draining"}
HubStates == {"select", "insert", "hset", "expire", "sadd", "remove", "del",
              "srem"}
NoExpiry  == OnlineTTL + 1

ConnsOf(u) == {c \in Conns : UserOf[c] = u}
HubUser    == UserOf[hubConn]

Init ==
    /\ phase   = [c \in Conns |-> "off"]
    /\ members = {} /\ writers = {}
    /\ ticker  = [c \in Conns |-> 0]
    /\ due     = {}
    /\ lag     = [c \in Conns |-> 0]
    /\ hubAt   = "select" /\ hubConn = NoConn
    /\ ttl     = [u \in Users |-> 0]
    /\ onlineUsers = {}
    /\ faults  = 0
    /\ keepers = {} /\ told = Users

-------------------------------------------------------------------------------
(* The Redis commands, by their effect (and EXPIRE given milliseconds). *)
HSet(u)   == /\ ttl' = [ttl EXCEPT ![u] = IF @ = 0 THEN NoExpiry ELSE @]
             /\ UNCHANGED onlineUsers
ExpireMillis(u) ==
             /\ ttl' = [ttl EXCEPT ![u] = IF @ = 0 THEN 0 ELSE 1000 * OnlineTTL]
             /\ UNCHANGED onlineUsers
Expire(u) == /\ ttl' = [ttl EXCEPT ![u] = IF @ = 0 THEN 0 ELSE OnlineTTL]
             /\ UNCHANGED onlineUsers
Del(u)    == /\ ttl' = [ttl EXCEPT ![u] = 0]
             /\ UNCHANGED onlineUsers
SAdd(u)   == onlineUsers' = onlineUsers \cup {u} /\ UNCHANGED ttl
SRem(u)   == onlineUsers' = onlineUsers \ {u} /\ UNCHANGED ttl

Failure ==
    /\ faults < MaxFaults
    /\ faults' = faults + 1

(* A command that answers an error may have been executed all the same. *)
Lost(u) == UNCHANGED <<ttl, onlineUsers>>

-------------------------------------------------------------------------------
(* ws_handler.go: the upgraded connection waits for the hub to take it. *)
Connect(c) ==
    /\ phase[c] = "off"
    /\ phase' = [phase EXCEPT ![c] = "joining"]
    /\ UNCHANGED <<members, writers, timeVars, hubVars, ttl, onlineUsers,
                   faults, history>>

(* The hub took it; both pumps start, and with WritePump its ticker. *)
HubTakeRegister(c) ==
    /\ hubAt = "select"
    /\ phase[c] = "joining"
    /\ phase'   = [phase EXCEPT ![c] = "on"]
    /\ writers' = writers \cup {c}
    /\ ticker'  = [ticker EXCEPT ![c] = 0]
    /\ hubAt' = "insert" /\ hubConn' = c
    /\ UNCHANGED <<members, due, lag, ttl, onlineUsers, faults,
                   history>>

(* isFirst, read before the insertion. *)
IsFirst(u) == members \cap ConnsOf(u) = {}

HubInsert ==
    /\ hubAt = "insert"
    /\ members' = members \cup {hubConn}
    /\ hubAt' = IF IsFirst(HubUser) THEN "hset" ELSE "select"
    /\ hubConn' = IF IsFirst(HubUser) THEN hubConn ELSE NoConn
    /\ UNCHANGED <<phase, writers, timeVars, ttl, onlineUsers, faults, history>>

(* ReadPump ended: the peer left or was silent too long, or WritePump closed   *)
(* the connection.  It notices none of this while it is in OnMessage.          *)
Leave(c) ==
    /\ phase[c] = "on"
    /\ phase' = [phase EXCEPT ![c] = "leaving"]
    /\ UNCHANGED <<members, writers, timeVars, hubVars, ttl, onlineUsers,
                   faults, history>>

HubTakeUnregister(c) ==
    /\ hubAt = "select"
    /\ phase[c] = "leaving"
    /\ phase' = [phase EXCEPT ![c] = "draining"]
    /\ hubAt' = "remove" /\ hubConn' = c
    /\ UNCHANGED <<members, writers, timeVars, ttl, onlineUsers, faults,
                   history>>

(* isLast, read after the removal; and one read before it. *)
IsLastBefore(u) == members \cap ConnsOf(u) = {}
IsLast(u) == (members \ {hubConn}) \cap ConnsOf(u) = {}

HubRemove ==
    /\ hubAt = "remove"
    /\ members' = members \ {hubConn}
    /\ hubAt' = IF IsLast(HubUser) THEN "del" ELSE "select"
    /\ hubConn' = IF IsLast(HubUser) THEN hubConn ELSE NoConn
    /\ UNCHANGED <<phase, writers, timeVars, ttl, onlineUsers, faults, history>>

(* WritePump returns, and its ticker stops. *)
WriterEnds(c) ==
    /\ writers' = writers \ {c}
    /\ ticker' = [ticker EXCEPT ![c] = 0]
    /\ due' = due \ {c}
    /\ lag' = [lag EXCEPT ![c] = 0]
    /\ keepers' = keepers \ {c}
    /\ UNCHANGED <<members, hubVars, ttl, onlineUsers, told>>

(* A write failed.  The connection stays a member until its ReadPump has come  *)
(* back from OnMessage, and longer if the hub is busy.                         *)
WriterFails(c) ==
    /\ c \in writers
    /\ Failure
    /\ WriterEnds(c)
    /\ UNCHANGED phase

(* WritePump found its Send closed, if it was still there to find it.  Until   *)
(* then it may still take a tick.                                              *)
WriterStops(c) ==
    /\ phase[c] = "draining"
    /\ c \notin members
    /\ hubConn # c
    /\ phase' = [phase EXCEPT ![c] = "off"]
    /\ WriterEnds(c)
    /\ UNCHANGED faults

(* One command of SetUserOnline or SetUserOffline.  If it fails the function   *)
(* returns, and the hub logs the error and goes back to its select.            *)
HubCommand(at, next, effect) ==
    /\ hubAt = at
    /\ \/ /\ effect
          /\ hubAt' = next
          /\ hubConn' = IF next = "select" THEN NoConn ELSE hubConn
          /\ UNCHANGED faults
          /\ keepers' = IF at = "expire" /\ ttl[HubUser] > 0
                        THEN keepers \cup ({hubConn} \cap writers) ELSE keepers
          /\ told' = IF next = "select" THEN told \cup {HubUser} ELSE told
       \/ /\ Failure
          /\ effect \/ Lost(HubUser)
          /\ hubAt' = "select" /\ hubConn' = NoConn
          /\ told' = told \ {HubUser}
          /\ UNCHANGED keepers
    /\ UNCHANGED <<phase, members, writers, timeVars>>

SetUserOnline ==
    \/ HubCommand("hset", "expire", HSet(HubUser))
    \/ HubCommand("expire", "sadd", Expire(HubUser))
    \/ HubCommand("sadd", "select", SAdd(HubUser))

SetUserOffline ==
    \/ HubCommand("del", "srem", Del(HubUser))
    \/ HubCommand("srem", "select", SRem(HubUser))

(* WritePump takes the tick: RefreshUserTTL, an EXPIRE, then a ping.  Its      *)
(* error is only logged.  And a tick that does no more than ping.              *)
TakeTick(c) ==
    /\ c \in due
    /\ due' = due \ {c}
    /\ lag' = [lag EXCEPT ![c] = 0]
    /\ UNCHANGED <<phase, members, writers, ticker, hubVars, told>>

Kept(c) == keepers' = IF ttl[UserOf[c]] > 0 THEN keepers \cup {c}
                                            ELSE keepers \ {c}
PingOnly(c) == TakeTick(c) /\ Lost(UserOf[c]) /\ Kept(c) /\ UNCHANGED faults
RefreshUserTTL(c) ==
    /\ TakeTick(c)
    /\ \/ Expire(UserOf[c]) /\ Kept(c) /\ UNCHANGED faults
       \/ Lost(UserOf[c]) /\ keepers' = keepers \ {c} /\ Failure

(* A unit of time: the tickers of the writers advance and keys age, whatever   *)
(* the hub and the pumps are doing.                                            *)
Tick ==
    /\ \A c \in due : lag[c] < MaxDelay
    /\ ticker' = [c \in Conns |->
                    IF c \in writers /\ ticker[c] + 1 < PingPeriod THEN ticker[c] + 1
                                                                 ELSE 0]
    /\ due' = due \cup {c \in writers : ticker[c] + 1 = PingPeriod}
    /\ lag' = [c \in Conns |-> IF c \in due THEN lag[c] + 1 ELSE 0]
    /\ ttl' = [u \in Users |-> IF ttl[u] \in 1..OnlineTTL THEN ttl[u] - 1 ELSE ttl[u]]
    /\ UNCHANGED <<phase, members, writers, hubVars, onlineUsers, faults, history>>

(* The hub is in the middle of writing u's state to Redis. *)
Marking(u) == hubAt \in {"hset", "expire", "sadd", "del", "srem"} /\ HubUser = u
Unused(u)  == members \cap ConnsOf(u) = {} /\ ~Marking(u)

(* The server dies and is started again: the registry is empty, Redis is as it *)
(* was left, between two commands of the hub if need be.                       *)
Crash ==
    /\ Failure
    /\ phase'  = [c \in Conns |-> "off"]
    /\ members' = {} /\ writers' = {}
    /\ ticker' = [c \in Conns |-> 0]
    /\ due'    = {}
    /\ lag'    = [c \in Conns |-> 0]
    /\ hubAt' = "select" /\ hubConn' = NoConn
    /\ keepers' = {} /\ told' = {u \in told : Unused(u)}
    /\ UNCHANGED <<ttl, onlineUsers>>

(* Redis is started again without its data. *)
RedisLoss ==
    /\ Failure
    /\ ttl' = [u \in Users |-> 0]
    /\ onlineUsers' = {}
    /\ keepers' = {} /\ told' = {u \in Users : Unused(u)}
    /\ UNCHANGED <<phase, members, writers, timeVars, hubVars>>

Next ==
    \/ \E c \in Conns :
          \/ Connect(c) \/ Leave(c)
          \/ HubTakeRegister(c) \/ HubTakeUnregister(c)
          \/ WriterFails(c) \/ WriterStops(c) \/ RefreshUserTTL(c)
    \/ HubInsert \/ HubRemove
    \/ SetUserOnline \/ SetUserOffline
    \/ Tick
    \/ Crash \/ RedisLoss

Spec == Init /\ [][Next]_vars

-------------------------------------------------------------------------------
(* The values the variables range over. *)
TypeOK ==
    /\ phase   \in [Conns -> Phases]
    /\ members \subseteq Conns /\ writers \subseteq Conns
    /\ ticker  \in [Conns -> 0..(PingPeriod - 1)]
    /\ due     \subseteq Conns
    /\ lag     \in [Conns -> 0..MaxDelay]
    /\ hubAt   \in HubStates /\ hubConn \in Conns \cup {NoConn}
    /\ ttl     \in [Users -> 0..NoExpiry]
    /\ onlineUsers \subseteq Users
    /\ faults  \in 0..MaxFaults
    /\ keepers \subseteq Conns /\ told \subseteq Users

(* GET /online/users has exactly the users with a connection in the hub, of    *)
(* those the hub could tell Redis about: however connections come and go,      *)
(* isFirst and isLast (hub.go:50,68) never miss a change and never see one     *)
(* twice; and whatever a failed command, a crash or a loss of Redis left       *)
(* behind, the next complete SetUserOnline or SetUserOffline repairs.          *)
ListedExactly ==
    \A u \in told \ {v \in Users : Marking(v)} :
        u \in onlineUsers <=> members \cap ConnsOf(u) # {}

(* A connection that set the user's key, or whose last tick found it alive,    *)
(* keeps it alive while it is a member and its WritePump runs: after each tick *)
(* the pump has OnlineTTL - PingPeriod (66 s) to take it, whatever the hub,    *)
(* the user's other connections and their failures do meanwhile.  And a user   *)
(* without connections, of whom Redis was told, has no key.                    *)
KeeperKeepsKey ==
    \A u \in Users \ {v \in Users : Marking(v)} :
        /\ \A c \in keepers \cap members \cap ConnsOf(u) :
              (c \in due => lag[c] < OnlineTTL - PingPeriod) => ttl[u] > 0
        /\ u \in told /\ members \cap ConnsOf(u) = {} => ttl[u] = 0

(* README.md: the heartbeat refreshes the key and it is cleaned up 120 s after *)
(* the connection broke.  So a connected user has a key.                       *)
KeyWhileConnected ==
    faults = 0 =>
        \A u \in Users \ {v \in Users : Marking(v)} :
            members \cap ConnsOf(u) # {} => ttl[u] > 0
===============================================================================
