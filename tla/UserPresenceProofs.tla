-------------------------- MODULE UserPresenceProofs --------------------------
(* Proofs about UserPresence, for any connections and users, any number of     *)
(* failures, any periods for which PingPeriod < OnlineTTL, and ticks that wait *)
(* any time in WritePump.                                                      *)
EXTENDS UserPresence, TLAPS

(* Which connection the hub works on, and whether its user has connections, at *)
(* each of its control points.                                                 *)
HubDecides ==
    /\ hubAt # "select" => hubConn \in Conns
    /\ hubAt = "insert" => /\ hubConn \notin members
                           /\ phase[hubConn] \in {"on", "leaving"}
    /\ hubAt = "remove" => phase[hubConn] = "draining"
    /\ hubAt \in {"hset", "expire", "sadd"} => hubConn \in members
    /\ hubAt \in {"del", "srem"} => members \cap ConnsOf(HubUser) = {}
    /\ hubAt = "srem" => ttl[HubUser] = 0

(* Only a running WritePump has ticks and keeps a key; a connection that is up *)
(* is a member, but for the one that is being inserted.                        *)
PhasesFit ==
    /\ keepers \cup due \subseteq writers
    /\ \A c \in Conns :
        /\ c \in members \cup writers => phase[c] \notin {"off", "joining"}
        /\ phase[c] \in {"on", "leaving"} =>
              c \in members \/ (hubAt = "insert" /\ hubConn = c)

(* A user the hub told Redis about has a key only with connections. *)
NoStrayKey ==
    \A u \in told : members \cap ConnsOf(u) = {} /\ ~Marking(u) => ttl[u] = 0

(* What the key of a keeper has left at least: a refresh's OnlineTTL, less the *)
(* time since the tick before, or PingPeriod more than a waiting tick's lag.   *)
Life(c) == IF c \in due THEN OnlineTTL - PingPeriod - lag[c]
                        ELSE OnlineTTL - ticker[c]
Inserting(c) == hubAt = "insert" /\ hubConn = c
KeysOutlast ==
    \A c \in keepers :
        c \in members \/ Inserting(c) => ttl[UserOf[c]] >= Life(c)

IInv ==
    /\ TypeOK
    /\ HubDecides /\ PhasesFit
    /\ ListedExactly
    /\ NoStrayKey /\ KeysOutlast

-------------------------------------------------------------------------------
(* No key is asked to live longer than a refreshed one does. *)
LEMMA LifeBounded ==
  ASSUME TypeOK, NEW c \in Conns
  PROVE  Life(c) \in Int /\ Life(c) <= OnlineTTL
BY TimesAssumption DEF TypeOK, Life

(* A connection comes, or ends. *)
LEMMA PhaseInv ==
  ASSUME IInv, NEW c \in Conns, Connect(c) \/ Leave(c) PROVE IInv'
<1>. USE DEF IInv, Connect, Leave, timeVars, hubVars, history
<1>1. TypeOK'
  BY DEF TypeOK, Phases
<1>2. HubDecides'
  BY DEF TypeOK, HubDecides, HubUser
<1>3. ListedExactly' /\ NoStrayKey'
  BY DEF HubUser, ListedExactly, NoStrayKey, Marking
<1>4. PhasesFit'
  BY DEF TypeOK, PhasesFit
<1>5. KeysOutlast'
  BY DEF KeysOutlast, Life, Inserting
<1>. QED  BY <1>1, <1>2, <1>3, <1>4, <1>5

(* The hub takes a connection from Register or Unregister. *)
LEMMA TakeInv ==
  ASSUME IInv, NEW c \in Conns, HubTakeRegister(c) \/ HubTakeUnregister(c)
  PROVE  IInv'
<1>. USE DEF IInv, HubTakeRegister, HubTakeUnregister, timeVars, history
<1>1. TypeOK'
  BY TimesAssumption DEF TypeOK, Phases, HubStates
<1>2. HubDecides'
  BY DEF TypeOK, HubDecides, PhasesFit
<1>3. PhasesFit'
  BY DEF TypeOK, PhasesFit
<1>4. ListedExactly' /\ NoStrayKey'
  BY DEF ListedExactly, NoStrayKey, Marking
<1>5. KeysOutlast'
  BY DEF TypeOK, KeysOutlast, Life, Inserting, PhasesFit, HubDecides
<1>. QED  BY <1>1, <1>2, <1>3, <1>4, <1>5

(* Under the mutex: the insertion and the removal. *)
LEMMA InsertInv ==
  ASSUME IInv, HubInsert PROVE IInv'
<1>. USE DEF IInv, HubInsert, timeVars, history
<1>0. hubConn \in Conns /\ HubUser \in Users
  BY UserOfAssumption DEF HubDecides, HubUser
<1>1. TypeOK'
  BY <1>0 DEF TypeOK, HubStates
<1>2. HubDecides'
  BY <1>0 DEF HubDecides
<1>3. PhasesFit'
  <2>1. phase[hubConn] \notin {"off", "joining"}
    BY DEF HubDecides
  <2>. QED  BY <2>1 DEF TypeOK, PhasesFit
<1>4. ListedExactly' /\ NoStrayKey'
  BY <1>0 DEF ListedExactly, NoStrayKey, Marking, IsFirst, HubUser, ConnsOf
<1>5. KeysOutlast'
  BY DEF KeysOutlast, Life, Inserting
<1>. QED  BY <1>1, <1>2, <1>3, <1>4, <1>5

(* The removal, and whether it was the user's last connection. *)
LEMMA RemoveInv ==
  ASSUME IInv, HubRemove PROVE IInv'
<1>. USE DEF IInv, HubRemove, timeVars, history
<1>0. hubConn \in Conns /\ HubUser \in Users
  BY UserOfAssumption DEF HubDecides, HubUser
<1>1. TypeOK'
  BY <1>0 DEF TypeOK, HubStates
<1>2. HubDecides'
  BY <1>0 DEF HubDecides, IsLast, HubUser
<1>3. PhasesFit'
  BY DEF TypeOK, PhasesFit, HubDecides
<1>4. ListedExactly' /\ NoStrayKey'
  BY <1>0 DEF ListedExactly, NoStrayKey, Marking, IsLast, HubUser, ConnsOf
<1>5. KeysOutlast'
  BY DEF TypeOK, KeysOutlast, Life, Inserting
<1>. QED  BY <1>1, <1>2, <1>3, <1>4, <1>5

(* A command of SetUserOnline: carried out, or failed. *)
LEMMA OnlineInv ==
  ASSUME IInv, SetUserOnline PROVE IInv'
<1>. USE DEF IInv, SetUserOnline, HubCommand, timeVars
<1>0. /\ hubConn \in Conns /\ HubUser \in Users /\ hubConn \in members
      /\ hubConn \in ConnsOf(HubUser) /\ Marking(HubUser)
  BY UserOfAssumption DEF HubDecides, HubUser, ConnsOf, Marking
<1>1. /\ ttl' \in [Users -> 0..NoExpiry] /\ \A u \in Users \ {HubUser} : ttl'[u] = ttl[u]
      /\ ttl'[HubUser] = ttl[HubUser] \/ ttl'[HubUser] \in {OnlineTTL, NoExpiry}
      /\ ttl[HubUser] > 0 => ttl'[HubUser] > 0
      /\ hubAt = "expire" /\ keepers' # keepers => ttl'[HubUser] = OnlineTTL
  BY <1>0, TimesAssumption DEF TypeOK, HSet, Expire, SAdd, Lost, NoExpiry
<1>2. /\ onlineUsers' = onlineUsers \/ onlineUsers' = onlineUsers \cup {HubUser}
      /\ HubUser \in told' => HubUser \in told \/ HubUser \in onlineUsers'
      /\ told' \subseteq told \cup {HubUser}
      /\ faults' \in 0..MaxFaults
      /\ keepers' \subseteq keepers \cup ({hubConn} \cap writers)
  BY TimesAssumption DEF TypeOK, HSet, Expire, SAdd, Lost, Failure
<1>3. TypeOK'
  <2>1. hubAt' \in HubStates /\ hubConn' \in Conns \cup {NoConn}
    BY <1>0 DEF HubStates
  <2>. QED  BY <1>0, <1>1, <1>2, <2>1 DEF TypeOK
<1>4. HubDecides'
  BY <1>0 DEF HubDecides, HubUser
<1>5. PhasesFit'
  BY <1>0, <1>2 DEF PhasesFit
<1>6. ListedExactly' /\ NoStrayKey'
  <2>1. ASSUME NEW u \in Users \ {HubUser}
        PROVE  /\ u \in told' => u \in told
               /\ u \in onlineUsers' <=> u \in onlineUsers
               /\ ~Marking(u) /\ ttl'[u] = ttl[u]
    BY <1>1, <1>2 DEF Marking
  <2>2. members \cap ConnsOf(HubUser) # {}
    BY <1>0
  <2>3. ASSUME NEW u \in told', u = HubUser, ~Marking(u)'
        PROVE  u \in onlineUsers'
    <3>1. hubAt' \notin {"expire", "sadd"}
      BY <2>3 DEF Marking, HubUser
    <3>. QED  BY <2>3, <3>1 DEF SAdd, HSet, Expire, Lost
  <2>4. ASSUME NEW u \in told', ~Marking(u)'
        PROVE  u \in onlineUsers' <=> members \cap ConnsOf(u) # {}
    <3>1. u \in Users
      BY <1>3 DEF TypeOK
    <3>2. CASE u = HubUser
      BY <2>2, <2>3, <2>4, <3>2
    <3>3. CASE u # HubUser
      BY <2>1, <3>1, <3>3 DEF ListedExactly
    <3>. QED  BY <3>2, <3>3
  <2>5. ASSUME NEW u \in told', members \cap ConnsOf(u) = {}
        PROVE  ttl'[u] = 0
    BY <2>1, <2>2, <2>5, <1>2 DEF NoStrayKey, TypeOK
  <2>. QED  BY <2>4, <2>5, <1>3 DEF ListedExactly, NoStrayKey, TypeOK
<1>7. KeysOutlast'
  <2>. SUFFICES ASSUME NEW c \in keepers', c \in members
                PROVE  ttl'[UserOf[c]] >= Life(c)
    BY DEF KeysOutlast, Life, Inserting
  <2>0. /\ c \in Conns /\ UserOf[c] \in Users /\ ttl[UserOf[c]] \in Int
        /\ Life(c) \in Int /\ Life(c) <= OnlineTTL
    BY UserOfAssumption, LifeBounded DEF TypeOK
  <2>1. CASE UserOf[c] # HubUser
    BY <2>0, <2>1, <1>1, <1>2 DEF KeysOutlast, HubUser
  <2>2. CASE UserOf[c] = HubUser
    <3>1. CASE c \in keepers
      BY <2>0, <2>2, <3>1, <1>1, TimesAssumption DEF KeysOutlast, NoExpiry
    <3>2. CASE c \notin keepers
      BY <2>0, <2>2, <3>2, <1>1, <1>2, TimesAssumption DEF KeysOutlast
    <3>. QED  BY <3>1, <3>2
  <2>. QED  BY <2>1, <2>2
<1>. QED  BY <1>3, <1>4, <1>5, <1>6, <1>7

(* A command of SetUserOffline. *)
LEMMA OfflineInv ==
  ASSUME IInv, SetUserOffline PROVE IInv'
<1>. USE DEF IInv, SetUserOffline, HubCommand, timeVars
<1>0. /\ hubConn \in Conns /\ HubUser \in Users
      /\ members \cap ConnsOf(HubUser) = {} /\ Marking(HubUser)
  BY UserOfAssumption DEF HubDecides, HubUser, Marking
<1>1. /\ ttl' \in [Users -> 0..NoExpiry] /\ \A u \in Users \ {HubUser} : ttl'[u] = ttl[u]
  BY <1>0, TimesAssumption DEF TypeOK, Del, SRem, Lost, NoExpiry
<1>2. /\ onlineUsers' = onlineUsers \/ onlineUsers' = onlineUsers \ {HubUser}
      /\ told' \subseteq told \cup {HubUser}
      /\ faults' \in 0..MaxFaults
      /\ keepers' = keepers
  BY TimesAssumption DEF TypeOK, Del, SRem, Lost, Failure
<1>3. TypeOK'
  <2>1. hubAt' \in HubStates /\ hubConn' \in Conns \cup {NoConn}
    BY <1>0 DEF HubStates
  <2>. QED  BY <1>0, <1>1, <1>2, <2>1 DEF TypeOK
<1>4. HubDecides'
  BY <1>0 DEF HubDecides, HubUser, TypeOK, Del, SRem, Lost
<1>5. PhasesFit'
  BY <1>0, <1>2 DEF PhasesFit
<1>6. ListedExactly' /\ NoStrayKey'
  <2>1. ASSUME NEW u \in Users \ {HubUser}
        PROVE  /\ u \in told' => u \in told
               /\ u \in onlineUsers' <=> u \in onlineUsers
               /\ ~Marking(u) /\ ttl'[u] = ttl[u]
    BY <1>1, <1>2 DEF Marking
  <2>2. ASSUME NEW u \in told', u = HubUser, ~Marking(u)'
        PROVE  u \notin onlineUsers' /\ ttl'[u] = 0
    <3>1. hubAt' # "srem"
      BY <2>2 DEF Marking, HubUser
    <3>. QED  BY <2>2, <3>1 DEF Del, SRem, Lost, HubDecides
  <2>3. ASSUME NEW u \in told', ~Marking(u)'
        PROVE  /\ u \in onlineUsers' <=> members \cap ConnsOf(u) # {}
               /\ members \cap ConnsOf(u) = {} => ttl'[u] = 0
    <3>1. u \in Users
      BY <1>3 DEF TypeOK
    <3>2. CASE u = HubUser
      BY <2>2, <2>3, <3>2, <1>0
    <3>3. CASE u # HubUser
      BY <2>1, <3>1, <3>3 DEF ListedExactly, NoStrayKey
    <3>. QED  BY <3>2, <3>3
  <2>. QED  BY <2>3, <1>3 DEF ListedExactly, NoStrayKey, TypeOK
<1>7. KeysOutlast'
  <2>1. \A c \in keepers \cap members : c \in Conns /\ UserOf[c] \in Users \ {HubUser}
    BY <1>0, UserOfAssumption DEF TypeOK, ConnsOf
  <2>2. \A c \in Conns : ~Inserting(c)'
    BY DEF Inserting
  <2>. QED  BY <2>1, <2>2, <1>1, <1>2 DEF TypeOK, KeysOutlast, Life
<1>. QED  BY <1>3, <1>4, <1>5, <1>6, <1>7

(* WritePump ends, with an error or because its Send is closed. *)
LEMMA StopInv ==
  ASSUME IInv, NEW c \in Conns, WriterStops(c) \/ WriterFails(c) PROVE IInv'
<1>. USE DEF IInv, WriterStops, WriterFails, WriterEnds, hubVars
<1>0. faults' \in 0..MaxFaults
  BY TimesAssumption DEF TypeOK, Failure
<1>1. TypeOK'
  BY <1>0, TimesAssumption DEF TypeOK, Phases
<1>2. HubDecides'
  BY DEF TypeOK, HubDecides, PhasesFit, HubUser
<1>3. PhasesFit'
  BY DEF TypeOK, PhasesFit
<1>4. ListedExactly' /\ NoStrayKey'
  BY DEF ListedExactly, NoStrayKey, Marking, HubUser
<1>5. KeysOutlast'
  BY DEF TypeOK, KeysOutlast, Life, Inserting
<1>. QED  BY <1>1, <1>2, <1>3, <1>4, <1>5

(* WritePump takes a tick: a key that lives is given its full time.            *)
LEMMA RefreshInv ==
  ASSUME IInv, NEW c \in Conns, RefreshUserTTL(c) PROVE IInv'
<1>. USE DEF IInv, RefreshUserTTL, TakeTick, hubVars
<1>0. UserOf[c] \in Users
  BY UserOfAssumption
<1>1. /\ ttl' \in [Users -> 0..NoExpiry]
      /\ \A u \in Users : ttl'[u] \in {ttl[u], OnlineTTL} /\ (ttl[u] = 0 => ttl'[u] = 0)
      /\ c \in keepers' => ttl'[UserOf[c]] = OnlineTTL
      /\ UNCHANGED onlineUsers
  BY <1>0, TimesAssumption DEF TypeOK, Expire, Lost, Kept, NoExpiry
<1>3. keepers' \subseteq keepers \cup {c} /\ faults' \in 0..MaxFaults
  BY TimesAssumption DEF TypeOK, Kept, Failure
<1>4. TypeOK'
  BY <1>1, <1>3, TimesAssumption DEF TypeOK
<1>5. HubDecides'
  <2>1. hubAt = "srem" => HubUser \in Users
    BY UserOfAssumption DEF HubDecides, HubUser
  <2>. QED  BY <1>1, <1>3, <2>1 DEF HubDecides, HubUser
<1>6. PhasesFit'
  BY <1>3 DEF PhasesFit
<1>7. ListedExactly' /\ NoStrayKey'
  BY <1>1 DEF TypeOK, ListedExactly, NoStrayKey, Marking, HubUser
<1>8. KeysOutlast'
  <2>. SUFFICES ASSUME NEW d \in keepers', d \in members \/ Inserting(d)
                PROVE  ttl'[UserOf[d]] >= Life(d)'
    BY DEF KeysOutlast, Inserting
  <2>0. d \in Conns /\ UserOf[d] \in Users
    BY UserOfAssumption, <1>4 DEF TypeOK
  <2>1. Life(d)' \in Int /\ Life(d)' <= OnlineTTL
    BY <2>0, <1>4, TimesAssumption DEF TypeOK, Life
  <2>2. CASE d = c
    BY <2>1, <2>2, <1>1, TimesAssumption
  <2>3. CASE d # c
    <3>1. Life(d)' = Life(d) /\ d \in keepers
      BY <2>0, <2>3, <1>3 DEF TypeOK, Life
    <3>. QED  BY <2>0, <2>1, <3>1, <1>1, TimesAssumption DEF KeysOutlast, TypeOK
  <2>. QED  BY <2>2, <2>3
<1>. QED  BY <1>4, <1>5, <1>6, <1>7, <1>8

(* Time passes: keys age, and what they must have left with them.              *)
LEMMA TickInv ==
  ASSUME IInv, Tick PROVE IInv'
<1>. USE DEF IInv, Tick, hubVars, history
<1>1. keepers \cup due \subseteq writers /\ writers \subseteq Conns
  BY DEF TypeOK, PhasesFit
<1>2. \A c \in Conns : ticker'[c] \in 0..(PingPeriod - 1) /\ lag'[c] \in 0..MaxDelay
  BY TimesAssumption DEF TypeOK
<1>3. \A u \in Users : /\ ttl'[u] \in 0..NoExpiry
                       /\ \/ ttl'[u] = ttl[u] - 1
                          \/ ttl'[u] = ttl[u] /\ ttl[u] \in {0, NoExpiry}
                       /\ ttl[u] = 0 => ttl'[u] = 0
  BY TimesAssumption DEF TypeOK, NoExpiry
<1>4. due' \subseteq writers
  BY <1>1 DEF TypeOK
<1>5. TypeOK'
  BY <1>1, <1>2, <1>3, <1>4 DEF TypeOK
<1>6. HubDecides'
  <2>1. hubAt = "srem" => HubUser \in Users
    BY UserOfAssumption DEF HubDecides, HubUser
  <2>. QED  BY <1>3, <2>1 DEF HubDecides, HubUser
<1>7. PhasesFit'
  BY <1>4 DEF PhasesFit
<1>8. ListedExactly' /\ NoStrayKey'
  BY <1>3 DEF TypeOK, ListedExactly, NoStrayKey, Marking, HubUser
<1>9. KeysOutlast'
  <2>. SUFFICES ASSUME NEW c \in keepers, c \in members \/ Inserting(c)
                PROVE  ttl'[UserOf[c]] >= Life(c)'
    BY DEF KeysOutlast, Inserting
  <2>0. c \in Conns /\ UserOf[c] \in Users /\ c \in writers
    BY <1>1, UserOfAssumption DEF TypeOK
  <2>1. Life(c) \in Int /\ Life(c) <= OnlineTTL /\ ttl[UserOf[c]] >= Life(c)
    BY <2>0, LifeBounded DEF KeysOutlast
  <2>2. Life(c)' = Life(c) - 1
    <3>1. CASE c \in due
      BY <2>0, <3>1, TimesAssumption DEF TypeOK, Life
    <3>2. CASE c \notin due /\ ticker[c] + 1 = PingPeriod
      BY <2>0, <3>2, TimesAssumption DEF TypeOK, Life
    <3>3. CASE c \notin due /\ ticker[c] + 1 # PingPeriod
      BY <2>0, <3>3, TimesAssumption DEF TypeOK, Life
    <3>. QED  BY <3>1, <3>2, <3>3
  <2>. QED  BY <2>0, <2>1, <2>2, <1>3, TimesAssumption DEF TypeOK
<1>. QED  BY <1>5, <1>6, <1>7, <1>8, <1>9

(* The server or Redis dies and comes back. *)
LEMMA CrashInv ==
  ASSUME IInv, Crash PROVE IInv'
<1>. USE DEF IInv, Crash, Failure
<1>1. TypeOK'
  BY TimesAssumption DEF TypeOK, Phases, HubStates
<1>2. HubDecides' /\ PhasesFit'
  BY DEF HubDecides, PhasesFit
<1>3. ListedExactly' /\ NoStrayKey'
  BY DEF TypeOK, ListedExactly, NoStrayKey, Marking, Unused
<1>4. KeysOutlast'
  BY DEF KeysOutlast
<1>. QED  BY <1>1, <1>2, <1>3, <1>4

(* Redis loses what it holds. *)
LEMMA LossInv ==
  ASSUME IInv, RedisLoss PROVE IInv'
<1>. USE DEF IInv, RedisLoss, Failure, timeVars, hubVars
<1>1. TypeOK'
  BY TimesAssumption DEF TypeOK, NoExpiry
<1>2. HubDecides' /\ PhasesFit'
  BY UserOfAssumption DEF HubDecides, PhasesFit, HubUser
<1>3. ListedExactly' /\ NoStrayKey'
  BY DEF ListedExactly, NoStrayKey, Marking, Unused, HubUser
<1>4. KeysOutlast'
  BY DEF KeysOutlast
<1>. QED  BY <1>1, <1>2, <1>3, <1>4

(* It holds of an empty hub and an empty Redis. *)
LEMMA InitInv == Init => IInv
<1>. SUFFICES ASSUME Init PROVE IInv
  OBVIOUS
<1>1. TypeOK
  BY TimesAssumption DEF Init, TypeOK, Phases, HubStates, NoExpiry
<1>2. HubDecides /\ PhasesFit
  BY DEF Init, HubDecides, PhasesFit
<1>3. ListedExactly /\ NoStrayKey /\ KeysOutlast
  BY DEF Init, ListedExactly, NoStrayKey, KeysOutlast
<1>. QED  BY <1>1, <1>2, <1>3 DEF IInv

(* IInv is inductive. *)
THEOREM Inductive == IInv /\ [Next]_vars => IInv'
<1>. SUFFICES ASSUME IInv, [Next]_vars PROVE IInv'
  OBVIOUS
<1>1. ASSUME NEW c \in Conns,
             \/ Connect(c) \/ Leave(c)
             \/ HubTakeRegister(c) \/ HubTakeUnregister(c)
             \/ WriterFails(c) \/ WriterStops(c) \/ RefreshUserTTL(c)
      PROVE  IInv'
  BY <1>1, PhaseInv, TakeInv, StopInv, RefreshInv
<1>2. CASE HubInsert \/ HubRemove
  BY <1>2, InsertInv, RemoveInv
<1>3. CASE SetUserOnline \/ SetUserOffline
  BY <1>3, OnlineInv, OfflineInv
<1>4. CASE Tick
  BY <1>4, TickInv
<1>5. CASE Crash \/ RedisLoss
  BY <1>5, CrashInv, LossInv
<1>6. CASE UNCHANGED vars
  BY <1>6 DEF vars, IInv, TypeOK, HubDecides, PhasesFit, ListedExactly, NoStrayKey,
     KeysOutlast, Life, Inserting, Marking, HubUser
<1>. QED  BY <1>1, <1>2, <1>3, <1>4, <1>5, <1>6 DEF Next

(* IInv always holds. *)
THEOREM Invariance == Spec => []IInv
<1>. QED  BY InitInv, Inductive, PTL DEF Spec

(* The variables keep their types. *)
THEOREM TypeCorrect == Spec => []TypeOK
<1>1. IInv => TypeOK
  BY DEF IInv
<1>. QED  BY <1>1, Invariance, PTL

(* The list is exact for whom Redis was told about (hub.go:45-80). *)
THEOREM ListIsExact == Spec => []ListedExactly
<1>1. IInv => ListedExactly
  BY DEF IInv
<1>. QED  BY <1>1, Invariance, PTL

(* A running WritePump that takes its ticks within OnlineTTL - PingPeriod      *)
(* keeps its member's key (client.go:92-110, redis.go:136-141).                *)
THEOREM KeepersKeep == Spec => []KeeperKeepsKey
<1>1. ASSUME IInv PROVE KeeperKeepsKey
  <2>1. ASSUME NEW u \in Users, NEW c \in keepers \cap members \cap ConnsOf(u),
               c \in due => lag[c] < OnlineTTL - PingPeriod
        PROVE  ttl[u] > 0
    <3>1. c \in Conns /\ UserOf[c] = u /\ ttl[u] \in Int
      BY <1>1 DEF ConnsOf, IInv, TypeOK
    <3>2. ttl[u] >= Life(c)
      BY <1>1, <3>1 DEF IInv, KeysOutlast
    <3>3. Life(c) \in Int /\ Life(c) > 0
      BY <1>1, <2>1, <3>1, TimesAssumption, TTLAssumption DEF IInv, TypeOK, Life
    <3>. QED  BY <3>1, <3>2, <3>3
  <2>. QED  BY <1>1, <2>1 DEF IInv, NoStrayKey, KeeperKeepsKey
<1>. QED  BY <1>1, Invariance, PTL
===============================================================================
