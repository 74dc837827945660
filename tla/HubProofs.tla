------------------------------- MODULE HubProofs -------------------------------
(* Proofs about Hub, for any number of connections and users and any capacity. *)
EXTENDS Hub, TLAPS

-------------------------------------------------------------------------------
(* The inductive invariant.  Each conjunct of Hub's properties speaks of one   *)
(* moment; what makes them inductive is where each ReadPump and the hub stand. *)
Alive == {"reading", "handling", "range", "send", "posting", "leaving"}
Ended == {"closing", "gone"}
Inserting(c) == hubAt = "register" /\ hubConn = c
Removing(c)  == hubAt = "unregister" /\ hubConn = c

(* A client is filed under its own user. *)
Filed == \A u \in Users : \A c \in clients[u] : UserOf[c] = u

(* Whether a client is a member, and whether its Send is closed, follows from  *)
(* where its ReadPump stands, but for the one the hub is working on.           *)
ReaderDecides ==
    \A c \in Conns :
        /\ readPump[c] \in {"idle", "register"} =>
              c \notin clients[UserOf[c]] /\ c \notin closed /\ pending[c] = 0
        /\ readPump[c] \in Alive =>
              /\ c \notin closed
              /\ c \in clients[UserOf[c]] <=> ~Inserting(c)
              /\ Inserting(c) => pending[c] = 0
        /\ readPump[c] \in Ended =>
              /\ c \in clients[UserOf[c]] <=> Removing(c)
              /\ c \in closed <=> ~Removing(c)

(* The hub works on a client whose goroutines have passed the rendezvous, and  *)
(* broadcasts to members only.                                                 *)
HubDecides ==
    /\ hubAt = "register" =>
          /\ hubConn \in Conns /\ readPump[hubConn] \in Alive
          /\ readPump[hubConn] \in {"range", "send"} =>
                clients[UserOf[hubConn]] # {}
    /\ hubAt = "unregister" => hubConn \in Conns /\ readPump[hubConn] \in Ended
    /\ hubAt # "broadcast" => hubTodo = {}
    /\ \A d \in hubTodo : d \in clients[UserOf[d]]

(* SendToUser is about to send to a connection of the same user, which is a    *)
(* member or was one.                                                          *)
TargetWasMember ==
    \A c \in Conns :
        /\ readPump[c] = "send" =>
              /\ target[c] \in Conns
              /\ UserOf[target[c]] = UserOf[c]
              /\ target[c] \in clients[UserOf[c]] \cup closed
        /\ readPump[c] # "send" => target[c] = NoConn

IInv ==
    /\ TypeOK
    /\ Filed
    /\ ReaderDecides
    /\ HubDecides
    /\ TargetWasMember
    /\ CrashNeedsPeer

(* A ReadPump, or the upgrade handler before it, moves on its own. *)
LEMMA ReaderMoves ==
  ASSUME NEW c \in Conns, IInv,
         \/ Connect(c) \/ ReadMessage(c) \/ ReadError(c)
         \/ ReplyToUser(c) \/ PostBroadcast(c)
  PROVE  IInv'
<1>1. TypeOK'
  BY DEF IInv, TypeOK, Connect, ReadMessage, ReadError, ReplyToUser,
         PostBroadcast, ReadStep, hubVars, ReadStates
<1>2. ReaderDecides'
  BY DEF IInv, ReaderDecides, Connect, ReadMessage, ReadError, ReplyToUser,
         PostBroadcast, TypeOK, ReadStep, Alive, Ended, Inserting, Removing,
         hubVars
<1>3. HubDecides'
  BY DEF IInv, HubDecides, Connect, ReadMessage, ReadError, ReplyToUser,
         PostBroadcast, TypeOK, Filed, ReadStep, Alive, Ended, hubVars,
         ReadStates, HubStates
<1>4. TargetWasMember'
  BY DEF IInv, TargetWasMember, Connect, ReadMessage, ReadError, ReplyToUser,
         PostBroadcast, TypeOK, ReadStep, hubVars
<1>5. Filed' /\ CrashNeedsPeer'
  BY DEF IInv, Filed, CrashNeedsPeer, Connect, ReadMessage, ReadError,
         ReplyToUser, PostBroadcast, TypeOK, TargetWasMember, ReadStep,
         hubVars
<1>. QED  BY <1>1, <1>2, <1>3, <1>4, <1>5 DEF IInv

(* The range hands out a member of the sender's own user. *)
LEMMA SendNextInv ==
  ASSUME NEW c \in Conns, NEW d \in Conns, IInv,
         SendNext(c, d)
  PROVE  IInv'
<1>1. d \in clients[UserOf[c]] /\ UserOf[d] = UserOf[c]
  BY UserOfAssumption DEF IInv, SendNext, Filed, Unvisited
<1>2. TypeOK'
  BY DEF IInv, TypeOK, SendNext, ReadStep, hubVars, ReadStates
<1>3. ReaderDecides'
  BY DEF IInv, ReaderDecides, SendNext, ReadStep, Alive, Ended, Inserting,
         Removing, hubVars
<1>4. HubDecides'
  BY DEF IInv, HubDecides, SendNext, ReadStep, Alive, Ended, hubVars
<1>5. TargetWasMember'
  BY <1>1 DEF IInv, TargetWasMember, SendNext, TypeOK, ReadStep, hubVars
<1>6. Filed' /\ CrashNeedsPeer'
  BY DEF IInv, Filed, CrashNeedsPeer, SendNext, ReadStep, Running, hubVars
<1>. QED  BY <1>1, <1>2, <1>3, <1>4, <1>5, <1>6 DEF IInv

(* The send finds a member, or a Send that was closed: then its ReadPump       *)
(* has ended, so it is not the sender's.                                       *)
LEMMA SendTryInv ==
  ASSUME NEW c \in Conns, IInv,
         SendTry(c)
  PROVE  IInv'
<1>1. TypeOK'
  BY SendCapAssumption DEF IInv, TypeOK, SendTry, Enqueue, hubVars,
         ReadStates, Faults
<1>2. ReaderDecides'
  BY DEF IInv, ReaderDecides, SendTry, TypeOK, TargetWasMember, Enqueue,
         Alive, Ended, Inserting, Removing, hubVars
<1>3. HubDecides'
  BY DEF IInv, HubDecides, SendTry, TypeOK, Alive, Ended, hubVars
<1>4. TargetWasMember'
  BY DEF IInv, TargetWasMember, SendTry, TypeOK, hubVars
<1>5. CrashNeedsPeer'
  BY DEF IInv, CrashNeedsPeer, SendTry, TypeOK, ReaderDecides,
         TargetWasMember, Alive, Running, ReadStates
<1>6. Filed'
  BY DEF IInv, Filed, SendTry, hubVars
<1>. QED  BY <1>1, <1>2, <1>3, <1>4, <1>5, <1>6 DEF IInv

(* The range ends. *)
LEMMA SendDoneInv ==
  ASSUME NEW c \in Conns, IInv,
         SendDone(c)
  PROVE  IInv'
<1>1. TypeOK'
  BY DEF IInv, TypeOK, SendDone, ReadStep, hubVars, ReadStates
<1>2. ReaderDecides'
  BY DEF IInv, ReaderDecides, SendDone, ReadStep, Alive, Ended, Inserting,
         Removing, hubVars
<1>3. HubDecides'
  BY DEF IInv, HubDecides, SendDone, ReadStep, Alive, Ended, hubVars
<1>4. TargetWasMember'
  BY DEF IInv, TargetWasMember, SendDone, ReadStep, hubVars
<1>5. Filed' /\ CrashNeedsPeer'
  BY DEF IInv, Filed, CrashNeedsPeer, SendDone, ReadStep, Running, hubVars
<1>. QED  BY <1>1, <1>2, <1>3, <1>4, <1>5 DEF IInv

(* ReadPump returns. *)
LEMMA ReaderCloseInv ==
  ASSUME NEW c \in Conns, IInv,
         ReaderClose(c)
  PROVE  IInv'
<1>1. TypeOK'
  BY DEF IInv, TypeOK, ReaderClose, ReadStep, hubVars, ReadStates
<1>2. ReaderDecides'
  BY DEF IInv, ReaderDecides, ReaderClose, ReadStep, Alive, Ended, Inserting,
         Removing, hubVars
<1>3. HubDecides'
  BY DEF IInv, HubDecides, ReaderClose, ReaderDecides, ReadStep, Ended,
         Removing, hubVars
<1>4. TargetWasMember'
  BY DEF IInv, TargetWasMember, ReaderClose, ReadStep, hubVars
<1>5. Filed' /\ CrashNeedsPeer'
  BY DEF IInv, Filed, CrashNeedsPeer, ReaderClose, ReadStep, hubVars
<1>. QED  BY <1>1, <1>2, <1>3, <1>4, <1>5 DEF IInv

(* A finished client has left the registry, and no sender holds it. *)
LEMMA RecycleInv ==
  ASSUME NEW c \in Conns, IInv,
         Recycle(c)
  PROVE  IInv'
<1>1. TypeOK'
  BY SendCapAssumption DEF IInv, TypeOK, Recycle, ReadStates, WriteStates
<1>2. ReaderDecides'
  BY DEF IInv, ReaderDecides, Recycle, TypeOK, Alive, Ended, Inserting,
         Removing
<1>3. HubDecides'
  BY DEF IInv, HubDecides, Recycle
<1>4. TargetWasMember'
  BY DEF IInv, TargetWasMember, Recycle
<1>5. Filed' /\ CrashNeedsPeer'
  BY DEF IInv, Filed, CrashNeedsPeer, Recycle
<1>. QED  BY <1>1, <1>2, <1>3, <1>4, <1>5 DEF IInv

(* WritePump only ever shortens its own queue and closes its socket. *)
LEMMA WriterMoves ==
  ASSUME NEW c \in Conns, IInv,
         \/ WriterReceive(c) \/ WriterTick(c) \/ WriterClosed(c)
         \/ WriteOk(c) \/ WriteError(c)
  PROVE  IInv'
<1>1. TypeOK'
  BY SendCapAssumption DEF IInv, TypeOK, WriterReceive, WriterTick,
         WriterClosed, WriteOk, WriteError, WriteStep, hubVars, WriteStates
<1>2. ReaderDecides'
  BY DEF IInv, ReaderDecides, WriterReceive, WriterTick, WriterClosed,
         WriteOk, WriteError, TypeOK, Inserting, Removing, hubVars
<1>3. HubDecides' /\ TargetWasMember'
  BY DEF IInv, HubDecides, TargetWasMember, WriterReceive, WriterTick,
         WriterClosed, WriteOk, WriteError, hubVars
<1>4. Filed' /\ CrashNeedsPeer'
  BY DEF IInv, Filed, CrashNeedsPeer, WriterReceive, WriterTick, WriterClosed,
         WriteOk, WriteError, hubVars
<1>. QED  BY <1>1, <1>2, <1>3, <1>4 DEF IInv

(* The rendezvous on Register: the client is alive and being inserted. *)
LEMMA TakeRegisterInv ==
  ASSUME NEW c \in Conns, IInv,
         HubTakeRegister(c)
  PROVE  IInv'
<1>1. TypeOK'
  BY DEF IInv, TypeOK, HubTakeRegister, HubStep, ReadStates, WriteStates,
         HubStates
<1>2. ReaderDecides'
  BY DEF IInv, ReaderDecides, HubTakeRegister, HubStep, Ended, Inserting,
         Removing
<1>3. HubDecides'
  BY DEF IInv, HubDecides, HubTakeRegister, TypeOK, HubStep, Alive
<1>4. TargetWasMember'
  BY DEF IInv, TargetWasMember, HubTakeRegister
<1>5. Filed' /\ CrashNeedsPeer'
  BY DEF IInv, Filed, CrashNeedsPeer, HubTakeRegister, HubStep, Running
<1>. QED  BY <1>1, <1>2, <1>3, <1>4, <1>5 DEF IInv

(* The insertion makes the client a member. *)
LEMMA RegisterInv ==
  ASSUME IInv,
         HubRegister
  PROVE  IInv'
<1>1. TypeOK'
  BY UserOfAssumption DEF IInv, TypeOK, HubRegister, HubDecides, HubStep,
         HubStates
<1>2. Filed'
  BY DEF IInv, Filed, HubRegister
<1>3. ReaderDecides'
  BY UserOfAssumption DEF IInv, ReaderDecides, HubRegister, TypeOK,
         HubDecides, HubStep, Alive, Inserting, Removing
<1>4. HubDecides'
  BY DEF IInv, HubDecides, HubRegister, HubStep
<1>5. TargetWasMember'
  BY DEF IInv, TargetWasMember, HubRegister
<1>6. CrashNeedsPeer'
  BY DEF IInv, CrashNeedsPeer, HubRegister, HubStep, Running
<1>. QED  BY <1>1, <1>2, <1>3, <1>4, <1>5, <1>6 DEF IInv

(* The rendezvous on Unregister: the client has ended and is being removed. *)
LEMMA TakeUnregisterInv ==
  ASSUME NEW c \in Conns, IInv,
         HubTakeUnregister(c)
  PROVE  IInv'
<1>1. TypeOK'
  BY DEF IInv, TypeOK, HubTakeUnregister, HubStep, ReadStates, HubStates
<1>2. ReaderDecides'
  BY DEF IInv, ReaderDecides, HubTakeUnregister, HubStep, Alive, Inserting,
         Removing
<1>3. HubDecides'
  BY DEF IInv, HubDecides, HubTakeUnregister, TypeOK, HubStep, Ended
<1>4. TargetWasMember'
  BY DEF IInv, TargetWasMember, HubTakeUnregister
<1>5. Filed' /\ CrashNeedsPeer'
  BY DEF IInv, Filed, CrashNeedsPeer, HubTakeUnregister, HubStep, Running
<1>. QED  BY <1>1, <1>2, <1>3, <1>4, <1>5 DEF IInv

(* The removal takes the client out of the registry and closes its Send,       *)
(* which was open.                                                             *)
LEMMA UnregisterInv ==
  ASSUME IInv,
         HubUnregister
  PROVE  IInv'
<1>1. TypeOK'
  BY UserOfAssumption DEF IInv, TypeOK, HubUnregister, ReaderDecides,
         HubDecides, HubStep, Without, Closing, connVars, HubStates
<1>2. Filed'
  BY DEF IInv, Filed, HubUnregister, Without
<1>3. ReaderDecides'
  BY UserOfAssumption DEF IInv, ReaderDecides, HubUnregister, TypeOK,
         HubDecides, HubStep, Without, Closing, Alive, Ended, Inserting,
         Removing, connVars
<1>4. HubDecides'
  BY DEF IInv, HubDecides, HubUnregister, HubStep
<1>5. TargetWasMember'
  BY DEF IInv, TargetWasMember, HubUnregister, Without, Closing, connVars
<1>6. CrashNeedsPeer'
  BY DEF IInv, CrashNeedsPeer, HubUnregister, ReaderDecides, HubDecides,
         HubStep, Running
<1>. QED  BY <1>1, <1>2, <1>3, <1>4, <1>5, <1>6 DEF IInv

(* A broadcast is taken: the hub will visit the members. *)
LEMMA BroadcastStarts ==
  ASSUME NEW c \in Conns, IInv,
         HubTakeBroadcast(c)
  PROVE  IInv'
<1>1. TypeOK'
  BY DEF IInv, TypeOK, HubTakeBroadcast, HubStep, Registered, connVars,
         ReadStates, HubStates
<1>2. ReaderDecides'
  BY DEF IInv, ReaderDecides, HubTakeBroadcast, TypeOK, HubStep, Alive, Ended,
         Inserting, Removing, connVars
<1>3. HubDecides'
  BY DEF IInv, HubDecides, HubTakeBroadcast, Filed, HubStep, Registered
<1>4. TargetWasMember'
  BY DEF IInv, TargetWasMember, HubTakeBroadcast, TypeOK, connVars
<1>5. Filed' /\ CrashNeedsPeer'
  BY DEF IInv, Filed, CrashNeedsPeer, HubTakeBroadcast, TypeOK,
         TargetWasMember, connVars
<1>. QED  BY <1>1, <1>2, <1>3, <1>4, <1>5 DEF IInv

(* The same for the MQTT callback. *)
LEMMA StatusStarts ==
  ASSUME IInv,
         HubTakeStatus
  PROVE  IInv'
<1>1. TypeOK'
  BY DEF IInv, TypeOK, HubTakeStatus, HubStep, Registered, connVars,
         ReadStates, HubStates
<1>2. ReaderDecides'
  BY DEF IInv, ReaderDecides, HubTakeStatus, TypeOK, HubStep, Alive, Ended,
         Inserting, Removing, connVars
<1>3. HubDecides'
  BY DEF IInv, HubDecides, HubTakeStatus, Filed, HubStep, Registered
<1>4. TargetWasMember'
  BY DEF IInv, TargetWasMember, HubTakeStatus, TypeOK, connVars
<1>5. Filed' /\ CrashNeedsPeer'
  BY DEF IInv, Filed, CrashNeedsPeer, HubTakeStatus, TypeOK, TargetWasMember,
         connVars
<1>. QED  BY <1>1, <1>2, <1>3, <1>4, <1>5 DEF IInv

(* The hub sends to a member, whose Send is open. *)
LEMMA BroadcastSendInv ==
  ASSUME NEW d \in Conns, IInv,
         HubBroadcastSend(d)
  PROVE  IInv'
<1>1. TypeOK'
  BY SendCapAssumption DEF IInv, TypeOK, HubBroadcastSend, HubStep, Enqueue,
         Faults
<1>2. ReaderDecides'
  BY DEF IInv, ReaderDecides, HubBroadcastSend, TypeOK, HubDecides, HubStep,
         Enqueue, Inserting, Removing
<1>3. HubDecides'
  BY DEF IInv, HubDecides, HubBroadcastSend, HubStep
<1>4. CrashNeedsPeer'
  BY DEF IInv, CrashNeedsPeer, HubBroadcastSend, TypeOK, ReaderDecides,
         HubDecides, Alive, Ended, ReadStates
<1>5. Filed' /\ TargetWasMember'
  BY DEF IInv, Filed, TargetWasMember, HubBroadcastSend
<1>. QED  BY <1>1, <1>2, <1>3, <1>4, <1>5 DEF IInv

(* The hub goes back to its select, or the MQTT callback posts. *)
LEMMA HubReturns ==
  ASSUME IInv,
         HubMark \/ HubBroadcastDone \/ MqttStatus
  PROVE  IInv'
<1>1. TypeOK'
  BY DEF IInv, TypeOK, HubMark, HubBroadcastDone, MqttStatus, HubStep,
         hubVars, connVars, HubStates
<1>2. ReaderDecides'
  BY DEF IInv, ReaderDecides, HubMark, HubBroadcastDone, MqttStatus, HubStep,
         Inserting, Removing, hubVars, connVars
<1>3. HubDecides'
  BY DEF IInv, HubDecides, HubMark, HubBroadcastDone, MqttStatus, HubStep,
         hubVars, connVars
<1>4. Filed' /\ TargetWasMember' /\ CrashNeedsPeer'
  BY DEF IInv, Filed, TargetWasMember, CrashNeedsPeer, HubMark,
         HubBroadcastDone, MqttStatus, HubStep, Running, hubVars, connVars
<1>. QED  BY <1>1, <1>2, <1>3, <1>4 DEF IInv

(* The fault needs the client that comes or goes and one that is sending;      *)
(* if they are one, it is sending to another.                                  *)
LEMMA MapFaultInv ==
  ASSUME IInv,
         MapFault
  PROVE  IInv'
<1>1. TypeOK'
  BY DEF IInv, TypeOK, MapFault, hubVars, connVars, Faults
<1>2. CrashNeedsPeer'
  BY UserOfAssumption DEF IInv, CrashNeedsPeer, MapFault, TypeOK, Filed,
         ReaderDecides, HubDecides, Ended, Inserting, hubVars, connVars
<1>3. Filed' /\ ReaderDecides' /\ HubDecides' /\ TargetWasMember'
  BY DEF IInv, Filed, ReaderDecides, HubDecides, TargetWasMember, MapFault,
         Inserting, Removing, hubVars, connVars
<1>. QED  BY <1>1, <1>2, <1>3 DEF IInv

(* The invariant holds when the process starts, for the first time or again:   *)
(* Restart leads to the same state as Init.                                    *)
LEMMA InitInv == Init => IInv
BY ConnsAssumption, UserOfAssumption, SendCapAssumption
   DEF Init, IInv, TypeOK, Filed, ReaderDecides, HubDecides, TargetWasMember,
       CrashNeedsPeer, Alive, Ended, Inserting, Removing, ReadStates,
       WriteStates, HubStates, Faults

(* A new process starts with an empty registry and idle goroutines. *)
LEMMA RestartInv ==
  ASSUME Restart PROVE IInv'
<1>1. TypeOK'
  BY SendCapAssumption
  DEF Restart, TypeOK, ReadStates, WriteStates, HubStates, Faults
<1>2. Filed' /\ HubDecides' /\ CrashNeedsPeer'
  BY DEF Restart, Filed, HubDecides, CrashNeedsPeer
<1>3. ReaderDecides' /\ TargetWasMember'
  BY UserOfAssumption
     DEF Restart, ReaderDecides, TargetWasMember, Alive, Ended
<1>. QED  BY <1>1, <1>2, <1>3 DEF IInv

(* Nothing changes. *)
LEMMA StutterInv ==
  ASSUME IInv, UNCHANGED vars PROVE IInv'
BY DEF IInv, TypeOK, Filed, ReaderDecides, HubDecides, TargetWasMember,
       CrashNeedsPeer, Inserting, Removing, vars

(* Every step of the hub, the pumps, the callback and the restart preserves    *)
(* the invariant.                                                              *)
THEOREM Inductive == IInv /\ [Next]_vars => IInv'
<1>. SUFFICES ASSUME IInv, [Next]_vars PROVE IInv'
  OBVIOUS
<1>1. ASSUME NEW c \in Conns,
             \/ Connect(c) \/ ReadMessage(c) \/ ReadError(c)
             \/ ReplyToUser(c) \/ PostBroadcast(c)
      PROVE  IInv'
  BY <1>1, ReaderMoves
<1>2. ASSUME NEW c \in Conns, SendStep(c) PROVE IInv'
  BY <1>2, SendNextInv, SendTryInv, SendDoneInv DEF SendStep
<1>3. ASSUME NEW c \in Conns, ReaderClose(c) \/ Recycle(c) PROVE IInv'
  BY <1>3, ReaderCloseInv, RecycleInv
<1>4. ASSUME NEW c \in Conns,
             \/ WriterReceive(c) \/ WriterTick(c) \/ WriterClosed(c)
             \/ WriteOk(c) \/ WriteError(c)
      PROVE  IInv'
  BY <1>4, WriterMoves
<1>5. ASSUME NEW c \in Conns,
             \/ HubTakeRegister(c) \/ HubTakeUnregister(c) \/ HubTakeBroadcast(c)
      PROVE  IInv'
  BY <1>5, TakeRegisterInv, TakeUnregisterInv, BroadcastStarts
<1>6. CASE HubInternal
  BY <1>6, RegisterInv, UnregisterInv, BroadcastSendInv, HubReturns
  DEF HubInternal
<1>7. CASE HubTakeStatus
  BY <1>7, StatusStarts
<1>8. CASE MapFault
  BY <1>8, MapFaultInv
<1>9. CASE MqttStatus
  BY <1>9, HubReturns
<1>10. CASE Restart
  BY <1>10, RestartInv
<1>11. CASE UNCHANGED vars
  BY <1>11, StutterInv
<1>. QED
  BY <1>1, <1>2, <1>3, <1>4, <1>5, <1>6, <1>7, <1>8, <1>9, <1>10, <1>11 DEF Next

-------------------------------------------------------------------------------
(* IInv holds in every reachable state. *)
THEOREM Invariance == Spec => []IInv
<1>1. Init => IInv
  BY InitInv
<1>2. IInv /\ [Next]_vars => IInv'
  BY Inductive
<1>. QED  BY <1>1, <1>2, PTL DEF Spec

(* The variables keep their types. *)
THEOREM TypeCorrect == Spec => []TypeOK
<1>1. IInv => TypeOK
  BY DEF IInv
<1>. QED  BY <1>1, Invariance, PTL

(* A registered client can be sent to (hub.go:65-66). *)
THEOREM RegistryIsOpen == Spec => []RegistryOpen
<1>1. IInv => RegistryOpen
  <2>. SUFFICES ASSUME IInv, NEW u \in Users, NEW c \in clients[u]
                PROVE  /\ c \notin closed
                       /\ UserOf[c] = u
                       /\ \/ readPump[c] \notin {"idle", "register", "closing", "gone"}
                          \/ hubAt = "unregister" /\ hubConn = c
    BY DEF RegistryOpen
  <2>1. c \in Conns /\ UserOf[c] = u
    BY DEF IInv, TypeOK, Filed
  <2>2. readPump[c] \in ReadStates
    BY <2>1 DEF IInv, TypeOK
  <2>. QED
    BY <2>1, <2>2 DEF IInv, ReaderDecides, Alive, Ended, Removing, ReadStates
<1>. QED  BY <1>1, Invariance, PTL

(* A client whose ReadPump ended is out of the registry and its Send closed,   *)
(* and no Send is closed under a ReadPump that runs (client.go:39-42).         *)
THEOREM EndedAreClosed == Spec => []EndedIsClosed
<1>1. IInv => EndedIsClosed
  <2>. SUFFICES ASSUME IInv, NEW c \in Conns
                PROVE  /\ readPump[c] \in {"closing", "gone"} =>
                             \/ c \in closed /\ c \notin Registered
                             \/ hubAt = "unregister" /\ hubConn = c
                       /\ c \in closed => readPump[c] \in {"closing", "gone"}
    BY DEF EndedIsClosed
  <2>1. c \in Registered => c \in clients[UserOf[c]]
    BY DEF IInv, Filed, Registered
  <2>2. readPump[c] \in ReadStates
    BY DEF IInv, TypeOK
  <2>. QED
    BY <2>1, <2>2 DEF IInv, ReaderDecides, Alive, Ended, Removing, ReadStates
<1>. QED  BY <1>1, Invariance, PTL

(* Only SendToUser, and only when two connections share a user, can bring the  *)
(* process down (hub.go:94-106).                                               *)
THEOREM CrashesNeedPeer == Spec => []CrashNeedsPeer
<1>1. IInv => CrashNeedsPeer
  BY DEF IInv
<1>. QED  BY <1>1, Invariance, PTL

-------------------------------------------------------------------------------
(* Hub implements MemberQueues. *)
LEMMA RegisteredIsFiled ==
  ASSUME IInv PROVE Registered = {c \in Conns : c \in clients[UserOf[c]]}
BY UserOfAssumption DEF IInv, TypeOK, Filed, Registered

(* The select with a default either posts a message or drops it. *)
LEMMA EnqueuePosts ==
  ASSUME IInv, NEW d \in Registered, Enqueue(d), UNCHANGED <<clients, closed>>
  PROVE  [Queues!Post(d)]_<<Registered, closed, pending>>
<1>1. d \in Conns /\ pending[d] \in 0..SendCap
  BY RegisteredIsFiled DEF IInv, TypeOK
<1>2. Registered' = Registered
  BY DEF Registered
<1>3. CASE pending[d] < SendCap
  BY <1>1, <1>2, <1>3 DEF Queues!Post, Enqueue
<1>4. CASE ~(pending[d] < SendCap)
  BY <1>1, <1>2, <1>4 DEF Enqueue, IInv, TypeOK
<1>. QED  BY <1>3, <1>4

(* Every step that changes the registry or a buffer is one of the abstract     *)
(* specification, and the others leave its variables alone.                    *)
LEMMA StepRefines ==
  ASSUME IInv, IInv', [Next]_vars
  PROVE  [Queues!Next]_<<Registered, closed, pending>>
<1>. DEFINE Abs == [Queues!Next]_<<Registered, closed, pending>>
<1>1. ASSUME UNCHANGED <<clients, closed, pending>> PROVE Abs
  BY <1>1 DEF Registered
<1>2. ASSUME NEW c \in Conns, WriterReceive(c) PROVE Abs
  <2>1. Queues!Take(c)
    BY <1>2 DEF WriterReceive, hubVars, Registered, Queues!Take
  <2>. QED  BY <2>1 DEF Queues!Next
<1>3. ASSUME NEW c \in Conns, SendTry(c) PROVE Abs
  <2>. DEFINE d == target[c]
  <2>1. CASE d \in closed
    BY <1>1, <1>3, <2>1 DEF SendTry, hubVars
  <2>2. CASE d \notin closed
    <3>1. d \in Registered
      BY <1>3, <2>2, RegisteredIsFiled DEF SendTry, IInv, TargetWasMember
    <3>2. Enqueue(d) /\ UNCHANGED <<clients, closed>>
      BY <1>3, <2>2 DEF SendTry, hubVars
    <3>3. d \in Conns
      BY <3>1, RegisteredIsFiled
    <3>. QED  BY <3>1, <3>2, <3>3, EnqueuePosts DEF Queues!Next
  <2>. QED  BY <2>1, <2>2
<1>4. ASSUME NEW d \in Conns, HubBroadcastSend(d) PROVE Abs
  <2>1. d \in Registered /\ d \notin closed
    BY <1>4, RegisteredIsFiled
       DEF HubBroadcastSend, HubStep, IInv, HubDecides, ReaderDecides, TypeOK,
           ReadStates, Alive, Ended, Removing
  <2>2. Enqueue(d) /\ UNCHANGED <<clients, closed>>
    BY <1>4, <2>1 DEF HubBroadcastSend
  <2>. QED  BY <2>1, <2>2, EnqueuePosts DEF Queues!Next
<1>5. ASSUME NEW c \in Conns, Recycle(c) PROVE Abs
  <2>1. c \in closed
    BY <1>5 DEF Recycle, IInv, ReaderDecides, Ended, Removing
  <2>2. Queues!Forget(c)
    BY <1>5, <2>1 DEF Recycle, Registered, Queues!Forget
  <2>. QED  BY <2>2 DEF Queues!Next
<1>6. CASE HubRegister
  <2>1. /\ hubConn \in Conns /\ hubConn \notin Registered \cup closed
        /\ pending[hubConn] = 0
    BY <1>6, RegisteredIsFiled
       DEF HubRegister, HubStep, IInv, HubDecides, ReaderDecides, Inserting
  <2>2. Registered' = Registered \cup {hubConn}
    BY <1>6, <2>1, UserOfAssumption
       DEF HubRegister, Registered, IInv, TypeOK
  <2>3. Queues!Join(hubConn)
    BY <1>6, <2>1, <2>2 DEF HubRegister, Queues!Join
  <2>. QED  BY <2>1, <2>3 DEF Queues!Next
<1>7. CASE HubUnregister
  <2>1. /\ hubConn \in Conns /\ hubConn \in clients[UserOf[hubConn]]
        /\ hubConn \in Registered
    BY <1>7, RegisteredIsFiled
       DEF HubUnregister, HubStep, IInv, HubDecides, ReaderDecides, Removing
  <2>2. Registered' = Registered \ {hubConn}
    BY <1>7, <2>1, UserOfAssumption
       DEF HubUnregister, Without, Registered, IInv, TypeOK, Filed
  <2>3. closed' = closed \cup {hubConn} /\ pending' = pending
    BY <1>7, <2>1 DEF HubUnregister, Closing, connVars
  <2>4. Queues!Leave(hubConn)
    BY <2>1, <2>2, <2>3 DEF Queues!Leave
  <2>. QED  BY <2>1, <2>4 DEF Queues!Next
<1>8. CASE Restart
  <2>1. Queues!Reset
    BY <1>8 DEF Restart, Registered, Queues!Reset
  <2>. QED  BY <2>1 DEF Queues!Next
<1>9. ASSUME NEW c \in Conns,
             \/ Connect(c) \/ ReadMessage(c) \/ ReadError(c)
             \/ ReplyToUser(c) \/ PostBroadcast(c)
             \/ (\E d \in Conns : SendNext(c, d)) \/ SendDone(c)
             \/ ReaderClose(c)
             \/ WriterTick(c) \/ WriterClosed(c) \/ WriteOk(c) \/ WriteError(c)
             \/ HubTakeRegister(c) \/ HubTakeUnregister(c) \/ HubTakeBroadcast(c)
      PROVE  Abs
  <2>1. UNCHANGED <<clients, closed, pending>>
    BY <1>9 DEF Connect, ReadMessage, ReadError, ReplyToUser, PostBroadcast,
                SendNext, SendDone, ReaderClose, WriterTick, WriterClosed,
                WriteOk, WriteError, HubTakeRegister, HubTakeUnregister,
                HubTakeBroadcast, hubVars
  <2>. QED  BY <1>1, <2>1
<1>10. CASE HubMark \/ HubBroadcastDone \/ HubTakeStatus \/ MapFault \/ MqttStatus
  <2>1. UNCHANGED <<clients, closed, pending>>
    BY <1>10 DEF HubMark, HubBroadcastDone, HubTakeStatus, MapFault, MqttStatus,
                 hubVars, connVars
  <2>. QED  BY <1>1, <2>1
<1>11. CASE UNCHANGED vars
  BY <1>1, <1>11 DEF vars
<1>. QED
  BY <1>2, <1>3, <1>4, <1>5, <1>6, <1>7, <1>8, <1>9, <1>10, <1>11
     DEF Next, SendStep, HubInternal

(* Whatever the number of tabs, users and senders, a message is only added to  *)
(* the buffer of a client that joined and has not left, and a client joins and *)
(* leaves once (hub.go:34-106).                                                *)
THEOREM Refinement == Spec => MembersServed
<1>1. Init => Queues!Init
  BY DEF Init, Registered, Queues!Init
<1>2. IInv /\ IInv' /\ [Next]_vars => [Queues!Next]_<<Registered, closed, pending>>
  BY StepRefines
<1>. QED
  BY <1>1, <1>2, Invariance, PTL
  DEF Spec, MembersServed, Queues!Spec, Queues!mqVars
===============================================================================
