----------------------------- MODULE ServerProofs -----------------------------
(* Proofs about Server, for any requests, forms, logins and number of deltas.  *)
EXTENDS Server, SequenceTheorems, TLAPS

Registering == {"regPhone", "regEmail", "hash", "insert"}
LoggingIn   == {"logPhone", "logEmail", "check"}

(* A request stands where its kind does; rows do not go.                       *)
AccountsFit ==
    \A r \in Requests :
        /\ step[r] \in Registering => req[r] \in Forms
        /\ step[r] \in LoggingIn => req[r] \in Logins
        /\ before[r] \subseteq users

(* What the look-ups that are behind a registration did not find was not there *)
(* when it came.                                                               *)
LookedUp ==
    \A r \in Requests : \A u \in before[r] :
        /\ step[r] \in {"regEmail", "hash", "insert"} => u.phone # req[r].phone
        /\ step[r] \in {"hash", "insert"} => u.email # req[r].email
        /\ step[r] = "logEmail" => u.phone # req[r].account
        /\ step[r] = "check" /\ found[r] = NoUser =>
              req[r].account \notin {u.phone, u.email}

(* The row a login compares with has the account: as its phone, if there was   *)
(* one that had when the login came.                                           *)
FoundFits ==
    \A r \in Requests :
        /\ step[r] \in {"logPhone", "logEmail"} => found[r] = NoUser
        /\ step[r] = "check" /\ found[r] # NoUser =>
              /\ found[r] \in users
              /\ req[r].account \in {found[r].phone, found[r].email}
              /\ \A u \in before[r] :
                    u.phone = req[r].account => found[r].phone = req[r].account

AccountsInv ==
    /\ AccountsTypeOK
    /\ AccountsFit
    /\ LookedUp
    /\ FoundFits
    /\ RegisteredStays
    /\ RefusedRightly
    /\ InternalMeansRace

-------------------------------------------------------------------------------
(* main opens and closes MySQL. *)
LEMMA AccountsUnchanged ==
  ASSUME AccountsInv, UNCHANGED <<requestVars, users>>,
         db' \in {"none", "open", "closed"}
  PROVE  AccountsInv'
BY DEF AccountsInv, requestVars, AccountsTypeOK, AccountsFit, LookedUp,
       FoundFits, RegisteredStays, RefusedRightly, InternalMeansRace, Taken,
       Owners, ByPhone, ByEmail

(* A request arrives. *)
LEMMA ArriveInv ==
  ASSUME AccountsInv, NEW r \in Requests,
         NEW request \in Forms \cup Logins \cup {NoUser},
         NEW at \in {"regPhone", "logPhone", "idle"}, Arrive(r, request, at),
         at = "regPhone" => request \in Forms,
         at = "logPhone" => request \in Logins
  PROVE  AccountsInv'
<1>. USE DEF AccountsInv, Arrive
<1>1. AccountsTypeOK'
  BY DEF AccountsTypeOK, Steps
<1>2. AccountsFit'
  BY DEF AccountsTypeOK, AccountsFit, Registering, LoggingIn
<1>3. LookedUp' /\ FoundFits'
  BY DEF AccountsTypeOK, LookedUp, FoundFits
<1>4. RegisteredStays'
  BY DEF AccountsTypeOK, RegisteredStays
<1>5. RefusedRightly' /\ InternalMeansRace'
  BY DEF AccountsTypeOK, RefusedRightly, InternalMeansRace, Taken, Owners, ByPhone, ByEmail
<1>. QED  BY <1>1, <1>2, <1>3, <1>4, <1>5

(* A look-up of a registration finds nothing and goes on, or refuses it. *)
LEMMA LookupInv ==
  ASSUME AccountsInv, NEW r \in Requests,
         \/ step[r] = "regPhone" /\ RegisterPhone(r)
         \/ step[r] = "regEmail" /\ RegisterEmail(r)
  PROVE  AccountsInv'
<1>. USE DEF AccountsInv, RegisterPhone, RegisterEmail, Lookup, Go, Answer
<1>1. AccountsTypeOK'
  BY DEF AccountsTypeOK, Steps
<1>2. AccountsFit'
  BY DEF AccountsTypeOK, AccountsFit, Registering, LoggingIn
<1>3. LookedUp'
  BY DEF AccountsTypeOK, AccountsFit, LookedUp, ByPhone, ByEmail
<1>4. FoundFits'
  BY DEF AccountsTypeOK, FoundFits
<1>5. RegisteredStays'
  BY DEF AccountsTypeOK, RegisteredStays
<1>6. RefusedRightly'
  BY DEF AccountsTypeOK, RefusedRightly, Taken, Owners, ByPhone, ByEmail
<1>7. InternalMeansRace'
  BY DEF AccountsTypeOK, InternalMeansRace, Taken, Owners, ByPhone, ByEmail
<1>. QED  BY <1>1, <1>2, <1>3, <1>4, <1>5, <1>6, <1>7

(* The INSERT writes the row or meets a duplicate key. *)
LEMMA InsertInv ==
  ASSUME AccountsInv, NEW r \in Requests,
         step[r] = "insert", CreateUser(r) \/ InsertUnanswered(r)
  PROVE  AccountsInv'
<1>. USE DEF AccountsInv, CreateUser, InsertUnanswered, Fails, Answer, Go
<1>0. req[r] \in Forms
  BY DEF AccountsFit, Registering
<1>1. AccountsTypeOK'
  BY <1>0 DEF AccountsTypeOK, Steps
<1>2. AccountsFit'
  BY DEF AccountsTypeOK, AccountsFit, Registering, LoggingIn
<1>3. LookedUp' /\ FoundFits'
  BY DEF AccountsTypeOK, LookedUp, FoundFits
<1>4. RegisteredStays'
  BY DEF AccountsTypeOK, RegisteredStays, Taken, ByPhone, ByEmail
<1>5. RefusedRightly'
  BY DEF AccountsTypeOK, RefusedRightly, Taken, Owners, ByPhone, ByEmail
<1>6. InternalMeansRace'
  BY <1>0 DEF AccountsTypeOK, LookedUp, InternalMeansRace, Taken, Owners, ByPhone, ByEmail
<1>. QED  BY <1>1, <1>2, <1>3, <1>4, <1>5, <1>6

(* A look-up of a login finds a row, or goes on. *)
LEMMA FindInv ==
  ASSUME AccountsInv, NEW r \in Requests,
         \/ step[r] = "logPhone" /\ LoginPhone(r)
         \/ step[r] = "logEmail" /\ LoginEmail(r)
  PROVE  AccountsInv'
<1>. USE DEF AccountsInv, LoginPhone, LoginEmail, Find, Go
<1>0. ByPhone(req[r].account) \subseteq users /\ ByEmail(req[r].account) \subseteq users
  BY DEF ByPhone, ByEmail
<1>1. AccountsTypeOK'
  BY <1>0 DEF AccountsTypeOK, Steps
<1>2. AccountsFit'
  BY DEF AccountsTypeOK, AccountsFit, Registering, LoggingIn
<1>3. LookedUp'
  BY <1>0, FormsAssumption DEF AccountsTypeOK, AccountsFit, LookedUp, ByPhone, ByEmail
<1>4. FoundFits'
  BY DEF AccountsTypeOK, AccountsFit, LookedUp, FoundFits, ByPhone, ByEmail
<1>5. RegisteredStays'
  BY DEF AccountsTypeOK, RegisteredStays
<1>6. RefusedRightly' /\ InternalMeansRace'
  BY DEF AccountsTypeOK, RefusedRightly, InternalMeansRace, Taken, Owners, ByPhone, ByEmail
<1>. QED  BY <1>1, <1>2, <1>3, <1>4, <1>5, <1>6

(* The password decides: by the unique keys no other row has the account. *)
LEMMA CheckInv ==
  ASSUME AccountsInv, NEW r \in Requests, CheckPassword(r)
  PROVE  AccountsInv'
<1>. USE DEF AccountsInv, CheckPassword, Go, Answer
<1>0. req[r] \in Logins
  BY DEF AccountsFit, LoggingIn
<1>1. AccountsTypeOK'
  BY DEF AccountsTypeOK, Steps
<1>2. AccountsFit'
  BY DEF AccountsTypeOK, AccountsFit, Registering, LoggingIn
<1>3. LookedUp' /\ FoundFits'
  BY DEF AccountsTypeOK, LookedUp, FoundFits
<1>4. RegisteredStays'
  BY <1>0, FormsAssumption DEF AccountsTypeOK, RegisteredStays
<1>5. RefusedRightly'
  <2>1. ASSUME NEW u \in Owners(r), found[r] = NoUser \/ found[r].pass # req[r].pass
        PROVE  u.phone # req[r].account /\ ByPhone(req[r].account) # {}
    <3>0. u \in before[r] /\ req[r].account \in {u.phone, u.email} /\ req[r].pass = u.pass
      BY DEF Owners
    <3>1. found[r] # NoUser
      BY <3>0 DEF LookedUp
    <3>2. u \in users /\ found[r] \in users /\ found[r] # u
      BY <2>1, <3>0, <3>1 DEF AccountsFit, FoundFits
    <3>3. u.phone # found[r].phone /\ u.email # found[r].email
      BY <3>2 DEF RegisteredStays
    <3>. QED  BY <3>0, <3>1, <3>2, <3>3 DEF FoundFits, ByPhone
  <2>2. UNCHANGED <<req, before, users>> /\ \A q \in Requests : Owners(q)' = Owners(q)
    BY DEF Owners
  <2>. QED  BY <2>1, <2>2 DEF AccountsTypeOK, RefusedRightly, Taken, Owners, ByPhone, ByEmail
<1>6. InternalMeansRace'
  BY DEF AccountsTypeOK, InternalMeansRace, Taken, Owners, ByPhone, ByEmail
<1>. QED  BY <1>1, <1>2, <1>3, <1>4, <1>5, <1>6

(* The password is hashed, or a call fails. *)
LEMMA HashInv ==
  ASSUME AccountsInv, NEW r \in Requests, HashPassword(r) \/ CallFails(r)
  PROVE  AccountsInv'
<1>. USE DEF AccountsInv, HashPassword, CallFails, Fails, Go, Answer
<1>1. AccountsTypeOK'
  BY DEF AccountsTypeOK, Steps
<1>2. AccountsFit'
  BY DEF AccountsTypeOK, AccountsFit, Registering, LoggingIn
<1>3. LookedUp' /\ FoundFits'
  BY DEF AccountsTypeOK, LookedUp, FoundFits
<1>4. RegisteredStays'
  BY DEF AccountsTypeOK, RegisteredStays
<1>5. RefusedRightly' /\ InternalMeansRace'
  BY DEF AccountsTypeOK, RefusedRightly, InternalMeansRace, Taken, Owners, ByPhone, ByEmail
<1>. QED  BY <1>1, <1>2, <1>3, <1>4, <1>5

(* Every statement of a registration or a login. *)
LEMMA AccountStepInv ==
  ASSUME AccountsInv, NEW r \in Requests, AccountStep(r) PROVE AccountsInv'
BY LookupInv, InsertInv, FindInv, CheckInv, HashInv DEF AccountStep
-------------------------------------------------------------------------------
Events == {"delta", "fallback", "done"}

(* While the goroutine runs it has said nothing in errCh, and the handler      *)
(* waits; what it says then is whether the LLM failed.                         *)
Awaited ==
    \A r \in Streams :
        /\ child[r] # "none" => handler[r] = "wait" /\ result[r] = "none"
        /\ handler[r] = "wait" => (r \in broken <=> result[r] = "err")
        /\ handler[r] = "fallback" => r \in broken

(* What the response holds where the handler stands: no more than n deltas,    *)
(* and what comes after them.                                                  *)
Holds(s, n, tail) ==
    /\ s \in Seq(Events)
    /\ \E k \in 0..n : /\ Len(s) = k + Len(tail)
                       /\ \A i \in 1..k : s[i] = "delta"
                       /\ \A i \in 1..Len(tail) : s[k + i] = tail[i]

Ending(r) == IF r \in broken THEN <<"fallback">> ELSE <<>>
Finish(r) == Append(Ending(r), "done")

Shape ==
    \A r \in Streams :
        /\ handler[r] \in {"wait", "fallback"} => Holds(events[r], MaxDeltas, <<>>)
        /\ child[r] = "send" => Len(events[r]) < MaxDeltas
        /\ handler[r] = "done" => Holds(events[r], MaxDeltas, Ending(r))
        /\ handler[r] = "chat" => events[r] = <<>>
        /\ handler[r] = "idle" =>
              events[r] = <<>> \/ Holds(events[r], MaxDeltas, Finish(r))

Places ==
    /\ handler \in [Streams -> {"idle", "chat", "wait", "fallback", "done"}]
    /\ child   \in [Streams -> {"none", "call", "read", "send"}]
    /\ result  \in [Streams -> {"none", "nil", "err"}]
    /\ events  \in [Streams -> Seq(Events)]
    /\ broken \subseteq Streams

StreamInv == Places /\ Awaited /\ Shape

(* One more delta, and one more event at the end. *)
LEMMA DeltaHolds ==
  ASSUME NEW s, Holds(s, MaxDeltas, <<>>), Len(s) < MaxDeltas
  PROVE  Holds(Append(s, "delta"), MaxDeltas, <<>>)
BY DeltasAssumption DEF Holds, Events

(* The fallback after the deltas. *)
LEMMA FallbackHolds ==
  ASSUME NEW s, Holds(s, MaxDeltas, <<>>)
  PROVE  Holds(Append(s, "fallback"), MaxDeltas, <<"fallback">>)
<1>1. s \in Seq(Events) /\ "fallback" \in Events
  BY DEF Holds, Events
<1>2. PICK k \in 0..MaxDeltas : Len(s) = k /\ \A i \in 1..k : s[i] = "delta"
  BY DEF Holds
<1>3. Len(<<"fallback">>) = 1 /\ <<"fallback">>[1] = "fallback"
  OBVIOUS
<1>. DEFINE t == Append(s, "fallback")
<1>4. /\ t \in Seq(Events) /\ Len(t) = k + 1
      /\ t[k + 1] = "fallback" /\ \A i \in 1..k : t[i] = "delta"
  BY <1>1, <1>2, DeltasAssumption
<1>. HIDE DEF t
<1>5. \A i \in 1..1 : t[k + i] = <<"fallback">>[i]
  BY <1>4
<1>6. Len(t) = k + Len(<<"fallback">>)
  BY <1>3, <1>4
<1>7. \A i \in 1..Len(<<"fallback">>) : t[k + i] = <<"fallback">>[i]
  BY <1>3, <1>5
<1>8. Holds(t, MaxDeltas, <<"fallback">>)
  BY <1>2, <1>4, <1>6, <1>7 DEF Holds
<1>. QED  BY <1>8 DEF t

(* The done after either. *)
LEMMA DoneHolds ==
  ASSUME NEW s, NEW tail \in {<<>>, <<"fallback">>}, Holds(s, MaxDeltas, tail)
  PROVE  Holds(Append(s, "done"), MaxDeltas, Append(tail, "done"))
<1>0. <<>> \in Seq(Events) /\ <<"fallback">> \in Seq(Events)
  BY EmptySeq DEF Events
<1>1. s \in Seq(Events) /\ "done" \in Events /\ tail \in Seq(Events)
  BY <1>0 DEF Holds, Events
<1>2. PICK k \in 0..MaxDeltas : /\ Len(s) = k + Len(tail)
                                /\ \A i \in 1..k : s[i] = "delta"
                                /\ \A i \in 1..Len(tail) : s[k + i] = tail[i]
  BY DEF Holds
<1>. DEFINE t == Append(s, "done")
            end == Append(tail, "done")
<1>3. /\ Len(end) = Len(tail) + 1 /\ end[Len(tail) + 1] = "done"
      /\ \A i \in 1..Len(tail) : end[i] = tail[i]
      /\ Len(tail) \in Nat
  BY <1>1
<1>4. /\ t \in Seq(Events) /\ Len(t) = k + Len(tail) + 1
      /\ t[k + Len(tail) + 1] = "done"
      /\ \A i \in 1..(k + Len(tail)) : t[i] = s[i]
  BY <1>1, <1>2, <1>3, DeltasAssumption
<1>. HIDE DEF t, end
<1>5. Len(t) = k + Len(end) /\ \A i \in 1..k : t[i] = "delta"
  BY <1>2, <1>3, <1>4, DeltasAssumption
<1>6. ASSUME NEW i \in 1..Len(end) PROVE t[k + i] = end[i]
  BY <1>2, <1>3, <1>4, DeltasAssumption
<1>7. Holds(t, MaxDeltas, end)
  BY <1>4, <1>5, <1>6 DEF Holds
<1>. QED  BY <1>7 DEF t, end

(* A request begins, or the slot turns to another service. *)
LEMMA BeginInv ==
  ASSUME StreamInv, NEW r \in Streams,
         ReceiveStream(r) \/ ReceiveChat(r) \/ ForgetStream(r)
  PROVE  StreamInv'
<1>. USE DEF StreamInv, Places, ReceiveStream, ReceiveChat, ForgetStream, Begin
<1>0. <<>> \in Seq(Events) /\ Holds(<<>>, MaxDeltas, <<>>)
  BY EmptySeq, DeltasAssumption DEF Holds
<1>1. Places'
  <2>1. events' \in [Streams -> Seq(Events)]
    BY <1>0
  <2>. QED  BY <2>1
<1>2. Awaited'
  BY DEF Awaited
<1>3. Shape'
  BY <1>0 DEF Shape, Ending, Finish
<1>. QED  BY <1>1, <1>2, <1>3

(* The goroutine: the stream is opened, read, given up. *)
LEMMA ReturnInv ==
  ASSUME StreamInv, NEW r \in Streams,
         LLMUnreachable(r) \/ ScanEnd(r) \/ ScanFails(r)
  PROVE  StreamInv'
<1>. USE DEF StreamInv, Places, LLMUnreachable, ScanEnd, ScanFails, Return, Child, Breaks
<1>1. Places'
  OBVIOUS
<1>2. Awaited'
  BY DEF Awaited
<1>3. Shape'
  BY DEF Shape, Awaited, Ending, Finish
<1>. QED  BY <1>1, <1>2, <1>3

(* The stream is open and read on. *)
LEMMA ReadInv ==
  ASSUME StreamInv, NEW r \in Streams, LLMAccepts(r) \/ ScanDelta(r)
  PROVE  StreamInv'
<1>. USE DEF StreamInv, Places, LLMAccepts, ScanDelta, Child
<1>1. Places'
  OBVIOUS
<1>2. Awaited'
  BY DEF Awaited
<1>3. Shape'
  BY DEF Shape, Ending, Finish
<1>. QED  BY <1>1, <1>2, <1>3

(* onChunk writes a delta. *)
LEMMA OnChunkInv ==
  ASSUME StreamInv, NEW r \in Streams, OnChunk(r)
  PROVE  StreamInv'
<1>. USE DEF StreamInv, Places, OnChunk, Child, Written
<1>1. Places'
  BY DEF Events
<1>2. Awaited'
  BY DEF Awaited
<1>3. Shape'
  <2>1. handler[r] = "wait" /\ Holds(events[r], MaxDeltas, <<>>)
    BY DEF Awaited, Shape
  <2>2. Holds(Append(events[r], "delta"), MaxDeltas, <<>>)
    BY <2>1, DeltaHolds DEF Shape
  <2>. QED  BY <2>1, <2>2 DEF Shape, Ending, Finish
<1>. QED  BY <1>1, <1>2, <1>3

(* The handler has the goroutine's error, writes the fallback, writes done; or *)
(* it has Chat's answer.                                                       *)
LEMMA HandlerInv ==
  ASSUME StreamInv, NEW r \in Streams,
         ReceiveErr(r) \/ WriteFallback(r) \/ WriteDone(r) \/ ChatReturns(r)
  PROVE  StreamInv'
<1>. USE DEF StreamInv, Places
<1>1. CASE ReceiveErr(r)
  <2>. USE <1>1 DEF ReceiveErr, GoOn, Handler
  <2>1. Places' /\ Awaited'
    BY DEF Awaited
  <2>2. Shape'
    BY DEF Shape, Awaited, Ending, Finish
  <2>. QED  BY <2>1, <2>2
<1>2. CASE WriteFallback(r)
  <2>. USE <1>2 DEF WriteFallback, Handler, Written
  <2>1. Places'
    BY DEF Events
  <2>2. Awaited'
    BY DEF Awaited
  <2>3. Holds(Append(events[r], "fallback"), MaxDeltas, Ending(r)) /\ Ending(r)' = Ending(r)
    BY FallbackHolds DEF Shape, Awaited, Ending
  <2>4. Shape'
    BY <2>3 DEF Shape, Awaited, Ending, Finish
  <2>. QED  BY <2>1, <2>2, <2>4
<1>3. CASE WriteDone(r)
  <2>. USE <1>3 DEF WriteDone, Handler, Written
  <2>1. Places'
    BY DEF Events
  <2>2. Awaited'
    BY DEF Awaited
  <2>4. Ending(r) \in {<<>>, <<"fallback">>}
    BY DEF Ending
  <2>5. Holds(Append(events[r], "done"), MaxDeltas, Finish(r)) /\ Finish(r)' = Finish(r)
    BY <2>4, DoneHolds DEF Shape, Finish, Ending
  <2>6. Shape'
    BY <2>5 DEF Shape, Awaited, Ending, Finish
  <2>. QED  BY <2>1, <2>2, <2>6
<1>4. CASE ChatReturns(r)
  <2>. USE <1>4 DEF ChatReturns
  <2>1. Places' /\ Awaited'
    BY DEF Awaited
  <2>2. Shape'
    BY DEF Shape, Ending, Finish
  <2>. QED  BY <2>1, <2>2
<1>. QED  BY <1>1, <1>2, <1>3, <1>4

(* Every step of the goroutine or the handler. *)
LEMMA StreamStepInv ==
  ASSUME StreamInv, NEW r \in Streams, StreamStep(r) PROVE StreamInv'
BY ReturnInv, ReadInv, OnChunkInv, HandlerInv DEF StreamStep, ChildStep

(* A step that is none of the streams'. *)
LEMMA StreamUnchanged ==
  ASSUME StreamInv, UNCHANGED streamVars PROVE StreamInv'
BY DEF StreamInv, streamVars, Places, Awaited, Shape, Ending, Finish
-------------------------------------------------------------------------------
(* What is open follows from where main stands; requests come when it serves,  *)
(* and outlast Shutdown only with the grace.                                   *)
Prepared ==
    /\ stage \in {"notify", "serve", "shutdown"} \cup
                 {"initRedis", "newMQTT", "listen"} => db = "open"
    /\ stage \in {"newMQTT", "listen", "notify", "serve", "shutdown"} =>
          "redis" \in opened
    /\ stage \in {"listen", "notify", "serve", "shutdown"} => "mqtt" \in opened
    /\ http # "off" => stage \in {"notify", "serve", "exited"}

OnTime ==
    \/ InFlight = {} \/ expired \/ stage \in {"shutdown", "exited"}
    \/ stage \in {"notify", "serve"} /\ http = "open"

MainInv ==
    /\ stage \in Stages /\ opened \subseteq {"redis", "mqtt"}
    /\ http \in {"off", "starting", "open"} /\ expired \in BOOLEAN
    /\ Prepared /\ OnTime

IInv == AccountsInv /\ StreamInv /\ MainInv

(* main goes on, the listener opens or fails, a signal comes. *)
LEMMA MainStepInv ==
  ASSUME IInv, MainStep \/ Signal \/ Listening \/ ListenFails
  PROVE  IInv'
<1>. USE DEF IInv
<1>1. /\ UNCHANGED <<requestVars, users, streamVars>>
      /\ db' \in {"none", "open", "closed"}
  BY DEF MainStep, Signal, Listening, ListenFails, Main, InitDB, InitRedis,
         NewMQTTClient, InitFails, GoListen, NotifyContext, SignalEarly,
         Shutdown, CloseNow, GraceExpires, Disconnect, CloseRedis, CloseDB,
         accountVars, AccountsInv, AccountsTypeOK
<1>2. AccountsInv' /\ StreamInv'
  BY <1>1, AccountsUnchanged, StreamUnchanged
<1>3. InFlight' = InFlight
  BY <1>1 DEF InFlight, requestVars, streamVars
<1>. USE DEF MainInv, Main, Prepared, OnTime, Stages
<1>4. CASE InitDB \/ InitRedis \/ NewMQTTClient \/ InitFails
  BY <1>2, <1>3, <1>4 DEF InitDB, InitRedis, NewMQTTClient, InitFails
<1>5. CASE GoListen \/ NotifyContext \/ SignalEarly \/ Signal
  BY <1>2, <1>3, <1>5 DEF GoListen, NotifyContext, SignalEarly, Signal
<1>6. CASE Shutdown \/ GraceExpires
  BY <1>2, <1>3, <1>6 DEF Shutdown, CloseNow, GraceExpires, accountVars
<1>7. CASE Disconnect \/ CloseRedis \/ CloseDB
  BY <1>2, <1>3, <1>7 DEF Disconnect, CloseRedis, CloseDB
<1>8. CASE Listening \/ ListenFails
  BY <1>2, <1>3, <1>8 DEF Listening, ListenFails, accountVars
<1>. QED  BY <1>4, <1>5, <1>6, <1>7, <1>8 DEF MainStep

(* A request is accepted by a free slot. *)
LEMMA ReceiveInv ==
  ASSUME IInv, NEW r \in Requests, Receive(r) PROVE IInv'
<1>. USE DEF IInv
<1>1. MainInv'
  BY DEF Receive, mainVars, MainInv, Prepared, OnTime, ReceiveRegister,
         ReceiveLogin, Forget, Arrive
<1>2. StreamInv'
  BY SlotsAssumption, BeginInv DEF Receive
<1>3. AccountsInv'
  <2>1. CASE \E f \in Forms : ReceiveRegister(r, f)
    BY <2>1, ArriveInv DEF ReceiveRegister
  <2>2. CASE \E l \in Logins : ReceiveLogin(r, l)
    BY <2>2, ArriveInv DEF ReceiveLogin
  <2>3. CASE Forget(r)
    BY <2>3, ArriveInv DEF Forget
  <2>. QED  BY <2>1, <2>2, <2>3 DEF Receive
<1>. QED  BY <1>1, <1>2, <1>3

(* A request that is in flight takes a step; none comes into being. *)
LEMMA ServeInv ==
  ASSUME IInv, NEW r \in Requests, Serve(r) PROVE IInv'
<1>. USE DEF IInv
<1>1. CASE AccountStep(r) /\ UNCHANGED streamVars
  <2>1. AccountsInv' /\ StreamInv'
    BY <1>1, AccountStepInv, StreamUnchanged
  <2>2. step[r] # "idle" /\ db' = db /\ \A q \in Requests \ {r} : step'[q] = step[q]
    BY <1>1 DEF AccountStep, RegisterPhone, RegisterEmail, Lookup, HashPassword,
       CreateUser, InsertUnanswered, LoginPhone, LoginEmail, Find,
       CheckPassword, CallFails, Fails, Answer, Go, AccountsInv, AccountsTypeOK
  <2>3. InFlight' \subseteq InFlight
    BY <1>1, <2>2 DEF InFlight, streamVars
  <2>. QED  BY <2>1, <2>2, <2>3 DEF Serve, mainVars, MainInv, Prepared, OnTime
<1>2. CASE StreamStep(r) /\ UNCHANGED accountVars
  <2>1. AccountsInv' /\ StreamInv'
    <3>1. StreamInv'
      BY <1>2, StreamStepInv, SlotsAssumption
    <3>2. AccountsInv'
      BY <1>2, AccountsUnchanged DEF accountVars, AccountsInv, AccountsTypeOK
    <3>. QED  BY <3>1, <3>2
  <2>2. \/ handler' = handler
        \/ /\ handler[r] # "idle"
           /\ \A q \in Requests \ {r} : handler'[q] = handler[q]
    BY <1>2, SlotsAssumption
    DEF StreamStep, ChildStep, LLMUnreachable, LLMAccepts, ScanDelta, ScanEnd,
        ScanFails, OnChunk, Return, Child, ReceiveErr, GoOn, WriteFallback,
        WriteDone, ChatReturns, Handler, StreamInv, Places
  <2>3. InFlight' \subseteq InFlight
    BY <1>2, <2>2 DEF InFlight, accountVars, requestVars
  <2>. QED  BY <1>2, <2>1, <2>3
            DEF Serve, mainVars, accountVars, MainInv, Prepared, OnTime
<1>. QED  BY <1>1, <1>2 DEF Serve

(* It holds when main starts. *)
LEMMA InitInv == Init => IInv
<1>. SUFFICES ASSUME Init PROVE IInv
  OBVIOUS
<1>1. AccountsInv
  BY DEF Init, AccountsInit, AccountsInv, AccountsTypeOK, AccountsFit, LookedUp,
         FoundFits, RegisteredStays, RefusedRightly, InternalMeansRace, Steps,
         Registering, LoggingIn
<1>2. StreamInv
  BY EmptySeq DEF Init, StreamInit, StreamInv, Places, Awaited, Shape
<1>3. MainInv
  BY SlotsAssumption DEF Init, AccountsInit, StreamInit, MainInv, Prepared,
     OnTime, InFlight, Stages
<1>. QED  BY <1>1, <1>2, <1>3 DEF IInv

(* IInv is inductive. *)
THEOREM Inductive == IInv /\ [Next]_vars => IInv'
<1>. SUFFICES ASSUME IInv, [Next]_vars PROVE IInv'
  OBVIOUS
<1>1. CASE MainStep \/ Signal \/ Listening \/ ListenFails
  BY <1>1, MainStepInv
<1>2. ASSUME NEW r \in Requests, Receive(r) \/ Serve(r) PROVE IInv'
  BY <1>2, ReceiveInv, ServeInv
<1>3. CASE UNCHANGED vars
  <2>1. AccountsInv' /\ StreamInv'
    BY <1>3, AccountsUnchanged, StreamUnchanged
    DEF vars, accountVars, IInv, AccountsInv, AccountsTypeOK
  <2>2. MainInv'
    BY <1>3 DEF vars, accountVars, requestVars, streamVars, mainVars, IInv,
       MainInv, Prepared, OnTime, InFlight
  <2>. QED  BY <2>1, <2>2 DEF IInv
<1>. QED  BY <1>1, <1>2, <1>3 DEF Next

(* IInv always holds. *)
THEOREM Invariance == Spec => []IInv
<1>. QED  BY InitInv, Inductive, PTL DEF Spec

(* The end of a response, spelled out. *)
LEMMA FinishIs ==
  ASSUME NEW r
  PROVE  /\ Finish(r) \in Seq(Events)
         /\ Finish(r) = IF r \in broken THEN <<"fallback", "done">> ELSE <<"done">>
<1>1. CASE r \in broken
  <2>1. Finish(r) = Append(<<"fallback">>, "done")
    BY <1>1 DEF Finish, Ending
  <2>2. <<"fallback", "done">> \in Seq(Events)
    BY DEF Events
  <2>3. Append(<<"fallback">>, "done") = <<"fallback", "done">>
    <3>. DEFINE s == Append(<<"fallback">>, "done")
                t == <<"fallback", "done">>
    <3>1. <<"fallback">> \in Seq(Events) /\ "done" \in Events
      BY DEF Events
    <3>2. /\ s \in Seq(Events) /\ Len(s) = 2
          /\ s[1] = "fallback" /\ s[2] = "done"
      BY <3>1
    <3>3. Len(t) = 2 /\ t[1] = "fallback" /\ t[2] = "done"
      OBVIOUS
    <3>. HIDE DEF s, t
    <3>4. \A i \in 1..Len(s) : s[i] = t[i]
      BY <3>2, <3>3
    <3>5. t \in Seq(Events)
      BY <2>2 DEF t
    <3>6. s = t
      BY <3>2, <3>3, <3>4, <3>5, SeqEqual
    <3>. QED  BY <3>6 DEF s, t
  <2>. QED  BY <1>1, <2>1, <2>3, <2>2
<1>2. CASE r \notin broken
  <2>1. Finish(r) = Append(<<>>, "done")
    BY <1>2 DEF Finish, Ending
  <2>2. Append(<<>>, "done") = <<"done">>
    OBVIOUS
  <2>3. <<"done">> \in Seq(Events)
    BY DEF Events
  <2>. QED  BY <1>2, <2>1, <2>2, <2>3
<1>. QED  BY <1>1, <1>2

(* A sequence that holds so many deltas and a tail is that. *)
LEMMA HoldsIs ==
  ASSUME NEW s, NEW tail \in Seq(Events), Holds(s, MaxDeltas, tail)
  PROVE  LET n == Len(s) - Len(tail) IN
         /\ n \in 0..MaxDeltas
         /\ s = [k \in 1..n |-> "delta"] \o tail
<1>. DEFINE n == Len(s) - Len(tail)
            deltas == [k \in 1..n |-> "delta"]
<1>0. s \in Seq(Events) /\ Len(tail) \in Nat /\ Len(s) \in Nat
  BY DEF Holds
<1>1. /\ n \in 0..MaxDeltas
      /\ \A k \in 1..n : s[k] = "delta"
      /\ \A k \in 1..Len(tail) : s[n + k] = tail[k]
  BY <1>0, DeltasAssumption DEF Holds
<1>2. deltas \in Seq(Events) /\ Len(deltas) = n /\ \A k \in 1..n : deltas[k] = "delta"
  BY <1>1, DeltasAssumption DEF Events
<1>. HIDE DEF deltas
<1>3. /\ deltas \o tail \in Seq(Events)
      /\ Len(deltas \o tail) = n + Len(tail)
      /\ \A k \in 1..(n + Len(tail)) :
            (deltas \o tail)[k] = IF k <= n THEN deltas[k] ELSE tail[k - n]
  BY <1>2, ConcatProperties
<1>4. Len(s) = Len(deltas \o tail)
  BY <1>0, <1>3
<1>5. ASSUME NEW k \in 1..Len(s) PROVE s[k] = (deltas \o tail)[k]
  <2>1. CASE k <= n
    BY <2>1, <1>0, <1>1, <1>2, <1>3, DeltasAssumption
  <2>2. CASE ~(k <= n)
    <3>1. k - n \in 1..Len(tail) /\ n + (k - n) = k
      BY <2>2, <1>0, <1>1, DeltasAssumption
    <3>2. s[k] = tail[k - n]
      BY <3>1, <1>1
    <3>. QED  BY <2>2, <3>2, <1>0, <1>1, <1>3, DeltasAssumption
  <2>. QED  BY <2>1, <2>2
<1>6. s = deltas \o tail
  BY <1>0, <1>3, <1>4, <1>5, SeqEqual
<1>. QED  BY <1>1, <1>6 DEF deltas

(* The variables keep their types. *)
THEOREM TypeCorrect == Spec => []TypeOK
<1>1. ASSUME IInv PROVE StreamTypeOK
  <2>1. ASSUME NEW r \in Streams
        PROVE  ToSet(events[r]) \subseteq Events /\ Len(events[r]) <= MaxDeltas + 2
    <3>1. events[r] \in Seq(Events)
      BY <1>1 DEF IInv, StreamInv, Places
    <3>2. Len(Ending(r)) <= 1 /\ Len(Finish(r)) <= 2 /\ Len(Ending(r)) \in Nat /\ Len(Finish(r)) \in Nat
      BY DEF Ending, Finish
    <3>3. \/ events[r] = <<>>
          \/ \E tail \in {<<>>, Ending(r), Finish(r)} : Holds(events[r], MaxDeltas, tail)
      BY <1>1 DEF IInv, StreamInv, Places, Shape
    <3>4. Len(events[r]) <= MaxDeltas + 2
      BY <3>2, <3>3, DeltasAssumption DEF Holds
    <3>. QED  BY <3>1, <3>4, LenProperties DEF ToSet
  <2>. QED  BY <1>1, <2>1 DEF IInv, StreamInv, Places, StreamTypeOK, Events
<1>2. IInv => TypeOK
  BY <1>1 DEF IInv, AccountsInv, MainInv, TypeOK
<1>. QED  BY <1>2, Invariance, PTL

(* A response that was written to its end is well formed                       *)
(* (chat_handler.go:52-77, llm_client.go).                                     *)
THEOREM ResponsesWellFormed == Spec => []StreamWellFormed
<1>1. ASSUME IInv PROVE StreamWellFormed
  <2>. SUFFICES ASSUME NEW r \in Streams, handler[r] = "idle", events[r] # <<>>
                PROVE  LET tail == IF r \in broken THEN <<"fallback", "done">>
                                                   ELSE <<"done">>
                           n    == Len(events[r]) - Len(tail)
                       IN  events[r] = [k \in 1..n |-> "delta"] \o tail
    BY DEF StreamWellFormed
  <2>1. Holds(events[r], MaxDeltas, Finish(r))
    BY <1>1 DEF IInv, StreamInv, Shape
  <2>2. /\ Finish(r) \in Seq(Events)
        /\ Finish(r) = IF r \in broken THEN <<"fallback", "done">> ELSE <<"done">>
    BY FinishIs
  <2>. QED  BY <2>1, <2>2, HoldsIs
<1>. QED  BY <1>1, Invariance, PTL

(* Who registered has the account, and shares it with nobody                   *)
(* (user_service.go:15-46 and the unique keys of users).                       *)
THEOREM RegistrationsStay == Spec => []RegisteredStays
<1>1. IInv => RegisteredStays
  BY DEF IInv, AccountsInv
<1>. QED  BY <1>1, Invariance, PTL

(* "Taken" and "wrong" are right; only a phone that is the e-mail address of    *)
(* somebody else can refuse a password that is right (user_service.go:15-75).  *)
THEOREM RefusalsRight == Spec => []RefusedRightly
<1>1. IInv => RefusedRightly
  BY DEF IInv, AccountsInv
<1>. QED  BY <1>1, Invariance, PTL

(* "Internal error" without one is a lost race (user_service.go:15-46). *)
THEOREM InternalIsRace == Spec => []InternalMeansRace
<1>1. IInv => InternalMeansRace
  BY DEF IInv, AccountsInv
<1>. QED  BY <1>1, Invariance, PTL

(* The goroutine writes only while the handler waits (chat_handler.go:52-69).  *)
THEOREM WritersExclude == Spec => []OneWriter
<1>1. IInv => OneWriter
  BY DEF IInv, StreamInv, Awaited, OneWriter
<1>. QED  BY <1>1, Invariance, PTL

(* Handlers have their dependencies (main.go:38-65, 121-145). *)
THEOREM DependenciesOpen == Spec => []HandlersServed
<1>1. IInv => HandlersServed
  BY DEF IInv, MainInv, Prepared, OnTime, HandlersServed
<1>. QED  BY <1>1, Invariance, PTL

(* Only the grace, or a signal before main asked for it, cuts a request off    *)
(* (main.go:121-145).                                                          *)
THEOREM CutsAreLate == Spec => CutOnlyAfterGrace
<1>1. IInv /\ [Next]_vars =>
        [stage' = "exited" /\ InFlight # {} => expired \/ stage = "notify"]_vars
  <2>. SUFFICES ASSUME IInv, Next, stage' = "exited", InFlight # {}
                PROVE  expired \/ stage = "notify"
    OBVIOUS
  <2>1. CASE MainStep \/ Signal \/ Listening \/ ListenFails
    BY <2>1 DEF MainStep, Signal, Listening, ListenFails, Main, InitDB, InitRedis,
       NewMQTTClient, InitFails, GoListen, NotifyContext, SignalEarly,
       Shutdown, CloseNow, GraceExpires, Disconnect, CloseRedis, CloseDB,
       IInv, MainInv, Prepared, OnTime
  <2>2. ASSUME NEW r \in Requests, Receive(r) \/ Serve(r) PROVE FALSE
    BY <2>2 DEF Receive, Serve, mainVars
  <2>. QED  BY <2>1, <2>2 DEF Next
<1>. QED  BY <1>1, Invariance, PTL DEF Spec, CutOnlyAfterGrace
===============================================================================
