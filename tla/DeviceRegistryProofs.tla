------------------------- MODULE DeviceRegistryProofs -------------------------
(* Proofs about DeviceRegistry, for any devices, users and requests. *)
EXTENDS DeviceRegistry, TLAPS

(* A request that is being served asks what its next statement does, and past  *)
(* the lookup, but for a create, its row exists: no statement deletes one.     *)
StepFits ==
    \A r \in Requests :
        /\ pc[r] # "idle" => req[r] \in Asked
        /\ pc[r] = "insert" => req[r].op = "create"
        /\ pc[r] \in {"update", "unbind"} => req[r].op = pc[r]
        /\ pc[r] \in {"begin", "stage", "commit"} => req[r].op = "bind"
        /\ pc[r] \in {"update", "unbind", "begin", "stage", "commit"} =>
              Exists(req[r].dev)

IInv ==
    /\ TypeOK
    /\ StepFits
    /\ CheckedUntilCommit
    /\ NoLockLeftBehind
    /\ ColumnsAgree

(* A row of the table is not the absent one. *)
LEMMA RowExists ==
  ASSUME NEW row \in Row PROVE row # NoRow
BY UsersAssumption DEF Row, NoRow

(* An unbind writes a row of the table. *)
LEMMA ReleasedIsRow ==
  ASSUME NEW row \in Row PROVE Released(row) \in Row
BY DEF Released, Cleared, Row

(* A commit does, given the device it looked up still exists. *)
LEMMA BoundIsRow ==
  ASSUME IInv, NEW r \in Requests, pc[r] = "commit" PROVE BoundRow(r) \in Row
<1>1. req[r].user \in Users /\ req[r].dev \in Devices /\ rows[req[r].dev] \in Row
  BY DEF IInv, TypeOK, StepFits, Exists, Asked
<1>. QED  BY <1>1 DEF BoundRow, Row

(* A statement that writes one row in one step. *)
LEMMA WriteKeepsTable ==
  ASSUME IInv, NEW d \in Devices, NEW row \in Row, Write(d, row)
  PROVE  /\ rows' \in [Devices -> Row \cup {NoRow}]
         /\ rows'[d] = row
         /\ \A e \in Devices : Exists(e) => Exists(e)'
BY RowExists DEF IInv, TypeOK, Write, Exists

(* A request arrives. *)
LEMMA ReceiveInv ==
  ASSUME NEW r \in Requests, NEW op \in Ops, NEW u \in Users,
         NEW d \in Devices, IInv, Receive(r, op, u, d)
  PROVE  IInv'
<1>1. TypeOK'
  BY DEF IInv, TypeOK, Receive, Asked, Steps, Answers
<1>2. StepFits'
  BY DEF IInv, StepFits, Receive, TypeOK, Exists, Asked
<1>3. CheckedUntilCommit'
  BY DEF IInv, CheckedUntilCommit, Receive, OwnerOf
<1>4. NoLockLeftBehind'
  BY DEF IInv, NoLockLeftBehind, Receive
<1>5. ColumnsAgree'
  BY DEF IInv, ColumnsAgree, Receive, Exists
<1>. QED  BY <1>1, <1>2, <1>3, <1>4, <1>5 DEF IInv

(* The lookup refuses the request, or lets it go on to its statement. *)
LEMMA LookupInv ==
  ASSUME NEW r \in Requests, IInv, Lookup(r)
  PROVE  IInv'
<1>1. TypeOK'
  BY DEF IInv, TypeOK, Lookup, Answer, Rollback, Goto, Steps, Answers
<1>2. StepFits'
  BY UsersAssumption DEF IInv, StepFits, Lookup, TypeOK, Answer, Goto, Exists,
         OwnerOf, NoRow, Asked
<1>3. CheckedUntilCommit'
  BY DEF IInv, CheckedUntilCommit, Lookup, TypeOK, NoLockLeftBehind, Answer,
         Rollback, Goto, OwnerOf
<1>4. NoLockLeftBehind'
  BY DEF IInv, NoLockLeftBehind, Lookup, TypeOK, Answer, Rollback, Goto
<1>5. ColumnsAgree'
  BY DEF IInv, ColumnsAgree, Lookup, Goto, Exists
<1>. QED  BY <1>1, <1>2, <1>3, <1>4, <1>5 DEF IInv

(* The insert touches a row that did not exist, which no transaction has       *)
(* locked.                                                                     *)
LEMMA InsertInv ==
  ASSUME NEW r \in Requests, IInv, Insert(r)
  PROVE  IInv'
<1>. DEFINE d == req[r].dev
            row == NewRow(r)
<1>. d \in Devices
  BY DEF Insert, IInv, StepFits, Asked
<1>0. row \in Row
  BY DEF Insert, NewRow, IInv, StepFits, Asked, Row
<1>t. /\ rows' \in [Devices -> Row \cup {NoRow}]
      /\ \A e \in Devices : Exists(e) => Exists(e)'
  BY <1>0, WriteKeepsTable DEF Insert, IInv, TypeOK, Exists
<1>1. TypeOK'
  BY <1>t DEF IInv, TypeOK, Insert, Answer, Rollback, Steps, Answers
<1>2. StepFits'
  BY DEF IInv, StepFits, Insert, NewRow, TypeOK, Answer, Write, Exists, Asked
<1>3. CheckedUntilCommit'
  BY DEF IInv, CheckedUntilCommit, Insert, TypeOK, StepFits, Answer, Rollback,
         Write, NewRow, OwnerOf, Asked
<1>4. NoLockLeftBehind'
  BY DEF IInv, NoLockLeftBehind, Insert, TypeOK, Answer, Rollback
<1>5. ColumnsAgree'
  BY DEF IInv, ColumnsAgree, Insert, NewRow, TypeOK, Write, Exists
<1>. QED  BY <1>1, <1>2, <1>3, <1>4, <1>5 DEF IInv

(* The update of name and room. *)
LEMMA UpdateInv ==
  ASSUME NEW r \in Requests, IInv, Update(r)
  PROVE  IInv'
<1>1. TypeOK'
  BY DEF IInv, TypeOK, Update, StepFits, Answer, Rollback, Write, Renamed, Row, NoRow,
         Asked, Steps, Answers
<1>2. StepFits'
  BY DEF IInv, StepFits, Update, TypeOK, Answer, Write, Renamed, Exists, Row, NoRow
<1>3. CheckedUntilCommit'
  BY DEF IInv, CheckedUntilCommit, Update, TypeOK, NoLockLeftBehind, Answer,
         Rollback, Write, Renamed, OwnerOf
<1>4. NoLockLeftBehind'
  BY DEF IInv, NoLockLeftBehind, Update, Answer, Rollback
<1>5. ColumnsAgree'
  BY DEF IInv, ColumnsAgree, Update, StepFits, Write, Renamed, Exists
<1>. QED  BY <1>1, <1>2, <1>3, <1>4, <1>5 DEF IInv

(* The unbind waits for a transaction on the row to end. *)
LEMMA UnbindInv ==
  ASSUME NEW r \in Requests, IInv, Unbind(r)
  PROVE  IInv'
<1>. req[r].dev \in Devices /\ rows[req[r].dev] \in Row
  BY DEF Unbind, IInv, TypeOK, StepFits, Exists, Asked
<1>0. Released(rows[req[r].dev]) \in Row
  BY ReleasedIsRow
<1>t. /\ rows' \in [Devices -> Row \cup {NoRow}]
      /\ \A e \in Devices : Exists(e) => Exists(e)'
  BY <1>0, WriteKeepsTable DEF Unbind
<1>1. TypeOK'
  BY <1>t DEF IInv, TypeOK, Unbind, Answer, Rollback, Steps, Answers
<1>2. StepFits'
  BY <1>t DEF IInv, StepFits, Unbind, TypeOK, Answer, Asked
<1>3. CheckedUntilCommit'
  BY DEF IInv, CheckedUntilCommit, Unbind, TypeOK, NoLockLeftBehind, Answer,
         Rollback, Write, Released, Cleared, OwnerOf
<1>4. NoLockLeftBehind'
  BY DEF IInv, NoLockLeftBehind, Unbind, Answer, Rollback
<1>5. ColumnsAgree'
  BY DEF IInv, ColumnsAgree, Unbind, Write, Released, Cleared, Exists
<1>. QED  BY <1>1, <1>2, <1>3, <1>4, <1>5 DEF IInv

(* The select takes the lock, if the device is free. *)
LEMMA SelectInv ==
  ASSUME NEW r \in Requests, IInv, SelectForUpdate(r)
  PROVE  IInv'
<1>1. TypeOK'
  BY DEF IInv, TypeOK, SelectForUpdate, Answer, Rollback, Steps, Answers
<1>2. StepFits'
  BY DEF IInv, StepFits, SelectForUpdate, TypeOK, Answer, Exists
<1>3. CheckedUntilCommit'
  BY RequestAssumption DEF IInv, CheckedUntilCommit, SelectForUpdate, TypeOK,
         StepFits, Answer, Rollback, Unlocked, OwnerOf, Asked
<1>4. NoLockLeftBehind'
  BY DEF IInv, NoLockLeftBehind, SelectForUpdate, TypeOK, Answer, Rollback
<1>5. ColumnsAgree'
  BY DEF IInv, ColumnsAgree, SelectForUpdate, Exists
<1>. QED  BY <1>1, <1>2, <1>3, <1>4, <1>5 DEF IInv

(* The update inside the transaction. *)
LEMMA StageInv ==
  ASSUME NEW r \in Requests, IInv, Stage(r)
  PROVE  IInv'
<1>1. TypeOK'
  BY DEF IInv, TypeOK, Stage, Goto, Steps
<1>2. StepFits'
  BY DEF IInv, StepFits, Stage, Goto, Exists
<1>3. CheckedUntilCommit'
  BY DEF IInv, CheckedUntilCommit, Stage, Goto, OwnerOf
<1>4. NoLockLeftBehind'
  BY DEF IInv, NoLockLeftBehind, Stage, Goto
<1>5. ColumnsAgree'
  BY DEF IInv, ColumnsAgree, Stage, Goto, Exists
<1>. QED  BY <1>1, <1>2, <1>3, <1>4, <1>5 DEF IInv

(* The commit gives the device to the user and the lock back. *)
LEMMA CommitInv ==
  ASSUME NEW r \in Requests, IInv, Commit(r)
  PROVE  IInv'
<1>. req[r].dev \in Devices
  BY DEF Commit, IInv, StepFits, Asked
<1>0. BoundRow(r) \in Row
  BY BoundIsRow DEF Commit
<1>t. /\ rows' \in [Devices -> Row \cup {NoRow}]
      /\ \A e \in Devices : Exists(e) => Exists(e)'
  BY <1>0, WriteKeepsTable DEF Commit
<1>1. TypeOK'
  BY <1>t DEF IInv, TypeOK, Commit, Answer, Rollback, Steps, Answers
<1>2. StepFits'
  BY <1>t DEF IInv, StepFits, Commit, TypeOK, Answer, Asked
<1>3. CheckedUntilCommit'
  BY DEF IInv, CheckedUntilCommit, Commit, TypeOK, StepFits, Answer, Rollback,
         Write, OwnerOf, Asked
<1>4. NoLockLeftBehind'
  BY DEF IInv, NoLockLeftBehind, Commit, Answer, Rollback
<1>5. ColumnsAgree'
  BY UsersAssumption DEF IInv, ColumnsAgree, Commit, StepFits, Write,
         BoundRow, Exists, Asked
<1>. QED  BY <1>1, <1>2, <1>3, <1>4, <1>5 DEF IInv

(* A statement whose answer is an error writes the row it would have written.  *)
LEMMA ExecutedRow ==
  ASSUME NEW r \in Requests, IInv, Executed(r)
  PROVE  \E row \in Row :
            /\ Write(req[r].dev, row)
            /\ row.bound <=> row.status = "online"
            /\ row.bound => row.owner # NoUser
<1>. DEFINE d == req[r].dev
<1>1. CASE pc[r] = "insert" /\ Write(d, NewRow(r))
  <2>1. NewRow(r) \in Row
    BY <1>1 DEF NewRow, IInv, StepFits, Asked, Row
  <2>. QED  BY <1>1, <2>1 DEF NewRow
<1>2. CASE pc[r] = "update" /\ Write(d, Renamed(r))
  <2>1. d \in Devices /\ req[r].user \in Users /\ rows[d] \in Row /\ Exists(d)
    BY <1>2 DEF IInv, TypeOK, StepFits, Exists, Asked
  <2>2. Renamed(r) \in Row
    BY <2>1 DEF Renamed, Row
  <2>3. /\ Renamed(r).bound = rows[d].bound /\ Renamed(r).status = rows[d].status
        /\ Renamed(r).owner = rows[d].owner
    BY <2>1 DEF Renamed, Row
  <2>. QED  BY <1>2, <2>1, <2>2, <2>3 DEF IInv, ColumnsAgree
<1>3. CASE pc[r] = "unbind" /\ Write(d, Released(rows[d]))
  <2>1. rows[d] \in Row
    BY <1>3 DEF IInv, TypeOK, StepFits, Exists, Asked
  <2>2. Released(rows[d]) \in Row
    BY <2>1, ReleasedIsRow
  <2>3. Released(rows[d]).bound = FALSE /\ Released(rows[d]).status = "offline"
    BY <2>1 DEF Released, Cleared, Row
  <2>. QED  BY <1>3, <2>2, <2>3
<1>4. CASE pc[r] = "commit" /\ Write(d, BoundRow(r))
  <2>1. req[r].user \in Users /\ rows[d] \in Row
    BY <1>4 DEF IInv, TypeOK, StepFits, Exists, Asked
  <2>2. BoundRow(r) \in Row
    BY <1>4, BoundIsRow
  <2>3. /\ BoundRow(r).bound = TRUE /\ BoundRow(r).status = "online"
        /\ BoundRow(r).owner # NoUser
    BY <2>1, UsersAssumption DEF BoundRow, Row
  <2>. QED  BY <1>4, <2>2, <2>3
<1>. QED  BY <1>1, <1>2, <1>3, <1>4 DEF Executed

(* A statement or a commit fails, executed or not. *)
LEMMA DBErrorInv ==
  ASSUME NEW r \in Requests, IInv, DBError(r)
  PROVE  IInv'
<1>. req[r].dev \in Devices
  BY DEF DBError, IInv, StepFits, Asked
<1>0. UNCHANGED rows \/ \E row \in Row :
         /\ Write(req[r].dev, row) /\ Unlocked(req[r].dev, r)
         /\ row.bound <=> row.status = "online"
         /\ row.bound => row.owner # NoUser
  BY ExecutedRow DEF DBError, Executed
<1>t. /\ rows' \in [Devices -> Row \cup {NoRow}]
      /\ \A e \in Devices : Exists(e) => Exists(e)'
  BY <1>0, WriteKeepsTable DEF IInv, TypeOK, Exists
<1>1. TypeOK'
  BY <1>t DEF IInv, TypeOK, DBError, Answer, Rollback, Steps, Answers
<1>2. StepFits'
  BY <1>t DEF IInv, StepFits, DBError, TypeOK, Answer, Asked
<1>3. CheckedUntilCommit'
  <2>1. ASSUME NEW s \in Requests, s # r, pc[s] \in {"stage", "commit"}
        PROVE  rows'[req[s].dev] = rows[req[s].dev]
    <3>1. lock[req[s].dev] = s /\ s # NoRequest /\ req[s].dev \in Devices
      BY <2>1, RequestAssumption DEF IInv, CheckedUntilCommit, StepFits, Asked
    <3>. QED  BY <1>0, <2>1, <3>1 DEF IInv, TypeOK, Unlocked, Write
  <2>. QED  BY <2>1 DEF IInv, CheckedUntilCommit, DBError, TypeOK, StepFits,
            Answer, Rollback, OwnerOf, Asked
<1>4. NoLockLeftBehind'
  BY DEF IInv, NoLockLeftBehind, DBError, Answer, Rollback
<1>5. ColumnsAgree'
  <2>1. CASE UNCHANGED rows
    BY <2>1 DEF IInv, ColumnsAgree, Exists
  <2>2. CASE ~UNCHANGED rows
    BY <1>0, <2>2 DEF IInv, TypeOK, ColumnsAgree, Write, Exists
  <2>. QED  BY <2>1, <2>2
<1>. QED  BY <1>1, <1>2, <1>3, <1>4, <1>5 DEF IInv

(* The server dies. *)
LEMMA CrashInv ==
  ASSUME IInv, Crash
  PROVE  IInv'
<1>1. TypeOK'
  BY DEF IInv, TypeOK, Crash, Steps, Answers
<1>2. StepFits'
  BY DEF IInv, StepFits, Crash
<1>3. CheckedUntilCommit'
  BY DEF IInv, CheckedUntilCommit, Crash
<1>4. NoLockLeftBehind'
  BY DEF IInv, NoLockLeftBehind, Crash
<1>5. ColumnsAgree'
  BY DEF IInv, ColumnsAgree, Crash, Exists
<1>. QED  BY <1>1, <1>2, <1>3, <1>4, <1>5 DEF IInv

(* It holds of an empty table with no request. *)
LEMMA InitInv == Init => IInv
BY UsersAssumption, RequestAssumption
   DEF Init, IInv, TypeOK, StepFits, CheckedUntilCommit, NoLockLeftBehind,
       ColumnsAgree, Exists, NoRow, Row, Steps, Answers

(* Every statement, failure and crash preserves the invariant. *)
THEOREM Inductive == IInv /\ [Next]_vars => IInv'
<1>. SUFFICES ASSUME IInv, [Next]_vars PROVE IInv'
  OBVIOUS
<1>1. ASSUME NEW r \in Requests, NEW op \in Ops, NEW u \in Users,
             NEW d \in Devices, Receive(r, op, u, d)
      PROVE  IInv'
  BY <1>1, ReceiveInv
<1>2. ASSUME NEW r \in Requests, Serve(r) PROVE IInv'
  BY <1>2, LookupInv, InsertInv, UpdateInv, UnbindInv, SelectInv, StageInv,
     CommitInv DEF Serve
<1>3. ASSUME NEW r \in Requests, DBError(r) PROVE IInv'
  BY <1>3, DBErrorInv
<1>4. CASE Crash
  BY <1>4, CrashInv
<1>5. CASE UNCHANGED vars
  BY <1>5 DEF vars, IInv, TypeOK, StepFits, CheckedUntilCommit,
              NoLockLeftBehind, ColumnsAgree, Exists, OwnerOf
<1>. QED  BY <1>1, <1>2, <1>3, <1>4, <1>5 DEF Next

(* So it holds in every state the registry reaches. *)
THEOREM Invariance == Spec => []IInv
<1>. QED  BY InitInv, Inductive, PTL DEF Spec

(* The variables keep their types. *)
THEOREM TypeCorrect == Spec => []TypeOK
<1>1. IInv => TypeOK
  BY DEF IInv
<1>. QED  BY <1>1, Invariance, PTL

(* The owner a bind checked under FOR UPDATE holds until it commits. *)
THEOREM CheckHolds == Spec => []CheckedUntilCommit
<1>1. IInv => CheckedUntilCommit
  BY DEF IInv
<1>. QED  BY <1>1, Invariance, PTL

(* A row is locked only for a transaction that is open on it. *)
THEOREM LocksReturned == Spec => []NoLockLeftBehind
<1>1. IInv => NoLockLeftBehind
  BY DEF IInv
<1>. QED  BY <1>1, Invariance, PTL

(* bound_at, status and owner_id agree in every committed row. *)
THEOREM RowsAgree == Spec => []ColumnsAgree
<1>1. IInv => ColumnsAgree
  BY DEF IInv
<1>. QED  BY <1>1, Invariance, PTL

(* What a request that is answered with success asked has been done.           *)
Done(r) ==
    LET q == req[r]
        d == req[r].dev
    IN  CASE q.op = "create" -> ~Exists(d) /\ rows'[d].owner = q.user
          [] q.op = "bind"   -> OwnerOf(d) = NoUser /\ rows'[d].owner = q.user
          [] q.op = "unbind" -> rows'[d].owner = NoUser
          [] q.op = "update" -> rows'[d].label = q.user

(* Only the statement that ends a request well answers it so. *)
LEMMA OkStatement ==
  ASSUME IInv, [Next]_vars, NEW r \in Requests,
         answer[r] = "none", answer'[r] = "ok"
  PROVE  Insert(r) \/ Update(r) \/ Unbind(r) \/ Commit(r)
<1>. answer \in [Requests -> Answers]
  BY DEF IInv, TypeOK
<1>1. ASSUME NEW s \in Requests, NEW op \in Ops, NEW u \in Users,
             NEW d \in Devices, Receive(s, op, u, d)
      PROVE  FALSE
  BY <1>1 DEF Receive
<1>2. ASSUME NEW s \in Requests, Serve(s)
      PROVE  Insert(r) \/ Update(r) \/ Unbind(r) \/ Commit(r)
  <2>1. CASE Lookup(s)
    BY <2>1 DEF Lookup, Answer, Goto
  <2>2. CASE SelectForUpdate(s) \/ Stage(s)
    BY <2>2 DEF SelectForUpdate, Stage, Answer, Goto
  <2>3. CASE Insert(s) \/ Update(s) \/ Unbind(s) \/ Commit(s)
    <3>1. s = r
      BY <2>3 DEF Insert, Update, Unbind, Commit, Answer
    <3>. QED  BY <2>3, <3>1
  <2>. QED  BY <1>2, <2>1, <2>2, <2>3 DEF Serve
<1>3. ASSUME NEW s \in Requests, DBError(s) PROVE FALSE
  BY <1>3 DEF DBError, Answer
<1>4. CASE Crash
  BY <1>4 DEF Crash
<1>5. CASE UNCHANGED vars
  BY <1>5 DEF vars
<1>. QED  BY <1>1, <1>2, <1>3, <1>4, <1>5 DEF Next

(* And each of them has done what the request asked, on a row that let it. *)
LEMMA OkIsDone ==
  ASSUME IInv, [Next]_vars, NEW r \in Requests,
         answer[r] = "none", answer'[r] = "ok"
  PROVE  Done(r)
<1>. DEFINE d == req[r].dev
<1>0. Insert(r) \/ Update(r) \/ Unbind(r) \/ Commit(r)
  BY OkStatement
<1>1. /\ pc[r] \in {"insert", "update", "unbind", "commit"}
      /\ d \in Devices /\ req[r].user \in Users
      /\ rows \in [Devices -> Row \cup {NoRow}]
      /\ answer \in [Requests -> Answers]
  BY <1>0 DEF Insert, Update, Unbind, Commit, IInv, TypeOK, StepFits, Asked
<1>2. CASE Insert(r)
  <2>1. req[r].op = "create"
    BY <1>2 DEF Insert, IInv, StepFits
  <2>2. ~Exists(d)
    BY <1>1, <1>2 DEF Insert, Answer
  <2>. QED  BY <1>1, <1>2, <2>1, <2>2 DEF Done, Insert, NewRow, Write
<1>3. CASE Update(r)
  <2>1. req[r].op = "update" /\ rows[d] \in Row
    BY <1>1, <1>3 DEF Update, IInv, StepFits, Exists
  <2>2. rows'[d].label = req[r].user
    BY <1>1, <1>3, <2>1 DEF Update, Renamed, Write, Row
  <2>. QED  BY <2>1, <2>2 DEF Done
<1>4. CASE Unbind(r)
  <2>1. req[r].op = "unbind" /\ rows[d] \in Row
    BY <1>1, <1>4 DEF Unbind, IInv, StepFits, Exists
  <2>2. rows'[d].owner = NoUser
    BY <1>1, <1>4, <2>1 DEF Unbind, Write, Released, Cleared, Row
  <2>. QED  BY <2>1, <2>2 DEF Done
<1>5. CASE Commit(r)
  <2>1. req[r].op = "bind" /\ rows[d] \in Row
    BY <1>1, <1>5 DEF Commit, IInv, StepFits, Exists
  <2>2. OwnerOf(d) = NoUser
    BY <1>5 DEF Commit, IInv, CheckedUntilCommit
  <2>3. rows'[d].owner = req[r].user
    BY <1>1, <1>5, <2>1 DEF Commit, Write, BoundRow, Row
  <2>. QED  BY <2>1, <2>2, <2>3 DEF Done
<1>. QED  BY <1>0, <1>2, <1>3, <1>4, <1>5

(* A request answered with success was carried out in that very step, on a row *)
(* that let it (device_service.go:14-78, device_repo.go:60-93).                *)
THEOREM SuccessIsReal == Spec => OkMeansDone
<1>. DEFINE Honest == \A r \in Requests :
                        (answer[r] = "none" /\ answer'[r] = "ok") => Done(r)
<1>1. IInv /\ [Next]_vars => [Honest]_vars
  BY OkIsDone
<1>2. [][Honest]_vars => OkMeansDone
  BY PTL DEF OkMeansDone, Done
<1>. QED  BY <1>1, <1>2, Invariance, PTL DEF Spec

-------------------------------------------------------------------------------
(* The registry implements Ownership: what a statement does to one row's owner *)
(* is a registration, a bind, a release or nothing.                            *)
OwnerMap == [d \in Devices |-> rows[d].owner]

(* One row written is at most one step of its owner. *)
LEMMA OneRowRefines ==
  ASSUME IInv, NEW d \in Devices, NEW row, Write(d, row),
         \/ OwnerOf(d) = Absent /\ row.owner \in Users
         \/ OwnerOf(d) = NoUser /\ row.owner \in Users
         \/ OwnerOf(d) \in Users /\ row.owner = NoUser
         \/ OwnerOf(d) = row.owner
  PROVE  [Owners!Next]_OwnerMap
<1>1. OwnerMap' = [OwnerMap EXCEPT ![d] = row.owner]
  BY DEF OwnerMap, Write, IInv, TypeOK
<1>2. OwnerMap[d] = OwnerOf(d)
  BY DEF OwnerMap, OwnerOf
<1>3. CASE OwnerOf(d) = row.owner
  BY <1>1, <1>2, <1>3 DEF OwnerMap
<1>4. CASE OwnerOf(d) = Absent /\ row.owner \in Users
  <2>1. Owners!Register(d, row.owner)
    BY <1>1, <1>2, <1>4 DEF Owners!Register, OwnerMap
  <2>. QED  BY <1>4, <2>1 DEF Owners!Next
<1>5. CASE OwnerOf(d) = NoUser /\ row.owner \in Users
  <2>1. Owners!Bind(d, row.owner)
    BY <1>1, <1>2, <1>5 DEF Owners!Bind, OwnerMap
  <2>. QED  BY <1>5, <2>1 DEF Owners!Next
<1>6. CASE OwnerOf(d) \in Users /\ row.owner = NoUser
  <2>1. Owners!Release(d)
    BY <1>1, <1>2, <1>6 DEF Owners!Release, OwnerMap
  <2>. QED  BY <2>1 DEF Owners!Next
<1>. QED  BY <1>3, <1>4, <1>5, <1>6

(* A commit finds the device free, as it was when its transaction looked.      *)
LEMMA CommitRefines ==
  ASSUME IInv, NEW r \in Requests, pc[r] = "commit",
         Write(req[r].dev, BoundRow(r))
  PROVE  [Owners!Next]_OwnerMap
<1>1. /\ req[r].dev \in Devices /\ req[r].user \in Users
      /\ rows[req[r].dev] \in Row
  BY DEF IInv, TypeOK, StepFits, Asked, Exists
<1>2. OwnerOf(req[r].dev) = NoUser /\ BoundRow(r).owner = req[r].user
  BY <1>1 DEF IInv, CheckedUntilCommit, BoundRow, Row
<1>. QED  BY <1>1, <1>2, OneRowRefines

(* An insert registers the device. *)
LEMMA InsertRefines ==
  ASSUME IInv, NEW r \in Requests, pc[r] = "insert", ~Exists(req[r].dev),
         Write(req[r].dev, NewRow(r))
  PROVE  [Owners!Next]_OwnerMap
<1>1. req[r].dev \in Devices /\ req[r].user \in Users
  BY DEF IInv, StepFits, Asked
<1>2. OwnerOf(req[r].dev) = Absent /\ NewRow(r).owner = req[r].user
  BY DEF Exists, OwnerOf, NoRow, NewRow
<1>. QED  BY <1>1, <1>2, OneRowRefines

(* An update leaves its owner. *)
LEMMA UpdateRefines ==
  ASSUME IInv, NEW r \in Requests, pc[r] = "update", Write(req[r].dev, Renamed(r))
  PROVE  [Owners!Next]_OwnerMap
<1>1. req[r].dev \in Devices /\ rows[req[r].dev] \in Row
  BY DEF IInv, TypeOK, StepFits, Exists, Asked
<1>2. Renamed(r).owner = OwnerOf(req[r].dev)
  BY <1>1 DEF Renamed, OwnerOf, Row
<1>. QED  BY <1>1, <1>2, OneRowRefines

(* An unbind releases it. *)
LEMMA UnbindRefines ==
  ASSUME IInv, NEW r \in Requests, pc[r] = "unbind",
         Write(req[r].dev, Released(rows[req[r].dev]))
  PROVE  [Owners!Next]_OwnerMap
<1>1. req[r].dev \in Devices /\ rows[req[r].dev] \in Row
  BY DEF IInv, TypeOK, StepFits, Exists, Asked
<1>2. /\ OwnerOf(req[r].dev) \in Users \cup {NoUser}
      /\ Released(rows[req[r].dev]).owner = NoUser
  BY <1>1 DEF OwnerOf, Released, Cleared, Row
<1>. QED  BY <1>1, <1>2, OneRowRefines

(* Every step of the registry is one of Ownership's, or leaves the owners. *)
LEMMA StepRefines ==
  ASSUME IInv, [Next]_vars PROVE [Owners!Next]_OwnerMap
<1>1. ASSUME UNCHANGED rows PROVE [Owners!Next]_OwnerMap
  BY <1>1 DEF OwnerMap
<1>2. ASSUME NEW r \in Requests, Insert(r) PROVE [Owners!Next]_OwnerMap
  BY <1>1, <1>2, InsertRefines DEF Insert
<1>3. ASSUME NEW r \in Requests, Update(r) \/ Unbind(r)
      PROVE  [Owners!Next]_OwnerMap
  BY <1>3, UpdateRefines, UnbindRefines DEF Update, Unbind
<1>4. ASSUME NEW r \in Requests, Commit(r) PROVE [Owners!Next]_OwnerMap
  BY <1>4, CommitRefines DEF Commit
<1>5. ASSUME NEW r \in Requests, DBError(r) PROVE [Owners!Next]_OwnerMap
  BY <1>1, <1>5, InsertRefines, UpdateRefines, UnbindRefines, CommitRefines
  DEF DBError, Executed
<1>6. ASSUME NEW r \in Requests,
             Lookup(r) \/ SelectForUpdate(r) \/ Stage(r)
      PROVE  [Owners!Next]_OwnerMap
  BY <1>1, <1>6 DEF Lookup, SelectForUpdate, Stage, Goto
<1>7. ASSUME NEW r \in Requests, NEW op \in Ops, NEW u \in Users,
             NEW d \in Devices, Receive(r, op, u, d)
      PROVE  [Owners!Next]_OwnerMap
  BY <1>1, <1>7 DEF Receive
<1>8. CASE Crash
  BY <1>1, <1>8 DEF Crash
<1>9. CASE UNCHANGED vars
  BY <1>1, <1>9 DEF vars
<1>. QED
  BY <1>2, <1>3, <1>4, <1>5, <1>6, <1>7, <1>8, <1>9 DEF Next, Serve

(* However many requests race on a device, it never passes from one user to    *)
(* another without having been released (device_repo.go:60-93).                *)
THEOREM OwnershipTheorem == Spec => OwnershipKept
<1>1. Init => Owners!Init
  BY DEF Init, Owners!Init, NoRow
<1>2. IInv /\ [Next]_vars => [Owners!Next]_OwnerMap
  BY StepRefines
<1>. QED
  BY <1>1, <1>2, Invariance, PTL
  DEF Spec, OwnershipKept, Owners!Spec, OwnerMap
===============================================================================
