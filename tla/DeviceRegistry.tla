----------------------------- MODULE DeviceRegistry -----------------------------
(* The device registry: concurrent HTTP requests that create, update, bind and *)
(* unbind devices.  Each runs the checks of service/device_service.go on a row *)
(* it read without a lock, then the statements of repository/device_repo.go,   *)
(* and is answered by handler/device_handler.go.  MySQL's part is the table    *)
(* with its unique device_id, the row lock of SELECT ... FOR UPDATE, and       *)
(* statements and commits that are atomic and may fail.                        *)
CONSTANTS
    Devices, Users,
    Requests,   \* requests served at the same time
    NoUser,     \* owner_id = 0
    Absent,     \* no row with this device_id
    NoRequest   \* the lock is free; or: no request is being served

ASSUME UsersAssumption   == NoUser \notin Users /\ Absent \notin Users /\ NoUser # Absent
ASSUME RequestAssumption == NoRequest \notin Requests

VARIABLES
    rows,       \* the committed rows of the table devices
    lock,       \* the transaction that holds a row's lock
    pc,         \* the next statement of a request
    req,        \* what a request asks: [op, user, dev]
    answer      \* the code of its answer, "none" while it is served

vars == <<rows, lock, pc, req, answer>>

Ops     == {"create", "update", "bind", "unbind"}
Steps   == {"idle", "lookup", "insert", "update", "unbind", "begin", "stage",
            "commit"}
Answers == {"none", "ok", "4001", "4030", "4090", "5000", "lost"}
Asked   == [op : Ops, user : Users, dev : Devices]

(* bound: bound_at is not NULL.  label stands for name and room, by the user   *)
(* who wrote them.                                                             *)
Row     == [owner : Users \cup {NoUser}, bound : BOOLEAN,
            status : {"online", "offline"}, label : Users]
NoRow   == [owner |-> Absent]

Init ==
    /\ rows   = [d \in Devices |-> NoRow]
    /\ lock   = [d \in Devices |-> NoRequest]
    /\ pc     = [r \in Requests |-> "idle"]
    /\ req    = [r \in Requests |-> NoRequest]
    /\ answer = [r \in Requests |-> "none"]

Exists(d) == rows[d] # NoRow
OwnerOf(d) == rows[d].owner

(* InnoDB makes a statement that writes or locks a row wait for its holder. *)
Unlocked(d, r) == lock[d] \in {r, NoRequest}

Goto(r, step) ==
    /\ pc' = [pc EXCEPT ![r] = step]
    /\ UNCHANGED <<rows, lock, req, answer>>

(* The answer ends the request; a transaction still open is rolled back by the *)
(* deferred Rollback, or would not be.                                         *)
KeepLock(r) == UNCHANGED lock
Rollback(r) == lock' = [d \in Devices |-> IF lock[d] = r THEN NoRequest ELSE lock[d]]

Answer(r, code) ==
    /\ pc'     = [pc EXCEPT ![r] = "idle"]
    /\ req'    = [req EXCEPT ![r] = NoRequest]
    /\ answer' = [answer EXCEPT ![r] = code]
    /\ Rollback(r)

Write(d, row) == rows' = [rows EXCEPT ![d] = row]

-------------------------------------------------------------------------------
(* An authenticated, well-formed request arrives. *)
Receive(r, op, u, d) ==
    /\ pc[r] = "idle"
    /\ pc'     = [pc EXCEPT ![r] = "lookup"]
    /\ req'    = [req EXCEPT ![r] = [op |-> op, user |-> u, dev |-> d]]
    /\ answer' = [answer EXCEPT ![r] = "none"]
    /\ UNCHANGED <<rows, lock>>

(* GetDeviceByDeviceID, a read without lock, and the service's check of it. *)
Lookup(r) ==
    LET d == req[r].dev
        u == req[r].user
        Refuse(code) == Answer(r, code) /\ UNCHANGED rows
    IN  /\ pc[r] = "lookup"
        /\ \/ /\ req[r].op = "create"
              /\ IF Exists(d) THEN Refuse("4001") ELSE Goto(r, "insert")
           \/ /\ req[r].op \in {"update", "unbind"}
              /\ IF OwnerOf(d) # u THEN Refuse("4030") ELSE Goto(r, req[r].op)
           \/ /\ req[r].op = "bind"
              /\ IF OwnerOf(d) \in {NoUser, u} THEN Goto(r, "begin")
                                               ELSE Refuse("4090")

(* The insert fails on the unique device_id when another create came first; an *)
(* insert that would replace the row.                                          *)
NewRow(r) == [owner |-> req[r].user, bound |-> FALSE, status |-> "offline",
              label |-> req[r].user]

InsertOrReplace(r) ==
    LET d == req[r].dev IN
    /\ pc[r] = "insert"
    /\ Unlocked(d, r)
    /\ Answer(r, "ok")
    /\ Write(d, NewRow(r))
Insert(r) ==
    LET d == req[r].dev IN
    /\ pc[r] = "insert"
    /\ Unlocked(d, r)
    /\ IF Exists(d)
       THEN Answer(r, "5000") /\ UNCHANGED rows
       ELSE Answer(r, "ok") /\ Write(d, NewRow(r))

(* UPDATE devices SET name, room WHERE device_id: whoever the owner is now. *)
Renamed(r) == [rows[req[r].dev] EXCEPT !.label = req[r].user]

Update(r) ==
    LET d == req[r].dev IN
    /\ pc[r] = "update"
    /\ Unlocked(d, r)
    /\ Answer(r, "ok")
    /\ Write(d, Renamed(r))

(* UPDATE devices SET owner_id=0, bound_at=NULL, status='offline' WHERE        *)
(* device_id; one that only clears the owner.                                  *)
Cleared(row)   == [row EXCEPT !.owner = NoUser, !.bound = FALSE, !.status = "offline"]
OwnerOnly(row) == [row EXCEPT !.owner = NoUser]
Released(row)  == Cleared(row)

Unbind(r) ==
    LET d == req[r].dev IN
    /\ pc[r] = "unbind"
    /\ Unlocked(d, r)
    /\ Answer(r, "ok")
    /\ Write(d, Released(rows[d]))

(* BindDevice's transaction: SELECT ... FOR UPDATE, which waits for the lock   *)
(* and reads the row as last committed, then the check of the owner; and a     *)
(* transaction without that check, or without FOR UPDATE.                      *)
SelectUnchecked(r) ==
    LET d == req[r].dev IN
    /\ pc[r] = "begin"
    /\ Unlocked(d, r)
    /\ pc'   = [pc EXCEPT ![r] = "stage"]
    /\ lock' = [lock EXCEPT ![d] = r]
    /\ UNCHANGED <<rows, req, answer>>
SelectUnlocked(r) ==
    /\ pc[r] = "begin"
    /\ IF OwnerOf(req[r].dev) # NoUser
       THEN Answer(r, "4090") /\ UNCHANGED rows
       ELSE Goto(r, "stage")
SelectForUpdate(r) ==
    LET d == req[r].dev IN
    /\ pc[r] = "begin"
    /\ Unlocked(d, r)
    /\ IF OwnerOf(d) # NoUser
       THEN Answer(r, "4090") /\ UNCHANGED rows
       ELSE /\ pc'   = [pc EXCEPT ![r] = "stage"]
            /\ lock' = [lock EXCEPT ![d] = r]
            /\ UNCHANGED <<rows, req, answer>>

(* The UPDATE inside the transaction is seen by nobody before the commit; and  *)
(* one that writes an empty status.                                            *)
Stage(r) ==
    /\ pc[r] = "stage"
    /\ Goto(r, "commit")

BoundRowNoStatus(r) == [rows[req[r].dev] EXCEPT !.owner = req[r].user, !.bound = TRUE,
                                                !.status = ""]
BoundRow(r) == [rows[req[r].dev] EXCEPT !.owner = req[r].user, !.bound = TRUE,
                                        !.status = "online"]
Commit(r) ==
    /\ pc[r] = "commit"
    /\ Answer(r, "ok")
    /\ Write(req[r].dev, BoundRow(r))

(* Any statement may fail: a lost connection, a lock wait that took too long.  *)
(* It may have been executed all the same, if it commits by itself or is the   *)
(* commit.                                                                     *)
Executed(r) ==
    LET d == req[r].dev IN
    /\ Unlocked(d, r)
    /\ \/ pc[r] = "insert" /\ ~Exists(d) /\ Write(d, NewRow(r))
       \/ pc[r] = "update" /\ Write(d, Renamed(r))
       \/ pc[r] = "unbind" /\ Write(d, Released(rows[d]))
       \/ pc[r] = "commit" /\ Write(d, BoundRow(r))

DBError(r) ==
    /\ pc[r] # "idle"
    /\ Answer(r, "5000")
    /\ UNCHANGED rows \/ Executed(r)

(* The server dies: its requests are never answered, its transactions are      *)
(* rolled back by MySQL, the rows stay.                                        *)
Crash ==
    /\ \E r \in Requests : pc[r] # "idle"
    /\ lock'   = [d \in Devices |-> NoRequest]
    /\ pc'     = [r \in Requests |-> "idle"]
    /\ req'    = [r \in Requests |-> NoRequest]
    /\ answer' = [r \in Requests |-> IF pc[r] = "idle" THEN answer[r] ELSE "lost"]
    /\ UNCHANGED rows

Serve(r) ==
    \/ Lookup(r) \/ Insert(r) \/ Update(r) \/ Unbind(r)
    \/ SelectForUpdate(r) \/ Stage(r) \/ Commit(r)

Next ==
    \/ \E r \in Requests :
          \/ \E op \in Ops, u \in Users, d \in Devices : Receive(r, op, u, d)
          \/ Serve(r)
          \/ DBError(r)
    \/ Crash

Spec == Init /\ [][Next]_vars

(* A request that can go on does, and InnoDB grants a row's lock in the order  *)
(* it was asked for, so a request that finds it free again and again gets it.  *)
FairSpec == Spec /\ \A r \in Requests : SF_vars(Serve(r))

-------------------------------------------------------------------------------
(* The values the variables range over. *)
TypeOK ==
    /\ rows   \in [Devices -> Row \cup {NoRow}]
    /\ lock   \in [Devices -> Requests \cup {NoRequest}]
    /\ pc     \in [Requests -> Steps]
    /\ req    \in [Requests -> Asked \cup {NoRequest}]
    /\ answer \in [Requests -> Answers]

(* The owner BindDevice's transaction read under FOR UPDATE is still the owner *)
(* when it commits (device_repo.go:70-88), whatever the statements of other    *)
(* requests, and the lock is its own.                                          *)
CheckedUntilCommit ==
    \A r \in Requests :
        pc[r] \in {"stage", "commit"} =>
            /\ lock[req[r].dev] = r
            /\ OwnerOf(req[r].dev) = NoUser

(* No path out of a transaction leaves its row locked (device_repo.go:69). *)
NoLockLeftBehind ==
    \A d \in Devices :
        lock[d] # NoRequest =>
            /\ pc[lock[d]] \in {"stage", "commit"}
            /\ req[lock[d]].dev = d

(* The columns a bind and an unbind write agree in every committed row:        *)
(* bound_at is set exactly when status is online, and only with an owner.      *)
ColumnsAgree ==
    \A d \in Devices :
        Exists(d) => /\ rows[d].bound <=> rows[d].status = "online"
                     /\ rows[d].bound => rows[d].owner # NoUser

(* A request answered with success was carried out in that very step, on a row *)
(* that let it: one create succeeds for a device_id, and one bind for each     *)
(* time the device is free.                                                    *)
OkMeansDone ==
    [][\A r \in Requests :
          (answer[r] = "none" /\ answer'[r] = "ok") =>
              LET q == req[r]
                  d == req[r].dev
              IN  CASE q.op = "create" -> ~Exists(d) /\ rows'[d].owner = q.user
                    [] q.op = "bind"   -> OwnerOf(d) = NoUser /\ rows'[d].owner = q.user
                    [] q.op = "unbind" -> rows'[d].owner = NoUser
                    [] q.op = "update" -> rows'[d].label = q.user]_vars

(* A device changes hands only by way of being nobody's.                       *)
Owners == INSTANCE Ownership WITH owner <- [d \in Devices |-> rows[d].owner]

OwnershipKept == Owners!Spec

(* Every request is answered, or the server died. *)
RequestsAnswered ==
    \A r \in Requests : pc[r] = "lookup" ~> pc[r] = "idle"

(* docs/MyNotes.md: update and unbind read the device and refuse one that is   *)
(* not the user's.  So neither changes a device somebody else owns.            *)
OthersUntouched ==
    [][\A r \in Requests :
          (Update(r) \/ Unbind(r)) => OwnerOf(req[r].dev) \in {req[r].user, NoUser}]_vars
===============================================================================
