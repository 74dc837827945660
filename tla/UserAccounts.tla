----------------------------- MODULE UserAccounts -----------------------------
(* Registration and login (handler/auth_handler.go, service/user_service.go,   *)
(* repository/user_repo.go) on the MySQL table users, whose unique keys decide *)
(* what the two look-ups of a registration could not see.  A slot handles one  *)
(* request after the other; its last answer stays until the next.              *)
CONSTANTS
    Requests,       \* slots: requests that are handled at the same time
    Forms,          \* what people register with: phone, email, pass
    Logins,         \* what they log in with: account, pass
    NoUser          \* no row; no request

(* The three are told apart.  A phone is only checked for its length, and may  *)
(* be what somebody else has for an e-mail address.                            *)
ASSUME FormsAssumption ==
    Forms \cap Logins = {} /\ NoUser \notin Forms \cup Logins

VARIABLES
    db,             \* repository.DB: not opened, open, closed
    users,          \* committed rows; the password stands for its hash
    step,           \* where the handler stands
    req,            \* the request
    found,          \* user of Login
    reply,          \* the code it was answered with
    failed,         \* history: a call of the request failed
    before          \* history: the rows there were when the request came

requestVars == <<step, req, found, reply, failed, before>>
accountVars == <<db, users, requestVars>>

Steps    == {"idle", "regPhone", "regEmail", "hash", "insert",
             "logPhone", "logEmail", "check"}

AccountsInit ==
    /\ db = "none" /\ users = {}
    /\ step   = [r \in Requests |-> "idle"]
    /\ req    = [r \in Requests |-> NoUser]
    /\ found  = [r \in Requests |-> NoUser]
    /\ reply  = [r \in Requests |-> "none"]
    /\ failed = [r \in Requests |-> FALSE]
    /\ before = [r \in Requests |-> {}]

-------------------------------------------------------------------------------
Arrive(r, request, at) ==
    /\ step[r] = "idle"
    /\ step'   = [step EXCEPT ![r] = at]
    /\ req'    = [req EXCEPT ![r] = request]
    /\ found'  = [found EXCEPT ![r] = NoUser]
    /\ reply'  = [reply EXCEPT ![r] = "none"]
    /\ failed' = [failed EXCEPT ![r] = FALSE]
    /\ before' = [before EXCEPT ![r] = IF at = "idle" THEN {} ELSE users]
    /\ UNCHANGED <<db, users>>

(* Requests that ShouldBindJSON accepts; the slot turns to another service.    *)
ReceiveRegister(r, form) == Arrive(r, form, "regPhone")
ReceiveLogin(r, login)   == Arrive(r, login, "logPhone")
Forget(r)                == Arrive(r, NoUser, "idle")

Go(r, at, next) ==
    /\ step[r] = at
    /\ step' = [step EXCEPT ![r] = next]
    /\ UNCHANGED <<db, req, before>>
Answer(r, at, code) ==
    /\ Go(r, at, "idle")
    /\ reply' = [reply EXCEPT ![r] = code]
    /\ UNCHANGED found

(* Any query, hash or signature may fail; the handler answers 5000.            *)
Fails(r, at) ==
    /\ Answer(r, at, "internal")
    /\ failed' = [failed EXCEPT ![r] = TRUE]
CallFails(r) ==
    /\ \E at \in Steps \ {"idle"} : Fails(r, at)
    /\ UNCHANGED users

-------------------------------------------------------------------------------
ByPhone(p) == {u \in users : u.phone = p}
ByEmail(e) == {u \in users : u.email = e}

(* A look-up of Register: a row there is refuses the registration.             *)
Lookup(r, at, next, rows) ==
    /\ db = "open"
    /\ IF rows = {} THEN Go(r, at, next) /\ UNCHANGED <<found, reply>>
                    ELSE Answer(r, at, "taken")
    /\ UNCHANGED <<users, failed>>

(* ... by phone, then by e-mail; and a version without the second.             *)
RegisterPhone(r) == Lookup(r, "regPhone", "regEmail", ByPhone(req[r].phone))
SkipEmail(r)     == Lookup(r, "regEmail", "hash", {})
RegisterEmail(r) == Lookup(r, "regEmail", "hash", ByEmail(req[r].email))

HashPassword(r) ==
    /\ Go(r, "hash", "insert")
    /\ UNCHANGED <<users, found, reply, failed>>

Taken(form) == ByPhone(form.phone) \cup ByEmail(form.email) # {}

(* The INSERT: a duplicate key is an error like any other, which               *)
(* isBusinessError does not know.  And a version that ignores it.              *)
InsertIgnore(r) ==
    /\ db = "open"
    /\ users' = IF Taken(req[r]) THEN users ELSE users \cup {req[r]}
    /\ Answer(r, "insert", "ok")
    /\ UNCHANGED failed
CreateUser(r) ==
    /\ db = "open"
    /\ IF Taken(req[r])
       THEN Answer(r, "insert", "internal") /\ UNCHANGED users
       ELSE Answer(r, "insert", "ok") /\ users' = users \cup {req[r]}
    /\ UNCHANGED failed

(* The row was written, but its answer is lost. *)
InsertUnanswered(r) ==
    /\ db = "open" /\ ~Taken(req[r])
    /\ Fails(r, "insert")
    /\ users' = users \cup {req[r]}

-------------------------------------------------------------------------------
(* The look-ups of Login: the account is a phone, or else an e-mail address;   *)
(* and a version that knows only phones.                                       *)
Find(r, at, next, rows) ==
    /\ db = "open"
    /\ \/ /\ rows = {} /\ Go(r, at, next)
          /\ UNCHANGED <<found, reply>>
       \/ \E u \in rows :
             /\ Go(r, at, "check")
             /\ found' = [found EXCEPT ![r] = u]
             /\ UNCHANGED reply
    /\ UNCHANGED <<users, failed>>

PhoneOnly(r)  == Find(r, "logPhone", "check", ByPhone(req[r].account))
LoginPhone(r) == Find(r, "logPhone", "logEmail", ByPhone(req[r].account))
LoginEmail(r) == Find(r, "logEmail", "check", ByEmail(req[r].account))

CheckPassword(r) ==
    /\ IF found[r] # NoUser /\ found[r].pass = req[r].pass
       THEN Answer(r, "check", "ok")
       ELSE Answer(r, "check", "wrong")
    /\ UNCHANGED <<users, failed>>

AccountStep(r) ==
    \/ step[r] = "regPhone" /\ RegisterPhone(r)
    \/ step[r] = "regEmail" /\ RegisterEmail(r)
    \/ HashPassword(r)
    \/ step[r] = "insert" /\ (CreateUser(r) \/ InsertUnanswered(r))
    \/ step[r] = "logPhone" /\ LoginPhone(r)
    \/ step[r] = "logEmail" /\ LoginEmail(r)
    \/ CheckPassword(r)
    \/ CallFails(r)

-------------------------------------------------------------------------------
AccountsTypeOK ==
    /\ db \in {"none", "open", "closed"} /\ users \subseteq Forms
    /\ step \in [Requests -> Steps]
    /\ req \in [Requests -> Forms \cup Logins \cup {NoUser}]
    /\ found \in [Requests -> Forms \cup {NoUser}]
    /\ reply \in [Requests -> {"none", "ok", "taken", "wrong", "internal"}]
    /\ failed \in [Requests -> BOOLEAN] /\ before \in [Requests -> SUBSET Forms]

(* Who is told that the registration succeeded has the account, with that      *)
(* phone, e-mail and password, for good; nobody shares the phone or the e-mail *)
(* with another account, however many registrations race.                      *)
RegisteredStays ==
    /\ \A r \in Requests : reply[r] = "ok" /\ req[r] \in Forms => req[r] \in users
    /\ \A u, v \in users : u = v \/ (u.phone # v.phone /\ u.email # v.email)

(* Rows that a login's account and password are right for. *)
Owners(r) == {u \in before[r] : req[r].account \in {u.phone, u.email} /\ req[r].pass = u.pass}

(* An answer that blames the client is right: who is told that phone or e-mail *)
(* is taken gave one that was; who is told that the password is wrong has no   *)
(* account with that phone and password, and none with that e-mail address,    *)
(* unless it is what somebody registered as a phone, which Login tries first.  *)
RefusedRightly ==
    \A r \in Requests :
        /\ reply[r] = "taken" => Taken(req[r])
        /\ reply[r] = "wrong" => \A u \in Owners(r) :
              u.phone # req[r].account /\ ByPhone(req[r].account) # {}

(* "Internal error" is not the answer to a phone or an e-mail that was taken   *)
(* before: unless a call failed, it only meets who lost a race with another    *)
(* registration (user_service.go:15-46).                                       *)
InternalMeansRace ==
    \A r \in Requests :
        reply[r] = "internal" /\ ~failed[r] =>
            /\ req[r] \in Forms /\ Taken(req[r])
            /\ ~ \E u \in before[r] : u.phone = req[r].phone \/ u.email = req[r].email
===============================================================================
