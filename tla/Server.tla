-------------------------------- MODULE Server --------------------------------
(* main (cmd/server/main.go) around the HTTP handlers: dependencies are opened *)
(* one after the other, requests are served, a signal ends it all.  Slots      *)
(* serve registrations and logins (UserAccounts) and chats (ChatStream).       *)
EXTENDS UserAccounts, ChatStream

ASSUME SlotsAssumption == Streams = Requests

VARIABLES
    stage,      \* where main stands
    opened,     \* "redis" and "mqtt", while open
    http,       \* the listener and its goroutine
    expired     \* the 5 s that Shutdown waits have passed

mainVars == <<stage, opened, http, expired>>
vars == <<accountVars, streamVars, mainVars>>

Stages == {"initDB", "initRedis", "newMQTT", "listen", "notify", "serve",
           "shutdown", "disconnect", "closeRedis", "closeDB", "exited"}

Init ==
    /\ AccountsInit /\ StreamInit
    /\ stage = "initDB" /\ opened = {} /\ http = "off" /\ expired = FALSE

InFlight == {r \in Requests : step[r] # "idle" \/ handler[r] # "idle"}

-------------------------------------------------------------------------------
Main(at, next) ==
    /\ stage = at
    /\ stage' = next
    /\ UNCHANGED <<requestVars, users, streamVars, expired>>

(* Each dependency is opened, or main exits: os.Exit, without the defers.  And *)
(* a main that goes on without Redis.                                          *)
InitDB    == Main("initDB", "initRedis") /\ db' = "open" /\ UNCHANGED <<opened, http>>
RedisOptional == Main("initRedis", "newMQTT") /\ UNCHANGED <<db, opened, http>>
InitRedis ==
    /\ Main("initRedis", "newMQTT")
    /\ opened' = opened \cup {"redis"}
    /\ UNCHANGED <<db, http>>
NewMQTTClient ==
    /\ Main("newMQTT", "listen")
    /\ opened' = opened \cup {"mqtt"}
    /\ UNCHANGED <<db, http>>
InitFails ==
    /\ \E at \in {"initDB", "initRedis", "newMQTT"} : Main(at, "exited")
    /\ UNCHANGED <<db, opened, http>>

(* The server is started in a goroutine of its own; it may find its port       *)
(* taken, or that Shutdown was there first.                                    *)
GoListen == Main("listen", "notify") /\ http' = "starting" /\ UNCHANGED <<db, opened>>

Listening ==
    /\ http = "starting" /\ stage # "exited"
    /\ http' = "open"
    /\ UNCHANGED <<accountVars, streamVars, stage, opened, expired>>
ListenFails ==
    /\ http = "starting" /\ stage # "exited"
    /\ http' = "off" /\ stage' = "exited"
    /\ UNCHANGED <<accountVars, streamVars, opened, expired>>

(* From here on a signal is only noted; before, it ends the process.           *)
NotifyContext == Main("notify", "serve") /\ UNCHANGED <<db, opened, http>>
SignalEarly ==
    /\ \E at \in {"initDB", "initRedis", "newMQTT", "listen", "notify"} :
          Main(at, "exited")
    /\ UNCHANGED <<db, opened, http>>

(* srv.Shutdown closes the listener and waits for the handlers, but not longer *)
(* than 5 s; and one that does not wait.                                       *)
Signal   == Main("serve", "shutdown") /\ http' = "off" /\ UNCHANGED <<db, opened>>
CloseNow == Main("shutdown", "disconnect") /\ UNCHANGED <<db, opened, http>>
Shutdown == InFlight = {} /\ CloseNow
GraceExpires ==
    /\ stage = "shutdown" /\ InFlight # {}
    /\ stage' = "disconnect" /\ expired' = TRUE
    /\ UNCHANGED <<accountVars, streamVars, opened, http>>

(* The defers, last one first. *)
Disconnect ==
    /\ Main("disconnect", "closeRedis")
    /\ opened' = opened \ {"mqtt"}
    /\ UNCHANGED <<db, http>>
CloseRedis ==
    /\ Main("closeRedis", "closeDB")
    /\ opened' = opened \ {"redis"}
    /\ UNCHANGED <<db, http>>
CloseDB == Main("closeDB", "exited") /\ db' = "closed" /\ UNCHANGED <<opened, http>>

MainStep ==
    \/ InitDB \/ InitRedis \/ NewMQTTClient \/ InitFails
    \/ GoListen \/ NotifyContext \/ SignalEarly
    \/ Shutdown \/ GraceExpires \/ Disconnect \/ CloseRedis \/ CloseDB

-------------------------------------------------------------------------------
Receive(r) ==
    /\ http = "open" /\ stage # "exited" /\ r \notin InFlight
    /\ \/ /\ \/ \E f \in Forms : ReceiveRegister(r, f)
             \/ \E l \in Logins : ReceiveLogin(r, l)
          /\ ForgetStream(r)
       \/ (ReceiveStream(r) \/ ReceiveChat(r)) /\ Forget(r)
    /\ UNCHANGED mainVars

Serve(r) ==
    /\ stage # "exited"
    /\ \/ AccountStep(r) /\ UNCHANGED streamVars
       \/ StreamStep(r) /\ UNCHANGED accountVars
    /\ UNCHANGED mainVars

Next ==
    \/ MainStep \/ Listening \/ ListenFails \/ Signal
    \/ \E r \in Requests : Receive(r) \/ Serve(r)

Spec == Init /\ [][Next]_vars

(* Goroutines that can run do; calls of MySQL and of the LLM end, the latter   *)
(* after 30 s at most; so does the grace.  Nobody has to send anything.        *)
FairSpec ==
    /\ Spec
    /\ WF_vars(MainStep) /\ WF_vars(Listening)
    /\ \A r \in Requests : WF_vars(Serve(r))

-------------------------------------------------------------------------------
(* The values the variables range over. *)
TypeOK ==
    /\ AccountsTypeOK /\ StreamTypeOK
    /\ stage \in Stages /\ opened \subseteq {"redis", "mqtt"}
    /\ http \in {"off", "starting", "open"} /\ expired \in BOOLEAN

(* A handler never runs without its dependencies: they are all open while any  *)
(* request is in flight, through start and shutdown, but for those that        *)
(* outlast the 5 s (main.go:38-65, 121-145).                                   *)
HandlersServed ==
    InFlight # {} /\ ~expired /\ stage # "exited" =>
        db = "open" /\ opened = {"redis", "mqtt"}

(* docs/MyNotes.md:123-126, as far as it is true: a request that was taken is  *)
(* answered before the process ends, unless the 5 s have passed, or the signal *)
(* came before main had asked for it, when requests may already be served.     *)
CutOnlyAfterGrace ==
    [][stage' = "exited" /\ InFlight # {} =>
          expired \/ stage = "notify"]_vars

(* Every request is answered, and every stream brought to its done, if only    *)
(* the process goes on.                                                        *)
RequestsEnd ==
    \A r \in Requests : r \in InFlight ~> (r \notin InFlight \/ stage = "exited")
===============================================================================
