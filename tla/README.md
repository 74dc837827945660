# A TLA+ verification of my-iot-server

my-iot-server is a Go server for a smart home: users log in, own devices, talk
to them in natural language over a WebSocket; devices are reached over MQTT;
MySQL keeps users and devices, Redis keeps who is online.  These modules model
the parts of it whose correctness depends on the order in which things happen.
Every definition is translated from the code under `src/`; `PROJECT.json` names
the lines of each.

## 1. Inventory

| Component (code) | State it keeps | Operations |
|---|---|---|
| WebSocket hub (`internal/websocket/hub.go`) | `Clients`: user -> set of clients, under a RWMutex; three unbuffered channels | `run` (a select over Register, Unregister, Broadcast), `SendToUser`, presence calls |
| Connection pumps (`internal/websocket/client.go`) | per connection: socket, `Send` (buffer 256), 54 s ticker, 60 s read deadline | `ReadPump`, `WritePump` |
| Upgrade handler (`internal/handler/ws_handler.go`) | none | upgrade, register, start both pumps |
| User presence (`internal/repository/redis.go`, `handler/online_handler.go`) | `user:<id>` (hash, TTL 120 s), `online_users` (set, no TTL) | `SetUserOnline`, `SetUserOffline`, `RefreshUserTTL`, list |
| Device presence (`redis.go`, `cmd/server/main.go`) | `device:<id>`, `online_devices` | `SetDeviceOnline`, from the MQTT status callback |
| Device registry (`handler/device_handler.go`, `service/device_service.go`, `repository/device_repo.go`, `migrations/`) | the MySQL table `devices` | create, update, bind (a transaction), unbind, get, list |
| Chat orchestrator (`service/chat_orchestrator.go`) | none | message -> intent -> device -> MQTT command -> reply and broadcast |
| Intent parser (`service/intent_parser.go`) | none | JSON extraction and validation |
| MQTT client (`internal/client/mqtt_client.go`) | the link, its subscription | connect, publish a command, deliver a status |
| LLM client, chat stream (`client/llm_client.go`, `handler/chat_handler.go`) | per stream: a goroutine, the channel `errCh` | call, stream with a fallback, keyword matching without an LLM |
| User accounts (`service/user_service.go`, `repository/user_repo.go`) | the MySQL table `users` | register, login |
| Tokens (`pkg/jwtutil`, `middleware/auth.go`) | none | sign, verify, refresh |
| Lifecycle (`cmd/server/main.go`, `repository/db.go`) | the pools | start, graceful shutdown |
| Configuration, health, CORS, hashing; stress tool, mock page | none | - |

How they interact:

* a connection's goroutine in the HTTP server hands the client to `hub.run` over
  `Register`, and starts the pumps; each pump notices the other's end only through
  the socket or the closed `Send`;
* `ReadPump` calls `HandleMessage`, which calls back into the hub: `SendToUser`
  runs in the reading goroutine, beside `hub.run`, and the broadcast goes through
  `hub.Broadcast`;
* `hub.run` itself makes the presence calls to Redis, outside the mutex, and every
  `WritePump` refreshes the TTL from its own goroutine;
* the MQTT callback writes device presence and posts to `hub.Broadcast`;
* HTTP handlers race on the tables, ordered only by MySQL;
* `ChatStreamHandler` gives its gin context to a goroutine that writes the response and
  waits for it on `errCh`;
* `main` opens MySQL, Redis and MQTT before it serves and closes them in reverse; a
  signal makes it stop listening and wait for the handlers, 5 s at most.

What is hard, and the correctness property it calls for (each is a line of the
`hazards` of `PROJECT.json`):

* **Hub and pumps** - `SendToUser` uses a set it read under a lock it has let go;
  delete and close are two statements; pumps start before the insertion; buffers
  fill up.  *The registry holds only clients that can be sent to; what ended is
  closed; nobody blocks the hub; both pumps end; a message goes only to members.*
* **User presence** - first/last is decided under the lock and acted on outside it;
  each call is several commands, any of which may fail; the server or Redis may die;
  54 s ticks must beat a 120 s TTL; a failed write ends the ticker of a connection that is still a
  member.  *The list is exact; a connection whose ticks are taken in time keeps the key.*
* **Device registry** - owners are checked on rows read without a lock; two binds, two
  creates race; transactions fail half-way.  *A device passes from one user to another
  only by way of nobody; a check holds until its commit; no lock outlives its request.*
* **Orchestrator, MQTT** - a device resolved in two queries and used after a round trip, a
  publish into a dead link, a link that is lost between publish and acknowledgement.
  *Commands go to devices of the user; what the library accepted is not lost; every message ends.*
* **Device presence** - several commands whose error nobody reads, a process that ends
  between them.  *A silent device disappears; an online device is in the list.*
* **Heartbeat** - pings every 54 s against a deadline of 60 s, while pongs are only read
  between messages, whose handling nothing bounds.  *A peer that answers is given up only
  if the server itself used up the 6 s; one that vanished is given up once no handler runs.*
* **Intent parser** - three strategies on a text the LLM is free to write; keyword rules
  whose order matters.  *A lone object is understood; what is executed
  is the only object there is to execute.*
* **Chat stream** - two goroutines and one response; a fallback after partial output.
  *One writer at a time; the response is well formed; every request ends.*
* **Accounts** - two look-ups and an insert race with others.  *Who is told "registered" has
  the account; an answer that blames the client is right.*
* **Lifecycle** - requests that begin before `main` is ready, or outlast its 5 s.
  *A handler never runs without its dependencies; none is cut off but by the grace.*

## 2. Modules

| Module | Models | Kind |
|---|---|---|
| `MemberQueues` | what the hub promises about `Send` buffers | abstract specification |
| `Hub` | `hub.run`, `SendToUser`, both pumps, upgrade, broadcasts of chat and MQTT | detailed, implements `MemberQueues` |
| `HubProofs` | theorems about `Hub` | proofs |
| `UserPresence` | the two presence structures of Redis, the hub's calls and the tickers, in time | component |
| `UserPresenceProofs` | theorems about `UserPresence` | proofs |
| `Ownership` | what the registry promises about owners | abstract specification |
| `DeviceRegistry` | the four writing requests, their transactions, failures | detailed, implements `Ownership` |
| `DeviceRegistryProofs` | theorems about `DeviceRegistry` | proofs |
| `MqttLink` | the link to the broker and the library's tokens and store: publishing, failing, acknowledging, losing, restoring | part of `Orchestrator` |
| `DevicePresence` | the status callback and its Redis commands | part of `Orchestrator` |
| `Orchestrator` | `HandleMessage` and `resolveDevice`, composed with `MqttLink`, `DevicePresence` and the owners of `Ownership` | component, composition |
| `OrchestratorProofs` | theorems about `Orchestrator` and its parts | proofs |
| `IntentParser` | `extractJSON`, `parseIntent`, `fallbackIntent` | operators, used by `Orchestrator` |
| `LLMReply` | any reply and any message, for `IntentParser` to work on | inputs |
| `LLMReplyProofs` | theorems about `LLMReply` and the operators of `IntentParser` | proofs |
| `Heartbeat` | read deadline, pings and pongs of one connection, in time | component |
| `HeartbeatProofs` | theorems about `Heartbeat` | proofs |
| `UserAccounts` | register and login on the table `users` | part of `Server` |
| `ChatStream` | the stream's handler and goroutine; the unstreamed chat | part of `Server` |
| `Server` | `main`: start, listen, signal, shutdown; the requests in between | component, composition |
| `ServerProofs` | theorems about `Server` and its parts | proofs |
| `MCHub`, `MCUserPresence`, `MCDeviceRegistry`, `MCOrchestrator`, `MCHeartbeat`, `MCServer` | values of the constants for TLC | instances |

### Hub

| State | Code |
|---|---|
| `clients` | `Hub.Clients` |
| `closed`, `pending` | whether `Client.Send` is closed, how many messages it holds |
| `readPump`, `writePump` | where the connection's two goroutines stand (`"register"`: the upgraded client waits for the hub) |
| `socket` | the connection: closed by either pump or lost |
| `hubAt`, `hubConn`, `hubTodo` | where `run` stands, the client it is working on, the clients its broadcast still has to send to |
| `target`, `seen` | the iteration of `SendToUser`: the client it is sending to, those it visited |
| `mqtt` | the MQTT callback, blocked on `Broadcast` or not |
| `crashed` | how the process died, if it did |

One action per step that another goroutine can observe: a rendezvous on a channel
(`HubTake...`), a section under the mutex (`HubRegister`, `HubUnregister`), one send
of a broadcast, one client of `SendToUser` (`SendNext`, `SendTry`: the set is read
without the lock), and what a pump does between two waits.  Choices the code leaves
to the runtime are nondeterministic: the select of `run` and of `WritePump`; a map
that is ranged over while another goroutine inserts, where a new key may be visited
or not; and Go's fatal error for a concurrent map access (`MapFault`).  A send on a
closed channel and a close of a closed channel are states of `crashed`, after which
nothing moves but `Restart`, which stands for the supervisor.  Message contents are left
out.  The set `SendToUser` holds is never an orphan: the sender is itself a member of
it, or its insertion is under way.  `Recycle` lets a connection's identity be used
again, so that the finitely many connections of an instance stand for an unlimited
succession of them.  What the Redis calls do is not in this module: they take a step
(`HubMark`) and cannot fail the hub, which only logs their errors.

### UserPresence

Time is counted in units of 6 s, the common measure of 54 and 120.  `ttl[u]` is the
life left to `user:<id>`; `NoExpiry` is a hash that `HSET` made and no `EXPIRE` has
reached yet.  `HubCommand` is one Redis command of the hub and its failure (executed
or not, the function returns either way); `TakeTick`/`RefreshUserTTL` is the `WritePump`'s
tick.  Nothing in the code bounds how long it waited: the select of `WritePump` picks at random
between `Send` and the ticker, and each write may take `writeWait`, 10 s.  `MaxDelay` bounds the wait
in an instance only.  `writers` are the connections whose `WritePump` runs: a failed write
ends it (`WriterFails`) and its ticker while `ReadPump` may still be inside `OnMessage` and
the client a member; `Leave` is the end of `ReadPump`, after which `WritePump` goes on until it finds
`Send` closed (`WriterStops`).  `Tick` passes whatever the hub does.  `Crash` empties the server
and leaves Redis as it was, between two commands if need be; `RedisLoss` is the opposite.  `faults`
counts the failures (bounded by `MaxFaults`).  `keepers` is a history variable: the connections
that set the key or refreshed it while it lived, and still have a `WritePump`; `told` is another:
the users whose last `SetUserOnline` or `SetUserOffline` came to its end, with nothing lost since.
No action reads either.

### DeviceRegistry

A request goes through `Receive`, `Lookup` (the unlocked read and the service's
check), and then its statement: `Insert`, `Update`, `Unbind`, or the transaction
`SelectForUpdate`, `Stage`, `Commit`.  `rows` is the committed table, `lock` the row lock
of `SELECT ... FOR UPDATE`, which makes other writers wait.  `DBError` fails any
statement; one that answers an error may have been executed all the same (`Executed`), except inside
a transaction that is rolled back, whose commit may have been.  `Crash` is the server's death.
`label` stands for name and room, by who wrote them; `type` and the timestamps are left out
except `bound_at`, as the Boolean `bound`.  List and get read committed rows and change
nothing.  The answers are the codes the handlers send; a missing device gets the code
its handler gives any business error.

### Orchestrator, MqttLink, DevicePresence

`Orchestrator` extends the other two and adds one `HandleMessage` per connection: `pc` is where
it stands, `intent` what `parseIntent` made of the LLM's reply (`LLMAnswers`: any token; `LLMFails`, or
nothing that parses, ends the handling with a text),
`target` the device of `resolveDevice`.  The three cases of `resolveDevice` are three actions;
room and type are two queries and so two steps.  `Return` is every way out: an error, a text
or an announcement was handed to the hub (`Hub` models how).  `owner` moves by
`Ownership!Next`, which the registry is shown to implement; rooms and types of devices are
constants.  `running` is the process: `Exit` is its end at any moment, in an orderly way after
`Shutdown`, which does not wait for handlers, or not; `Restart` the next one.  `held` and `kept` are
history variables: the devices the user owned at some time, or all the time, since the message came.

`MqttLink` follows the library (paho.mqtt.golang 1.5.1) under the options `NewMQTTClient` sets:
`IsConnected` is true while the link is being restored, and a new session has no subscription.  The
token that `PublishCommand` waits for and the message in the library's store go their own ways.
`token[s]` is what the token says, `mid[s]` the message's id, and `message[i]` how far it is: stored
(not on its way), waiting to be taken up again (`Resume`), on its way, at the broker.  A publish is
refused when there is no link or no id left; on a link that is up it may run into the library's write
timeout, and the token fails although the message is stored.  A failed write (`WriteError`) fails the
token and breaks the link; another loss leaves the token waiting.  After a reconnection `Resume` claims
the ids of the stored messages, completes the tokens that wait for them *without an error*, and sends
the messages again.  `arrived` is a history variable: the senders whose command the broker has.  The
library is not part of the repository; these actions are what the code that uses it can observe.

`DevicePresence` has the callback's Redis commands; the EXPIRE is its last, because the comparison
after it is always true.  `KeyExpires` is Redis' own and goes on without the server.  `cut` is a history
variable: the devices whose last `SetDeviceOnline` was cut off, by a failed command (`RedisFails`,
executed or not) or by the end of the process between the two (`PresenceDies`).

### Heartbeat

Time is counted in units of 2 s, which divides every period of `client.go`.  `unread` is
what has arrived, `ahead` how much of it `ReadMessage` already has in its buffer: a
frame in the buffer is delivered after the deadline, one on the socket is not.
`tick` is a tick that `WritePump` has not taken, because it writes something else; `MaxWait` bounds
that in an instance.  Nothing bounds `HandleMessage`: `HandlerReturns` may happen at any time, and
time passes as long as it does not (it waits for MySQL and, in `token.Wait`, for the link, both without a
deadline).  For the rest `TimePasses` waits for what can happen within the unit (`Settled`).  Pongs that lie
next to each other are read at once and count as one.  `held` and `silence` are history variables: how
long the server kept a ping or a pong waiting since the deadline was last set, and how long `ReadPump`
has waited for a frame since the peer vanished.

### IntentParser, LLMReply

A reply is a sequence of tokens: a whole object, a brace that nothing closes, a fence, plain
ticks, white space, prose.  `extractJSON` has the code's strategies in the code's order, as
operators on positions.  A message for the keyword rules is the set of the words it has; `Rules`
is the switch of `fallbackIntent`, in order.  `LLMReply` writes a reply token by token and a
message word by word, so that the invariants quantify over all of them.

### UserAccounts, ChatStream, Server

A *slot* of `Requests` serves one request after the other, and keeps the last answer until the
next.  Register is two look-ups, the hash and the insert, one action each; the unique keys of
`users` decide in `CreateUser`.  `CallFails` fails any of them, `InsertUnanswered` is an insert
that was carried out and reported as failed.  `found` is the row Login compares with.  In
`ChatStream`, `child` is the goroutine inside `LLMClient.ChatStream`, `result` is `errCh`, and
`events` what was written.  The end of the body without `[DONE]` is a success, as it is in the code.
`before`, `failed` and `broken` are history variables.  A phone is checked for its length alone, so a form's phone may be
another form's e-mail address.  `Server` puts `main` around them: `stage` is where it stands, `http` the listener,
`expired` the end of the 5 s.  `os.Exit` skips the defers, so `InitFails`, `ListenFails` and a signal before
`NotifyContext` go straight to `"exited"`.

## 3. What TLC checks

| Run | Instance | States | Shows |
|---|---|---|---|
| `hub` | two tabs of a user, `SendCap` 1 | 83 thousand | `TypeOK`, `RegistryOpen`, `EndedIsClosed`, `CrashNeedsPeer`; `MembersServed`: the hub implements `MemberQueues`; `PumpsEndTogether`, `HubComesBack`, `EveryoneJoins` |
| `hub_send_on_closed` | two tabs | - | violated: `NoSendOnClosed` |
| `presence` | two tabs, ticks that wait for up to 66 s, two failures | 4.4 million | `TypeOK`, `ListedExactly`, `KeeperKeepsKey` |
| `presence_handover` | two tabs, no failure, no delay | - | violated: `KeyWhileConnected` |
| `registry` | three requests of two users, one device | 102 thousand | `TypeOK`, `CheckedUntilCommit`, `NoLockLeftBehind`, `ColumnsAgree`, `OkMeansDone`; `OwnershipKept`: implements `Ownership`; `RequestsAnswered` |
| `registry_stale_owner` | two requests | - | violated: `OthersUntouched` |
| `orchestrator` | one connection, two users, two lamps in two rooms, one of which reports, one message id | 989 thousand | `TypeOK`, `CommandsOwned`, `RoomRespected`, `CommandKept`, `SilentDevicesGo`; `MessagesEnd` |
| `orchestrator_stale_owner` | the same, no lamp reports | - | violated: `OwnedWhenSent` |
| `reply` | replies of up to six tokens, any set of words | 300 thousand | `LoneObjectUnderstood`, `ExecutesTheOnlyOne`, `WordsRespected` |
| `heartbeat` | the code's periods, ticks that wait for up to 10 s | 255 thousand | `TypeOK`, `DroppedOnlyWhenHeld`, `VanishedIsNoticed`; `VanishedGoes` |
| `heartbeat_busy` | the same, no tick ever late | - | violated: `AliveStays` |
| `server` | two requests at a time, three forms, three logins, streams of one delta | 323 thousand | `TypeOK`, `RegisteredStays`, `RefusedRightly`, `InternalMeansRace`, `OneWriter`, `StreamWellFormed`, `HandlersServed`; `CutOnlyAfterGrace`, `RequestsEnd` |

The five violated runs each check what a document or comment of the repository says:

* `hub_send_on_closed` - *only `Hub.run` writes to `Send`* (MyNotes).  `SendToUser` runs in
  `ReadPump` goroutines; between its `RUnlock` and its send the hub may close the other tab's
  `Send`, and the process panics.  `CrashNeedsPeer` is the exact rest of the claim that
  is true: it takes a second connection of the same user.
* `presence_handover` - *the heartbeat refreshes the TTL* (README).  Only the first
  connection sets the key and only ticks refresh it; overlapping connections that each
  last less than 54 s let it expire under a connected user.  `KeeperKeepsKey` is what holds.
* `registry_stale_owner` - *every device interface checks the owner* (NFR-S3).  Update and
  unbind check a row they read earlier, and write `WHERE device_id=?`.
* `heartbeat_busy` - *as long as the client is alive the deadline is pushed back* (MyNotes).  A
  pong is only seen by `ReadMessage`; one message whose handling spans the 6 s between ping and
  deadline is enough, and a client that answered at once is dropped.
  `DroppedOnlyWhenHeld` is what holds.
* `orchestrator_stale_owner` - *every device interface checks the owner* (NFR-S3).  The owner is
  checked when the device is chosen; it may be another when the command is published.
  `CommandsOwned` is what holds: the user owned it at some time since the message came.

Further differences between documents and code, seen while modelling; the models have them, or they are too plain to need one:

* README:202 has `SADD online_devices` for fast queries: `redis.go:55` compares the command object that `Expire`
  returns with nil instead of its error, always returns there, and the SADD is never reached.
* README:202 has `EXPIRE 120s` clean up by itself: HSET and EXPIRE are two commands, and if the EXPIRE fails or the
  process ends between them, the key of a device that then falls silent stays for good.  `SilentDevicesGo` says that
  this befalls only such devices, and that the next complete status repairs it.
* `mqtt_client.go:54` has `token.Wait` block until the broker's acknowledgement: after a lost link the library
  completes the token as it takes the message up again, before the broker has it (`MqttLink!Resume`), and a failed write ends the wait too.
  `CommandKept` says that the command is then still being sent.
* docs/02, UC-02, has a user enter phone or e-mail address and password: Login tries the account as a phone first, and
  where it is somebody's phone, who has it for an e-mail address cannot enter.  `RefusedRightly` says that this is the
  only way in which a right password is refused.
* README says that a disconnected user is gone after 120 s: `online_users` has no TTL, and keeps
  whoever a crash or a failed SREM left in it until that user's next last disconnect.
* MyNotes:355 has the heartbeat rebuild a lost Redis: it is an EXPIRE, which makes nothing.
* `device_repo.go:29` says that a created device is not bound: the service makes its creator the
  owner, and the creator's own bind is then refused.
* `mqtt_client.go:44` has callers learn at once that the link is down: while the library
  reconnects, `IsConnected` answers true, and the handler waits for the publish without a
  deadline.
* The error of a publish is only logged (`chat_orchestrator.go:75-77`), and the command announced
  all the same: an announcement says nothing about the broker.  No document says that it should.
* MyNotes:714 gives a duplicate registration the code 4090: the loser of a race gets 5000.
* README:87 has a server without an LLM key answer by keywords: that is so for commands;
  the chat stream calls the LLM all the same, and sends its fallback when that fails.
* README:212 has replies with a trailing comment understood: an object with prose behind it is,
  but only in a fence or with prose before it too (`extractJSON` returns a text that begins with a brace as it is).

### Bounds

* Two connections of one user are the smallest instance where first/last, `SendToUser` to
  another tab and a broadcast to several members happen.  More connections or users only
  repeat the pairwise races; for the safety properties the theorems remove the bound on
  connections, users and capacity.  `SendCap` 1 fills a buffer with one message, the state in
  which a sender must not wait; the code's 256 is the same by the theorems.
* In `UserPresence` the periods are the code's own.  Two tabs suffice for a handover; two
  failures let a second one meet what the first left behind.
  `MaxDelay` 11 units are the 66 s from a tick to the end of the key it could still have refreshed, so that
  both a tick that comes just in time and one that comes too late happen.
* Three requests let two race while a third changes the device under both; rows are
  independent, so one device is enough.
* One handler suffices in `Orchestrator`: handlers share nothing but the owners and the
  link, and both change at any time in the instance.  Two lamps in two rooms let room and
  type disagree.  One message id suffices for a command to fail, to be
  sent again and to fill the store, so that the next is refused; messages with different ids do not touch each other, and
  the theorems are for any number.  One lamp reports: statuses are handled one at a time, and a device's key and `cut`
  depend on its own alone.
* Six tokens hold a fenced block with prose around it, or two objects with something between
  and about them; a strategy looks for at most three positions.  Words are a set, and complete.
* In `Heartbeat` the periods are the code's own.  `MaxUnread` 2 lets a pong lie behind a message that is read after
  another; `MaxWait` 5 (10 s) covers one slow write and exceeds the 6 s; `MaxAnswer` (2 s) is a premise about the peer,
  and part of what the property says.  `heartbeat_busy` allows no late tick, to show that a message alone suffices.
* Two slots let two registrations race, and a request be served after the first of them;
  three forms share a phone and an e-mail address with one another, and the phone of one is the
  e-mail address of another.  One delta is partial output; more
  only repeat it.
* No run uses symmetry.

### Fairness

`Hub!Fairness` grants: a goroutine that can run does (weak fairness of the hub's own
steps, of `ReaderStep` and of writes, which have a deadline); a goroutine that waits on an
unbuffered channel is in a FIFO queue, and a select picks among ready cases at
random, so a rendezvous that is possible again and again happens (strong fairness of
`HubTake` and of the writer's select); a read of a closed socket fails once what was
read ahead is consumed.  It assumes that `HandleMessage` returns: the LLM call has a timeout, but
the publish waits for the broker's answer without one, so the liveness results are about a
broker that answers.  Clients, MQTT messages and crashes are never forced to happen.
`DeviceRegistry!FairSpec` is strong fairness of each request's statements: InnoDB queues
the waiters of a row lock.  `Orchestrator!FairSpec` is weak fairness of each handler and, for each
message id, of the library and a broker that can be reached (`Serves`: resending, taking, acknowledging); nothing makes a lost link come back, and so `MessagesEnd` supposes
that it is up from some time on.
`Heartbeat!FairSpec` has `ReadPump` read what can be read, `WritePump` take its ticks, and time pass.  It does
not assume that `HandleMessage` returns; `VanishedGoes` says instead what follows if `ReadPump` does not stay in
it for good.  `Server!FairSpec` is weak
fairness of `main`, of the listener and of each request: calls of MySQL and of the LLM end (the
LLM's after 10 or 30 s), and so does the grace.  `RequestsEnd` allows for the process's end.

## 4. What is proved

TLAPS proves the following for any sets of connections, users, requests, forms and devices, any
capacity, number of deltas, message ids and failures, replies of any length, and any periods that satisfy
`TTLAssumption` (presence) or `PeriodsAssumption` (heartbeat).  It
rests on the named assumptions of the modules only: marker values are not members and functions
have their domains; `SendCap` is positive; `DeltasAssumption` (a bound on the deltas of a stream is
a number); `FormsAssumption` (registrations and logins are told apart); `OrchestratorAssumption` (device
ids are numbers, and a non-empty set of rows has a last one, as in any finite table); `TTLAssumption`
(`PingPeriod < OnlineTTL`: 54 s and 120 s); `PeriodsAssumption` (`PingPeriod < PongWait`: 54 s and 60 s).  That ticks
wait for a bounded time is an instance's bound (`MaxDelay`, `MaxWait`), which may be any number.

In every module the argument is the same.  `IInv` holds initially and is preserved by each action
(one lemma for an action or a group of them, one step for each conjunct); `Inductive`
combines them, `Invariance` is the temporal step, and each property follows from `IInv`, an
action property from `IInv` and the step.  What differs is what makes `IInv` inductive.

`HubProofs`: `TypeCorrect`, `RegistryIsOpen`, `EndedAreClosed`, `CrashesNeedPeer`, `Refinement`.
None of the properties is inductive alone: each speaks of the registry at one moment, and
what keeps it true is where the goroutines stand.  The inductive invariant `IInv` says so:
`ReaderDecides` (whether a client is a member, and whether its `Send` is closed, follows from
where its `ReadPump` stands, except for the one the hub is inserting or removing),
`HubDecides` (which client the hub can be working on at each of its control points; a
broadcast's remaining clients are members), `Filed` (clients are filed under their own
user), `TargetWasMember` (a `SendToUser` is about to send to a member of the sender's user,
or to one that was), with `TypeOK` and `CrashNeedsPeer`.  Without `HubDecides`, for instance,
`HubRegister` could insert a client that had already been closed.  `Refinement` maps
`member`, `left` and `waiting` to `Registered`, `closed` and `pending`, and shows that each action is a step of `MemberQueues` or a stutter.

`DeviceRegistryProofs`: `TypeCorrect`, `CheckHolds`, `LocksReturned`, `RowsAgree`,
`SuccessIsReal`, `OwnershipTheorem`.  Here `IInv` is the conjunction of the four invariants and
`StepFits`: a request in a given step asked for the operation of that step, about a row that exists.
Rows never go, so the existence a lookup saw lasts, while the owner it saw
does not: that is why `OthersUntouched` fails and `CheckedUntilCommit`, which rests on
the lock, holds.

`UserPresenceProofs`: `TypeCorrect`, `ListIsExact`, `KeepersKeep`.  `HubDecides` says which connection
the hub works on, and that its user has connections, or none, for as long as it makes the calls
that say so; `PhasesFit` ties the connections to the members and the keepers to the running
`WritePump`s; `NoStrayKey` is the second half of `KeeperKeepsKey`, told at every control point.  The first half
is not inductive because it only says that the key lives, not for how long: `KeysOutlast` says that it lives
at least for the `Life` of each keeper: `OnlineTTL` less the time since its last tick or, while a
tick waits, less a period and the wait.  A refresh gives `OnlineTTL`, and time takes as much from the one as from the other.

`OrchestratorProofs`: `TypeCorrect`, `CommandsAreOwned`, `RoomsRespected`, `SilentGo`,
`CommandsKept`.  `Placed` says what a handler has where it stands, `Remembered` that the
histories `held` and `kept` include, and are included in, what the user owns now; `RoomTried` carries what
the query by room found over to the query by type; `Delivered` relates the message id of a command to the
state of the message: while a command has an id it is in the store, its id goes only with the acknowledgement,
and that comes only after the broker has it.  Tokens do not occur in the argument but for the one that was refused, which is
why the property survives every way in which they fail or succeed too early.  `SilentDevicesGo` is inductive
as it stands: whatever makes a key without expiry is followed by `EXPIRE`, or recorded in `cut`.
`TypeCorrect` needs that `parseIntent` returns an intent: its lemmas follow
`extractJSON` on one token.

`ServerProofs`: `TypeCorrect`, `RegistrationsStay`, `RefusalsRight`, `InternalIsRace`,
`WritersExclude`, `ResponsesWellFormed`, `DependenciesOpen`, `CutsAreLate`.  `IInv` has a part for each
module.  For the accounts, `LookedUp` says what the look-ups behind a request excluded of the
rows that were there when it came, and `FoundFits` what the row is that a login compares with, and that it is the one with the account for
a phone if there was one.
For the streams, `Awaited` says that the handler waits while the goroutine runs, and that
`errCh` tells whether the LLM failed; `Shape`, which shape the response has at each control point,
as so many deltas and a tail (`Holds`).  For `main`, `Prepared` says what is open at each stage, and
`OnTime` that a request outlasts `Shutdown` only with the grace.

`HeartbeatProofs`: `TypeCorrect`, `DropsAreHeld`, `VanishedIsDropped`.  Neither property is
inductive: both speak of the moment a deadline passes, and what makes them true is how far the heartbeat
has come by then.  `OnBeat` says so for a peer that is there: since the deadline was last set either
the ticker is still running, or a tick is waiting, or a ping is being answered, or a pong is there to be
read, and in each of these cases the time that passed is at most the period, what the peer took (`Within`) and
what the server held.  So a deadline that passes was used up by the server.  `Patient`
is the other side, for a peer that vanished: what `ReadPump` has waited (`silence`) and what it may still have to
`Wait` never exceed `PongWait` together.  While frames are left to read it may have to wait for a whole
`PongWait`, because a pong among them may set the deadline again; but then it has not waited yet, since a read
that finds a frame returns at once.  Time inside a handler counts for neither.

`LLMReplyProofs`: `LoneObjectsUnderstood`, `OnlyOneExecuted`, `WordsAreRespected` (and `TypeCorrect`, on which
the first two rest).  Their content is in the operators, not in the steps.  `Window` says in positions of the whole reply what
`parseIntent` looks at, after the trimming and cutting, and the trimming of what was cut; `Extracted` proves
that, and `ParseReads` that an object is returned exactly if it is the only solid piece of the window
(`Understood`).  From there `LoneIsUnderstood` and `UnderstoodIsAlone` are arguments
about positions: a piece between two others is a brace or not.  On the way, `MinIsLeast`, `MinShift` and their
counterparts relate the least and greatest positions of a part to those of the reply.
That a set of positions has a least member would be an induction;
`LeastExists` gets it from the library's theorem that the finite subsets are well-founded, applied
to the intervals below its members.  `RuleIs` makes `fallbackIntent` the first rule that a message meets, so that
`WordsAreRespected` is a matter of which rules come before.

Model-checked only: the liveness properties (`PumpsEndTogether`, `HubComesBack`, `EveryoneJoins`,
`RequestsAnswered`, `MessagesEnd`, `VanishedGoes`, `RequestsEnd`).  They rest on fairness, so a proof would have to
reason about `ENABLED`, which TLAPS does not do.  Every other property of the passing runs, the
two refinements included, is a theorem.

## 5. Not modelled, and the plan

Not modelled for good, because stateless, or a library's work: configuration, health, CORS,
hashing, tokens, the stress tool and the mock page.  Left out of what is modelled: the text of
messages, prompts and logs; how the keyword rules pick a room or a temperature out of a message; lists, `GetProfile`
and other reads that change nothing; `SetDeviceOffline`, `GetOnlineDevices` and
`GetDeviceInfo`, which have no caller.

All safety properties of the plan are proved.  Two hazards have no property, because no document of the
repository says what should happen instead: a signal between the start of the listener and
`NotifyContext` (`main.go:128`) ends the process without grace, which the model has (`SignalEarly`) and `CutOnlyAfterGrace` excepts; and after a reconnection with a
clean session nothing subscribes to the device statuses again (`mqtt_client.go:28`; `MqttLink!Reconnect`
leaves `subscribed` FALSE).
