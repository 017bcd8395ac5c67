# A verification development of the collaborative blackboard

TLA+ models of the server in `src/` (Go; gin, gorilla/websocket, Redis, asynq, GORM), the TLC
runs that check small instances of them and the theorems TLAPS proves for every instance.
`PROJECT.json` lists the runs, the lines every definition stands for, the mutants that show
each property can fail, the hazards and the theorems.

## 1. Inventory

Users open a WebSocket to a room and send edits of single cells of its board. The board lives
in Redis; edits are broadcast through Redis Pub/Sub and saved in a database by asynq workers;
snapshots of the board are saved periodically and sent to those who join.

| component | state it keeps | operations | hard behaviours |
|---|---|---|---|
| **Hub** `internal/hub/hub.go` | `messageChan`, `rooms` under `roomsMu`, `roomSubscriptions` under `subMu` | event loop: register, unregister, action; subscription loops; reaper; snapshot, handler and cleanup goroutines | six kinds of goroutines on two maps and many channels; two locks never held together; bounded channels; sends to a channel that may be closed |
| **Client** `internal/hub/client.go` | socket, `send` channel | `ReadPump`, `WritePump` | either pump may end first; the unregister message may time out |
| **WebSocketHandler** | none | `HandleConnection`: admission, upgrade, register | the register message is refused when the channel is full |
| **CollaborationService** | none | `ProcessIncomingAction`: validate, INCR, Lua script, history, op count, PUBLISH | five remote calls, each may fail or lose its reply, beside other handlers and a cleanup |
| **RedisStateRepository** | per room: board, version, op count, history, snapshot cache, last snapshot time | one command or script each; `CleanupRoomState` deletes all | only single commands and the script are atomic |
| **Persistence** `tasks`, `worker/handler.go`, `action_repository.go` | asynq queue, table `actions` | enqueue, `ProcessTask`, `SaveBatch` | at-least-once delivery, retries, crashes of a worker |
| **SnapshotService**, `worker/snapshot_handler.go` | table `snapshots`, cache, last snapshot time | `GetSnapshotForClient`, `CheckAndGenerateSnapshot` | two reads that are not atomic, tolerated errors, asynchronous cache fills |
| **RoomService**, `handler/http/room.go` | table `rooms` | create, join; invite codes | test for a free code, then insert |
| **AuthService**, `handler/http/auth.go`, `middleware/auth.go` | table `users`; tokens | register, login; check of a token | unique indexes, commits whose reply is lost, expiry |
| **Rate limit** `middleware/ratelimit.go` | a counter per address in Redis | INCR and EXPIRE | two commands that are no transaction, the counter's own expiry |
| **Bootstrap** `bootstrap/app.go`, `cmd/server/main.go` | the parts | construct, route, start, `Shutdown` | the order of the stops; goroutines nobody stops; crash and restart; several instances over one Redis |

How they interact: the HTTP handler and the pumps send to `messageChan`; the event loop is its
only receiver and the only writer of `rooms`; it starts subscription loops (which read `rooms`
and send to `Client.send`), handlers (`ProcessIncomingAction`, then the asynq client), snapshot
goroutines (`GetSnapshotForClient`) and cleanups (`CleanupRoomState`). The worker calls
`SaveBatch`, and every five minutes `GetActiveRoomIDs` and `CheckAndGenerateSnapshot`. Several
instances of the whole may run over one Redis and one database (`README.md:14`); they meet in
the room's Pub/Sub channel, the room's keys and the task queue.

What makes each correct:

- *Hub*: a broadcast never hits a closed channel; who is in a room is subscribed; who left is
  not in a room, or soon will not be; no pump is left behind; subscriptions end with the room.
- *Pipeline*: the board is what its edits, one after the other, make of it; the version an
  edit carries is its place among them; what the board refused is nowhere; what it took is saved.
- *Snapshots*: a joiner gets a board that was saved; a snapshot holds nothing newer than its
  version; a failed generation is made again.
- *Delivery*: what was published while a client was there to hear it reaches the client.
- *Rooms, accounts*: a code leads to the room it was made for; a room's owner logged in; what a
  client is told it has is stored; every request is answered; the clients of Redis and asynq close
  under no request.
- *Limits*: of the requests counted within a window, no more than the limit are let pass.

## 2. The modules

| module | models | state and actions |
|---|---|---|
| `Hub` | `hub/hub.go`, `hub/client.go`, `HandleConnection` after the upgrade | one variable per channel, map and goroutine kind; one action per locked section, handler or pump step |
| `MCHub` | instances of `Hub` | one room, interchangeable connections |
| `Hub_proofs` | theorems about `Hub` | |
| `Subscriptions` | what the hub promises of its subscriptions, a registration and a departure being one step each | `Register`, `Unregister`, `StopAll`, `Crash`; a loop's `Subscribed`, `LoopReturns`, `LoopExits` |
| `Subscriptions_proofs` | what every hub that keeps to `Subscriptions` inherits | |
| `Edits` | `DrawData` as constants | the cell and the colour of each edit |
| `Whiteboard` | what `StateRepository` promises of a board | `Edit`, `Wipe` |
| `Whiteboard_proofs` | every Whiteboard is last-writer-wins | |
| `ActionPipeline` | `handleClientAction`, `ProcessIncomingAction`, the Redis calls it makes, `ProcessTask` under asynq | one action per remote call of a handler, and its failures |
| `MCActionPipeline` | instances of `ActionPipeline` | two edits of one cell |
| `ActionPipeline_proofs` | theorems about `ActionPipeline` | |
| `Snapshots` | `SnapshotService`, `SnapshotCheckHandler`, the snapshot table, cache and time | one action per call of a periodic check and of a joiner's goroutine; the room edited and cleaned up beside them |
| `MCSnapshots` | instances of `Snapshots` | two checks, one joiner |
| `Snapshots_proofs` | theorems about `Snapshots` | |
| `Delivery` | the hubs of several instances, built from `Subscriptions`, and Redis between them: who hears of which action | the actions of `Subscriptions` with what they do to messages; a publication, a forwarding; a crash per instance |
| `MCDelivery` | instances of `Delivery` | two instances, three connections, one of them a second tab |
| `Delivery_proofs` | theorems about `Delivery` | |
| `Server` | router, auth middleware, `AuthService`, `RoomService`, the gate of `HandleConnection`, `App.Start` and `App.Shutdown` | one action per call of a request to Redis or the database, its answer, one per step of the shutdown |
| `MCServer` | instances of `Server` | three scenarios of four requests |
| `Registry` | what accounts and rooms promise, each request in one instant | one action per outcome a request can have, and the telling of it |
| `Server_proofs` | theorems about `Server`; that it implements `Registry` | |
| `RateLimit` | `middleware/ratelimit.go` | one action per command of a request, its reply, a repetition, and the clock |
| `MCRateLimit` | instances of `RateLimit` | interchangeable requests |
| `RateLimit_proofs` | theorems about `RateLimit` | |

### Hub

A connection is a constant `c` that connects at most once. `registerClient` is two steps,
`Register` (under `roomsMu`) and `StartRoomSubscription` (under `subMu`), and so is
`unregisterClient` (`Unregister`, `StopRoomSubscription`); `hub` says between which two the
event loop is. A subscription loop is named by the connection whose registration started it; its
phases are `subscribing` (SUBSCRIBE sent), `listening`, `leaving` (returned, the deferred
function still to run) and `stopped`. `LoopExits` deletes the room's entry whoever it belongs
to, as the code does. `StopAllSubscriptions`, the first step of a shutdown, cancels every loop
while the event loop and the pumps go on; `stopping` remembers that it ran. A send to
`Client.send` is `Offer`: dropped when the buffer is full, a panic when the channel is closed; a
panic in any goroutine ends the process (`Running`). `Unregister` keeps the code's `select`: it
takes a buffered message if there is one, and closes the channel only if there is none.

Abstracted: the contents of messages (buffers of `send` are lengths, a published action is its
author), time (timeouts and tickers fire when they may), `register` of a nil client. What a
handler does inside `ProcessIncomingAction` is one step here and many in `ActionPipeline`. The
network, Redis, the ticker and the shutdown are switched on per instance by `Faults`. A peer so
slow that a write or a ping times out is a lost peer.

### Subscriptions

The abstract specification of the two maps `rooms` and `roomSubscriptions` and of the loops:
clients come and go once each; the first starts a loop, the last cancels it; a loop that ends
deletes the group's entry, whoever it belongs to. A *group* is what shares a subscription: a
room in `Hub`, an instance in `Delivery`.

- `Hub` implements it: there a registration is `Register` and then `StartRoomSubscription`,
  under another lock, with loops that end, cleanups, the reaper and `StopAllSubscriptions`
  between the two. The refinement mapping (`Standing`) lets a client come, or go, at the second
  of its steps.
- `Delivery` is built from it (`INSTANCE`), with a crash per instance: its hub *is*
  `Subscriptions`, so nothing is shown of the hub there that is not shown here.

A stray loop is one that runs, was not cancelled and has lost its entry, so that nobody can
cancel it. `StraysFollowExits` says of every step that makes a stray that it is the exit of an
older loop of the group, which had lost the entry to the stray.

That `Delivery` takes a registration for one step is right as far as members, entries and
loops go, which is all that `Subscriptions` speaks of. A message forwarded between the two
steps is outside it: in `Hub` it can reach a client that is in the room and has not started
its loop, when an older loop of the room is still ending.

### ActionPipeline

One room. `pc[a]` is the next call of the handler of action `a`. A call fails without effect, or
takes effect and loses its reply (then go-redis sends it again or reports an error); the calls
whose error is only logged are therefore executed 0, 1 or 2 times. The Lua script is one step,
as Redis runs it. `CleanupRoomState` may come at any moment, because the hub starts it in a
goroutine of its own and does not look again. A task fails before or after its commit, or its
worker dies; asynq retries it `MaxRetry` times and then archives it (`TaskFails`). A graceful
shutdown puts a task that is still running back in the queue and counts no retry
(`ShutdownRequeues`), so that a task may have any number of rows; nothing bounds them. A server
may die with any set of handlers under way (`ServerDies`): those that held an Action end as
`"cut"`, never queued if they were not yet. `stamp` is a history variable, the version Redis
gave an action since the keys were last deleted; the code cannot see it when a reply is lost.

Abstracted: a board is a function of cells and colours; RPUSH and LTRIM, and INCR and EXPIRE,
are sent as one batch and are one step; the expiry of `op_count` (read by nobody) is left out;
a task's payload is always valid, so `SkipRetry` is not reached.

### Snapshots

One room. A check `k` reads the last snapshot time, decides, reads the board, reads the
version, makes the snapshot, saves it and stores the time: one action per call, in `pc[k]`.
Checks overlap, when the task of one period runs late or comes from another server. A joiner
`j` asks the cache, then the database. The goroutines that fill the cache are `warming`; they
outlive whoever started them. A board is abstracted to the version each edit was drawn with,
which is what the properties compare; `boardLife` and `versionLife` are history, they tell in
which life of the keys (`life` counts the cleanups) a snapshot's two reads were made.

Abstracted: when a snapshot is due depends on counts and intervals of minutes and is a choice,
except that the first is always due; the test that the room is active is left out, so checks
run in more states than they do in the code; `op_count` is reset by a generation and read by
nobody; an expiry is possible whenever the key is set. Every `time.Now()` is a tick, and the
stored time is cut to `PerSecond` ticks.

### Delivery

One room, several instances. The hub of each is the instance of `Subscriptions` with the
instances of the server for its groups: clients, entries, loops, cancellations and crashes are
that module's actions. `Delivery` adds what only shows between the instances: a loop has an
`inbox`, the messages Redis has sent it; PUBLISH reaches the loops that listen at that moment,
on every instance, and keeps nothing (`Deliver`). `Publish` is the handler's call: executed
once; executed with its reply lost, upon which go-redis sends it again; or failed. An action may
so be in `published` twice, as two messages; a message is its place there.
`heard[c]` is what was put in the client's channel, each with the loop that did. `due` and
`excused` are history: what was published while the client could hear it, and what a full
channel or a lost subscription cost it; of a client that left the three are forgotten
(`Forget`). The author's user is excluded, not the author's connection.

Abstracted: the calls before PUBLISH, the ways a connection ends, the socket behind the channel.
go-redis subscribes again by itself after a lost connection to Redis (`Resubscribe`).

### Server

A request is a constant with a form (`form`, one of the `Scenarios`): its route and what it
carries. `pc[q]` is the call it is about to make, or `"reply"` when its handler has settled its
`answer` and has yet to send it. Every request passes the rate limit (`Limit`), which asks
Redis; the protected routes pass `Authenticate` next, with any token given out so far or none.
`Register` is one insert, refused by the unique index on the name or the e-mail (the empty
e-mail is one like the others); `Login` one read. `CreateRoom` is as many rounds of `TryCode` as
codes are in use, at most `MaxAttempts`, and then `SaveRoom`: other requests come between.
`HandleConnection` is the gate up to the upgrade. Every call to the database may fail, with or
without having taken effect (`DatabaseFails`). `Respond` sends the answer, a step of its own: a
row may be there and its client never hear of it. `app` walks through `App.Shutdown`:
`StopBackground`, `StopListening`, `Drain` (which ends when no request is left, or after 10
seconds with an error, which makes it `overdue`), `CloseClients` (after which `Limit` can only
refuse), `Exit`; a crash is an `Exit` from anywhere, and ends the requests under way, settled or
not; `Restart` begins again over the same tables. `Before` is what the table of accounts may
hold at first.

Abstracted: the key of a row is its place in its table; a token is the login it came from; a
password is its hash; the counter of the rate limit is left to `RateLimit`, and here `Limit`
may refuse any request; the calls that close the clients are one step.

### Registry

The abstract specification of the two tables and of what the clients are told: a request takes
effect in one instant (`Settle`), and its client is told of it later, once, or never (`Tell`).
Names, e-mails and invite codes are given out once, a room belongs to somebody who was told to
have logged in, a code leads to its room, *taken* and *unknown* are true when the request takes
effect. There is one exception, an action of its own (`RefuseNoEmail`): a second account without
an e-mail is refused as taken, though its name is free and `handler/http/auth.go:28` has the
e-mail optional. A failed request may have been stored. `Server` implements it (`RegistrySpec`)
with `outcome <- answer` and `told` the requests whose answer was sent: the test of a code and
the insertion, the check of a token, expiry, crash and restart are stutters. It promises nothing
of the gate of the WebSocket, which is the subject of the run `gate`.

### RateLimit

One address. A request sends INCR and EXPIRE in one pipeline, which is no transaction: two
actions, with other requests or the key's own expiry between. `Return` is the handler's, when
the reply has arrived, as late as it likes; the connection may break at any point, and go-redis
then sends both commands again (`Retry`), or gives up (`ExecFails`). `age` and `split` are
history: how long ago Redis did a request's EXPIRE, and whether the counter expired between its
two commands, a gap the comment at `ratelimit.go:34-36` accepts. `LimitHolds` speaks of the
requests as Redis counts them. It says nothing of when their handlers start: replies may be
delayed by different times, so that more than the limit start within one window.

### Whiteboard

The abstract specification: edits take effect one at a time, each in a place after all earlier
ones, or everything is wiped. `ActionPipeline` implements it with `order <- stamp`
(`BoardSpec`), and so inherits last-writer-wins from `Whiteboard_proofs`.

## 3. The runs

| run | instance | shows |
|---|---|---|
| `hub` | 2 connections, channel of 2, buffer of 1, 1 action, Redis breaks subscriptions, a shutdown | `TypeOK`, `BroadcastNeverPanics`, `NoGhosts`, `EntryIsLive`, `OccupiedRoomSubscribed`, `StraysFollowExits`, `CancelOnlyWhenEmpty`, `SubscriptionSpec` |
| `hub_liveness` | 1 connection, channel of 2, 2 actions, all faults, the reaper, a shutdown | `NoGhosts`, `GhostsReaped`, `PumpsEndTogether` |
| `pipeline` | 2 edits of one cell, 3 faults, 1 retry, history of 2 | the seven properties of `ActionPipeline` |
| `snapshots` | 2 checks, 1 joiner, 1 edit, 2 faults, 2 ticks a second | `TypeOK`, `ServedIsSaved`, `NothingNewer`, `TimeIsOfASnapshot` |
| `delivery` | 2 instances, 3 connections of 2 users, 2 edits, 1 fault | `TypeOK`, `DueIsUnderWay`, `HeardInOrder`, `DueArrives` |
| `server` | 4 requests in 3 scenarios, 1 invite code, 2 attempts, no account or one without e-mail at first, 1 fault | the seven properties of `Server` |
| `rate_limit` | 4 requests, limit 2, window of 3 ticks, 1 repeated pipeline | `TypeOK`, `LimitHolds` |
| `hub_send_is_safe` | 2 connections | *violated*: the snapshot or an error is sent to a closed channel |
| `hub_empty_room_unsubscribed` | 2 connections | *violated*: an old loop's exit deletes the new loop's entry |
| `hub_only_empty_rooms_cleaned` | 2 connections | *violated*: the cleanup hits a room joined meanwhile |
| `gate` | as `server` | *violated*: the connection to a room that exists is refused |
| `snapshot_reaches_version` | 1 edit, no fault | *violated*: the version counts an edit the board lacks |

Why these bounds are enough to meet the interesting cases. Two connections are a receiver and an
author, or one who leaves while the other comes: the second finds the room empty, or not, while
the loop of the first is still exiting. Three connections with an action to broadcast do not
finish in minutes; that nothing new happens with a third is what the theorems say. A channel of
2 holds a register and an unregister together and is full with a third. `hub` leaves out the
reaper and its pings, which multiply its states by ten, and has the shutdown instead;
`hub_liveness` has the reaper, and one connection whose own messages (a register, two actions,
an unregister) fill its channel, so that the reaper's unregister message and the connection's
own come in either order, or are refused. A buffer of 1 is empty, or full. Two edits of the same
cell are the smallest race, and the second's type is overruled by its colour, as in the code;
with three faults a reply can be lost, a cleanup come between and a worker die in one behaviour.
In `snapshots` two checks are enough for one to overtake the other between any two of its calls,
and two faults for a cleanup between the reads of one and a failure of the other; one edit is
drawn before, between or after each read. In `delivery` an instance has two clients, so that one
leaves while the other is there to hear, and the author is on the same instance, on the other,
or has a second tab there; two edits can overtake each other; the fault is also enough for one
of them to be published twice. In `server` the two requests for a room compete for the codes
there are, one of them may find none in `MaxAttempts` rounds, and a fault is enough for a commit
without a reply, a stop that does not wait, or a crash with a restart, between a commit and its
answer too; each of the three scenarios has the requests that can disturb each other. In
`rate_limit` there are as many requests as two windows let pass, one of which may be counted
twice, and the window is long enough for one command to come late in it. The theorems of section
5 hold without any of these bounds.

Deadlock is not checked: a finite number of connections and actions come and go, after which
the system is idle, and after a panic it is stopped.

## 4. Fairness

`Hub!Fairness`: the event loop receives while there are messages (`range messageChan`), the
reaper's ticker fires and its round goes on, a `ReadPump` whose socket is dead returns and runs
its deferred function, a `WritePump` notices a closed channel or, by the ping it sends every 54
seconds, a dead socket. Nothing is assumed of peers, of Redis, of snapshot or handler
goroutines. `GhostsReaped` needs the messages sent to be finitely many (`MaxActions`): against
a channel that is full whenever the reaper looks, the code makes no promise.
`ActionPipeline!FairSpec`: the goroutine of a handler and of a worker is scheduled and its
calls return. `Server!FairSpec`: the goroutine of a request is scheduled and its calls return,
with whatever error; nothing is assumed of the clients, of the shutdown or of a restart, so a
request may also die with the process. `Delivery!FairSpec`: a subscription loop that has a
message takes it (the Go scheduler, and the runtime's fair `select`); that a loop gets as far
as listening, or that anybody leaves, is not assumed. Failures are never fair.

## 5. What is proved

Assumptions: only the named ones of the modules (types of the constants, positive capacities).
`Subscriptions` asks of its constants what `ConstantsFit` says, which is a hypothesis of its theorem
and proved where the theorem is cited.

- `Hub_proofs`. *Types*: by cases. *`NoGhosts`*: the inductive invariant `JoinInv` follows a
  connection's messages through the channel: at most one register, nothing before it, an
  unregister after it. *`BroadcastNeverPanics`*: no member of a room has a closed channel, as a
  client registers once. *`ImplementsSubscriptions`*: `Spec => SubscriptionSpec`. The inductive
  invariant is `HubKnows`, that the event loop's position agrees with the room: while it is
  between the two steps of a registration the client is the only member of its room, between
  those of a departure the room is empty. The event loop is the only writer of
  `rooms`, so nothing that comes between disturbs it (`KnowInvariance`), and each step of `Hub`
  is one of `Subscriptions` or a stutter (`SubscriptionNext`; `TakenNext` says what every step
  makes of the messages taken, on which `Standing` rests).
- `Subscriptions_proofs`. `EntryIsLive`, `OccupiedIsSubscribed` and `StraysFollowExits`, once
  for all who implement `Subscriptions`. The invariant adds that only who has come has a loop,
  and that only a loop is cancelled. `StraysFollowExits` is an action property, by cases on the
  step. `Hub_proofs` cites the instances: `EntriesAreLive`, `OccupiedRoomsKeepALoop`,
  `CancelsOnlyWhenEmpty` and `StraysFollow`.
- `ActionPipeline_proofs`. The invariant `Inv` says that a handler that was told a version holds
  the one Redis gave (`VersionsAgree`) and that places are not shared or beyond the counter
  (`PlacesTaken`). From it: each step of the board is an edit or a wipe (`ImplementsWhiteboard`),
  hence last-writer-wins by instantiating `Whiteboard_proofs`, hence `VersionsDecide` and
  `VersionsIdentify`. `OnlyAppliedIsSpread` and `TasksAreNotLost` have invariants of their own.

- `Snapshots_proofs`. `Inv` adds to the four properties: what a check holds shows nothing newer
  than the version it is about to read or has read, in the same life of the keys
  (`HeldIsBehind`, for `NothingNewer`); whoever is about to fill the cache holds a saved
  snapshot (`WarmingIsSaved`, for `ServedIsSaved`); a check about to store its time has saved a
  snapshot made after it (`TimeInv`, for `TimeIsOfASnapshot`).

- `Delivery_proofs`. `Inv` adds that a client that has not come has nothing due and no loop of
  its name (`AwayIsFresh`: otherwise a registration could reuse a loop), that nobody is due an
  action of its own user (`DueFromOthers`: whoever is due a message is among its receivers), that
  a loop's inbox is sorted, and that what a loop has told comes before what it holds
  (`HeardBeforeInbox`). `DueIsUnderWay` is inductive with them: only its own instance's last
  client cancels a loop, and then nobody is left to be due.
- `Server_proofs`. `Inv` says where a request is in the router (`StepInv`: who reaches a handler
  of a room has a user), that every answer is right from when it is settled (`AnswersRight`),
  sent or not, which the growth of the tables keeps (rows stay where they are), that no two
  rooms have one code (`CodesDiffer`, from the index and not from the test), that every user of
  a token proved a password (`UsersProved`), and that from the end of the drain on nothing is
  under way, or the drain gave up, and the clients are open until then (`StopInv`). The four
  safety properties follow. `ImplementsRegistry`: a request has no answer until its handler
  settles one, and then keeps it (`AnsweredOnce`); a room is created when it is inserted, where
  the index still finds the code free and the user of the token has logged in (`RoomIsAdded`,
  `UserLoggedIn`); who finds no *first* room with a code finds none (`RowsAreFound`, from
  `CodesDiffer`).
- `RateLimit_proofs`. The requests Redis has granted lately, whether their replies have arrived or
  not, and those that hold a number, have different
  numbers (`LiveDiffer`) within the counter (`LiveAreCounted`), because the counter lives at
  least as long as the rest of the window of each (`CounterOutlives`); so those
  granted are at most the limit.
- `ActionPipeline_proofs` and `Hub_proofs` cover the death of a server and
  `StopAllSubscriptions` as any other step.

Only model-checked: `GhostsReaped`, `PumpsEndTogether`, `AcceptedIsPersisted`, `DueArrives` and
`EveryRequestAnswered`, liveness under fairness, which the prover does not reach. The violated
properties are shown by their counterexamples.

## 6. What is not modelled, and why

- Setup, migrations, configuration, constructors, HTTP formatting, CORS and logging:
  straight-line code.
- `ApplyActionToState`, `GetRecentActions`, `CheckRateLimit`, `FindAllActive`, `FindRoomByID`:
  no caller. `ResetOpCount` resets a counter nothing reads. `GetActiveRoomIDs` reads the rooms;
  which rooms a check looks at is left open in `Snapshots`.
- Two goroutines writing to one socket (the reaper's ping and `WritePump`): whether the library
  notices depends on its internals, which are not in the repository.
- What a joiner sees as a whole, snapshot and then edits: the code sends the latest saved
  snapshot and what is published from then on, and nothing fills the gap between the two; there
  is no promise to check beyond those of `Snapshots` and `Delivery`. For the same reason nothing
  is said of versions across a cleanup, where the code starts them over.
- Whether the scheduler and the worker use one Redis: `NewScheduler` is given options that are
  never set (`app.go:333`), which a configuration decides and no behaviour.
- What the messages of the clients look like: the examples of `README.md:324-341` lack the
  `type` that `dto/action.go:8` requires, and `handler/http/auth.go:28` calls the e-mail optional
  while a second account without one is refused by the index of `domain/user.go:11`. Both are in
  the models (`Validate`; `Taken`, and `RefuseNoEmail` of `Registry`), neither needs a run to be
  seen.
- How many rows an action may get: a commit whose task runs again adds one, and nothing bounds or
  promises their number.
- What a client misses while an occupied room has no subscription loop, because Redis ended it
  (`hub.go:556`): the properties of `Delivery` except it, as the code cannot notice.

## 7. What could follow

Done: all the components of the inventory but the straight-line ones, each with its theorems.
Worth adding next: what else of `Hub` the modules `Delivery` and `ActionPipeline` rely on (the
send to a client, the start of a handler), stated as `Subscriptions` states the subscriptions;
a socket with two writers, if the library is vendored.
