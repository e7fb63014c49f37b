# winwin-backend: a verification development in TLA+

winwin-backend is the server of a motorcycle taxi service: a NestJS application
with REST controllers and one Socket.IO gateway, a PostgreSQL database (through
TypeORM) and a Redis server. Passengers ask for a ride through the gateway; a
driver who stands at a nearby *service spot* is offered the job, accepts or
rejects it, and moves the ride along until it is completed and recorded.

This directory models the parts of that server whose correctness depends on the
order of events. Paths below are relative to the repository's root.

## 1. Inventory

| Component | State it keeps | Operations | Interacts with |
|---|---|---|---|
| **Drive request session** (`src/drive-requests/drive-requests.gateway.ts`, `stores/redis-drive-request.store.ts`) | Redis hash `drive-request:{sid}` (TTL 1 day), Redis pointers `{account}:drive-request-session` (no TTL), rows of `drive_request` | `request-drive`, `accept-drive-request`, `reject-drive-request`, `update-drive-request-status`, `get-drive-request` | dispatch, users, drivers, Google Maps, drive requests service |
| **Dispatch** (`findDriverSocketToOfferJob`, `handleConnection`, `handleDriverConnection`, `update-driver-status`) | per socket: rooms, `online`, `cooldown` | connect, toggle the status, choose a driver, cool down | session, service spots |
| **Chat** (`chat-message`, `get-chat-messages`) | Redis list `drive-request:{sid}:messages` (no TTL) | append, read, delete with the session | session |
| **Feedback and ratings** (`drive-requests.service.ts` `createFeedback`, `driver.subscriber.ts`) | rows of feedback; per driver and category a sum and a count | give feedback, create the initial ratings | drivers, completed rides |
| **Pricing** (`calculatePriceByDistanceMeters`) | none | price of a distance | preview of a route |
| **Membership** (`drivers.controller.ts` `joinServiceSpot`, `service-spots.service.ts` `create`, `removeDriverFromServiceSpot`) | a driver's spot and role, spots | register, create, join by code, remove a driver, invite | invite codes, pool |
| **Invite codes** (`getInviteCode`, `findServiceSpotByInviteCode`) | two Redis keys per code, TTL 15 minutes | get or make a code, resolve a code | membership |
| **Connection pool** (TypeORM `QueryRunner`s) | connections of the pool | transactions that also query outside their connection | feedback, membership |
| Users, driver registration, authentication, addresses, external HTTP clients, bootstrap | see `PROJECT.json` | inserts, reads, token checks | |

How they interact: the apps call the gateway by messages; handlers call Redis and
Postgres and `await` the answers; the answers arrive as callbacks on the event
loop; other clients are told by emits to rooms, which reach whoever is in the room
at that moment, or nobody.

What is hard about it:

- every handler is a chain of callbacks, and other handlers run between any two;
- nothing locks a session: a handler works on what it read before its last await;
- the driver's app sends back the whole offer it was given, and `accept` and
  `reject` trust what any account sends for the passenger, the status and the session;
- a ride that is being completed is in neither store for a moment;
- Redis keys expire on their own; processes are restarted (`restart: always` in
  `docker-compose.yml`) and lose every handler under way;
- offers can be lost, answered twice, from two devices or far too late;
- a search for a driver awaits each room, and sockets come and go meanwhile;
- transactions run some of their queries outside themselves, on a second connection.

What makes each component correct:

- *session*: the stored status follows the status machine; the row of a ride
  charges a passenger who asked with a driver who accepted; a ride is recorded once; a
  completed ride is not lost while nothing fails; an app that reconnects finds its
  own ride and nobody else's; a rejection is final;
- *dispatch*: nobody is offered their own request; a driver who has just rejected
  is left alone for a minute; a free driver nearby is found;
- *chat*: the messages of a ride go with it;
- *feedback*: count and sum of a rating agree with the rows of feedback;
- *membership*: a spot keeps its one owner, members were invited, again if they had been
  removed, and stay until the owner removes them;
- *invite codes*: a code that is handed out can be used for the time it says;
- *pool*: handlers that hold a connection get the second one they need, as long as not
  all connections are held in this way;
- *pricing*: longer is never cheaper.

The hazards of the code, line by line, are in `PROJECT.json`.

## 2. The modules

| Module | Builds on | Models |
|---|---|---|
| `DriveSession` | | the handlers that write a session, its pointers and its row |
| `RideLifecycle` | | abstract: what is promised of one request |
| `DriveSessionRefinement` | `DriveSession`, instance of `RideLifecycle` | the refinement mapping |
| `RideChat` | `DriveSession` | the chat list beside every step of the session |
| `Dispatch` | | sockets, rooms, flags, the search for a driver, the cooldown |
| `InviteCode` | | the two keys of an invite code |
| `Membership` | `InviteCode` | drivers' spots and roles, with the codes that lead to a join |
| `ConnectionPool` | | abstract: the pool and the discipline of its users |
| `Feedback` | `ConnectionPool` | `createFeedback` and the creation of the ratings |
| `Pricing` | | the price of a distance |
| `DriveSessionProofs`, `DriveSessionOrderProofs`, `DriveSessionAppsProofs`, `DriveSessionLifecycleProofs`, `DispatchProofs`, `MembershipProofs`, `FeedbackProofs` | what they are named for | proofs (`Pricing` holds its own) |
| `MCDriveSession`, `MCDispatch`, `MCMembership`, `MCFeedback` | | symmetry and values for TLC |

What was planned was, in this order: the core, the dispatch, membership and invite
codes, feedback and the pool, pricing, the chat, and the proofs. All of it is done,
with one change. `Dispatch` and `DriveSession` are not put into one state space,
which would have neither room for two rides nor for two searches; each relies on
what is proved of the other side:

- `DriveSession` lets any driver but the passenger come out of a search. That it is
  never the passenger is `NobodyDrivesThemselvesHolds`, proved of `Dispatch` for any
  chain of rejections and any comings and goings of sockets.
- `Dispatch` lets a driver's spot change only between none and one. That a driver
  does not go straight from one spot to another is `StaysUntilRemovedHolds`, proved
  of `Membership` (for drivers with one request under way).

## 3. The core: `DriveSession`

### Correspondence with the code

| Model | Code |
|---|---|
| `session[s]` | the fields `id`, `userId`, `driverId`, `status` of the hash `drive-request:{s}`; `Absent`, all `None`, is what `hmget` gives of a missing key |
| `pointer[a]` | the key `{a}:drive-request-session` |
| `rides[i]` | the row of `drive_request` with primary key `i` |
| `offers` | under `genuine_answers`: the `job-offer`s that driver apps hold and may send back |
| `job[h]` | the local variables of one handler invocation and the await it is at |
| `request`, `acceptedBy`, `rejected` | history, read by no action of the server except that a `sid` from `nanoid()` is fresh |

A handler is a chain of actions, cut at the awaits between which it changes state
or after which it uses what it read:

| Handler | Actions |
|---|---|
| `request-drive` | `Request`, then `RequestOffer` or `RequestUnoffered` |
| `accept-drive-request` | `AcceptCheck` (or `AcceptNotFound`), `AcceptSave`, `AcceptPublish` |
| `reject-drive-request` | `RejectOffer`, `RejectRemove` or `RejectLost` |
| `update-drive-request-status` | `UpdateRead`, then `UpdateSave`, or `CompleteRemove`, `CompleteLookup`, `CompleteInsert` or `CompleteUpdate` (or `CompleteRefused`), `CompleteFinish` |
| any | `QueryFails`, `Crash`; `Expire` for the TTL |

Three abstractions carry the model:

- *Redis commands take effect when they are sent.* There is one ioredis connection
  and one app container, so commands take effect in the order they are sent in, and
  commands sent in one callback (the two `set`s, the two `del`s) follow each other
  with none between. The continuation of the `await` is a later action.
- *The reads before the first write are merged with it* in `Request` and in the
  rejection: looking up the passenger, the spots, the sockets and the addresses
  leaves nothing behind, and any driver but the passenger may come out of it. An
  early failure of `request-drive` changes nothing and is not an action; a failure
  inside the `try` of the rejection is `RejectRemove`.
- *`repository.save()` is its two queries*: the SELECT by primary key, then the INSERT
  of the whole row or the UPDATE of *the columns that differed from what was selected*
  (`changed`), which the NOT NULL columns, the foreign keys and the primary key may
  refuse. Two completions under one id that both select before either writes thus mix
  the columns of two rides.

An answer is a driver's account, a session and a passenger (`Offers`). The gateway takes
the last two from the body that the socket sends, and lines 176-236 look at nothing that
says whether this socket was ever sent such an offer, so by default (`Answers`) any
account accepts and rejects any request in the name of any passenger. A `sid` nobody was
handed out has no hash and is left out; a status other than `pending` is refused.

What the code does not enforce is not built into the model. `Assumed` names what a run
takes for granted of the outside, and `Faults` what may go wrong (`crash`, `database`,
`expiry`, `network`):

| Assumption | Says |
|---|---|
| `genuine_answers` | accounts answer only offers they were sent, and send them back as they came, as often and as late as they like |
| `answer_once` | and each once |
| `one_at_a_time` | no two handlers work on one session at a time |
| `one_ride_each` | an account asks for, or accepts, a ride only when it takes part in no other |
| `fresh_ids` | the six random digits do not repeat |

The driver and passenger apps are not in the repository; `AppStatuses` is what they may
send with `update-drive-request-status`: the whole enumeration the DTO admits, or the
four statuses of a ride under way.

### Properties

| Property | Says | Holds under |
|---|---|---|
| `TypeOK` | shapes; no null in a row | anything |
| `RowsSound` | the passenger of a row asked under its id, the driver accepted under its id | anything |
| `FieldsAgree` | each field of a hash, of a handler that completes a ride and of a row is missing or right | anything |
| `PointerSound` | a pointer names a ride its account asked for or accepted | `genuine_answers` |
| `Agreement` | `FieldsAgree`, and offers and acceptances hold the request's own passenger | `genuine_answers` |
| `RideSound` | a row charges the passenger of one request, with another account who accepted that request | `genuine_answers`, `fresh_ids` |
| `SettledStaysRemoved` | a hash that comes back after its removal has no id again | `fresh_ids` |
| `StatusFollowsMachine` | stored statuses move along the store's machine | `answer_once`, `one_at_a_time`, the four statuses |
| `Orderly` | a request is in one pair of hands at a time, and checks still hold at the write | the same |
| `RideNeverRewritten` | a row does not change | `answer_once`, `fresh_ids`, the four statuses |
| `RejectedIsFinal` | a rejected request is neither driven nor charged | `answer_once`, `fresh_ids`, the four statuses |
| `ImplementsLifecycle` | refinement of `RideLifecycle` | `answer_once`, `one_at_a_time`, `fresh_ids`, the four statuses |
| `ActiveRideReachable` | both parties' pointers name the ride under way | `answer_once`, `one_at_a_time`, `one_ride_each`, no crash, the four statuses |
| `CompletedIsRecorded` | removed for completion leads to recorded | no crash, no failing query |

`answer_once` is about genuine answers and so includes `genuine_answers`.

The refinement mapping (`DriveSessionRefinement`) reads the phase of a ride off the
concrete state: `billed` when its row exists, `settling` while a completion holds
the only copy of it, its stored status while the hash has an id, `gone` otherwise.
A hash that comes back in part after a removal (a save under way when the key went)
is `gone` too: the lifecycle says nothing of a ride can be revived from it. One
crash may lose several rides that are settling, so `Drop` takes a set.

### Runs

| Run | Instance | Distinct states | Shows |
|---|---|---|---|
| `any_apps` | 3 accounts in both roles, 1 request, 2 handlers, all statuses, all faults, nothing assumed | 640 000 | what holds whatever the apps send |
| `single_answers` | 2 requests, 2 passengers and 2 drivers of whom one account is both, 2 handlers, offers answered once, distinct ids, the four statuses, all faults | 480 000 | pointers, rows, settled and rejected sessions, with concurrent handlers on one session |
| `lifecycle` | the same with one handler per session | 48 000 | the status machine, `Orderly` and the refinement |
| `reconnect` | 3 requests that get one id, 2 passengers and 3 drivers of whom one account is both, 1 handler per session, offers answered once, one ride at a time per account, the four statuses, no crash | 1 050 000 | the pointers of a ride under way; the invariant behind the rows, with `save()` mixing two rides |
| `settlement` | `RideChat`: 1 request, 1 passenger, 1 driver, 2 handlers, expiry, nothing assumed, fair handlers | 613 000 | the chat goes with the ride; completion leads to the row |
| `stale_answer` | an offer is answered twice | | violates `StatusFollowsMachine` |
| `racing_updates` | two updates of a ride at once | | violates `StatusFollowsMachine` |

Bounds. `Sids` bounds the number of requests in a behaviour, `Handlers` the
invocations under way at one time, `Ids` the ids that can be drawn. No other bound is
needed: nothing else grows. Two handlers are what every race in this code needs: each
handler checks once and writes after. Two requests are what it takes for one to
disturb another, which it can only do through a shared id (`rides`) or a shared
account (`pointer`). A passenger, a driver and an account that is both give each row and
each pointer a wrong passenger, a wrong driver and a passenger who drives that it could
name. In `any_apps` a third account answers what was offered to another in the name of
either; there one request is enough, since what is wrong with an answer is wrong for the
request it names. A row whose columns come from two requests takes a third, which writes
the row that the two find: those are the three requests of `reconnect`, and such rows
occur there. `PointerSound`, `RideSound`, `SettledStaysRemoved` and `Agreement` hold under
less than their runs assume, also when offers are answered again and again; that is shown
by the theorems of section 8. `settlement` leaves out `pending`, which no status may be
followed by and every update to it is therefore refused.
Symmetry is used where only safety is checked. Deadlock is not checked: when every sid
is used up and every ride has ended, nothing is left to do.

Fairness. `ChatSpec` asks weak fairness of the continuations of each handler
(`Fairness`): Redis and Postgres answer, and Node runs each callback it is given.
Nothing is asked of the clients, of the TTL or of the faults.

### Findings

- `stale_answer`: `accept-drive-request` passes `data.status`, which comes from the
  driver's copy of the offer and is always `pending`, to `canTransitionTo`, so a
  second answer (a double tap, a second device) sets a cancelled ride `on_going`.
- `racing_updates`: `update-drive-request-status` checks the status it has read and
  saves after an await. When driver and passenger act at the same time, `cancelled`
  and `arrived` both pass the check of `on_going`, and the later save sets a cancelled
  ride `arrived`.

Also seen while modelling, and stated as assumptions instead of findings because no
text of the repository speaks of them: a rejection removes the session whatever its
status; the end of one ride deletes the pointers of both accounts even if they name
another ride by then; a cancelled ride keeps its pointers; a ride whose row cannot be
written is lost with its hash; ids may repeat, and the second ride then overwrites
the first one's row, or mixes with it; and an acceptance or a rejection is taken from any
account, so that the pointer of a passenger who is named is written and the request that
is named is taken or removed.

### The chat: `RideChat`

`RedisDriveRequestStore` deletes the list of messages and the hash of a session in one
MULTI; the TTL is the hash's alone; `chat-message` appends to the list of any sid the
app names, whether or not there is a session. `messages[s]` keeps of each message only
whether there was a hash when it came. Every step of `DriveSession` is a `SessionStep`,
which also empties the lists of the sessions it removes; `ChatMessage` is the append.

`ChatGoesWithRide`: once a handler has removed a ride, no message of the ride is left,
also when a handler that was under way brings the hash back in part or removes it again.
Two things are not promised, and happen: messages that come after the removal make a new
list that nothing deletes, and a hash that runs out of its TTL leaves its list behind.

`CompletedIsRecorded`, checked in the same run, needs no assumption on the apps: of two
completions that race, the one whose insert is refused has lost to the one that wrote
the row. It does need that no query fails and no process dies.

## 4. The dispatch: `Dispatch`

| Model | Code |
|---|---|
| `sock[x]` | one connection of a driver app: its account, whether `handleDriverConnection` has gone through, the room it joined, `socket.data.online` and `socket.data.cooldown` |
| `home[d]` | the driver's `serviceSpotId` in the database |
| `search[h]` | the local variables of `findDriverSocketToOfferJob` and what called it |
| `offers` | `job-offer`s in the apps' hands |
| `rest[d]`, `steady[h]` | history: what is left of an account's minute; the sockets a search could have picked at any time since it began |

`Connect` and `Join` are the two halves of a connection: the handler is not awaited, so
messages of the same socket are handled in between and `Join` sets `online` to false
over them. A driver without a spot, or a failing query, makes that half throw where
nobody catches it, which ends the process (`Refuse`). The search is an action per room:
`Look` fetches the sockets of the first room, `Pick` filters them *by their flags of
now*, draws one, keeps it unless it is the passenger's own, and fetches the next room;
the last room that yields a driver wins. `Offer` goes to the room of the account, which
may be empty. `Reject` sets the cooldown on the socket the rejection came by and starts
the search again; like the handler, it does not ask whether there was an offer. A body
without an origin has its cooldown too and then no search (`RejectNowhere`; what its catch
removes is in `DriveSession`). `Tick` is `moment()`; a cooldown is kept as the time that
is left.

| Property | Says | Holds under |
|---|---|---|
| `NobodyDrivesThemselves` | no offer goes to the account that asked | anything |
| `FreeDriverFound` | a search that ends with NO_DRIVER_AVAILABLE passed over no socket that was in a nearby room and available all along | the passenger is no driver |
| `RestingAreNotDrawn` | no search draws a driver, on an open connection, within the minute after the driver rejected | `connects_rested` |
| `CooldownRespected` | no offer goes out within the minute after a rejection | not at all: `cooldown` |

`FreeDriverFound` needs its exception: the code draws one socket per room and skips the
room when the draw is the passenger's own. `connects_rested` is that a driver connects
only without another connection and not within the minute after a rejection; apart from
that connections close, toggle and come back at any moment. `RestingAreNotDrawn` is then
about searches beside which drivers reject: a socket that was seen in its room before it
rejected is not drawn any more, since the flags are read at the draw. A rejection that
comes after the draw does not stop the offer of that draw, so `CooldownRespected`, what
the comment in the code says, does not hold even then.

| Run | Instance | Distinct states |
|---|---|---|
| `dispatch` | 2 passengers and 2 drivers with an account in both roles, 2 sockets, 2 spots, 1 search, a minute of 1 tick, crash and failing queries, any rejection, `connects_rested` | 1 554 000 |
| `cooldown` | 1 passenger, 1 driver, 2 sockets, 2 spots in either order, 1 search, no faults; drivers connect as they like and reject only what they were offered | violates `CooldownRespected` |

Two sockets are enough for a pick to replace another, for one to be passed over, and for
a driver to come back on another connection; two spots for the order of the rooms; one
tick for the moment at which a cooldown ends. One search is enough: searches interact only
through the flags of the sockets, which other actions change in every way a second search
would, the cooldown between the look and the draw included (`RejectNowhere`). The proofs
are for any number of searches, and `NobodyDrivesThemselves` and `FreeDriverFound` are
proved for any number of connections per driver. Deadlock is not checked: when every socket
is closed nobody asks. There is no liveness here: the loop is over a finite list.

Finding `cooldown`: the comment "Cooldown driver for 1 minutes before they can get
another job offer" (`src/drive-requests/drive-requests.gateway.ts:216`) does not hold of
a driver who reconnects or has a second device, since the cooldown is kept on the socket.

Also seen: the test of an expired cooldown does not ask whether the socket is online, so
a driver who has rejected once and then goes offline is offered jobs again after the
minute; a socket stays in the room of the spot it connected with. No text of the
repository says otherwise, so neither is a finding.

## 5. Membership and invite codes: `Membership`, `InviteCode`

| Model | Code |
|---|---|
| `invitation[c]`, `spotCode[s]` | the Redis keys `invitation:{code}` and `service-spot:{id}:invite-code`, with their TTLs |
| `ask[h]` | a call of `getInviteCode` between its three commands |
| `row[d]` | `serviceSpotId` and `role` of the driver's row |
| `creator[s]` | the row of the service spot, named by who created it |
| `job[h]` | a request of `ServiceSpotsController` or `joinServiceSpot` between its queries |
| `drawnFor`, `told` | history: the spot each code was drawn for; the last TTL told with a code, and what is left of it |
| `cameBy[d]` | history: the last code that a join of the driver resolved, none once the driver is removed |

| Request | Actions |
|---|---|
| `GET drivers/me` | `Register` (the insert; the ratings are in `Feedback`) |
| `POST service-spots` | `CreateCheck`, `CreateRead`, `CreateSave`, `CreateCommit` |
| `service-spot/join` | `JoinCheck`, `JoinResolve`, `JoinUpdate` |
| removal of a driver | `RemoveCheck`, `RemoveRead`, `RemoveSave` |
| invite code | `InviteCheck`, `Invite` (its first command), `ReadInvitation`, `SetKeys` or `ReadTtl` |
| any | `Fail`, `Crash`; `Tick`, `ExpireInvitation`, `ExpireSpotCode` for the TTLs |

Transactions run at READ COMMITTED: what one writes is seen from its commit on, and the
rows it has updated are locked until then (`Locked`). The two keys of a code are set one
after the other, so their TTLs may end in either order.

| Property | Says | Holds under |
|---|---|---|
| `SpotKeepsOwner` | the owner of a spot is who created it, and the only one | `one_request_each` |
| `StaysUntilRemoved` | a driver leaves a spot only by a removal by its owner | `one_request_each` |
| `MembersWereInvited` | a driver in a spot created it or, since last being removed, named a code that was drawn for it | `fresh_codes`, `one_request_each` |
| `CodeLastsAsTold` | a code leads to its spot for the time that was told with it | `fresh_codes` |
| `TtlToldIsTime` | the TTL that is told is a time | not at all: `invite_ttl` |

| Run | Instance | Distinct states |
|---|---|---|
| `membership` | 3 drivers, 2 spots, 2 codes, 2 requests under way, a TTL of 1 tick, failing queries and crashes | 556 000 (with symmetry) |
| `invite_ttl` | `InviteCode` alone: 2 spots, 2 codes, 2 calls | violates `TtlToldIsTime` |

Three drivers are an owner, a member and one who is on the way in; two spots what it
takes to move from one to the other; two codes what it takes to draw a second for the
same spot. Each request checks once and writes once, so two of them under way give every
race between a check and a write. Deadlock is not checked: spots and codes are used up.

`MembersWereInvited` does not say that a removed driver stays away: a code works until it
expires, and the driver may name it again.

Finding `invite_ttl`: `getInviteCode` asks for the TTL after the GET that found the
invitation. When the key expires in between, the answer is a code that leads nowhere with
a `ttl` of -2, where the DTO has "Time in seconds when the invite code expires" and
`@IsPositive()` (`src/service-spots/dto/service-spot-invite.dto.ts:13`, `:16`).

## 6. Feedback and the pool: `Feedback`, `ConnectionPool`

`ConnectionPool` is the pool (`conn`, `queue`) and the discipline of its three users:
no request waits for two connections, or asks for one when it has two. `Feedback` is
one of them, statement by statement:

| Model | Code |
|---|---|
| `ratings[d]` | the rows of `driver_rating` of a driver: per category a sum and a count |
| `given[d]` | the rows of `drive_request_feedback`, by their number and sum |
| `registered` | the rows of `driver` |
| `job[h]` | a call of `createFeedback` or of the first `drivers/me` |
| `Scores(form, c)`, `Rates(form)` | the places of a form that score a category, and the scores at all places |
| `clean`, `left` | history: drivers whose feedbacks came whole and one by one; the bound |

`Give` asks for the connection of the transaction, `Begin` has it and asks for a second
one, `InsertRows` commits the feedback through that second one, outside the transaction.
`Find` reads the ratings and counts up in memory. `save()` is two steps: `Reload` reads
the rows again and compares, `Update` writes *the columns that differ* and locks their
rows, `Commit` makes them visible. `MeFind`, `MeInsert` and `MeRate` are the first call
of `drivers/me`: the driver's row, then the ratings in a transaction of their own.

| Property | Says |
|---|---|
| `CountsBacked` | a rating counts no feedback that is not in the table, however feedbacks overlap and whatever is rolled back |
| `RatingsExact` | as long as a driver's feedbacks come one by one and whole, the ratings are the initial 5 and what was given, to the last score |
| `StallTakesAll` | if every connection is held by a request that waits for another (`Stalled`), as many requests as connections hold one each |
| `PoolSpec` | `Feedback` keeps the pool's discipline: a step simulation |
| `FeedbackEnds` | a feedback that waits for its connection comes to an end, unless the pool stalls |

Run `feedback`: 3 requests, 2 connections, 1 driver, 2 categories, 3 forms (one
category, both, one category twice), 3 feedbacks, failing queries and crashes; 131 000
distinct states. Two requests overlap at every pair of statements and can stall a pool of
two, a third is there while they do; three feedbacks are two that overlap and one that
comes after; drivers do not interact but through the pool.
`FairSpec` asks weak fairness of the pool's queue and of each request's continuation:
Postgres answers, callbacks are run, and a connection that is free is handed out.
Deadlock is not checked: the feedbacks are used up.

Nothing in the code limits the requests: ten transactions at once, with the ten
connections that are pg-pool's default, wait for each other for ever. The run reaches such
states. What is promised is that this is the only way: a connection is never left with a
request that failed, rolled back or died, and none holds two while it waits
(`StallTakesAll`), so that it really takes ten at once; and row locks, queues and failures
keep no feedback from ending (`FeedbackEnds`).

Not promised, and what the code does: overlapping feedbacks lose a score or a count, or
one of the two, so that an average above 5 is possible; a rollback keeps the rows of the
feedback, which then no rating counts; a driver whose ratings were never created (a
failure after the driver's row) is never rated.

## 7. Pricing: `Pricing`

`Price(metres)` is `calculatePriceByDistanceMeters`: the distance is floored to
kilometres before it is compared with tiers that begin at 1.1 and 1.5 km. It has no
state and no run; two theorems say that a longer way is never cheaper, across the
borders of the tiers as within them, and that a price is from 15 to 90 and never 20,
the tier of 1.5 km being out of reach. A distance that Google leaves out because it is 0
is `undefined` in the code, passes the guard and costs 90: it is no number and not in
`Distances`.

## 8. Proofs

All theorems are for any number of accounts, requests, sockets, spots, codes,
connections and handlers. They rest on the named assumptions of the modules: `None` is
none of the values it stands beside, switches are subsets of what they may name, TTL and
cooldown are positive, a form is a sequence of a category and a number (what Postgres
takes of it). The inductive invariants named below were checked by TLC on the instances
of the runs before they were proved. `PROJECT.json` lists them; this is how they go.

**`DriveSessionProofs`: any faults, in three layers.**

- *Nothing assumed of the apps*: `FieldsAgreeHolds`, `TypeCorrect`, `RowsAreSound`.
  `RowsSound` is not inductive: the row is written from what a handler read several steps
  ago, from a hash to which others wrote, and of a row that is there only some columns are
  written. What is inductive is that no copy *that leads to a row* is ever wrong, however
  stale or incomplete: each field of a hash (`SessionAgrees`) or of a handler that
  completes a ride (`JobsAgree`) is missing, or is what the request was made with, or a
  driver whose acceptance was saved. What an app claims of others gets into a handler that
  accepts, and from there into a pointer, but into no hash. `FieldsAgree` is their
  conjunction, with a lemma for each action and in it a step for each conjunct the action
  can disturb.
- *`genuine_answers`*: `AgreementHolds`, `PointersAreSound`. `Agreement` adds that offers
  (`OffersAgree`) and handlers that accept (`AnswersAgree`) hold the request's own
  passenger, and that no acceptance of a request by its own passenger was ever saved
  (`AcceptedByOthers`). Ids may repeat.
- *`fresh_ids`*: `SettledStaysRemovedHolds`, whatever the apps send. It needs two more
  facts: ids differ (`IdsDistinct`), and most steps are `Quiet`: they give no session an
  id, make no handler settle a ride and touch neither requests nor rows. Only `Request`,
  `CompleteRemove` and the two writes of a row are not, and get a lemma each.
  `RidesAreSound` takes both assumptions: of distinct ids the two halves of `RowsSound`
  are about one request.

**`DriveSessionOrderProofs`: any faults, under `OrderlyApps`** (offers are answered once,
one handler works on a session at a time, the apps send neither `pending` nor `on_going`
with `update-drive-request-status`). `StatusFollowsMachine` is about a check and a write
that are steps apart, and the check of an acceptance is not even made on the stored
status. `Orderly` (`OrderlyHolds`) says why it works out all the same: a request is in
one pair of hands at a time, one handler's (`OneHandlerEach`) or one driver's
(`OneOfferEach`), never both; what is on offer or being accepted nobody has taken
(`Untaken`); and what an update has checked is still so (`UpdatesChecked`). `Agreement /\
Orderly` is inductive, and the two violations of section 3 show what happens when one of
the first two assumptions is dropped. The third is needed as well: an app that sent
`on_going` itself would take a request that is still on offer. `SettlementsHold` adds
what a completion holds: the hash's own data (`CompletionsChecked`), of which nothing is
left in Redis once it is removed (`RemovedForGood`).

**`DriveSessionAppsProofs`.** With offers answered once and apps that send neither
`pending` nor `on_going` as an update (`AnswersOnce`), but any number of handlers on a
session, the hands are weaker: `TakenOnce` says that a request is in one pair of hands
*until somebody has taken it* (`HeldAlone`, `OffersUntaken`), so that several handlers
only ever work on a ride that is taken (`TakenFirst`), by one driver (`OneDriverEach`),
and never on one that was rejected (`RejectedGone`). `RejectedIsFinalHolds` follows with
fresh ids; so does `RideNeverRewrittenHolds`, for which completions that race write the
same row. `ActiveRideReachableHolds` adds to `OrderlyApps` one ride at a time per account
and no crash. Handlers delete pointers without looking at what they name, so its
invariant, `Reachable`, is about accounts: each is engaged in one ride, by its hash or by
a handler (`EngagedOnce`), and what is on offer is as it was asked for (`OfferedWhole`);
hence pointers that are written or deleted are nobody else's.

**`DriveSessionLifecycleProofs`: the refinement**, under `OrderlyApps` and fresh ids, with
any faults (`ImplementsLifecycleHolds`). The invariant `Kept` is the conjunction of the
above with `Unbilled`: what a completion is about to write is not written. A ride is
then in Redis, in one handler or in the table, and in one of them only, so that `Phase`
and `DriverOf` of each ride can be followed through each action: every action is `Ask`,
`Take`, `Move`, `Cancel`, `Complete`, `Bill` or `Drop` of the rides it names, and leaves
all others.

**`DispatchProofs`: nothing assumed.** `DispatchSound` is inductive: what a search holds
of sockets, rooms and its pick is right (`SearchesSound`); what was available all along
is available now (`SteadyAreEligible`); and the rooms the search has left behind have
yielded a driver if they held one of these, and the room under its eyes was seen with
them (`SteadyAreSeen`). `NobodyDrivesThemselvesHolds`, `FreeDriverFoundHolds` and
`DispatchTypeCorrect` follow.

`RestingAreNotDrawnHolds` takes `connects_rested`, which the run `cooldown` shows it needs.
The cooldown is on a socket where the minute is the account's. `Rested`, inductive beside
`DispatchSound`, relates the two: a driver has one open socket at most (`OneOpenEach`), and
what is left of an open socket's cooldown is what is left of its driver's minute
(`CooldownsRest`). It says nothing of searches: a draw reads the flags in the step in which
it is made, so it does not matter how many searches there are, what they saw before, or who
rejected meanwhile.

**`MembershipProofs`: five results, each from the assumptions it needs.**

- *Nothing assumed*: `MembershipTypeOKHolds`. What a request writes is what it read some
  queries ago, so `TypeOK` is inductive only with the shape of what requests and calls
  carry from await to await (`JobsAreWhole`, `AskingIsWhole`, together `Shape`).
- *`fresh_codes`*, for `InviteCode` alone: `CodesSound` is inductive. Every key, call and
  answer that names a code names it with the spot it was drawn for (`OneSpotPerCode`), so
  that a call which writes late can only lengthen the life of its own code; hence
  `CodeLastsAsToldHolds`.
- *`fresh_codes`*, for `Membership`: `CodesLastAmongMembers`, requests of one driver
  overlapping as they like.
- *`fresh_codes` and `one_request_each`*: `MembersWereInvitedHolds`. `Invited` adds to
  `CodesSound` and to `Owned` below that the last code named by who is on the way into a
  spot is one of that spot (`JoinersInvited`). A removal forgets the code, so it must not come between
  a join's code and its update: the driver whose join is under way is in no spot to be
  removed from, which is part of `Owned`.
- *`one_request_each`*: `Owned`. What a request has read of its driver is still so when it
  writes (`ChecksStillHold`), since no other request of that driver is under way and a
  removal of it needs it to be in a spot. `SpotKeepsOwnerHolds` and
  `StaysUntilRemovedHolds` follow, codes repeating as they like.

**`FeedbackProofs`, the pool**, for any number of requests and a finite pool.
`PoolSoundHolds`: a request that waits holds one connection at most and is in the queue once
(`WaitersHoldOne`). `StallTakesAllHolds` is then a matter of counting: in a stall, who holds
each connection is a bijection between the connections and the requests that hold one and
wait. `UsesThePool` is the simulation: each step of `Feedback` is a step of `PoolSpec` or
leaves the pool alone, by an invariant that says which statements hold how many connections,
a failure and a crash included; `FeedbackStallTakesAll` combines the two.

**`FeedbackProofs`, the ratings**, for finitely many requests under way and forms of any
length. `CountsBacked` is not inductive: a rating is written from a count that was read
before other feedbacks were counted, and one that rolls back leaves rows nobody counts.
`RoomToCount` says what is: the rows of a category are at least the count of the rating
*plus the feedbacks still to be counted*, and also at least the count a request has in
memory plus all the others that are still to be counted. A request that writes an old
count can only lose counts. With the requests' shape (`JobsWhole`) and the single creation
of the ratings (`RatedOnce`) this is `CountsSound`, from which `FeedbackTypeOKHolds` and
`CountsBackedHolds` follow. `RatingsExactHolds` needs `RatingsSound`: while a driver is
clean, the one request that is busy with it carries what the table should say, and the
columns it has marked as changed are all that differ (the others may be left unwritten).

Both need to know what a form adds up to, which is a sum over a set. That a sum of scores
is a number, and that a category scored once adds that score, is proved over finite sets
by the smallest counterexample: strict inclusion is well-founded on finite subsets, and a
smallest set for which a fact failed would lose an element and still fail. The library's
induction theorems, which take an operator as a parameter, are not used.

**`DriveSessionLifecycleProofs`, the chat**: `ChatGoesWithRideHolds`, any faults, nothing
assumed of the apps. `ChatGoesWithRide` is about a list and a hash that go by different
ways, so the proof is about how a hash can go: `HashesGo` says that a hash which is there
before a step and not after it went by its TTL or by the MULTI that deletes its list as
well. A save of a part of a hash could leave nothing only if it saved nothing:
`UpdatesNamed` says that a handler about to save a status has one.

**`Pricing`**: `PriceIsMonotone`, `PriceIsBounded`, for every distance.

Model-checked only: `CompletedIsRecorded` and `FeedbackEnds`, since liveness under fairness
is out of the prover's reach. Every invariant and every other action property of the
passing runs is proved; the assumptions of each theorem are those in force in its run, or
fewer.

## 9. Not modelled

- *Users, authentication, addresses, HTTP clients, bootstrap, configuration, migrations*:
  one database statement, a read-through cache, or nothing over time. Two migrations
  of static data are 8407 of the repository's 13319 lines of code.
- *Data*: in the core what the messages show (routes, prices, names) and the emits that
  only inform; scores are numbers of any size, since the body of the feedback is an array
  whose elements the validation pipe does not check. A score sent as a string, which
  JavaScript would append to the sum and Postgres convert to a number, is not modelled.
- *Dispatch*: an offline socket without a cooldown that passes the filter all the same,
  because the clock moves on by a millisecond between its two calls of `moment()`
  (`moment(undefined)` is now); the geocoding between the pick and the offer changes
  nothing and is part of `Offer`.
- *Membership*: `ServiceSpotsService.remove` and `DriversService.removeFromServiceSpot`
  have no caller. The upload of an image is a failure or nothing. Its two transactions
  use the pool in the way `createFeedback` does; `ConnectionPool` is about all three,
  but only `createFeedback` is composed with it. The statements of `drivers/me` take one
  connection each and are left out of the pool.
- *Failures of the Redis server*: its client queues commands until it is back. A failing
  `BEGIN`, before the `try`, fails with its connection, which TypeORM takes back itself.
