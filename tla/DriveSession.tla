---------------------------- MODULE DriveSession ----------------------------
(***************************************************************************)
(* A drive request from the passenger's "request-drive" to the row in the  *)
(* drive_request table: the handlers of DriveRequestsGateway that write,   *)
(* the Redis hash of the session (RedisDriveRequestStore), the per-account *)
(* pointers `${id}:drive-request-session` and DriveRequestsService.create. *)
(*                                                                         *)
(* Node runs one callback at a time and yields at each await, so a handler *)
(* is a chain of actions cut where another handler can run in between: at  *)
(* the awaits that follow or precede a command on Redis or Postgres.       *)
(* Every command goes through one Redis connection, which keeps their      *)
(* order: a command takes effect in the step that sends it, and the        *)
(* continuation of the await is a later step.                              *)
(***************************************************************************)
EXTENDS FiniteSets, Naturals

CONSTANTS
  Users,        \* passengers' account ids
  Drivers,      \* drivers' account ids; one account may be both
  Sids,         \* session ids handed out by nanoid(), never twice
  Ids,          \* drive request ids, DR-YYMMDD- and six random digits
  Handlers,     \* slots for handler invocations in progress at one time
  AppStatuses,  \* statuses the apps send with update-drive-request-status
  Faults,       \* what may go wrong: see FaultKinds
  Assumed,      \* what is taken for granted of the outside: see Assumptions
  None          \* null, a missing hash field, an absent key

PENDING   == "pending"
ON_GOING  == "on_going"
ARRIVED   == "arrived"
PICKED_UP == "picked_up"
COMPLETED == "completed"
CANCELLED == "cancelled"

Statuses == {PENDING, ON_GOING, ARRIVED, PICKED_UP, COMPLETED, CANCELLED}

(***************************************************************************)
(* "crash": the app's process dies and is restarted; "database": a query   *)
(* of Postgres fails; "expiry": the day of a hash's TTL runs out; "network"*)
(* an emitted job-offer reaches no socket.                                 *)
(***************************************************************************)
FaultKinds == {"crash", "database", "expiry", "network"}

(***************************************************************************)
(* Nothing in the server enforces these; a run that needs one names it.    *)
(* "answer_once": an offer is answered once (one device, no double tap).   *)
(* "one_at_a_time": no two handlers work on one session at the same time.  *)
(* "one_ride_each": an account asks for, or accepts, a ride only when it   *)
(* takes part in no other. "fresh_ids": six random digits do not repeat.   *)
(* "genuine_answers": an account answers only offers it was sent, and sends*)
(* them back as they came; "answer_once" is about these. Without it any    *)
(* account accepts or rejects any request, in the name of any passenger.   *)
(***************************************************************************)
Assumptions ==
  {"genuine_answers", "answer_once", "one_at_a_time", "one_ride_each", "fresh_ids"}

Accounts == Users \cup Drivers

ASSUME NoneIsNoValue == None \notin Accounts \cup Sids \cup Ids \cup Statuses

ASSUME ConstantsAreSane ==
  /\ AppStatuses \subseteq Statuses
  /\ Faults \subseteq FaultKinds
  /\ Assumed \subseteq Assumptions
  /\ "answer_once" \in Assumed => "genuine_answers" \in Assumed

VARIABLES
  session,     \* the hash drive-request:{sid}; all fields None: no such key
  pointer,     \* the key {account}:drive-request-session
  rides,       \* the rows of drive_request by primary key
  offers,      \* job-offers in the driver apps' hands, as far as answers rest on them
  job,         \* what each handler invocation keeps across its awaits
  request,     \* history: the id and the passenger a sid was handed out for
  acceptedBy,  \* history: accounts whose acceptance was saved
  rejected     \* history: sids whose passenger was told drive-request-rejected

redis == <<session, pointer>>
history == <<request, acceptedBy, rejected>>
vars == <<session, pointer, rides, offers, job, request, acceptedBy, rejected>>

Sessions == [id: Ids \cup {None}, userId: Users \cup {None},
             driverId: Accounts \cup {None}, status: Statuses \cup {None}]

Absent == [id |-> None, userId |-> None, driverId |-> None, status |-> None]

Rows == [userId: Users, driverId: Drivers]

NoRow == [userId |-> None, driverId |-> None]

\* An offer, and an answer to one: who answers, which session and which passenger
\* the app names. Its status is always PENDING, with any other it is refused.
Offers == [driver: Accounts, sid: Sids, userId: Accounts]

NoRequest == [id |-> None, userId |-> None]

AcceptPCs   == {"accept_save", "accept_publish"}
CompletePCs == {"complete_remove", "complete_lookup", "complete_insert",
                "complete_update", "complete_finish"}
UpdatePCs   == {"update_save"} \cup CompletePCs
PCs         == {"idle", "offer"} \cup AcceptPCs \cup UpdatePCs

\* The row of the session is gone from Redis and not yet settled in Postgres.
SettlingPCs == {"complete_lookup", "complete_insert", "complete_update"}

\* The columns of a row that handlers disagree about.
Columns == {"userId", "driverId"}

Jobs == [pc: PCs, sid: Sids \cup {None}, id: Ids \cup {None},
         userId: Accounts \cup {None}, driverId: Accounts \cup {None},
         next: Statuses \cup {None}, changed: SUBSET Columns]

Idle == [pc |-> "idle", sid |-> None, id |-> None, userId |-> None,
         driverId |-> None, next |-> None, changed |-> {}]

Init ==
  /\ session = [s \in Sids |-> Absent]
  /\ pointer = [a \in Accounts |-> None]
  /\ rides = [i \in Ids |-> NoRow]
  /\ offers = {}
  /\ job = [h \in Handlers |-> Idle]
  /\ request = [s \in Sids |-> NoRequest]
  /\ acceptedBy = [s \in Sids |-> {}]
  /\ rejected = {}
-----------------------------------------------------------------------------
(***************************************************************************)
(* The store.                                                              *)
(***************************************************************************)
\* Fault: a request nobody has taken may be cancelled.
NextStatusesCancelPending(current) ==
  CASE current = PENDING   -> {ON_GOING, CANCELLED}
    [] current = ON_GOING  -> {ARRIVED, CANCELLED}
    [] current = ARRIVED   -> {PICKED_UP, CANCELLED}
    [] current = PICKED_UP -> {COMPLETED}
    [] OTHER               -> {}

NextStatuses(current) ==
  CASE current = PENDING   -> {ON_GOING}
    [] current = ON_GOING  -> {ARRIVED, CANCELLED}
    [] current = ARRIVED   -> {PICKED_UP, CANCELLED}
    [] current = PICKED_UP -> {COMPLETED}
    [] OTHER               -> {}

CanTransitionTo(current, next) == next \in NextStatuses(current)

Exists(s) == session[s] # Absent

\* HSET keeps the fields that are not written: the caller gives the hash that
\* results, which on a removed key holds nothing but what it wrote itself.
SaveDriveRequest(s, hash) == session' = [session EXCEPT ![s] = hash]

RemoveDriveRequest(s) == session' = [session EXCEPT ![s] = Absent]
-----------------------------------------------------------------------------
(***************************************************************************)
(* The environment's discipline, as far as a run assumes it.               *)
(***************************************************************************)
Running(h) == job[h].pc # "idle"

MayHandle(s) ==
  "one_at_a_time" \in Assumed => \A h \in Handlers : job[h].sid # s

TakesPart(a, r) == a \in {r.userId, r.driverId}

MayRide(a) ==
  "one_ride_each" \in Assumed =>
    /\ \A s \in Sids : TakesPart(a, session[s]) => session[s].status = CANCELLED
    /\ \A h \in Handlers : ~TakesPart(a, job[h])

\* Fault: the id is compared with the sessions in Redis, not with the rows.
MayUseLiveId(i) == \A s \in Sids : session[s].id # i

MayUseId(i) == "fresh_ids" \in Assumed => \A s \in Sids : request[s].id # i

\* An app may name any session that was handed out.
Answers ==
  IF "genuine_answers" \in Assumed THEN offers
  ELSE {o \in Offers : request[o.sid] # NoRequest}

\* A job-offer matters only where answers have to be genuine.
Sent(o) == IF "genuine_answers" \in Assumed THEN {o} ELSE {}

\* The offers left once o has been answered.
Answered(o) == IF "answer_once" \in Assumed THEN offers \ {o} ELSE offers

\* The row a completion is about is in the table.
Found(j) == j.id # None /\ rides[j.id] # NoRow

Goto(h, pc) == job' = [job EXCEPT ![h].pc = pc]

Return(h) == job' = [job EXCEPT ![h] = Idle]
-----------------------------------------------------------------------------
(***************************************************************************)
(* Faulty variants of the handlers below, which the properties tell apart  *)
(* from them.                                                              *)
(***************************************************************************)
\* Fault: the passenger may be offered the passenger's own request.
RequestOwnDriver(h, u, d, s, i) ==
  /\ ~Running(h)
  /\ request[s] = NoRequest
  /\ MayRide(u) /\ MayUseId(i)
  /\ SaveDriveRequest(s, [Absent EXCEPT !.id = i, !.userId = u, !.status = PENDING])
  /\ request' = [request EXCEPT ![s] = [id |-> i, userId |-> u]]
  /\ job' = [job EXCEPT ![h] = [Idle EXCEPT !.pc = "offer", !.sid = s, !.userId = u,
                                            !.driverId = d]]
  /\ UNCHANGED <<pointer, rides, offers, acceptedBy, rejected>>

\* Fault: the offer goes to every driver at once.
RequestOfferAll(h) ==
  /\ job[h].pc = "offer"
  /\ offers' = offers \cup UNION {Sent([driver |-> d, sid |-> job[h].sid,
                                        userId |-> job[h].userId]) :
                                   d \in Drivers \ {job[h].userId}}
  /\ Return(h)
  /\ UNCHANGED <<redis, rides, history>>

\* Fault: the passenger the app names is saved with the acceptance.
AcceptSaveData(h) ==
  LET s == job[h].sid IN
  /\ job[h].pc = "accept_save"
  /\ SaveDriveRequest(s, [session[s] EXCEPT !.status = ON_GOING,
                                            !.userId = job[h].userId,
                                            !.driverId = job[h].driverId])
  /\ acceptedBy' = [acceptedBy EXCEPT ![s] = @ \cup {job[h].driverId}]
  /\ Goto(h, "accept_publish")
  /\ UNCHANGED <<pointer, rides, offers, request, rejected>>

\* Fault: the pointers are published without awaiting the save.
AcceptPublishUnsaved(h) ==
  /\ job[h].pc \in AcceptPCs
  /\ pointer' = [pointer EXCEPT ![job[h].driverId] = job[h].sid,
                                ![job[h].userId] = job[h].sid]
  /\ Return(h)
  /\ UNCHANGED <<session, rides, offers, history>>

\* Fault: only the driver's pointer is set.
AcceptPublishDriver(h) ==
  /\ job[h].pc = "accept_publish"
  /\ pointer' = [pointer EXCEPT ![job[h].driverId] = job[h].sid]
  /\ Return(h)
  /\ UNCHANGED <<session, rides, offers, history>>

\* Fault: the passenger is told, but the session is kept.
RejectRemoveNothing(o) ==
  /\ MayHandle(o.sid)
  /\ rejected' = rejected \cup {o.sid}
  /\ offers' = Answered(o)
  /\ UNCHANGED <<redis, rides, job, request, acceptedBy>>

\* Fault: the status machine is not asked.
UpdateReadUnchecked(h, s, next) ==
  /\ ~Running(h)
  /\ MayHandle(s)
  /\ Exists(s)
  /\ job' = [job EXCEPT ![h] =
       [Idle EXCEPT !.pc = IF next = COMPLETED THEN "complete_remove" ELSE "update_save",
                    !.sid = s, !.id = session[s].id, !.userId = session[s].userId,
                    !.driverId = session[s].driverId, !.next = next]]
  /\ UNCHANGED <<redis, rides, offers, history>>

\* Fault: the whole record that was read is saved back with the new status.
UpdateSaveWhole(h) ==
  /\ job[h].pc = "update_save"
  /\ SaveDriveRequest(job[h].sid,
       [id |-> job[h].id, userId |-> job[h].userId, driverId |-> job[h].driverId,
        status |-> job[h].next])
  /\ Return(h)
  /\ UNCHANGED <<pointer, rides, offers, history>>

\* Fault: a row is updated but never inserted.
CompleteLookupUpdateOnly(h) ==
  /\ job[h].pc = "complete_lookup"
  /\ Goto(h, IF Found(job[h]) THEN "complete_update" ELSE "complete_finish")
  /\ UNCHANGED <<redis, rides, offers, history>>

\* Fault: a ride is stored without a driver.
StorableUndriven(j) == j.id # None /\ j.userId \in Users
-----------------------------------------------------------------------------
(***************************************************************************)
(* request-drive. Looking up the passenger, a driver and the two addresses *)
(* leaves no trace, so the handler starts here at its first write; any     *)
(* driver but the passenger may have been picked. A failure up to here     *)
(* changes nothing.                                                        *)
(***************************************************************************)
Request(h, u, d, s, i) ==
  /\ ~Running(h)
  /\ request[s] = NoRequest
  /\ d # u
  /\ MayRide(u) /\ MayUseId(i)
  /\ SaveDriveRequest(s, [Absent EXCEPT !.id = i, !.userId = u, !.status = PENDING])
  /\ request' = [request EXCEPT ![s] = [id |-> i, userId |-> u]]
  /\ job' = [job EXCEPT ![h] = [Idle EXCEPT !.pc = "offer", !.sid = s, !.userId = u,
                                            !.driverId = d]]
  /\ UNCHANGED <<pointer, rides, offers, acceptedBy, rejected>>

RequestOffer(h) ==
  /\ job[h].pc = "offer"
  /\ offers' = offers \cup Sent([driver |-> job[h].driverId, sid |-> job[h].sid,
                                 userId |-> job[h].userId])
  /\ Return(h)
  /\ UNCHANGED <<redis, rides, history>>

(***************************************************************************)
(* The driver's details cannot be read, or the driver's last socket closed *)
(* before the emit: the session stays pending and nobody has been offered  *)
(* it.                                                                     *)
(***************************************************************************)
RequestUnoffered(h) ==
  /\ Faults \cap {"database", "network"} # {}
  /\ job[h].pc = "offer"
  /\ Return(h)
  /\ UNCHANGED <<redis, rides, offers, history>>

(***************************************************************************)
(* accept-drive-request. Which session, which passenger and which status:  *)
(* the handler takes the app's word for all three. The status it checks is *)
(* the PENDING of the app's copy of the offer, never the stored one.       *)
(***************************************************************************)
AcceptCheck(h, o) ==
  /\ ~Running(h)
  /\ MayHandle(o.sid) /\ MayRide(o.driver)
  /\ Exists(o.sid)
  /\ CanTransitionTo(PENDING, ON_GOING)
  /\ offers' = Answered(o)
  /\ job' = [job EXCEPT ![h] = [Idle EXCEPT !.pc = "accept_save", !.sid = o.sid,
                                 !.userId = o.userId, !.driverId = o.driver]]
  /\ UNCHANGED <<redis, rides, history>>

\* "Drive request not found": nothing is written, but the offer has been answered.
AcceptNotFound(o) ==
  /\ ~Exists(o.sid)
  /\ offers' = Answered(o)
  /\ UNCHANGED <<redis, rides, job, history>>

AcceptSave(h) ==
  LET s == job[h].sid IN
  /\ job[h].pc = "accept_save"
  /\ SaveDriveRequest(s, [session[s] EXCEPT !.status = ON_GOING,
                                            !.driverId = job[h].driverId])
  /\ acceptedBy' = [acceptedBy EXCEPT ![s] = @ \cup {job[h].driverId}]
  /\ Goto(h, "accept_publish")
  /\ UNCHANGED <<pointer, rides, offers, request, rejected>>

AcceptPublish(h) ==
  /\ job[h].pc = "accept_publish"
  /\ pointer' = [pointer EXCEPT ![job[h].driverId] = job[h].sid,
                                ![job[h].userId] = job[h].sid]
  /\ Return(h)
  /\ UNCHANGED <<session, rides, offers, history>>

(***************************************************************************)
(* reject-drive-request looks at no stored state: it finds another driver  *)
(* (the same one again, outside production) and passes on what the app     *)
(* sent, or on any error removes the session the app named, whatever became*)
(* of it meanwhile, and tells the passenger. Its one write is its last     *)
(* step.                                                                   *)
(***************************************************************************)
RejectOffer(o, d) ==
  /\ MayHandle(o.sid)
  /\ d # o.userId
  /\ offers' = Answered(o) \cup Sent([o EXCEPT !.driver = d])
  /\ UNCHANGED <<redis, rides, job, history>>

RejectRemove(o) ==
  /\ MayHandle(o.sid)
  /\ RemoveDriveRequest(o.sid)
  /\ rejected' = rejected \cup {o.sid}
  /\ offers' = Answered(o)
  /\ UNCHANGED <<pointer, rides, job, request, acceptedBy>>

\* The process dies, or the next driver's socket closes, before the new offer.
RejectLost(o) ==
  /\ Faults \cap {"crash", "network"} # {}
  /\ offers' = Answered(o)
  /\ UNCHANGED <<redis, rides, job, history>>

(***************************************************************************)
(* update-drive-request-status. The hash is read, then checked against the *)
(* status machine; what is written later rests on that read. A refused     *)
(* update changes nothing.                                                 *)
(***************************************************************************)
UpdateRead(h, s, next) ==
  /\ ~Running(h)
  /\ MayHandle(s)
  /\ CanTransitionTo(session[s].status, next)
  /\ job' = [job EXCEPT ![h] =
       [Idle EXCEPT !.pc = IF next = COMPLETED THEN "complete_remove" ELSE "update_save",
                    !.sid = s, !.id = session[s].id, !.userId = session[s].userId,
                    !.driverId = session[s].driverId, !.next = next]]
  /\ UNCHANGED <<redis, rides, offers, history>>

\* The emit of drive-request-updated that follows leaves no trace here.
UpdateSave(h) ==
  LET s == job[h].sid IN
  /\ job[h].pc = "update_save"
  /\ SaveDriveRequest(s, [session[s] EXCEPT !.status = job[h].next])
  /\ Return(h)
  /\ UNCHANGED <<pointer, rides, offers, history>>

CompleteRemove(h) ==
  /\ job[h].pc = "complete_remove"
  /\ RemoveDriveRequest(job[h].sid)
  /\ Goto(h, "complete_lookup")
  /\ UNCHANGED <<pointer, rides, offers, history>>

(***************************************************************************)
(* DriveRequestsService.create: repository.save() on an entity that has    *)
(* its primary key selects the row, then inserts it whole or updates the   *)
(* columns in which it differed. No column it writes here may be null, and *)
(* the two accounts are foreign keys.                                      *)
(***************************************************************************)
Changed(j) == IF Found(j) THEN {c \in Columns : j[c] # rides[j.id][c]} ELSE {}

CompleteLookup(h) ==
  /\ job[h].pc = "complete_lookup"
  /\ job' = [job EXCEPT ![h].pc = IF Found(job[h]) THEN "complete_update" ELSE "complete_insert",
                        ![h].changed = Changed(job[h])]
  /\ UNCHANGED <<redis, rides, offers, history>>

Storable(j) == j.id # None /\ j.userId \in Users /\ j.driverId \in Drivers

WriteColumns(j, columns) ==
  rides' = [rides EXCEPT ![j.id] =
    [userId   |-> IF "userId" \in columns THEN j.userId ELSE @.userId,
     driverId |-> IF "driverId" \in columns THEN j.driverId ELSE @.driverId]]

CompleteInsert(h) ==
  /\ job[h].pc = "complete_insert"
  /\ Storable(job[h]) /\ ~Found(job[h])
  /\ WriteColumns(job[h], Columns)
  /\ Goto(h, "complete_finish")
  /\ UNCHANGED <<redis, offers, history>>

CompleteUpdate(h) ==
  /\ job[h].pc = "complete_update"
  /\ Storable(job[h])
  /\ WriteColumns(job[h], job[h].changed)
  /\ Goto(h, "complete_finish")
  /\ UNCHANGED <<redis, offers, history>>

\* A null in a NOT NULL column, an account that is no driver, or a row inserted since
\* the lookup: the query is refused and the handler throws, with the hash already
\* removed. A value that cannot be stored is in no row, so it is in a changed column.
CompleteRefused(h) ==
  /\ \/ job[h].pc \in {"complete_insert", "complete_update"} /\ ~Storable(job[h])
     \/ job[h].pc = "complete_insert" /\ Storable(job[h]) /\ Found(job[h])
  /\ Return(h)
  /\ UNCHANGED <<redis, rides, offers, history>>

CompleteFinish(h) ==
  /\ job[h].pc = "complete_finish"
  /\ pointer' = [pointer EXCEPT ![job[h].driverId] = None, ![job[h].userId] = None]
  /\ Return(h)
  /\ UNCHANGED <<session, rides, offers, history>>
-----------------------------------------------------------------------------
(***************************************************************************)
(* What goes wrong.                                                        *)
(***************************************************************************)
\* A query fails; at "complete_finish" it is the findOne after the save.
QueryFails(h) ==
  /\ "database" \in Faults
  /\ job[h].pc \in SettlingPCs \cup {"complete_finish"}
  /\ Return(h)
  /\ UNCHANGED <<redis, rides, offers, history>>

\* Redis, Postgres and the apps outlive the process; what it was doing is lost.
Crash ==
  /\ "crash" \in Faults
  /\ job' = [h \in Handlers |-> Idle]
  /\ UNCHANGED <<redis, rides, offers, history>>

\* The TTL that every save sets to a day runs out.
Expire(s) ==
  /\ "expiry" \in Faults
  /\ Exists(s)
  /\ RemoveDriveRequest(s)
  /\ UNCHANGED <<pointer, rides, offers, job, history>>
-----------------------------------------------------------------------------
\* The continuation of an await of the invocation in slot h.
Continue(h) ==
  \/ RequestOffer(h)
  \/ AcceptSave(h)
  \/ AcceptPublish(h)
  \/ UpdateSave(h)
  \/ CompleteRemove(h)
  \/ CompleteLookup(h)
  \/ CompleteInsert(h)
  \/ CompleteUpdate(h)
  \/ CompleteRefused(h)
  \/ CompleteFinish(h)

\* A message of a client.
Message(h) ==
  \/ \E u \in Users, d \in Drivers, s \in Sids, i \in Ids : Request(h, u, d, s, i)
  \/ \E o \in Answers : AcceptCheck(h, o)
  \/ \E s \in Sids, next \in AppStatuses : UpdateRead(h, s, next)

Answer(o) ==
  \/ AcceptNotFound(o)
  \/ \E d \in Drivers : RejectOffer(o, d)
  \/ RejectRemove(o)
  \/ RejectLost(o)

Fail(h) == RequestUnoffered(h) \/ QueryFails(h)

Next ==
  \/ \E h \in Handlers : Continue(h) \/ Message(h) \/ Fail(h)
  \/ \E o \in Answers : Answer(o)
  \/ Crash
  \/ \E s \in Sids : Expire(s)

Spec == Init /\ [][Next]_vars

\* Redis and Postgres answer, and the event loop runs every callback it is handed.
Fairness == \A h \in Handlers : WF_vars(Continue(h))
-----------------------------------------------------------------------------
(***************************************************************************)
(* Properties that hold whatever the apps send and the network does.       *)
(***************************************************************************)
\* Every variable keeps its shape: what the Redis hash, the pointer keys, the
\* table and the closures of the handlers can hold.
TypeOK ==
  /\ session \in [Sids -> Sessions]
  /\ pointer \in [Accounts -> Sids \cup {None}]
  /\ rides \in [Ids -> Rows \cup {NoRow}]
  /\ offers \subseteq Offers
  /\ job \in [Handlers -> Jobs]
  /\ request \in [Sids -> [id: Ids \cup {None}, userId: Users \cup {None}]]
  /\ acceptedBy \in [Sids -> SUBSET Accounts]
  /\ rejected \subseteq Sids

\* Of a row of drive_request, which the passenger is charged by, the passenger asked
\* for a ride under that id and the driver sent an acceptance of one: what an app
\* claims of others ends up in no row, though save() writes column by column and
\* completions of requests with one id may mix their columns.
RowsSound ==
  \A i \in Ids : rides[i] # NoRow =>
    /\ \E s \in Sids : request[s] = [id |-> i, userId |-> rides[i].userId]
    /\ \E s \in Sids : request[s].id = i /\ rides[i].driverId \in acceptedBy[s]
-----------------------------------------------------------------------------
(***************************************************************************)
(* Why it holds: what the copies of a request's data agree with.           *)
(***************************************************************************)
\* A hash holds, of the request it was made for, all or nothing of each field.
SessionAgrees ==
  \A s \in Sids :
    /\ session[s].id \in {None, request[s].id}
    /\ session[s].userId \in {None, request[s].userId}
    /\ session[s].driverId \in {None} \cup acceptedBy[s]
    /\ session[s].status # None => request[s].userId # None

JobsAgree ==
  \A h \in Handlers : Running(h) =>
    LET s == job[h].sid IN
    /\ s \in Sids /\ request[s].userId # None
    /\ job[h].pc \in {"offer"} \cup AcceptPCs => None \notin {job[h].userId, job[h].driverId}
    /\ job[h].pc = "offer" => /\ job[h].userId = request[s].userId
                              /\ job[h].driverId \in Drivers \ {job[h].userId}
    /\ job[h].pc = "accept_publish" => job[h].driverId \in acceptedBy[s]
    /\ job[h].pc \in UpdatePCs =>
         /\ job[h].id \in {None, request[s].id}
         /\ job[h].userId \in {None, request[s].userId}
         /\ job[h].driverId \in {None} \cup acceptedBy[s]
    /\ job[h].pc = "complete_update" => Found(job[h])
    /\ job[h].pc = "complete_finish" => Storable(job[h])

\* A request is handed out whole, and only then accepted.
RequestsWhole ==
  \A s \in Sids : /\ request[s].userId = None <=> request[s].id = None
                  /\ acceptedBy[s] # {} => request[s].userId # None

(***************************************************************************)
(* Inductive whatever the apps send: Redis hashes and running handlers are *)
(* copies that go stale, yet each field of a copy is either missing or the *)
(* request's.                                                              *)
(***************************************************************************)
FieldsAgree ==
  /\ TypeOK
  /\ SessionAgrees
  /\ JobsAgree
  /\ RequestsWhole
  /\ RowsSound
-----------------------------------------------------------------------------
(***************************************************************************)
(* Properties that rest on assumptions; each names those it needs.         *)
(***************************************************************************)
\* get-drive-request shows an account only a ride of its own: its pointer names a
\* session it asked for, or one whose acceptance by it was saved. It takes
\* "genuine_answers": accept-drive-request writes the pointer of whatever passenger
\* the app names.
PointerSound ==
  \A a \in Accounts : pointer[a] # None =>
    request[pointer[a]].userId = a \/ a \in acceptedBy[pointer[a]]

\* A row of drive_request is for one request: the passenger who is charged made it,
\* and the driver, who is another, accepted that same one, however the reads and
\* writes of concurrent handlers interleave. It takes "genuine_answers" and
\* "fresh_ids": of two requests with one id save() may mix the columns.
RideSound ==
  \A i \in Ids : rides[i] # NoRow =>
    /\ rides[i].driverId # rides[i].userId
    /\ \E s \in Sids : /\ request[s] = [id |-> i, userId |-> rides[i].userId]
                       /\ rides[i].driverId \in acceptedBy[s]

\* A hash that comes back after its removal (a save that was under way when
\* another handler removed the key) never holds an id again, so no second
\* completion can settle a ride that is being settled or is in the table.
\* It takes "fresh_ids", whatever the apps send.
SettledStaysRemoved ==
  \A s \in Sids :
    \/ request[s] # NoRequest /\ rides[request[s].id] # NoRow
    \/ \E h \in Handlers : job[h].sid = s /\ job[h].pc \in SettlingPCs
    => session[s].id = None

StatusStep ==
  \A s \in Sids :
    \/ session'[s].status \in {session[s].status, None}
    \/ session[s].status = None
    \/ CanTransitionTo(session[s].status, session'[s].status)

\* The stored status moves only along the store's status machine, which is what
\* the handlers' "Invalid drive request status transition" is for. It takes
\* "answer_once" and "one_at_a_time", for the check and the save are apart, and
\* apps that never send on_going with update-drive-request-status.
StatusFollowsMachine == [][StatusStep]_vars

\* A row once written is never changed: repository.save() would update it
\* silently, also when two completions of a ride race. It takes "answer_once" and
\* "fresh_ids", and apps that never send on_going with update-drive-request-status
\* (a request on offer would then move on without its driver).
RideNeverRewritten ==
  [][\A i \in Ids : rides[i] # NoRow => rides'[i] = rides[i]]_vars

\* A passenger who was told drive-request-rejected is never driven nor charged
\* for that request: no hash, no handler and no row is left to make it happen.
\* It takes "answer_once" and "fresh_ids", and apps that never send on_going with
\* update-drive-request-status (a request on offer would then move on by itself).
RejectedIsFinal ==
  \A s \in rejected :
    /\ ~Exists(s) /\ acceptedBy[s] = {}
    /\ rides[request[s].id] = NoRow
    /\ \A h \in Handlers : job[h].sid # s
-----------------------------------------------------------------------------
(***************************************************************************)
(* Why the pointers and rows are sound: under "genuine_answers" offers and *)
(* handlers that accept hold the request's own passenger.                  *)
(***************************************************************************)
Genuine(x, s) == x.userId = request[s].userId /\ x.userId # None

OffersAgree ==
  \A o \in offers : Genuine(o, o.sid) /\ o.driver \in Drivers \ {o.userId}

AnswersAgree ==
  \A h \in Handlers : job[h].pc \in AcceptPCs =>
    Genuine(job[h], job[h].sid) /\ job[h].driverId \in Drivers \ {job[h].userId}

\* No driver's acceptance of the driver's own request was ever saved.
AcceptedByOthers ==
  \A s \in Sids : acceptedBy[s] \subseteq Drivers \ {request[s].userId}

\* Inductive under "genuine_answers".
Agreement ==
  /\ FieldsAgree
  /\ OffersAgree
  /\ AnswersAgree
  /\ AcceptedByOthers
  /\ PointerSound

\* No two requests have been given one id.
IdsDistinct ==
  \A s, t \in Sids : request[s].id = request[t].id /\ request[s].id # None => s = t
-----------------------------------------------------------------------------
(***************************************************************************)
(* Why the status follows the machine in spite of checks made on copies:   *)
(* under "answer_once" and "one_at_a_time" a request is in one pair of     *)
(* hands at a time, a driver's or a handler's.                             *)
(***************************************************************************)
SlotsFree == \A h \in Handlers : Running(h) \/ job[h] = Idle

OneHandlerEach ==
  \A h, g \in Handlers : Running(h) /\ job[h].sid = job[g].sid => h = g

OneOfferEach ==
  /\ \A o, p \in offers : o.sid = p.sid => o = p
  /\ \A o \in offers, h \in Handlers : job[h].sid # o.sid

\* What is still on offer, or being accepted, nobody has taken.
Untaken ==
  /\ \A o \in offers : session[o.sid].status \in {PENDING, None}
  /\ \A h \in Handlers : job[h].pc \in {"offer", "accept_save"} =>
       session[job[h].sid].status \in {PENDING, None}

\* The check of an update is still true when its save comes, unless the hash is gone.
UpdatesChecked ==
  \A h \in Handlers : job[h].pc = "update_save" =>
    LET current == session[job[h].sid].status IN
    current = None \/ CanTransitionTo(current, job[h].next)

\* Inductive together with Agreement.
Orderly == SlotsFree /\ OneHandlerEach /\ OneOfferEach /\ Untaken /\ UpdatesChecked

\* Of a ride that is removed or completed nothing is left in Redis, and what its
\* handler holds of it is what the hash held: no other handler has come between.
StatusesKnown ==
  \A s \in Sids :
    /\ session[s].status # COMPLETED
    /\ session[s].status = None => session[s].id = None /\ session[s].userId = None

UpdatesAskedFor ==
  \A h \in Handlers : job[h].pc = "update_save" => job[h].next \in AppStatuses \ {COMPLETED}

CompletionsChecked ==
  \A h \in Handlers : job[h].pc = "complete_remove" /\ Exists(job[h].sid) =>
    /\ session[job[h].sid].status = PICKED_UP
    /\ session[job[h].sid].id = job[h].id
    /\ session[job[h].sid].driverId = job[h].driverId

RemovedForGood ==
  \A h \in Handlers : job[h].pc \in SettlingPCs \cup {"complete_finish"} => ~Exists(job[h].sid)

\* Inductive together with Agreement and Orderly.
Settlements == StatusesKnown /\ UpdatesAskedFor /\ CompletionsChecked /\ RemovedForGood

(***************************************************************************)
(* Why a row stays what it is and a rejection final under "answer_once":   *)
(* a request goes through one pair of hands until one driver has taken it, *)
(* and only then do several handlers work on it.                           *)
(***************************************************************************)
InHand(h) == job[h].pc \in {"offer", "accept_save"}

HeldAlone ==
  \A h \in Handlers : InHand(h) =>
    /\ acceptedBy[job[h].sid] = {}
    /\ \A g \in Handlers : job[g].sid = job[h].sid => g = h

OffersUntaken == \A o \in offers : acceptedBy[o.sid] = {}

\* What a handler but the one that takes it works on has been taken.
TakenFirst ==
  /\ \A s \in Sids : acceptedBy[s] = {} => session[s].status \in {PENDING, None}
  /\ \A h \in Handlers : Running(h) /\ ~InHand(h) => acceptedBy[job[h].sid] # {}

OneDriverEach == \A s \in Sids : \A d, e \in acceptedBy[s] : d = e

RejectedGone ==
  \A s \in rejected :
    /\ request[s] # NoRequest /\ ~Exists(s) /\ acceptedBy[s] = {}
    /\ \A h \in Handlers : job[h].sid # s
    /\ \A o \in offers : o.sid # s

\* Inductive together with Agreement.
TakenOnce ==
  /\ SlotsFree
  /\ OneOfferEach
  /\ HeldAlone
  /\ OffersUntaken
  /\ TakenFirst
  /\ OneDriverEach
  /\ RejectedGone
-----------------------------------------------------------------------------
Active == {ON_GOING, ARRIVED, PICKED_UP}

\* An app that reconnects during a ride finds it: from the publication of the
\* acceptance to the end of the ride both pointers name it. It takes all of
\* Assumptions but "fresh_ids": a handler that ends one ride deletes the pointers
\* of its two accounts without looking at what they name.
ActiveRideReachable ==
  \A s \in Sids :
    /\ session[s].status \in Active /\ None \notin {session[s].userId, session[s].driverId}
    /\ \A h \in Handlers : job[h].sid = s => job[h].pc # "accept_publish"
    => pointer[session[s].userId] = s /\ pointer[session[s].driverId] = s

(***************************************************************************)
(* Why: under "one_ride_each" an account is engaged in one ride at a time, *)
(* by its hash or by a handler that works on it, so the pointers a handler *)
(* writes or deletes belong to nobody else's ride.                         *)
(***************************************************************************)
Engaged(a, s) ==
  \/ TakesPart(a, session[s]) /\ session[s].status # CANCELLED
  \/ \E h \in Handlers : /\ job[h].sid = s
                         /\ a = job[h].userId \/ (a = job[h].driverId /\ job[h].pc # "offer")

EngagedOnce ==
  \A a \in Accounts : \A s, t \in Sids : Engaged(a, s) /\ Engaged(a, t) => s = t

\* What is on offer is as the passenger asked for it, or gone.
Whole(s, u) == Exists(s) => session[s].userId = u /\ session[s].status = PENDING

OfferedWhole ==
  /\ \A o \in offers : Whole(o.sid, o.userId)
  /\ \A h \in Handlers : job[h].pc = "offer" => Whole(job[h].sid, job[h].userId)

\* Inductive, without crashes, together with the invariants above.
Reachable == EngagedOnce /\ OfferedWhole /\ ActiveRideReachable
-----------------------------------------------------------------------------
\* A completed ride whose hash is complete is recorded once the hash is removed:
\* between the two the ride is nowhere but in the handler. It takes no crash and
\* no failing query.
CompletedIsRecorded ==
  \A h \in Handlers, i \in Ids :
    job[h].pc = "complete_lookup" /\ job[h].id = i /\ Storable(job[h])
      ~> rides[i] # NoRow
=============================================================================
