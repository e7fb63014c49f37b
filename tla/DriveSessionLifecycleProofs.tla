---------------------- MODULE DriveSessionLifecycleProofs ----------------------
(***************************************************************************)
(* ImplementsLifecycle, when each offer is answered once, one handler works*)
(* on a session at a time and the random ids do not repeat, whatever faults*)
(* there are; and what becomes of a ride's chat, whatever the apps do.     *)
(***************************************************************************)
EXTENDS DriveSessionOrderProofs, DriveSessionRefinement, RideChat

USE NoneIsNoValue, ConstantsAreSane DEF Accounts

-----------------------------------------------------------------------------
(***************************************************************************)
(* What the refinement rests on: a ride is in Redis, in one handler or in  *)
(* the table, and in one of them only.                                     *)
(***************************************************************************)
Kept == Agreement /\ Orderly /\ Settlements /\ IdsDistinct /\ SettledStaysRemoved /\ Unbilled

\* A completion starts from a hash that has its id, and nothing else writes its row.
LEMMA NextUnbilled ==
  ASSUME Agreement, Orderly, IdsDistinct, SettledStaysRemoved, Unbilled, [Next]_vars
  PROVE  Unbilled'
<1> DEFINE Holds(h) == job[h].pc \in SettlingPCs \cup {"complete_remove"}
<1>1. \A h \in Handlers : Holds(h) /\ job[h].id # None =>
        /\ job[h].sid \in Sids /\ job[h].id = request[job[h].sid].id /\ job[h].id \in Ids
  BY DEF Agreement, FieldsAgree, TypeOK, Jobs, JobsAgree, UpdatePCs, CompletePCs, SettlingPCs, Running
<1>2. ASSUME rides' = rides,
             \A h \in Handlers : Holds(h)' => Holds(h) /\ job'[h].id = job[h].id
      PROVE  Unbilled'
  BY <1>2 DEF Unbilled
<1>3. ASSUME NEW h \in Handlers, NEW s \in Sids, NEW next \in AppStatuses,
             UpdateRead(h, s, next)
      PROVE  Unbilled'
  <2>1. /\ job'[h].id = session[s].id /\ \A g \in Handlers \ {h} : job'[g] = job[g]
        /\ rides' = rides
    BY <1>3 DEF UpdateRead, Idle, Agreement, FieldsAgree, TypeOK
  <2>2. session[s].id # None => rides[session[s].id] = NoRow
    BY DEF Agreement, FieldsAgree, SessionAgrees, SettledStaysRemoved, NoRequest
  <2> QED  BY <2>1, <2>2 DEF Unbilled
<1>4. ASSUME NEW h \in Handlers, CompleteInsert(h) \/ CompleteUpdate(h)
      PROVE  Unbilled'
  <2>1. Holds(h) /\ Running(h) /\ job[h].id # None
    BY <1>4 DEF CompleteInsert, CompleteUpdate, Storable, SettlingPCs, Running
  <2>2. \A i \in Ids \ {job[h].id} : rides'[i] = rides[i]
    BY <1>4 DEF CompleteInsert, CompleteUpdate, WriteColumns, Agreement, FieldsAgree, TypeOK
  <2>3. job'[h].pc = "complete_finish" /\ \A g \in Handlers \ {h} : job'[g] = job[g]
    BY <1>4 DEF CompleteInsert, CompleteUpdate, Goto, Agreement, FieldsAgree, TypeOK, Jobs
  <2>4. ASSUME NEW g \in Handlers \ {h}, Holds(g), job[g].id # None
        PROVE  job[g].id # job[h].id
    BY <1>1, <2>1, <2>4 DEF IdsDistinct, Orderly, OneHandlerEach
  <2> QED  BY <1>1, <2>2, <2>3, <2>4 DEF Unbilled, SettlingPCs
<1>5. ASSUME NEW h \in Handlers, Continue(h) PROVE Unbilled'
  <2>1. CASE CompleteRemove(h) \/ CompleteLookup(h) \/ AcceptSave(h)
    <3>1. /\ rides' = rides /\ job'[h].id = job[h].id
          /\ Holds(h) \/ job'[h].pc = "accept_publish"
          /\ \A g \in Handlers \ {h} : job'[g] = job[g]
      BY <2>1 DEF CompleteRemove, CompleteLookup, AcceptSave, SettlingPCs, Goto, Agreement,
                  FieldsAgree, TypeOK, Jobs
    <3> QED  BY <1>2, <3>1 DEF SettlingPCs
  <2>2. CASE \/ RequestOffer(h) \/ AcceptPublish(h) \/ UpdateSave(h)
             \/ CompleteRefused(h) \/ CompleteFinish(h)
    <3>1. rides' = rides /\ Return(h)
      BY <2>2 DEF RequestOffer, AcceptPublish, UpdateSave, CompleteRefused, CompleteFinish
    <3> QED  BY <1>2, <3>1 DEF Return, Idle, SettlingPCs, Agreement, FieldsAgree, TypeOK
  <2> QED  BY <1>4, <1>5, <2>1, <2>2 DEF Continue
<1>6. ASSUME NEW h \in Handlers, NEW u \in Users, NEW d \in Drivers, NEW s \in Sids,
             NEW i \in Ids, Request(h, u, d, s, i)
      PROVE  Unbilled'
  <2>1. /\ job'[h] = [Idle EXCEPT !.pc = "offer", !.sid = s, !.userId = u, !.driverId = d]
        /\ \A g \in Handlers \ {h} : job'[g] = job[g]
        /\ rides' = rides
    BY <1>6 DEF Request, Agreement, FieldsAgree, TypeOK
  <2>2. job'[h].pc = "offer"
    BY <2>1 DEF Idle
  <2> QED  BY <1>2, <2>1, <2>2 DEF SettlingPCs
<1>7. ASSUME NEW h \in Handlers, NEW o \in Answers, AcceptCheck(h, o)
      PROVE  Unbilled'
  <2>1. /\ job'[h] = [Idle EXCEPT !.pc = "accept_save", !.sid = o.sid, !.userId = o.userId,
                                  !.driverId = o.driver]
        /\ \A g \in Handlers \ {h} : job'[g] = job[g]
        /\ rides' = rides
    BY <1>7 DEF AcceptCheck, Agreement, FieldsAgree, TypeOK
  <2>2. job'[h].pc = "accept_save"
    BY <2>1 DEF Idle
  <2> QED  BY <1>2, <2>1, <2>2 DEF SettlingPCs
<1>8. CASE \E h \in Handlers : Fail(h)
  BY <1>2, <1>8 DEF Fail, RequestUnoffered, QueryFails, Return, Idle, SettlingPCs, Agreement, FieldsAgree,
                    TypeOK
<1>9. CASE \/ \E o \in Answers : Answer(o)
           \/ \E s \in Sids : Expire(s)
           \/ UNCHANGED vars
  BY <1>2, <1>9 DEF Answer, AcceptNotFound, RejectOffer, RejectRemove, RejectLost, Expire, vars
<1>10. CASE Crash
  BY <1>2, <1>10 DEF Crash, Idle, SettlingPCs
<1> QED  BY <1>3, <1>5, <1>6, <1>7, <1>8, <1>9, <1>10 DEF Next, Message

-----------------------------------------------------------------------------
\* The ride of a session, as the abstract specification sees it, by where it is.
Life ==
  /\ Ride = [s \in Sids |-> Ride[s]]
  /\ \A s \in Sids : request[s] = NoRequest => Ride[s] = Lifecycle!Unused
  /\ \A s \in Sids : session[s].id # None =>
       Ride[s] = [phase |-> session[s].status, user |-> request[s].userId,
                  driver |-> session[s].driverId]
  /\ \A s \in Sids, h \in Handlers : Settling(h, s) =>
       Ride[s] = [phase |-> "settling", user |-> request[s].userId, driver |-> job[h].driverId]
  /\ \A s \in Sids :
       request[s] # NoRequest /\ session[s].id = None /\ ~IsSettling(s) =>
         Ride[s] = IF Billed(s)
                   THEN [phase |-> "billed", user |-> request[s].userId,
                         driver |-> rides[request[s].id].driverId]
                   ELSE [phase |-> "gone", user |-> request[s].userId, driver |-> None]

\* Where Redis, a handler and the table each say of a ride what it is, they do not differ.
LEMMA RideSeen == Kept => Life
<1> SUFFICES ASSUME Kept PROVE Life
  OBVIOUS
<1> DEFINE L(s) == [phase |-> Phase(s), user |-> request[s].userId, driver |-> DriverOf(s)]
<1>1. Ride = [s \in Sids |-> L(s)]
  BY DEF Ride
<1>2. \A s \in Sids : Ride[s] = L(s)
  BY <1>1
<1>3. Ride = [s \in Sids |-> Ride[s]]
  BY <1>1
<1>4. ASSUME NEW s \in Sids, NEW h \in Handlers, Settling(h, s)
      PROVE  /\ Running(h) /\ request[s] # NoRequest /\ session[s].id = None /\ IsSettling(s)
             /\ \A g \in Handlers : Settling(g, s) => g = h
  <2>1. Running(h) /\ job[h].sid = s /\ IsSettling(s)
    BY <1>4 DEF Settling, Running, SettlingPCs, IsSettling
  <2>2. request[s] # NoRequest
    BY <2>1 DEF Kept, Agreement, FieldsAgree, JobsAgree, NoRequest
  <2>3. session[s].id = None
    BY <1>4 DEF Settling, Kept, SettledStaysRemoved, Exists, Absent
  <2>4. \A g \in Handlers : Settling(g, s) => g = h
    BY <2>1 DEF Kept, Orderly, OneHandlerEach, Settling
  <2> QED  BY <2>1, <2>2, <2>3, <2>4
<1>5. ASSUME NEW s \in Sids, request[s] = NoRequest
      PROVE  Ride[s] = Lifecycle!Unused
  <2>1. Phase(s) = "unused"
    BY <1>4, <1>5 DEF Phase, IsSettling
  <2>2. DriverOf(s) = None
    BY <2>1 DEF DriverOf, Statuses, PENDING, ON_GOING, ARRIVED, PICKED_UP, COMPLETED, CANCELLED
  <2> QED  BY <1>2, <1>5, <2>1, <2>2 DEF NoRequest, Lifecycle!Unused
<1>6. ASSUME NEW s \in Sids, session[s].id # None
      PROVE  Ride[s] = [phase |-> session[s].status, user |-> request[s].userId,
                        driver |-> session[s].driverId]
  <2>1. request[s] # NoRequest /\ ~IsSettling(s)
    BY <1>4, <1>6 DEF Kept, Agreement, FieldsAgree, SessionAgrees, NoRequest, IsSettling
  <2>2. ~Billed(s)
    BY <1>6, <2>1 DEF Kept, SettledStaysRemoved, Billed
  <2>3. session[s].status \in Statuses
    BY <1>6 DEF Kept, Settlements, StatusesKnown, Agreement, FieldsAgree, TypeOK, Sessions
  <2>4. Phase(s) = session[s].status
    BY <1>6, <2>1, <2>2 DEF Phase
  <2>5. DriverOf(s) = session[s].driverId
    BY <2>3, <2>4
       DEF DriverOf, Statuses, PENDING, ON_GOING, ARRIVED, PICKED_UP, COMPLETED, CANCELLED
  <2> QED  BY <1>2, <2>4, <2>5
<1>7. ASSUME NEW s \in Sids, NEW h \in Handlers, Settling(h, s)
      PROVE  Ride[s] = [phase |-> "settling", user |-> request[s].userId,
                        driver |-> job[h].driverId]
  <2>1. Phase(s) = "settling"
    BY <1>4, <1>7 DEF Phase
  <2>2. (CHOOSE g \in Handlers : Settling(g, s)) = h
    BY <1>4, <1>7
  <2>3. DriverOf(s) = job[h].driverId
    BY <2>1, <2>2
       DEF DriverOf, Statuses, PENDING, ON_GOING, ARRIVED, PICKED_UP, COMPLETED, CANCELLED
  <2> QED  BY <1>2, <2>1, <2>3
<1>8. ASSUME NEW s \in Sids, request[s] # NoRequest, session[s].id = None, ~IsSettling(s)
      PROVE  Ride[s] = IF Billed(s)
                       THEN [phase |-> "billed", user |-> request[s].userId,
                             driver |-> rides[request[s].id].driverId]
                       ELSE [phase |-> "gone", user |-> request[s].userId, driver |-> None]
  <2>1. CASE Billed(s)
    <3>1. Phase(s) = "billed"
      BY <1>8, <2>1 DEF Phase
    <3>2. DriverOf(s) = rides[request[s].id].driverId
      BY <3>1
         DEF DriverOf, Statuses, PENDING, ON_GOING, ARRIVED, PICKED_UP, COMPLETED, CANCELLED
    <3> QED  BY <1>2, <2>1, <3>1, <3>2
  <2>2. CASE ~Billed(s)
    <3>1. Phase(s) = "gone"
      BY <1>8, <2>2 DEF Phase
    <3>2. DriverOf(s) = None
      BY <3>1
         DEF DriverOf, Statuses, PENDING, ON_GOING, ARRIVED, PICKED_UP, COMPLETED, CANCELLED
    <3> QED  BY <1>2, <2>2, <3>1, <3>2
  <2> QED  BY <2>1, <2>2
<1> HIDE DEF L
<1> QED  BY <1>3, <1>5, <1>6, <1>7, <1>8 DEF Life

\* The handlers of a completion of s go on, and none begins or ends one.
SettlesAlike(s) ==
  \A h \in Handlers : /\ Settling(h, s)' <=> Settling(h, s)
                      /\ Settling(h, s) => job'[h].driverId = job[h].driverId

\* A ride is as it was when its hash, its handlers and its row are.
LEMMA RideUntouched ==
  ASSUME Life, Life', NEW s \in Sids, request'[s] = request[s],
         session'[s].id = session[s].id,
         session[s].id # None => /\ session'[s].status = session[s].status
                                 /\ session'[s].driverId = session[s].driverId,
         rides'[request[s].id] = rides[request[s].id], SettlesAlike(s)
  PROVE  Ride'[s] = Ride[s]
<1>1. CASE request[s] = NoRequest
  BY <1>1 DEF Life, Lifecycle!Unused
<1>2. CASE session[s].id # None
  BY <1>2 DEF Life
<1>3. CASE \E h \in Handlers : Settling(h, s)
  BY <1>3 DEF Life, SettlesAlike
<1>4. CASE request[s] # NoRequest /\ session[s].id = None /\ ~IsSettling(s)
  BY <1>4 DEF Life, Billed, IsSettling, SettlesAlike
<1> QED  BY <1>1, <1>2, <1>3, <1>4 DEF IsSettling

\* The moves of one ride are steps of the lifecycle.
LEMMA OneRideMoves ==
  ASSUME Life, Life', NEW s \in Sids, \A t \in Sids \ {s} : Ride'[t] = Ride[t],
         NEW u, NEW d, NEW from, NEW to,
         <<from, to>> \in {<<ON_GOING, ARRIVED>>, <<ARRIVED, PICKED_UP>>,
                          <<ON_GOING, CANCELLED>>, <<ARRIVED, CANCELLED>>,
                          <<PICKED_UP, "settling">>, <<"settling", "billed">>},
         Ride[s] = [phase |-> from, user |-> u, driver |-> d],
         Ride'[s] = [phase |-> to, user |-> u, driver |-> d]
  PROVE  Lifecycle!Next
<1>1. Lifecycle!Move(s, from, to)
  BY DEF Life, Lifecycle!Move
<1>2. Lifecycle!Advance(s)
  BY <1>1 DEF Lifecycle!Advance, Lifecycle!Cancel, Lifecycle!Complete, Lifecycle!Bill,
              ON_GOING, ARRIVED, PICKED_UP, CANCELLED
<1> QED  BY <1>2 DEF Lifecycle!Next

\* What is lost of a ride that is under way is a step of the lifecycle.
LEMMA RidesDropped ==
  ASSUME Life, Life', NEW lost \in SUBSET Sids,
         \A s \in Sids \ lost : Ride'[s] = Ride[s],
         \A s \in lost : /\ Ride[s].phase \in Lifecycle!Underway
                         /\ Ride'[s] = [phase |-> "gone", user |-> Ride[s].user,
                                        driver |-> None]
  PROVE  Lifecycle!Next
<1>1. Ride' = [s \in Sids |-> Ride'[s]]
  BY DEF Life
<1>2. Ride' = [s \in Sids |->
        IF s \in lost THEN [phase |-> "gone", user |-> Ride[s].user, driver |-> None]
                       ELSE Ride[s]]
  BY <1>1
<1>3. Lifecycle!Drop(lost)
  BY <1>2 DEF Lifecycle!Drop
<1> QED  BY <1>3 DEF Lifecycle!Next

-----------------------------------------------------------------------------
\* A hash that still has its id is of a ride under way that is in no row.
LEMMA LiveUnderway ==
  ASSUME Kept, NEW s \in Sids, session[s].id # None
  PROVE  /\ session[s].status \in Statuses \ {COMPLETED}
         /\ session[s].status \in Lifecycle!Underway
         /\ request[s] # NoRequest /\ ~Billed(s) /\ ~IsSettling(s)
<1>1. session[s].status \in Statuses \ {COMPLETED}
  BY DEF Kept, Settlements, StatusesKnown, Agreement, FieldsAgree, TypeOK, Sessions
<1>2. request[s] # NoRequest
  BY DEF Kept, Agreement, FieldsAgree, SessionAgrees, NoRequest
<1>3. ~Billed(s)
  BY <1>2 DEF Kept, SettledStaysRemoved, Billed
<1>4. ~IsSettling(s)
  BY DEF IsSettling, Settling, Kept, SettledStaysRemoved, Exists, Absent
<1> QED
  BY <1>1, <1>2, <1>3, <1>4 DEF Lifecycle!Underway, Statuses, PENDING, ON_GOING, ARRIVED,
                                PICKED_UP, COMPLETED, CANCELLED

\* What a handler of a completion holds.
LEMMA SettlingHolds ==
  ASSUME Kept, NEW h \in Handlers, NEW s \in Sids, Settling(h, s)
  PROVE  /\ Running(h) /\ job[h].sid = s /\ request[s] # NoRequest
         /\ job[h].id \in Ids /\ job[h].id = request[s].id
         /\ session[s].id = None /\ ~Billed(s)
         /\ \A g \in Handlers \ {h} : job[g].sid # s
<1>1. job[h].pc \in SettlingPCs \cup {"complete_remove"} /\ job[h].sid = s /\ job[h].id # None
  BY DEF Settling
<1>2. Running(h) /\ job[h].pc \in UpdatePCs
  BY <1>1 DEF Running, SettlingPCs, UpdatePCs, CompletePCs
<1>3. job[h].id = request[s].id /\ job[h].id \in Ids
  BY <1>1, <1>2 DEF Kept, Agreement, FieldsAgree, TypeOK, Jobs, JobsAgree
<1>4. request[s] # NoRequest
  BY <1>1, <1>3 DEF NoRequest
<1>5. ~Billed(s)
  BY <1>1, <1>3 DEF Kept, Unbilled, Billed
<1>6. session[s].id = None
  BY DEF Settling, Kept, SettledStaysRemoved, Exists, Absent
<1>7. \A g \in Handlers \ {h} : job[g].sid # s
  BY <1>1, <1>2 DEF Kept, Orderly, OneHandlerEach
<1> QED  BY <1>1, <1>2, <1>3, <1>4, <1>5, <1>6, <1>7

\* A step that touches no hash, request or row, and no completion, moves no ride.
LEMMA NoRideMoves ==
  ASSUME Life, Life', session' = session, request' = request, rides' = rides,
         \A s \in Sids : SettlesAlike(s)
  PROVE  Ride' = Ride
<1>1. \A s \in Sids : Ride'[s] = Ride[s]
  BY RideUntouched
<1> QED  BY <1>1 DEF Life

\* The rides of the other sessions, when one handler or none takes a step on s.
LEMMA OtherRidesStay ==
  ASSUME Life, Life', NEW s \in Sids, NEW t \in Sids \ {s}, request'[t] = request[t],
         session'[t] = session[t], rides'[request[t].id] = rides[request[t].id],
         \A g \in Handlers : job'[g] = job[g] \/ (job[g].sid # t /\ job'[g].sid # t)
  PROVE  Ride'[t] = Ride[t]
<1>1. SettlesAlike(t)
  BY DEF SettlesAlike, Settling, Exists, SettlingPCs, Absent
<1> QED  BY <1>1, RideUntouched

\* request-drive: a ride is asked for.
LEMMA RequestAsks ==
  ASSUME Kept, Life, Life', NEW h \in Handlers, NEW u \in Users, NEW d \in Drivers,
         NEW s \in Sids, NEW i \in Ids, Request(h, u, d, s, i)
  PROVE  Lifecycle!Next
<1>1. /\ session'[s] = [id |-> i, userId |-> u, driverId |-> None, status |-> PENDING]
      /\ \A t \in Sids \ {s} : session'[t] = session[t]
  BY DEF Request, SaveDriveRequest, Absent, Kept, Agreement, FieldsAgree, TypeOK
<1>2. /\ job'[h] = [Idle EXCEPT !.pc = "offer", !.sid = s, !.userId = u, !.driverId = d]
      /\ \A g \in Handlers \ {h} : job'[g] = job[g]
  BY DEF Request, Kept, Agreement, FieldsAgree, TypeOK
<1>3. job'[h].sid = s
  BY <1>2 DEF Idle
<1>4. /\ request'[s] = [id |-> i, userId |-> u]
      /\ \A t \in Sids \ {s} : request'[t] = request[t]
      /\ rides' = rides /\ request[s] = NoRequest
  BY DEF Request, Kept, Agreement, FieldsAgree, TypeOK
<1>5. job[h].sid = None
  BY DEF Request, Kept, Orderly, SlotsFree, Idle
<1>6. ASSUME NEW t \in Sids \ {s} PROVE Ride'[t] = Ride[t]
  <2>1. \A g \in Handlers : job'[g] = job[g] \/ (job[g].sid # t /\ job'[g].sid # t)
    BY <1>2, <1>3, <1>5
  <2>2. request'[t] = request[t] /\ session'[t] = session[t]
    BY <1>1, <1>4
  <2> QED  BY <1>4, <2>1, <2>2, OtherRidesStay
<1>7. Ride[s] = Lifecycle!Unused
  BY <1>4 DEF Life
<1>8. Ride'[s] = [phase |-> PENDING, user |-> u, driver |-> None]
  BY <1>1, <1>4 DEF Life
<1>9. Lifecycle!Ask(s, u)
  BY <1>6, <1>7, <1>8 DEF Life, Lifecycle!Ask, Lifecycle!Unused, PENDING
<1> QED  BY <1>9 DEF Lifecycle!Next, Lifecycle!Advance

\* accept-drive-request: the ride is taken, unless its hash is gone.
LEMMA AcceptSaveTakes ==
  ASSUME Kept, Life, Life', NEW h \in Handlers, AcceptSave(h)
  PROVE  [Lifecycle!Next]_Ride
<1> DEFINE d == job[h].driverId
<1>1. PICK s \in Sids : Running(h) /\ job[h].sid = s /\ job[h].pc = "accept_save"
  BY DEF AcceptSave, Running, Kept, Agreement, FieldsAgree, JobsAgree
<1>2. /\ session'[s].status = ON_GOING /\ session'[s].driverId = d
      /\ session'[s].id = session[s].id
      /\ \A t \in Sids \ {s} : session'[t] = session[t]
  BY <1>1 DEF AcceptSave, SaveDriveRequest, Kept, Agreement, FieldsAgree, TypeOK, Sessions
<1>3. /\ job'[h].pc = "accept_publish" /\ job'[h].sid = s
      /\ \A g \in Handlers \ {h} : job'[g] = job[g] /\ job[g].sid # s
  BY <1>1 DEF AcceptSave, Goto, Kept, Agreement, FieldsAgree, TypeOK, Jobs, Orderly, OneHandlerEach
<1>4. request' = request /\ rides' = rides
  BY DEF AcceptSave, history
<1>5. \A t \in Sids \ {s} : Ride'[t] = Ride[t]
  BY <1>1, <1>2, <1>3, <1>4, OtherRidesStay
<1>6. CASE session[s].id = None
  <2>1. SettlesAlike(s)
    BY <1>1, <1>3 DEF SettlesAlike, Settling, SettlingPCs
  <2>2. Ride'[s] = Ride[s]
    BY <1>1, <1>2, <1>4, <1>6, <2>1, RideUntouched
  <2> QED  BY <1>1, <1>5, <2>2 DEF Life
<1>7. CASE session[s].id # None
  <2>1. session[s].status = PENDING
    BY <1>1, <1>7, LiveUnderway DEF Kept, Orderly, Untaken
  <2>2. Ride[s] = [phase |-> PENDING, user |-> request[s].userId,
                   driver |-> session[s].driverId]
    BY <1>1, <1>7, <2>1 DEF Life
  <2>3. Ride'[s] = [phase |-> ON_GOING, user |-> request[s].userId, driver |-> d]
    BY <1>1, <1>2, <1>4, <1>7 DEF Life
  <2>4. d \in Drivers /\ d # request[s].userId
    BY <1>1 DEF Kept, Agreement, AnswersAgree, Genuine, AcceptPCs
  <2>5. Lifecycle!Take(s, d)
    BY <1>1, <1>5, <2>2, <2>3, <2>4 DEF Life, Lifecycle!Take, PENDING, ON_GOING
  <2> QED  BY <1>1, <2>4, <2>5 DEF Lifecycle!Next, Lifecycle!Advance
<1> QED  BY <1>6, <1>7

\* update-drive-request-status: the ride moves, unless its hash is gone.
LEMMA UpdateSaveMoves ==
  ASSUME Kept, Life, Life', OrderlyApps, NEW h \in Handlers, UpdateSave(h)
  PROVE  [Lifecycle!Next]_Ride
<1>1. PICK s \in Sids : Running(h) /\ job[h].sid = s /\ job[h].pc = "update_save"
  BY DEF UpdateSave, Running, Kept, Agreement, FieldsAgree, JobsAgree
<1>2. /\ session'[s].status = job[h].next /\ session'[s].driverId = session[s].driverId
      /\ session'[s].id = session[s].id
      /\ \A t \in Sids \ {s} : session'[t] = session[t]
  BY <1>1 DEF UpdateSave, SaveDriveRequest, Kept, Agreement, FieldsAgree, TypeOK, Sessions
<1>3. /\ job'[h].pc = "idle" /\ job'[h].sid = None
      /\ \A g \in Handlers \ {h} : job'[g] = job[g] /\ job[g].sid # s
  BY <1>1 DEF UpdateSave, Return, Idle, Kept, Agreement, FieldsAgree, TypeOK, Orderly, OneHandlerEach
<1>4. request' = request /\ rides' = rides
  BY DEF UpdateSave, history
<1>5. \A t \in Sids \ {s} : Ride'[t] = Ride[t]
  BY <1>1, <1>2, <1>3, <1>4, OtherRidesStay
<1>6. CASE session[s].id = None
  <2>1. SettlesAlike(s)
    BY <1>1, <1>3 DEF SettlesAlike, Settling, SettlingPCs
  <2>2. Ride'[s] = Ride[s]
    BY <1>1, <1>2, <1>4, <1>6, <2>1, RideUntouched
  <2> QED  BY <1>1, <1>5, <2>2 DEF Life
<1>7. CASE session[s].id # None
  <2>1. CanTransitionTo(session[s].status, job[h].next)
    BY <1>1, <1>7, LiveUnderway DEF Kept, Orderly, UpdatesChecked
  <2>2. job[h].next \in Statuses \ {PENDING, ON_GOING, COMPLETED}
    BY <1>1 DEF Kept, Settlements, UpdatesAskedFor, OrderlyApps
  <2>3. <<session[s].status, job[h].next>> \in
          {<<ON_GOING, ARRIVED>>, <<ARRIVED, PICKED_UP>>, <<ON_GOING, CANCELLED>>,
           <<ARRIVED, CANCELLED>>}
    BY <2>1, <2>2 DEF CanTransitionTo, NextStatuses, PENDING, ON_GOING, ARRIVED, PICKED_UP,
                      COMPLETED, CANCELLED
  <2>4. /\ Ride[s] = [phase |-> session[s].status, user |-> request[s].userId,
                      driver |-> session[s].driverId]
        /\ Ride'[s] = [phase |-> job[h].next, user |-> request[s].userId,
                       driver |-> session[s].driverId]
    BY <1>1, <1>2, <1>4, <1>7 DEF Life
  <2> QED  BY <1>1, <1>5, <2>3, <2>4, OneRideMoves
<1> QED  BY <1>6, <1>7

\* The completion begins: what the hash held of the ride is in the handler's hands.
LEMMA CompleteRemoveCompletes ==
  ASSUME Kept, Life, Life', NEW h \in Handlers, CompleteRemove(h)
  PROVE  [Lifecycle!Next]_Ride
<1>1. PICK s \in Sids : Running(h) /\ job[h].sid = s /\ job[h].pc = "complete_remove"
  BY DEF CompleteRemove, Running, Kept, Agreement, FieldsAgree, JobsAgree
<1>2. session'[s] = Absent /\ \A t \in Sids \ {s} : session'[t] = session[t]
  BY <1>1 DEF CompleteRemove, RemoveDriveRequest, Kept, Agreement, FieldsAgree, TypeOK
<1>3. /\ job'[h].pc = "complete_lookup" /\ job'[h].sid = s /\ job'[h].id = job[h].id
      /\ job'[h].driverId = job[h].driverId
      /\ \A g \in Handlers \ {h} : job'[g] = job[g] /\ job[g].sid # s
  BY <1>1 DEF CompleteRemove, Goto, Kept, Agreement, FieldsAgree, TypeOK, Jobs, Orderly, OneHandlerEach
<1>4. request' = request /\ rides' = rides
  BY DEF CompleteRemove, history
<1>5. \A t \in Sids \ {s} : Ride'[t] = Ride[t]
  BY <1>1, <1>2, <1>3, <1>4, OtherRidesStay
<1>6. CASE session[s].id = None
  <2>1. Settling(h, s)' <=> Settling(h, s)
    <3>1. Exists(s) => job[h].id = None
      BY <1>1, <1>6 DEF Kept, Settlements, CompletionsChecked
    <3>2. ~Exists(s)'
      BY <1>2 DEF Exists
    <3> QED  BY <1>1, <1>3, <3>1, <3>2 DEF Settling, SettlingPCs
  <2>2. SettlesAlike(s)
    BY <1>3, <2>1 DEF SettlesAlike, Settling
  <2>3. Ride'[s] = Ride[s]
    BY <1>2, <1>4, <1>6, <2>2, RideUntouched DEF Absent
  <2> QED  BY <1>5, <2>3 DEF Life
<1>7. CASE session[s].id # None
  <2>1. /\ session[s].status = PICKED_UP /\ session[s].id = job[h].id
        /\ session[s].driverId = job[h].driverId
    BY <1>1, <1>7 DEF Kept, Settlements, CompletionsChecked, Exists, Absent
  <2>2. Settling(h, s)'
    BY <1>3, <1>7, <2>1 DEF Settling, SettlingPCs
  <2>3. /\ Ride[s] = [phase |-> PICKED_UP, user |-> request[s].userId,
                      driver |-> job[h].driverId]
        /\ Ride'[s] = [phase |-> "settling", user |-> request[s].userId,
                       driver |-> job[h].driverId]
    BY <1>3, <1>4, <1>7, <2>1, <2>2 DEF Life
  <2> QED  BY <1>5, <2>3, OneRideMoves
<1> QED  BY <1>6, <1>7

\* The row is written: the ride is billed, to the driver the handler holds.
LEMMA CompleteSaveBills ==
  ASSUME Kept, Life, Life', NEW h \in Handlers, CompleteInsert(h) \/ CompleteUpdate(h)
  PROVE  Lifecycle!Next
<1>1. PICK s \in Sids : Running(h) /\ job[h].sid = s /\ Settling(h, s) /\ Storable(job[h])
  BY DEF CompleteInsert, CompleteUpdate, Running, Settling, SettlingPCs, Storable, Kept,
         Agreement, FieldsAgree, JobsAgree
<1>2. /\ request[s] # NoRequest /\ job[h].id \in Ids /\ job[h].id = request[s].id
      /\ session[s].id = None /\ ~Billed(s)
      /\ \A g \in Handlers \ {h} : job[g].sid # s
  BY <1>1, SettlingHolds
<1> CompleteInsert(h)
  <2>1. ~Found(job[h])
    BY <1>2 DEF Found, Billed
  <2> QED  BY <2>1 DEF CompleteUpdate, Kept, Agreement, FieldsAgree, JobsAgree, Running
<1>3. /\ job'[h].pc = "complete_finish" /\ job'[h].sid = s
      /\ \A g \in Handlers \ {h} : job'[g] = job[g]
  BY <1>1 DEF CompleteInsert, Goto, Kept, Agreement, FieldsAgree, TypeOK, Jobs
<1>4. session' = session /\ request' = request
  BY DEF CompleteInsert, redis, history
<1>5. /\ rides'[request[s].id] = [userId |-> job[h].userId, driverId |-> job[h].driverId]
      /\ \A i \in Ids \ {request[s].id} : rides'[i] = rides[i]
  BY <1>2 DEF CompleteInsert, WriteColumns, Columns, Kept, Agreement, FieldsAgree, TypeOK
<1>6. ASSUME NEW t \in Sids \ {s} PROVE Ride'[t] = Ride[t]
  <2>1. request[t] # NoRequest => request[t].id \in Ids /\ request[t].id # request[s].id
    BY <1>2 DEF Kept, IdsDistinct, Agreement, FieldsAgree, TypeOK, RequestsWhole, NoRequest
  <2>2. CASE request[t] = NoRequest
    BY <1>4, <2>2 DEF Life, Lifecycle!Unused
  <2>3. CASE request[t] # NoRequest
    BY <1>1, <1>3, <1>4, <1>5, <2>1, <2>3, OtherRidesStay
  <2> QED  BY <2>2, <2>3
<1>7. Billed(s)' /\ ~IsSettling(s)'
  <2>1. Billed(s)'
    BY <1>1, <1>4, <1>5 DEF Billed, NoRow, Storable
  <2>2. ~IsSettling(s)'
    BY <1>2, <1>3 DEF IsSettling, Settling, SettlingPCs
  <2> QED  BY <2>1, <2>2
<1>8. Ride[s] = [phase |-> "settling", user |-> request[s].userId, driver |-> job[h].driverId]
  BY <1>1 DEF Life
<1>9. Ride'[s] = [phase |-> "billed", user |-> request[s].userId, driver |-> job[h].driverId]
  BY <1>2, <1>4, <1>5, <1>7 DEF Life
<1> QED  BY <1>6, <1>8, <1>9, OneRideMoves

\* A row that is refused, or a query that fails: the ride is lost.
LEMMA FailedSettlementDrops ==
  ASSUME Kept, Life, Life', NEW h \in Handlers, job[h].pc \in SettlingPCs, Return(h),
         session' = session, request' = request, rides' = rides
  PROVE  [Lifecycle!Next]_Ride
<1>1. PICK s \in Sids : Running(h) /\ job[h].sid = s
  BY DEF Running, SettlingPCs, Kept, Agreement, FieldsAgree, JobsAgree
<1>2. /\ job'[h].pc = "idle" /\ job'[h].sid = None
      /\ \A g \in Handlers \ {h} : job'[g] = job[g] /\ job[g].sid # s
  BY <1>1 DEF Return, Idle, Kept, Agreement, FieldsAgree, TypeOK, Orderly, OneHandlerEach
<1>3. \A t \in Sids \ {s} : Ride'[t] = Ride[t]
  BY <1>1, <1>2, OtherRidesStay
<1>4. CASE job[h].id = None
  <2>1. SettlesAlike(s)
    BY <1>1, <1>2, <1>4 DEF SettlesAlike, Settling, SettlingPCs
  <2>2. Ride'[s] = Ride[s]
    BY <2>1, RideUntouched
  <2> QED  BY <1>3, <2>2 DEF Life
<1>5. CASE job[h].id # None
  <2>1. Settling(h, s)
    BY <1>1, <1>5 DEF Settling
  <2>2. request[s] # NoRequest /\ session[s].id = None /\ ~Billed(s)
    BY <2>1, SettlingHolds
  <2>3. ~Billed(s)' /\ ~IsSettling(s)'
    BY <1>1, <1>2, <2>2 DEF Billed, IsSettling, Settling, SettlingPCs
  <2>4. Ride[s] = [phase |-> "settling", user |-> request[s].userId, driver |-> job[h].driverId]
    BY <2>1 DEF Life
  <2>5. Ride'[s] = [phase |-> "gone", user |-> request[s].userId, driver |-> None]
    BY <2>2, <2>3 DEF Life
  <2> DEFINE lost == {s}
  <2>6. /\ \A t \in Sids \ lost : Ride'[t] = Ride[t]
        /\ \A t \in lost : /\ Ride[t].phase \in Lifecycle!Underway
                           /\ Ride'[t] = [phase |-> "gone", user |-> Ride[t].user,
                                          driver |-> None]
    BY <1>3, <2>4, <2>5 DEF Lifecycle!Underway
  <2>7. lost \in SUBSET Sids
    OBVIOUS
  <2> HIDE DEF lost
  <2> QED  BY <2>6, <2>7, RidesDropped
<1> QED  BY <1>4, <1>5

\* A hash is removed and no handler holds what it held: the ride is lost.
LEMMA RemovedHashDrops ==
  ASSUME Kept, Life, Life', NEW s \in Sids, session'[s] = Absent,
         \A t \in Sids \ {s} : session'[t] = session[t],
         request' = request, rides' = rides, job' = job,
         session[s].id # None => ~IsSettling(s)',
         session[s].id = None => SettlesAlike(s)
  PROVE  [Lifecycle!Next]_Ride
<1>1. \A t \in Sids \ {s} : Ride'[t] = Ride[t]
  BY OtherRidesStay
<1>2. CASE session[s].id = None
  <2>1. Ride'[s] = Ride[s]
    BY <1>2, RideUntouched DEF Absent
  <2> QED  BY <1>1, <2>1 DEF Life
<1>3. CASE session[s].id # None
  <2>1. /\ session[s].status \in Lifecycle!Underway /\ request[s] # NoRequest /\ ~Billed(s)
    BY <1>3, LiveUnderway
  <2>2. ~Billed(s)'
    BY <2>1 DEF Billed, NoRow
  <2>3. Ride[s] = [phase |-> session[s].status, user |-> request[s].userId,
                   driver |-> session[s].driverId]
    BY <1>3 DEF Life
  <2>4. Ride'[s] = [phase |-> "gone", user |-> request[s].userId, driver |-> None]
    BY <1>3, <2>1, <2>2 DEF Life, Absent
  <2> DEFINE lost == {s}
  <2>5. /\ \A t \in Sids \ lost : Ride'[t] = Ride[t]
        /\ \A t \in lost : /\ Ride[t].phase \in Lifecycle!Underway
                           /\ Ride'[t] = [phase |-> "gone", user |-> Ride[t].user,
                                          driver |-> None]
    BY <1>1, <2>1, <2>3, <2>4
  <2>6. lost \in SUBSET Sids
    OBVIOUS
  <2> HIDE DEF lost
  <2> QED  BY <2>5, <2>6, RidesDropped
<1> QED  BY <1>2, <1>3

\* reject-drive-request finds no driver: the ride is lost, and no handler works on it.
LEMMA RejectRemoveDrops ==
  ASSUME Kept, Life, Life', OrderlyApps, NEW o \in offers, RejectRemove(o)
  PROVE  [Lifecycle!Next]_Ride
<1>1. PICK s \in Sids : o.sid = s
  BY DEF Kept, Agreement, FieldsAgree, TypeOK, Offers
<1>2. session'[s] = Absent /\ \A t \in Sids \ {s} : session'[t] = session[t]
  BY <1>1 DEF RejectRemove, RemoveDriveRequest, Kept, Agreement, FieldsAgree, TypeOK
<1>3. request' = request /\ rides' = rides /\ job' = job
  BY DEF RejectRemove
<1>4. \A h \in Handlers : job[h].sid # s
  BY <1>1 DEF Kept, Orderly, OneOfferEach
<1>5. ~IsSettling(s)' /\ SettlesAlike(s)
  BY <1>3, <1>4 DEF IsSettling, SettlesAlike, Settling
<1> QED  BY <1>2, <1>3, <1>5, RemovedHashDrops

\* The TTL runs out: the ride is lost, unless its completion has begun.
LEMMA ExpireDrops ==
  ASSUME Kept, Life, Life', NEW s \in Sids, Expire(s)
  PROVE  [Lifecycle!Next]_Ride
<1>1. session'[s] = Absent /\ \A t \in Sids \ {s} : session'[t] = session[t]
  BY DEF Expire, RemoveDriveRequest, Kept, Agreement, FieldsAgree, TypeOK
<1>2. request' = request /\ rides' = rides /\ job' = job
  BY DEF Expire, history
<1>3. Exists(s)
  BY DEF Expire
<1>4. \A h \in Handlers : job[h].sid = s => job[h].pc \notin SettlingPCs
  BY <1>3 DEF Kept, Settlements, RemovedForGood
<1>5. CASE \E h \in Handlers : /\ job[h].sid = s /\ job[h].pc = "complete_remove"
                               /\ job[h].id # None
  <2>1. PICK h \in Handlers : /\ job[h].sid = s /\ job[h].pc = "complete_remove"
                              /\ job[h].id # None
    BY <1>5
  <2>2. /\ session[s].status = PICKED_UP /\ session[s].id # None
        /\ session[s].driverId = job[h].driverId
    BY <1>3, <2>1 DEF Kept, Settlements, CompletionsChecked
  <2>3. Settling(h, s)'
    BY <1>1, <1>2, <2>1 DEF Settling, Exists
  <2>4. /\ Ride[s] = [phase |-> PICKED_UP, user |-> request[s].userId,
                      driver |-> job[h].driverId]
        /\ Ride'[s] = [phase |-> "settling", user |-> request[s].userId,
                       driver |-> job[h].driverId]
    BY <1>2, <2>2, <2>3 DEF Life
  <2>5. \A t \in Sids \ {s} : Ride'[t] = Ride[t]
    BY <1>1, <1>2, OtherRidesStay
  <2> QED  BY <2>4, <2>5, OneRideMoves
<1>6. CASE ~\E h \in Handlers : /\ job[h].sid = s /\ job[h].pc = "complete_remove"
                                /\ job[h].id # None
  <2>1. ~IsSettling(s)' /\ SettlesAlike(s)
    BY <1>2, <1>4, <1>6 DEF IsSettling, SettlesAlike, Settling, SettlingPCs
  <2> QED  BY <1>1, <1>2, <2>1, RemovedHashDrops
<1> QED  BY <1>5, <1>6

\* A crash loses every ride that was being settled, and no other.
LEMMA CrashDrops ==
  ASSUME Kept, Life, Life', Crash
  PROVE  Lifecycle!Next
<1>1. /\ session' = session /\ request' = request /\ rides' = rides
      /\ \A h \in Handlers : job'[h].pc = "idle"
  BY DEF Crash, redis, history, Idle
<1>2. \A s \in Sids : ~IsSettling(s)'
  BY <1>1 DEF IsSettling, Settling, SettlingPCs
<1> DEFINE lost == {s \in Sids : IsSettling(s)}
<1>3. ASSUME NEW s \in Sids \ lost PROVE Ride'[s] = Ride[s]
  <2>1. SettlesAlike(s)
    BY <1>2, <1>3 DEF SettlesAlike, IsSettling
  <2> QED  BY <1>1, <2>1, RideUntouched
<1>4. ASSUME NEW s \in lost
      PROVE  /\ Ride[s].phase \in Lifecycle!Underway
             /\ Ride'[s] = [phase |-> "gone", user |-> Ride[s].user, driver |-> None]
  <2>1. PICK h \in Handlers : Settling(h, s)
    BY <1>4 DEF IsSettling
  <2>2. Ride[s] = [phase |-> "settling", user |-> request[s].userId, driver |-> job[h].driverId]
    BY <2>1 DEF Life
  <2>3. request[s] # NoRequest /\ session[s].id = None /\ ~Billed(s)
    BY <2>1, SettlingHolds
  <2>4. ~Billed(s)'
    BY <1>1, <2>3 DEF Billed, NoRow
  <2>5. Ride'[s] = [phase |-> "gone", user |-> request[s].userId, driver |-> None]
    BY <1>1, <1>2, <2>3, <2>4 DEF Life
  <2> QED  BY <2>2, <2>5 DEF Lifecycle!Underway
<1>5. lost \in SUBSET Sids
  OBVIOUS
<1> HIDE DEF lost
<1> QED  BY <1>3, <1>4, <1>5, RidesDropped

\* The continuations of the handlers, one by one.
LEMMA ContinueImplements ==
  ASSUME Kept, Life, Life', OrderlyApps, NEW h \in Handlers, Continue(h)
  PROVE  [Lifecycle!Next]_Ride
<1>1. CASE AcceptSave(h)        BY <1>1, AcceptSaveTakes
<1>2. CASE UpdateSave(h)        BY <1>2, UpdateSaveMoves
<1>3. CASE CompleteRemove(h)    BY <1>3, CompleteRemoveCompletes
<1>4. CASE CompleteInsert(h) \/ CompleteUpdate(h)
  BY <1>4, CompleteSaveBills
<1>5. CASE CompleteRefused(h)
  BY <1>5, FailedSettlementDrops DEF CompleteRefused, redis, history, SettlingPCs
<1>6. CASE RequestOffer(h) \/ AcceptPublish(h) \/ CompleteFinish(h)
  <2>1. /\ session' = session /\ request' = request /\ rides' = rides
        /\ job[h].pc \notin SettlingPCs \cup {"complete_remove"}
        /\ job'[h].pc = "idle" /\ \A g \in Handlers \ {h} : job'[g] = job[g]
    BY <1>6 DEF RequestOffer, AcceptPublish, CompleteFinish, Return, Idle, redis, history,
                SettlingPCs, Kept, Agreement, FieldsAgree, TypeOK
  <2>2. \A s \in Sids : SettlesAlike(s)
    BY <2>1 DEF SettlesAlike, Settling, SettlingPCs, Exists, Absent
  <2> QED  BY <2>1, <2>2, NoRideMoves
<1>7. CASE CompleteLookup(h)
  <2>1. /\ session' = session /\ request' = request /\ rides' = rides
        /\ job[h].pc \in SettlingPCs /\ job'[h].pc \in SettlingPCs
        /\ job'[h].sid = job[h].sid /\ job'[h].id = job[h].id
        /\ job'[h].driverId = job[h].driverId
        /\ \A g \in Handlers \ {h} : job'[g] = job[g]
    BY <1>7 DEF CompleteLookup, Goto, redis, history, SettlingPCs, Kept, Agreement, FieldsAgree, TypeOK, Jobs
  <2>2. \A s \in Sids : SettlesAlike(s)
    BY <2>1 DEF SettlesAlike, Settling, SettlingPCs, Exists, Absent
  <2> QED  BY <2>1, <2>2, NoRideMoves
<1> QED  BY <1>1, <1>2, <1>3, <1>4, <1>5, <1>6, <1>7 DEF Continue

\* A message starts a ride or nothing; a failure ends one or nothing.
LEMMA MessageImplements ==
  ASSUME Kept, Life, Life', OrderlyApps, NEW h \in Handlers, Message(h) \/ Fail(h)
  PROVE  [Lifecycle!Next]_Ride
<1>1. ASSUME ~Running(h), session' = session, request' = request, rides' = rides,
             \A g \in Handlers \ {h} : job'[g] = job[g],
             job'[h].pc \notin SettlingPCs,
             job'[h].pc = "complete_remove" => Exists(job'[h].sid)
      PROVE  [Lifecycle!Next]_Ride
  <2>1. \A s \in Sids : ~Settling(h, s)' /\ ~Settling(h, s)
    BY <1>1 DEF Running, Settling, SettlingPCs, Exists, Absent
  <2>2. \A s \in Sids : SettlesAlike(s)
    BY <1>1, <2>1 DEF SettlesAlike, Settling, SettlingPCs, Exists, Absent
  <2> QED  BY <1>1, <2>2, NoRideMoves
<1> Answers = offers
  BY AnsweredOnce DEF OrderlyApps
<1>2. ASSUME NEW o \in offers, AcceptCheck(h, o) PROVE [Lifecycle!Next]_Ride
  <2>1. /\ job'[h] = [Idle EXCEPT !.pc = "accept_save", !.sid = o.sid, !.userId = o.userId,
                                  !.driverId = o.driver]
        /\ \A g \in Handlers \ {h} : job'[g] = job[g]
    BY <1>2 DEF AcceptCheck, Kept, Agreement, FieldsAgree, TypeOK
  <2>2. job'[h].pc = "accept_save"
    BY <2>1 DEF Idle
  <2>3. ~Running(h) /\ session' = session /\ request' = request /\ rides' = rides
    BY <1>2 DEF AcceptCheck, redis, history
  <2> QED  BY <1>1, <2>1, <2>2, <2>3 DEF SettlingPCs
<1>3. ASSUME NEW s \in Sids, NEW next \in AppStatuses, UpdateRead(h, s, next)
      PROVE  [Lifecycle!Next]_Ride
  <2>1. /\ job'[h].pc \in {"complete_remove", "update_save"} /\ job'[h].sid = s
        /\ \A g \in Handlers \ {h} : job'[g] = job[g]
    BY <1>3 DEF UpdateRead, Kept, Agreement, FieldsAgree, TypeOK
  <2>2. ~Running(h) /\ session' = session /\ request' = request /\ rides' = rides
    BY <1>3 DEF UpdateRead, redis, history
  <2>3. session[s].status # None
    BY <1>3 DEF UpdateRead, CanTransitionTo, NextStatuses, Statuses, PENDING, ON_GOING,
                ARRIVED, PICKED_UP, COMPLETED, CANCELLED
  <2>4. Exists(s)
    BY <2>3 DEF Exists, Absent
  <2> QED  BY <1>1, <2>1, <2>2, <2>4 DEF SettlingPCs
<1>4. CASE \E u \in Users, d \in Drivers, s \in Sids, i \in Ids : Request(h, u, d, s, i)
  BY <1>4, RequestAsks
<1>5. CASE Fail(h)
  <2>1. CASE job[h].pc \in SettlingPCs
    BY <1>5, <2>1, FailedSettlementDrops
       DEF Fail, RequestUnoffered, QueryFails, redis, history
  <2>2. CASE job[h].pc \notin SettlingPCs
    <3>1. /\ session' = session /\ request' = request /\ rides' = rides
          /\ job[h].pc \notin SettlingPCs \cup {"complete_remove"}
          /\ job'[h].pc = "idle" /\ \A g \in Handlers \ {h} : job'[g] = job[g]
      BY <1>5, <2>2 DEF Fail, RequestUnoffered, QueryFails, Return, Idle, redis, history,
                        SettlingPCs, Kept, Agreement, FieldsAgree, TypeOK
    <3>2. \A s \in Sids : SettlesAlike(s)
      BY <3>1 DEF SettlesAlike, Settling, SettlingPCs, Exists, Absent
    <3> QED  BY <3>1, <3>2, NoRideMoves
  <2> QED  BY <2>1, <2>2
<1> QED  BY <1>2, <1>3, <1>4, <1>5 DEF Message

\* Every step is a step of the lifecycle or moves no ride.
LEMMA NextImplements ==
  ASSUME Kept, Life, Life', OrderlyApps, [Next]_vars
  PROVE  [Lifecycle!Next]_Ride
<1> Answers = offers
  BY AnsweredOnce DEF OrderlyApps
<1>1. ASSUME session' = session, request' = request, rides' = rides, job' = job
      PROVE  [Lifecycle!Next]_Ride
  <2>1. \A s \in Sids : SettlesAlike(s)
    BY <1>1 DEF SettlesAlike, Settling, SettlingPCs, Exists, Absent
  <2> QED  BY <1>1, <2>1, NoRideMoves
<1>2. CASE \E o \in offers : Answer(o)
  BY <1>1, <1>2, RejectRemoveDrops
     DEF Answer, AcceptNotFound, RejectOffer, RejectLost, redis, history
<1>3. CASE UNCHANGED vars
  BY <1>1, <1>3 DEF vars
<1> QED
  BY <1>2, <1>3, ContinueImplements, MessageImplements, CrashDrops, ExpireDrops DEF Next

\* The handlers implement RideLifecycle, whatever faults there are: a ride is taken by one
\* driver, moves along the status machine, is billed once, and what is lost stays lost.
THEOREM ImplementsLifecycleHolds ==
  ASSUME OrderlyApps, "fresh_ids" \in Assumed
  PROVE  Spec => ImplementsLifecycle
<1>1. Init => Unbilled
  BY DEF Init, Unbilled, Idle, SettlingPCs
<1>2. Agreement /\ Orderly /\ IdsDistinct /\ SettledStaysRemoved /\ Unbilled /\ [Next]_vars
        => Unbilled'
  BY NextUnbilled
<1>3. Spec => []Agreement /\ []Orderly /\ []Settlements /\ [](IdsDistinct /\ SettledStaysRemoved)
  <2>1. Spec => []Agreement
    BY AnsweredOnce DEF OrderlyApps
  <2> QED  BY <2>1, OrderlyHolds, SettlementsHold, IdsAndSettled, PTL
<1>4. Spec => []Kept
  BY <1>1, <1>2, <1>3, PTL DEF Spec, Kept
<1>5. Spec => []Life
  BY <1>4, RideSeen, PTL
<1>6. Init /\ Life => Lifecycle!Init
  <2> SUFFICES ASSUME Init, Life PROVE Ride = [s \in Sids |-> Lifecycle!Unused]
    BY DEF Lifecycle!Init
  <2>1. \A s \in Sids : Ride[s] = Lifecycle!Unused
    BY DEF Init, Life
  <2> QED  BY <2>1 DEF Life
<1>7. Kept /\ Life /\ Life' /\ [Next]_vars => [Lifecycle!Next]_Ride
  BY NextImplements
<1> QED  BY <1>4, <1>5, <1>6, <1>7, PTL DEF Spec, ImplementsLifecycle, Lifecycle!Spec

-----------------------------------------------------------------------------
(***************************************************************************)
(* The chat of a ride beside its hash.                                     *)
(***************************************************************************)
\* A status that is about to be saved is one.
UpdatesNamed == \A h \in Handlers : job[h].pc = "update_save" => job[h].next \in Statuses

\* Only a check of the status machine has a handler save a status next.
LEMMA NextUpdatesNamed ==
  ASSUME TypeOK, UpdatesNamed, [Next]_vars
  PROVE  UpdatesNamed'
<1> USE DEF TypeOK, Goto, Return, Idle
<1>1. ASSUME \A h \in Handlers : job'[h].pc = "update_save" => job'[h] = job[h]
      PROVE  UpdatesNamed'
  BY <1>1 DEF UpdatesNamed
<1>2. ASSUME NEW h \in Handlers, NEW s \in Sids, NEW next \in AppStatuses,
             UpdateRead(h, s, next)
      PROVE  UpdatesNamed'
  <2>1. next \in Statuses
    OBVIOUS
  <2>2. /\ job'[h].next = next
        /\ \A g \in Handlers \ {h} : job'[g] = job[g]
    BY <1>2 DEF UpdateRead
  <2> QED
    BY <2>1, <2>2 DEF UpdatesNamed
<1>3. ASSUME NEW h \in Handlers, Continue(h) PROVE UpdatesNamed'
  <2>1. CASE \E pc \in PCs \ {"update_save"} : Goto(h, pc)
    BY <1>1, <2>1 DEF Jobs
  <2>2. CASE Return(h)
    BY <1>1, <2>2
  <2>3. CASE CompleteLookup(h)
    BY <1>1, <2>3 DEF CompleteLookup, Jobs
  <2> QED
    BY <1>3, <2>1, <2>2, <2>3
    DEF Continue, RequestOffer, AcceptSave, AcceptPublish, UpdateSave, CompleteRemove,
        CompleteInsert, CompleteUpdate, CompleteRefused, CompleteFinish,
        PCs, AcceptPCs, UpdatePCs, CompletePCs
<1>4. ASSUME NEW h \in Handlers, job'[h].pc \in {"offer", "accept_save"},
             \A g \in Handlers \ {h} : job'[g] = job[g]
      PROVE  UpdatesNamed'
  BY <1>1, <1>4
<1>5. ASSUME NEW h \in Handlers, Message(h) PROVE UpdatesNamed'
  <2>1. ASSUME NEW u \in Users, NEW d \in Drivers, NEW s \in Sids, NEW i \in Ids,
               Request(h, u, d, s, i)
        PROVE  UpdatesNamed'
    <3> DEFINE j == [Idle EXCEPT !.pc = "offer", !.sid = s, !.userId = u, !.driverId = d]
    <3>1. j.pc = "offer" /\ job'[h] = j /\ \A g \in Handlers \ {h} : job'[g] = job[g]
      BY <2>1 DEF Request
    <3> HIDE DEF j
    <3> QED
      BY <1>4, <3>1
  <2>2. ASSUME NEW o \in Answers, AcceptCheck(h, o) PROVE UpdatesNamed'
    <3> DEFINE j == [Idle EXCEPT !.pc = "accept_save", !.sid = o.sid, !.userId = o.userId,
                                 !.driverId = o.driver]
    <3>1. j.pc = "accept_save" /\ job'[h] = j /\ \A g \in Handlers \ {h} : job'[g] = job[g]
      BY <2>2 DEF AcceptCheck
    <3> HIDE DEF j
    <3> QED
      BY <1>4, <3>1
  <2> QED
    BY <1>2, <1>5, <2>1, <2>2 DEF Message
<1>6. ASSUME NEW h \in Handlers, Fail(h) PROVE UpdatesNamed'
  BY <1>1, <1>6 DEF Fail, RequestUnoffered, QueryFails
<1>7. ASSUME NEW o \in Answers, Answer(o) PROVE UpdatesNamed'
  <2>1. job' = job
    BY <1>7 DEF Answer, AcceptNotFound, RejectOffer, RejectRemove, RejectLost
  <2> QED  BY <1>1, <2>1
<1>8. CASE Crash
  BY <1>1, <1>8 DEF Crash
<1>9. CASE (\E s \in Sids : Expire(s)) \/ UNCHANGED vars
  BY <1>1, <1>9 DEF Expire, vars
<1> QED
  BY <1>3, <1>5, <1>6, <1>7, <1>8, <1>9 DEF Next

\* A hash goes by its TTL or with its list: no save of a part of it leaves it empty.
LEMMA HashesGo ==
  ASSUME TypeOK, UpdatesNamed, Next, NEW s \in Sids, Exists(s), ~Exists(s)'
  PROVE  DeletesList(s) \/ Expire(s)
<1> USE DEF TypeOK
<1>1. session'[s] = Absent /\ session'[s] # session[s]
  BY DEF Exists
<1>2. ASSUME NEW t, NEW hash, SaveDriveRequest(t, hash),
             hash.status \in Statuses
      PROVE  FALSE
  BY <1>1, <1>2 DEF SaveDriveRequest, Absent
<1>3. ASSUME NEW t, RemoveDriveRequest(t) PROVE t = s
  BY <1>1, <1>3 DEF RemoveDriveRequest
<1>4. ASSUME NEW h \in Handlers, Continue(h) PROVE DeletesList(s)
  <2>1. CASE AcceptSave(h)
    <3>1. [session[job[h].sid] EXCEPT !.status = ON_GOING,
                                      !.driverId = job[h].driverId].status \in Statuses
      BY DEF Statuses, Sessions
    <3> QED
      BY <1>2, <2>1, <3>1 DEF AcceptSave
  <2>2. CASE UpdateSave(h)
    <3>1. [session[job[h].sid] EXCEPT !.status = job[h].next].status \in Statuses
          \/ job[h].sid \notin Sids
      BY <2>2 DEF UpdateSave, UpdatesNamed, Sessions
    <3> QED
      BY <1>1, <1>2, <2>2, <3>1 DEF UpdateSave, SaveDriveRequest
  <2>3. CASE CompleteRemove(h)
    BY <1>3, <2>3 DEF CompleteRemove, DeletesList
  <2>4. CASE session' = session
    BY <1>1, <2>4
  <2> QED
    BY <1>4, <2>1, <2>2, <2>3, <2>4
    DEF Continue, RequestOffer, AcceptPublish, CompleteLookup, CompleteInsert,
        CompleteUpdate, CompleteRefused, CompleteFinish, redis
<1>5. ASSUME NEW h \in Handlers, Message(h) PROVE FALSE
  <2>1. ASSUME NEW u \in Users, NEW d \in Drivers, NEW t \in Sids, NEW i \in Ids,
               Request(h, u, d, t, i)
        PROVE  FALSE
    <3>1. [Absent EXCEPT !.id = i, !.userId = u, !.status = PENDING].status \in Statuses
      BY DEF Statuses, Absent
    <3> QED
      BY <1>2, <2>1, <3>1 DEF Request
  <2> QED
    BY <1>1, <1>5, <2>1 DEF Message, AcceptCheck, UpdateRead, redis
<1>6. ASSUME NEW o \in Answers, Answer(o) PROVE DeletesList(s)
  BY <1>1, <1>3, <1>6 DEF Answer, AcceptNotFound, RejectOffer, RejectRemove, RejectLost,
                          DeletesList, redis
<1>7. ASSUME NEW t \in Sids, Expire(t) PROVE Expire(s)
  BY <1>3, <1>7 DEF Expire
<1>8. ASSUME NEW h \in Handlers, Fail(h) PROVE FALSE
  BY <1>1, <1>8 DEF Fail, RequestUnoffered, QueryFails, redis
<1>9. ~Crash
  BY <1>1 DEF Crash, redis
<1> QED
  BY <1>4, <1>5, <1>6, <1>7, <1>8, <1>9 DEF Next

\* A ride's messages go with the ride, whatever the handlers under way, a late save of a
\* part of the hash, or messages that still come do with the list.
THEOREM ChatGoesWithRideHolds == ChatSpec => []ChatGoesWithRide
<1> DEFINE Inv == /\ TypeOK /\ UpdatesNamed
                  /\ messages = [s \in Sids |-> messages[s]]
                  /\ ChatGoesWithRide
<1>1. ChatInit => FieldsAgree /\ Inv
  <2> SUFFICES ASSUME ChatInit PROVE FieldsAgree /\ Inv
    OBVIOUS
  <2>1. FieldsAgree
    BY InitAgrees DEF ChatInit
  <2>2. UpdatesNamed /\ ChatGoesWithRide /\ messages = [s \in Sids |-> messages[s]]
    BY DEF ChatInit, Init, UpdatesNamed, ChatGoesWithRide, Idle
  <2> QED
    BY <2>1, <2>2 DEF FieldsAgree
<1>2. FieldsAgree /\ [ChatNext]_chatVars => FieldsAgree' /\ [Next]_vars
  BY NextAgrees DEF ChatNext, SessionStep, ChatMessage, chatVars
<1>3. FieldsAgree => TypeOK
  BY DEF FieldsAgree
<1>4. TypeOK /\ UpdatesNamed /\ [Next]_vars => UpdatesNamed'
  BY NextUpdatesNamed
<1>5. ASSUME FieldsAgree, Inv, FieldsAgree', [ChatNext]_chatVars PROVE Inv'
  <2>1. TypeOK' /\ UpdatesNamed'
    BY <1>2, <1>4, <1>5 DEF FieldsAgree
  <2>2. CASE SessionStep
    <3>1. messages' = [s \in Sids |-> IF DeletesList(s) THEN {} ELSE messages[s]]
      BY <2>2 DEF SessionStep
    <3>2. ASSUME NEW s \in Sids \ expired', ~Exists(s)' PROVE "during" \notin messages'[s]
      <4>1. s \notin expired /\ ~Expire(s)
        BY <2>2, <3>2 DEF SessionStep
      <4>2. CASE DeletesList(s)
        BY <3>1, <4>2
      <4>3. CASE ~DeletesList(s)
        <5>1. ~Exists(s)
          BY <1>5, <2>2, <3>2, <4>1, <4>3, HashesGo DEF SessionStep
        <5> QED
          BY <1>5, <3>1, <4>1, <4>3, <5>1 DEF ChatGoesWithRide
      <4> QED
        BY <4>2, <4>3
    <3>3. messages' = [s \in Sids |-> messages'[s]]
      BY <3>1
    <3> QED
      BY <2>1, <3>2, <3>3 DEF ChatGoesWithRide
  <2>3. ASSUME NEW t \in Sids, ChatMessage(t) PROVE Inv'
    BY <1>5, <2>1, <2>3 DEF ChatMessage, ChatGoesWithRide, Exists, vars
  <2>4. CASE UNCHANGED chatVars
    BY <1>5, <2>1, <2>4 DEF chatVars, ChatGoesWithRide, Exists, vars
  <2> QED
    BY <1>5, <2>2, <2>3, <2>4 DEF ChatNext
<1>6. Inv => ChatGoesWithRide
  OBVIOUS
<1> HIDE DEF Inv
<1>7. ChatInit /\ [][ChatNext]_chatVars => []FieldsAgree
  BY <1>1, <1>2, PTL
<1> QED
  BY <1>1, <1>2, <1>5, <1>6, PTL DEF ChatSpec
=============================================================================
