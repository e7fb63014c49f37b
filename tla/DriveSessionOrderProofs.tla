----------------------- MODULE DriveSessionOrderProofs -----------------------
(***************************************************************************)
(* StatusFollowsMachine, when each offer is answered once, one handler     *)
(* works on a session at a time and the apps send, with                    *)
(* update-drive-request-status, only what follows an acceptance.           *)
(***************************************************************************)
EXTENDS DriveSessionProofs

OrderlyApps ==
  /\ {"answer_once", "one_at_a_time"} \subseteq Assumed
  /\ AppStatuses \cap {PENDING, ON_GOING} = {}

USE NoneIsNoValue, ConstantsAreSane DEF Accounts

-----------------------------------------------------------------------------
(***************************************************************************)
(* What most steps do to order: a handler goes on or ends, and no session  *)
(* but its own gets another status.                                        *)
(***************************************************************************)
\* A step keeps the statuses, or removes a hash.
StatusKept == \A s \in Sids : session'[s].status \in {session[s].status, None}

\* No offer is made, and a handler that still runs has the session it had.
NothingStarts ==
  /\ offers' \subseteq offers
  /\ \A h \in Handlers : Running(h)' => Running(h) /\ job'[h].sid = job[h].sid
  /\ \A h \in Handlers : Running(h)' \/ job'[h] \in {job[h], Idle}
  /\ \A h \in Handlers :
       job'[h].pc \in {"offer", "accept_save", "update_save"} => job'[h] = job[h]

\* A handler that goes on or ends takes no request into other hands.
LEMMA QuietOrder ==
  ASSUME Agreement, Orderly, StatusKept, NothingStarts
  PROVE  Orderly'
<1>1. \A h \in Handlers : Running(h) => job[h].sid \in Sids
  BY DEF Agreement, FieldsAgree, JobsAgree
<1>2. \A o \in offers : o.sid \in Sids
  BY DEF Agreement, FieldsAgree, TypeOK, Offers
<1>3. SlotsFree'
  BY DEF Orderly, SlotsFree, NothingStarts, Running
<1>4. OneHandlerEach'
  <2> SUFFICES ASSUME NEW h \in Handlers, NEW g \in Handlers, Running(h)',
                      job'[h].sid = job'[g].sid
               PROVE  h = g
    BY DEF OneHandlerEach
  <2>1. Running(h) /\ job[h].sid = job[g].sid
    BY <1>1 DEF NothingStarts, Idle
  <2> QED  BY <2>1 DEF Orderly, OneHandlerEach
<1>5. OneOfferEach'
  BY <1>2 DEF Orderly, OneOfferEach, NothingStarts, Idle
<1>6. Untaken'
  BY <1>1, <1>2 DEF Orderly, Untaken, NothingStarts, StatusKept, Running
<1>7. UpdatesChecked'
  BY <1>1 DEF Orderly, UpdatesChecked, NothingStarts, StatusKept, Running
<1> QED  BY <1>4, <1>5, <1>6, <1>7, <1>3 DEF Orderly

\* A step that keeps the statuses follows the machine.
LEMMA StatusKeptSteps == StatusKept => StatusStep
BY DEF StatusKept, StatusStep

-----------------------------------------------------------------------------
(***************************************************************************)
(* The steps that are not quiet.                                           *)
(***************************************************************************)
\* A new request is in the hands of its handler only, and pending.
LEMMA RequestOrder ==
  ASSUME Agreement, Orderly, NEW h \in Handlers, NEW u \in Users, NEW d \in Drivers,
         NEW s \in Sids, NEW i \in Ids, Request(h, u, d, s, i)
  PROVE  Orderly' /\ StatusStep
<1>1. session[s].status = None
  BY DEF Request, NoRequest, Agreement, FieldsAgree, SessionAgrees
<1>2. \A g \in Handlers : Running(g) => job[g].sid # s
  BY DEF Request, NoRequest, Agreement, FieldsAgree, JobsAgree
<1>3. \A o \in offers : o.sid \in Sids /\ o.sid # s
  BY DEF Request, NoRequest, Agreement, FieldsAgree, TypeOK, Offers, OffersAgree, Genuine
<1>4. job'[h].sid = s /\ job'[h].pc = "offer"
  BY DEF Request, Idle, Agreement, FieldsAgree, TypeOK
<1>5. session'[s].status = PENDING
  BY DEF Request, SaveDriveRequest, Absent, Agreement, FieldsAgree, TypeOK
<1>6. \A g \in Handlers \ {h} : job'[g] = job[g]
  BY DEF Request, Agreement, FieldsAgree, TypeOK
<1>7. \A t \in Sids \ {s} : session'[t] = session[t]
  BY DEF Request, SaveDriveRequest, Agreement, FieldsAgree, TypeOK
<1>8. offers' = offers
  BY DEF Request
<1>9. \A g \in Handlers : Running(g) => job[g].sid \in Sids
  BY DEF Agreement, FieldsAgree, JobsAgree
<1>10. \A g \in Handlers : job[g].sid # s
  BY <1>2 DEF Orderly, SlotsFree, Idle
<1>11. SlotsFree' /\ OneHandlerEach'
  BY <1>4, <1>6, <1>10 DEF Orderly, SlotsFree, OneHandlerEach, Running
<1>12. OneOfferEach'
  BY <1>3, <1>4, <1>6, <1>8 DEF Orderly, OneOfferEach
<1>13. Untaken'
  BY <1>3, <1>4, <1>5, <1>6, <1>7, <1>8, <1>9 DEF Orderly, Untaken, Running
<1>14. UpdatesChecked'
  BY <1>4, <1>6, <1>7, <1>9, <1>10 DEF Orderly, UpdatesChecked, Running
<1>15. StatusStep
  BY <1>1, <1>7 DEF StatusStep
<1> QED  BY <1>11, <1>12, <1>13, <1>14, <1>15 DEF Orderly

\* The handler of the request hands it over to the driver.
LEMMA RequestOfferOrder ==
  ASSUME Agreement, Orderly, NEW h \in Handlers, RequestOffer(h)
  PROVE  Orderly' /\ StatusStep
<1> DEFINE s == job[h].sid
<1>1. Running(h) /\ s \in Sids
  BY DEF RequestOffer, Running, Agreement, FieldsAgree, JobsAgree
<1>2. \A g \in Handlers \ {h} : job[g].sid # s
  BY <1>1 DEF Orderly, OneHandlerEach
<1>3. \A o \in offers : o.sid # s
  BY DEF Orderly, OneOfferEach
<1>4. session[s].status \in {PENDING, None}
  BY DEF RequestOffer, Orderly, Untaken
<1>5. job'[h] = Idle /\ \A g \in Handlers \ {h} : job'[g] = job[g]
  BY DEF RequestOffer, Return, Agreement, FieldsAgree, TypeOK
<1>6. \A o \in offers' : o \in offers \/ o.sid = s
  BY DEF RequestOffer, Sent
<1>7. \A o, p \in offers' : o \notin offers /\ p \notin offers => o = p
  BY DEF RequestOffer, Sent
<1>8. session' = session
  BY DEF RequestOffer, redis
<1>9. \A g \in Handlers : Running(g) => job[g].sid \in Sids
  BY DEF Agreement, FieldsAgree, JobsAgree
<1>10. SlotsFree' /\ OneHandlerEach'
  <2>1. ~Running(h)' /\ job'[h].sid = None
    BY <1>5 DEF Running, Idle
  <2>2. SlotsFree'
    BY <1>5 DEF Orderly, SlotsFree, Running
  <2> QED  BY <1>5, <1>9, <2>1, <2>2 DEF Orderly, OneHandlerEach, Running
<1>11. OneOfferEach'
  <2>1. \A o \in offers' : o.sid \in Sids
    BY <1>1, <1>6 DEF Agreement, FieldsAgree, TypeOK, Offers
  <2>2. job'[h].sid = None
    BY <1>5 DEF Idle
  <2> QED
    BY <1>2, <1>3, <1>5, <1>6, <1>7, <2>1, <2>2 DEF Orderly, OneOfferEach
<1>12. Untaken' /\ UpdatesChecked'
  BY <1>4, <1>5, <1>6, <1>8 DEF Orderly, Untaken, UpdatesChecked, Idle
<1>13. StatusStep
  BY <1>8 DEF StatusStep
<1> QED  BY <1>10, <1>11, <1>12, <1>13 DEF Orderly

\* The driver hands the request over to the handler of the acceptance.
LEMMA AcceptCheckOrder ==
  ASSUME Agreement, Orderly, OrderlyApps, NEW h \in Handlers, NEW o \in offers,
         AcceptCheck(h, o)
  PROVE  Orderly' /\ StatusStep
<1>1. o.sid \in Sids /\ \A g \in Handlers : job[g].sid # o.sid
  BY DEF Orderly, OneOfferEach, Agreement, FieldsAgree, TypeOK, Offers
<1>2. offers' = offers \ {o} /\ \A p \in offers' : p.sid # o.sid
  BY DEF AcceptCheck, Answered, OrderlyApps, Orderly, OneOfferEach
<1>3. session[o.sid].status \in {PENDING, None}
  BY DEF Orderly, Untaken
<1>4. job'[h].sid = o.sid /\ job'[h].pc = "accept_save"
  BY DEF AcceptCheck, Idle, Agreement, FieldsAgree, TypeOK
<1>5. \A g \in Handlers \ {h} : job'[g] = job[g]
  BY DEF AcceptCheck, Agreement, FieldsAgree, TypeOK
<1>6. session' = session
  BY DEF AcceptCheck, redis
<1>7. SlotsFree' /\ OneHandlerEach'
  BY <1>1, <1>4, <1>5 DEF Orderly, SlotsFree, OneHandlerEach, Running
<1>8. OneOfferEach'
  BY <1>2, <1>4, <1>5 DEF Orderly, OneOfferEach
<1>9. Untaken' /\ UpdatesChecked'
  BY <1>2, <1>3, <1>4, <1>5, <1>6 DEF Orderly, Untaken, UpdatesChecked
<1>10. StatusStep
  BY <1>6 DEF StatusStep
<1> QED  BY <1>7, <1>8, <1>9, <1>10 DEF Orderly

\* The driver hands the request over to the next driver.
LEMMA RejectOfferOrder ==
  ASSUME Agreement, Orderly, OrderlyApps, NEW o \in offers, NEW d \in Drivers,
         RejectOffer(o, d)
  PROVE  Orderly' /\ StatusStep
<1>1. offers' = (offers \ {o}) \cup {[o EXCEPT !.driver = d]}
  BY AnsweredOnce DEF RejectOffer, OrderlyApps
<1>2. [o EXCEPT !.driver = d].sid = o.sid
  BY DEF Agreement, FieldsAgree, TypeOK, Offers
<1>3. job' = job /\ session' = session
  BY DEF RejectOffer, redis
<1>4. OneOfferEach'
  <2>1. \A p \in offers \ {o} : p.sid # o.sid
    BY DEF Orderly, OneOfferEach
  <2> QED  BY <1>1, <1>2, <1>3, <2>1 DEF Orderly, OneOfferEach
<1>5. Untaken' /\ UpdatesChecked' /\ OneHandlerEach' /\ SlotsFree'
  BY <1>1, <1>2, <1>3 DEF Orderly, Untaken, UpdatesChecked, OneHandlerEach, SlotsFree,
                          Running
<1>6. StatusStep
  BY <1>3 DEF StatusStep
<1> QED  BY <1>4, <1>5, <1>6 DEF Orderly

\* What the apps ask for follows an acceptance, so a request whose update passes the
\* check is in no driver's hands.
LEMMA UpdateReadOrder ==
  ASSUME Agreement, Orderly, OrderlyApps, NEW h \in Handlers, NEW s \in Sids,
         NEW next \in AppStatuses, UpdateRead(h, s, next)
  PROVE  Orderly' /\ StatusStep
<1>1. CanTransitionTo(session[s].status, next) /\ next \notin {PENDING, ON_GOING}
  BY DEF UpdateRead, OrderlyApps
<1>2. session[s].status \notin {PENDING, None}
  BY <1>1
     DEF CanTransitionTo, NextStatuses, Statuses, PENDING, ON_GOING, ARRIVED, PICKED_UP
<1>3. \A o \in offers : o.sid # s
  BY <1>2 DEF Orderly, Untaken
<1>4. \A g \in Handlers : job[g].sid # s
  BY DEF UpdateRead, MayHandle, OrderlyApps
<1>5. /\ job'[h].sid = s /\ job'[h].next = next
      /\ job'[h].pc \in {"complete_remove", "update_save"}
  BY DEF UpdateRead, Agreement, FieldsAgree, TypeOK
<1>6. \A g \in Handlers \ {h} : job'[g] = job[g]
  BY DEF UpdateRead, Agreement, FieldsAgree, TypeOK
<1>7. session' = session /\ offers' = offers
  BY DEF UpdateRead, redis
<1>8. SlotsFree' /\ OneHandlerEach'
  BY <1>4, <1>5, <1>6 DEF Orderly, SlotsFree, OneHandlerEach, Running
<1>9. OneOfferEach' /\ Untaken'
  BY <1>3, <1>5, <1>6, <1>7 DEF Orderly, OneOfferEach, Untaken
<1>10. UpdatesChecked'
  BY <1>1, <1>5, <1>6, <1>7 DEF Orderly, UpdatesChecked
<1>11. StatusStep
  BY <1>7 DEF StatusStep
<1> QED  BY <1>8, <1>9, <1>10, <1>11 DEF Orderly

\* The check on the offer's pending status was right: the stored status still is
\* pending, or the hash is gone.
LEMMA AcceptSaveOrder ==
  ASSUME Agreement, Orderly, NEW h \in Handlers, AcceptSave(h)
  PROVE  Orderly' /\ StatusStep
<1> DEFINE s == job[h].sid
<1>1. Running(h) /\ s \in Sids
  BY DEF AcceptSave, Running, Agreement, FieldsAgree, JobsAgree
<1>2. \A g \in Handlers \ {h} : job[g].sid # s
  BY <1>1 DEF Orderly, OneHandlerEach
<1>3. offers' = offers /\ \A o \in offers : o.sid \in Sids /\ o.sid # s
  BY DEF AcceptSave, Orderly, OneOfferEach, Agreement, FieldsAgree, TypeOK, Offers
<1>4. session[s].status \in {PENDING, None}
  BY DEF AcceptSave, Orderly, Untaken
<1>5. job'[h].sid = s /\ job'[h].pc = "accept_publish"
  BY DEF AcceptSave, Goto, Agreement, FieldsAgree, TypeOK, Jobs
<1>6. \A g \in Handlers \ {h} : job'[g] = job[g]
  BY DEF AcceptSave, Goto, Agreement, FieldsAgree, TypeOK
<1>7. session'[s].status = ON_GOING
  BY <1>1 DEF AcceptSave, SaveDriveRequest, Agreement, FieldsAgree, TypeOK, Sessions
<1>8. \A t \in Sids \ {s} : session'[t] = session[t]
  BY DEF AcceptSave, SaveDriveRequest, Agreement, FieldsAgree, TypeOK
<1>9. \A g \in Handlers : Running(g) => job[g].sid \in Sids
  BY DEF Agreement, FieldsAgree, JobsAgree
<1>10. SlotsFree' /\ OneHandlerEach'
  BY <1>1, <1>2, <1>5, <1>6 DEF Orderly, SlotsFree, OneHandlerEach, Running
<1>11. OneOfferEach'
  BY <1>3, <1>5, <1>6 DEF Orderly, OneOfferEach
<1>12. Untaken' /\ UpdatesChecked'
  BY <1>2, <1>3, <1>5, <1>6, <1>8, <1>9 DEF Orderly, Untaken, UpdatesChecked, Running
<1>13. StatusStep
  <2>1. session[s].status = None \/ CanTransitionTo(session[s].status, ON_GOING)
    BY <1>4
       DEF CanTransitionTo, NextStatuses, PENDING, ON_GOING, ARRIVED, PICKED_UP
  <2> QED  BY <1>7, <1>8, <2>1 DEF StatusStep
<1> QED  BY <1>10, <1>11, <1>12, <1>13 DEF Orderly

\* Between the check of an update and its save nobody saved another status.
LEMMA UpdateSaveOrder ==
  ASSUME Agreement, Orderly, NEW h \in Handlers, UpdateSave(h)
  PROVE  Orderly' /\ StatusStep
<1> DEFINE s == job[h].sid
<1>1. Running(h) /\ s \in Sids
  BY DEF UpdateSave, Running, Agreement, FieldsAgree, JobsAgree
<1>2. \A g \in Handlers \ {h} : job[g].sid # s
  BY <1>1 DEF Orderly, OneHandlerEach
<1>3. offers' = offers /\ \A o \in offers : o.sid \in Sids /\ o.sid # s
  BY DEF UpdateSave, Orderly, OneOfferEach, Agreement, FieldsAgree, TypeOK, Offers
<1>4. session[s].status = None \/ CanTransitionTo(session[s].status, job[h].next)
  BY DEF UpdateSave, Orderly, UpdatesChecked
<1>5. job'[h] = Idle /\ \A g \in Handlers \ {h} : job'[g] = job[g]
  BY DEF UpdateSave, Return, Agreement, FieldsAgree, TypeOK
<1>6. session'[s].status = job[h].next
  BY <1>1 DEF UpdateSave, SaveDriveRequest, Agreement, FieldsAgree, TypeOK, Sessions
<1>7. \A t \in Sids \ {s} : session'[t] = session[t]
  BY DEF UpdateSave, SaveDriveRequest, Agreement, FieldsAgree, TypeOK
<1>8. \A g \in Handlers : Running(g) => job[g].sid \in Sids
  BY DEF Agreement, FieldsAgree, JobsAgree
<1>9. SlotsFree' /\ OneHandlerEach'
  <2>1. ~Running(h)' /\ job'[h].sid = None
    BY <1>5 DEF Running, Idle
  <2> QED  BY <1>5, <1>8, <2>1 DEF Orderly, SlotsFree, OneHandlerEach, Running
<1>10. OneOfferEach'
  BY <1>3, <1>5 DEF Orderly, OneOfferEach, Idle
<1>11. Untaken' /\ UpdatesChecked'
  BY <1>2, <1>3, <1>5, <1>7, <1>8 DEF Orderly, Untaken, UpdatesChecked, Running, Idle
<1>12. StatusStep
  BY <1>4, <1>6, <1>7 DEF StatusStep
<1> QED  BY <1>9, <1>10, <1>11, <1>12 DEF Orderly

-----------------------------------------------------------------------------
(***************************************************************************)
(* Every step.                                                             *)
(***************************************************************************)
\* The continuations of the handlers, one by one.
LEMMA ContinueOrder ==
  ASSUME Agreement, Orderly, NEW h \in Handlers, Continue(h)
  PROVE  Orderly' /\ StatusStep
<1> USE DEF StatusKept, NothingStarts
<1>1. CASE RequestOffer(h)    BY <1>1, RequestOfferOrder
<1>2. CASE AcceptSave(h)      BY <1>2, AcceptSaveOrder
<1>3. CASE UpdateSave(h)      BY <1>3, UpdateSaveOrder
<1>4. CASE CompleteRemove(h)
  <2>1. \A s \in Sids : session'[s] \in {session[s], Absent}
    BY <1>4 DEF CompleteRemove, RemoveDriveRequest, Agreement, FieldsAgree, TypeOK
  <2>2. \A g \in Handlers \ {h} : job'[g] = job[g]
    BY <1>4 DEF CompleteRemove, Goto, Agreement, FieldsAgree, TypeOK
  <2>3. Running(h) /\ job'[h].sid = job[h].sid /\ job'[h].pc = "complete_lookup"
    BY <1>4 DEF CompleteRemove, Goto, Agreement, FieldsAgree, TypeOK, Jobs, Running
  <2>4. StatusKept /\ NothingStarts
    BY <1>4, <2>1, <2>2, <2>3 DEF CompleteRemove, Absent, Running
  <2> QED  BY <2>4, QuietOrder, StatusKeptSteps
<1>5. ASSUME session' = session, offers' = offers, Return(h)
      PROVE  Orderly' /\ StatusStep
  BY <1>5, QuietOrder, StatusKeptSteps DEF Return, Agreement, FieldsAgree, TypeOK, Idle, Running
<1>6. CASE AcceptPublish(h) \/ CompleteRefused(h) \/ CompleteFinish(h)
  BY <1>5, <1>6 DEF AcceptPublish, CompleteRefused, CompleteFinish, redis
<1>7. ASSUME session' = session, offers' = offers, Running(h),
             NEW pc \in SettlingPCs \cup {"complete_finish"}, Goto(h, pc)
      PROVE  Orderly' /\ StatusStep
  BY <1>7, QuietOrder, StatusKeptSteps
     DEF Goto, Agreement, FieldsAgree, TypeOK, Jobs, Running, SettlingPCs
<1>8. CASE CompleteInsert(h) \/ CompleteUpdate(h)
  BY <1>7, <1>8 DEF CompleteInsert, CompleteUpdate, redis, SettlingPCs, Running
<1>9. CASE CompleteLookup(h)
  BY <1>9, QuietOrder, StatusKeptSteps
     DEF CompleteLookup, Agreement, FieldsAgree, TypeOK, Jobs, Running, redis
<1> QED  BY <1>1, <1>2, <1>3, <1>4, <1>6, <1>8, <1>9 DEF Continue

\* Every step keeps the order and follows the machine.
LEMMA NextOrder ==
  ASSUME Agreement, Orderly, OrderlyApps, [Next]_vars
  PROVE  Orderly' /\ StatusStep
<1> USE DEF StatusKept, NothingStarts
<1>1. CASE \E h \in Handlers : Continue(h)
  BY <1>1, ContinueOrder
<1> Answers = offers
  BY AnsweredOnce DEF OrderlyApps
<1>2. CASE \E h \in Handlers : Message(h)
  BY <1>2, RequestOrder, AcceptCheckOrder, UpdateReadOrder DEF Message
<1>3. CASE \E h \in Handlers : Fail(h)
  BY <1>3, QuietOrder, StatusKeptSteps
     DEF Fail, RequestUnoffered, QueryFails, Return, Agreement, FieldsAgree, TypeOK, Idle, Running,
         redis
<1>4. CASE \E o \in offers, d \in Drivers : RejectOffer(o, d)
  BY <1>4, RejectOfferOrder
<1>5. CASE \E o \in offers : AcceptNotFound(o) \/ RejectLost(o)
  BY <1>5, QuietOrder, StatusKeptSteps
     DEF AcceptNotFound, RejectLost, Answered, redis, Running
<1>6. CASE \E o \in offers : RejectRemove(o)
  BY <1>6, QuietOrder, StatusKeptSteps
     DEF RejectRemove, RemoveDriveRequest, Answered, Agreement, FieldsAgree, TypeOK, Absent, Running
<1>7. CASE Crash
  BY <1>7, QuietOrder, StatusKeptSteps DEF Crash, redis, Idle, Running
<1>8. CASE \E s \in Sids : Expire(s)
  BY <1>8, QuietOrder, StatusKeptSteps
     DEF Expire, RemoveDriveRequest, Agreement, FieldsAgree, TypeOK, Absent, Running
<1>9. CASE UNCHANGED vars
  BY <1>9, QuietOrder, StatusKeptSteps DEF vars, Running
<1> QED  BY <1>1, <1>2, <1>3, <1>4, <1>5, <1>6, <1>7, <1>8, <1>9 DEF Next, Answer

\* Nothing is in anybody's hands at first.
LEMMA InitOrder == Init => Orderly
BY DEF Init, Orderly, SlotsFree, OneHandlerEach, OneOfferEach, Untaken,
   UpdatesChecked,
       Running, Idle

\* A request is in one pair of hands at a time, and what its holder checked still
\* holds when it is written.
THEOREM OrderlyHolds ==
  ASSUME OrderlyApps
  PROVE  Spec => []Orderly
<1>1. Agreement /\ Orderly /\ [Next]_vars => Orderly'
  BY NextOrder
<1>2. Spec => []Agreement
  BY AnsweredOnce DEF OrderlyApps
<1> QED  BY <1>1, <1>2, InitOrder, PTL DEF Spec

\* Stored statuses move along getDriveRequestSessionStateMachine, though
\* accept-drive-request checks the offer's copy and updates check an old read.
THEOREM StatusFollowsMachineHolds ==
  ASSUME OrderlyApps
  PROVE  Spec => StatusFollowsMachine
<1>1. Agreement /\ Orderly /\ [Next]_vars => [StatusStep]_vars
  BY NextOrder
<1>2. Spec => []Agreement
  BY AnsweredOnce DEF OrderlyApps
<1> QED  BY <1>1, <1>2, OrderlyHolds, PTL DEF Spec, StatusFollowsMachine

-----------------------------------------------------------------------------
(***************************************************************************)
(* Settlements: what the completion of a ride holds and leaves behind.     *)
(***************************************************************************)
\* Hashes stay or go; a handler stays, ends, makes or takes an offer, or goes on with a
\* completion whose hash is gone.
SettlesOn ==
  /\ \A s \in Sids : session'[s] \in {session[s], Absent}
  /\ \A h \in Handlers :
       \/ job'[h] \in {job[h], Idle}
       \/ job'[h].pc \in {"offer"} \cup AcceptPCs
       \/ /\ job'[h].pc \in SettlingPCs \cup {"complete_finish"}
          /\ session'[job'[h].sid] = Absent

\* Such a step leaves of a completed ride no more than there was.
LEMMA SettlesOnSettles ==
  ASSUME Agreement, Settlements, SettlesOn
  PROVE  Settlements'
<1>1. \A h \in Handlers : Running(h) => job[h].sid \in Sids
  BY DEF Agreement, FieldsAgree, JobsAgree
<1>2. \A h \in Handlers : job'[h].pc \in {"update_save", "complete_remove"} => job'[h] = job[h]
  BY DEF SettlesOn, Idle, AcceptPCs, SettlingPCs
<1>3. StatusesKnown'
  BY DEF Settlements, StatusesKnown, SettlesOn, Absent, Statuses
<1>4. UpdatesAskedFor'
  BY <1>2 DEF Settlements, UpdatesAskedFor
<1>5. CompletionsChecked'
  BY <1>1, <1>2 DEF Settlements, CompletionsChecked, SettlesOn, Exists, Running
<1>6. RemovedForGood'
  BY <1>1 DEF Settlements, RemovedForGood, SettlesOn, Exists, Idle, AcceptPCs, SettlingPCs,
              Running
<1> QED  BY <1>3, <1>4, <1>5, <1>6 DEF Settlements

\* One handler writes the hash of its session, on which no other one works.
LEMMA SaveSettles ==
  ASSUME Agreement, Orderly, Settlements, NEW h \in Handlers, NEW s \in Sids,
         \A g \in Handlers \ {h} : job'[g] = job[g] /\ (Running(g) => job[g].sid # s),
         \A t \in Sids \ {s} : session'[t] = session[t],
         session'[s].status \in Statuses \ {COMPLETED},
         job'[h].pc \in {"idle", "offer", "accept_publish"}
  PROVE  Settlements'
<1>1. \A g \in Handlers : Running(g) => job[g].sid \in Sids
  BY DEF Agreement, FieldsAgree, JobsAgree
<1>2. \A g \in Handlers : job'[g].pc \in {"update_save"} \cup CompletePCs =>
        job'[g] = job[g] /\ job[g].sid \in Sids \ {s}
  BY <1>1 DEF Running, CompletePCs
<1>3. StatusesKnown'
  BY DEF Settlements, StatusesKnown
<1>4. UpdatesAskedFor'
  BY <1>2 DEF Settlements, UpdatesAskedFor
<1>5. CompletionsChecked' /\ RemovedForGood'
  BY <1>2 DEF Settlements, CompletionsChecked, RemovedForGood, Exists, SettlingPCs, CompletePCs
<1> QED  BY <1>3, <1>4, <1>5 DEF Settlements

\* A new request is pending, and no handler works on it but its own.
LEMMA RequestSettlesDown ==
  ASSUME Agreement, Orderly, Settlements, NEW h \in Handlers, NEW u \in Users,
         NEW d \in Drivers, NEW s \in Sids, NEW i \in Ids, Request(h, u, d, s, i)
  PROVE  Settlements'
<1>1. \A g \in Handlers : Running(g) => job[g].sid # s
  BY DEF Request, NoRequest, Agreement, FieldsAgree, JobsAgree
<1>2. session'[s].status = PENDING /\ \A t \in Sids \ {s} : session'[t] = session[t]
  BY DEF Request, SaveDriveRequest, Absent, Agreement, FieldsAgree, TypeOK
<1>3. job'[h].pc = "offer" /\ \A g \in Handlers \ {h} : job'[g] = job[g]
  BY DEF Request, Idle, Agreement, FieldsAgree, TypeOK
<1> QED  BY <1>1, <1>2, <1>3, SaveSettles DEF Statuses, PENDING, COMPLETED

\* An acceptance under way is alone with its session.
LEMMA AcceptSaveSettles ==
  ASSUME Agreement, Orderly, Settlements, NEW h \in Handlers, AcceptSave(h)
  PROVE  Settlements'
<1> DEFINE s == job[h].sid
<1>1. Running(h) /\ s \in Sids
  BY DEF AcceptSave, Running, Agreement, FieldsAgree, JobsAgree
<1>2. \A g \in Handlers \ {h} : job[g].sid # s
  BY <1>1 DEF Orderly, OneHandlerEach
<1>3. session'[s].status = ON_GOING /\ \A t \in Sids \ {s} : session'[t] = session[t]
  BY <1>1 DEF AcceptSave, SaveDriveRequest, Agreement, FieldsAgree, TypeOK, Sessions
<1>4. job'[h].pc = "accept_publish" /\ \A g \in Handlers \ {h} : job'[g] = job[g]
  BY DEF AcceptSave, Goto, Agreement, FieldsAgree, TypeOK, Jobs
<1> QED  BY <1>1, <1>2, <1>3, <1>4, SaveSettles DEF Statuses, ON_GOING, COMPLETED

\* An update that is saved is not a completion.
LEMMA UpdateSaveSettles ==
  ASSUME Agreement, Orderly, Settlements, NEW h \in Handlers, UpdateSave(h)
  PROVE  Settlements'
<1> DEFINE s == job[h].sid
<1>1. Running(h) /\ s \in Sids /\ job[h].next \in Statuses \ {COMPLETED}
  BY DEF UpdateSave, Running, Agreement, FieldsAgree, JobsAgree, Settlements, UpdatesAskedFor
<1>2. \A g \in Handlers \ {h} : job[g].sid # s
  BY <1>1 DEF Orderly, OneHandlerEach
<1>3. session'[s].status = job[h].next /\ \A t \in Sids \ {s} : session'[t] = session[t]
  BY <1>1 DEF UpdateSave, SaveDriveRequest, Agreement, FieldsAgree, TypeOK, Sessions
<1>4. job'[h].pc = "idle" /\ \A g \in Handlers \ {h} : job'[g] = job[g]
  BY DEF UpdateSave, Return, Idle, Agreement, FieldsAgree, TypeOK
<1> QED  BY <1>1, <1>2, <1>3, <1>4, SaveSettles

\* What is to be completed has passed the check for it.
LEMMA UpdateReadSettles ==
  ASSUME Agreement, Settlements, NEW h \in Handlers, NEW s \in Sids,
         NEW next \in AppStatuses, UpdateRead(h, s, next)
  PROVE  Settlements'
<1>1. session' = session
  BY DEF UpdateRead, redis
<1>2. /\ job'[h].sid = s /\ job'[h].id = session[s].id /\ job'[h].next = next
      /\ job'[h].driverId = session[s].driverId
      /\ job'[h].pc = IF next = COMPLETED THEN "complete_remove" ELSE "update_save"
      /\ \A g \in Handlers \ {h} : job'[g] = job[g]
  BY DEF UpdateRead, Agreement, FieldsAgree, TypeOK
<1>3. next = COMPLETED => session[s].status = PICKED_UP
  BY DEF UpdateRead, CanTransitionTo, NextStatuses, PENDING, ON_GOING, ARRIVED, PICKED_UP,
         COMPLETED, CANCELLED
<1>4. StatusesKnown' /\ UpdatesAskedFor' /\ CompletionsChecked'
  BY <1>1, <1>2, <1>3
     DEF Settlements, StatusesKnown, UpdatesAskedFor, CompletionsChecked, Exists
<1>5. RemovedForGood'
  BY <1>1, <1>2 DEF Settlements, RemovedForGood, Exists, SettlingPCs
<1> QED  BY <1>4, <1>5 DEF Settlements

\* Every step keeps Settlements.
LEMMA NextSettlesDown ==
  ASSUME Agreement, Orderly, Settlements, [Next]_vars
  PROVE  Settlements'
<1>1. ASSUME NEW h \in Handlers, Continue(h) PROVE Settlements'
  <2>1. CASE AcceptSave(h)    BY <2>1, AcceptSaveSettles
  <2>2. CASE UpdateSave(h)    BY <2>2, UpdateSaveSettles
  <2>3. CASE RequestOffer(h) \/ AcceptPublish(h) \/ CompleteRefused(h) \/ CompleteFinish(h)
    BY <2>3, SettlesOnSettles
       DEF RequestOffer, AcceptPublish, CompleteRefused, CompleteFinish, Return, SettlesOn,
           redis, Agreement, FieldsAgree, TypeOK
  <2>4. job[h].sid \in Sids \/ ~Running(h)
    BY DEF Agreement, FieldsAgree, JobsAgree
  <2>5. ASSUME \A s \in Sids : session'[s] \in {session[s], Absent},
               session'[job[h].sid] = Absent,
               job'[h].pc \in SettlingPCs \cup {"complete_finish"},
               job'[h].sid = job[h].sid, \A g \in Handlers \ {h} : job'[g] = job[g]
        PROVE  Settlements'
    BY <2>5, SettlesOnSettles DEF SettlesOn
  <2>6. CASE CompleteRemove(h)
    <3>1. /\ \A s \in Sids : session'[s] \in {session[s], Absent}
          /\ session'[job[h].sid] = Absent
      BY <2>4, <2>6 DEF CompleteRemove, RemoveDriveRequest, Running, Agreement, FieldsAgree, TypeOK
    <3>2. /\ job'[h].pc = "complete_lookup" /\ job'[h].sid = job[h].sid
          /\ \A g \in Handlers \ {h} : job'[g] = job[g]
      BY <2>6 DEF CompleteRemove, Goto, Agreement, FieldsAgree, TypeOK, Jobs
    <3> QED  BY <2>5, <3>1, <3>2 DEF SettlingPCs
  <2>7. CASE CompleteLookup(h) \/ CompleteInsert(h) \/ CompleteUpdate(h)
    <3>1. job[h].pc \in SettlingPCs /\ session' = session
      BY <2>7 DEF CompleteLookup, CompleteInsert, CompleteUpdate, redis, SettlingPCs
    <3>2. session'[job[h].sid] = Absent
      BY <3>1 DEF Settlements, RemovedForGood, Exists
    <3>3. /\ job'[h].pc \in SettlingPCs \cup {"complete_finish"}
          /\ job'[h].sid = job[h].sid /\ \A g \in Handlers \ {h} : job'[g] = job[g]
      BY <2>7 DEF CompleteLookup, CompleteInsert, CompleteUpdate, Goto, SettlingPCs,
                  Agreement, FieldsAgree, TypeOK, Jobs
    <3> QED  BY <2>5, <3>1, <3>2, <3>3
  <2> QED  BY <1>1, <2>1, <2>2, <2>3, <2>6, <2>7 DEF Continue
<1>2. ASSUME NEW h \in Handlers, NEW o \in Answers, AcceptCheck(h, o) PROVE Settlements'
  <2>1. job'[h].pc = "accept_save" /\ \A g \in Handlers \ {h} : job'[g] = job[g]
    BY <1>2 DEF AcceptCheck, Idle, Agreement, FieldsAgree, TypeOK
  <2> QED  BY <1>2, <2>1, SettlesOnSettles DEF AcceptCheck, SettlesOn, AcceptPCs, redis
<1>3. CASE \E h \in Handlers : Message(h)
  BY <1>2, <1>3, RequestSettlesDown, UpdateReadSettles DEF Message
<1>4. CASE \E h \in Handlers : Fail(h)
  BY <1>4, SettlesOnSettles
     DEF Fail, RequestUnoffered, QueryFails, Return, SettlesOn, redis, Agreement, FieldsAgree, TypeOK
<1>5. CASE \E o \in Answers : Answer(o)
  BY <1>5, SettlesOnSettles
     DEF Answer, AcceptNotFound, RejectOffer, RejectRemove, RejectLost, RemoveDriveRequest,
         SettlesOn, redis, Agreement, FieldsAgree, TypeOK
<1>6. CASE Crash \/ (\E s \in Sids : Expire(s)) \/ UNCHANGED vars
  BY <1>6, SettlesOnSettles
     DEF Crash, Expire, RemoveDriveRequest, vars, SettlesOn, redis, Agreement, FieldsAgree, TypeOK
<1> QED  BY <1>1, <1>3, <1>4, <1>5, <1>6 DEF Next

\* A handler that completes a ride holds what the hash held, and nobody writes the hash
\* again once it is removed.
THEOREM SettlementsHold ==
  ASSUME OrderlyApps
  PROVE  Spec => []Settlements
<1>1. Init => Settlements
  BY DEF Init, Settlements, StatusesKnown, UpdatesAskedFor, CompletionsChecked,
         RemovedForGood, Absent, Idle, SettlingPCs, Statuses
<1>2. Agreement /\ Orderly /\ Settlements /\ [Next]_vars => Settlements'
  BY NextSettlesDown
<1>3. Spec => []Agreement
  BY AnsweredOnce DEF OrderlyApps
<1> QED  BY <1>1, <1>2, <1>3, OrderlyHolds, PTL DEF Spec
=============================================================================
