------------------------ MODULE DriveSessionAppsProofs ------------------------
(***************************************************************************)
(* What holds when the apps keep to what their users can do. Under         *)
(* AnswersOnce, with ids that do not repeat, RejectedIsFinal and           *)
(* RideNeverRewritten: handlers may work on one session at the same time,  *)
(* and TakenOnce says when they do. Under OneRideApps, where an account    *)
(* takes part in one ride at a time and the process does not die,          *)
(* ActiveRideReachable.                                                    *)
(***************************************************************************)
EXTENDS DriveSessionOrderProofs

\* Offers are answered once, and the apps send, with update-drive-request-status,
\* only what follows an acceptance.
AnswersOnce ==
  /\ "answer_once" \in Assumed
  /\ AppStatuses \cap {PENDING, ON_GOING} = {}

USE NoneIsNoValue, ConstantsAreSane DEF Accounts

-----------------------------------------------------------------------------
(***************************************************************************)
(* Most steps start nothing: a handler goes on with a request that has     *)
(* been taken, or ends.                                                    *)
(***************************************************************************)
GoesOn(h) ==
  /\ Running(h) /\ ~InHand(h) /\ Running(h)' /\ ~InHand(h)'
  /\ job'[h].sid = job[h].sid

StartsNothing ==
  /\ UNCHANGED history
  /\ \A s \in Sids : session'[s] \in {session[s], Absent}
  /\ offers' \subseteq offers
  /\ \A h \in Handlers : job'[h] \in {job[h], Idle} \/ GoesOn(h)

\* Such a step takes no request and revives none.
LEMMA StartsNothingTakes ==
  ASSUME Agreement, TakenOnce, StartsNothing
  PROVE  TakenOnce'
<1>1. acceptedBy' = acceptedBy /\ request' = request /\ rejected' = rejected
  BY DEF StartsNothing, history
<1>2. \A h \in Handlers : Running(h) => job[h].sid \in Sids
  BY DEF Agreement, FieldsAgree, JobsAgree
<1>3. \A o \in offers : o.sid \in Sids
  BY DEF Agreement, FieldsAgree, TypeOK, Offers
<1>4. Idle.sid = None /\ Idle.pc = "idle"
  BY DEF Idle
<1>5. \A h \in Handlers : job'[h] = job[h] \/ job'[h] = Idle \/ GoesOn(h)
  BY DEF StartsNothing
<1>6. \A h \in Handlers : job'[h].sid \in {job[h].sid, None}
  BY <1>4, <1>5 DEF GoesOn
<1>7. \A h \in Handlers : (InHand(h)' => InHand(h)) /\ (Running(h)' => Running(h))
  BY <1>4, <1>5 DEF GoesOn, InHand, Running
<1>8. \A h \in Handlers : Running(h)' => job'[h].sid = job[h].sid
  BY <1>4, <1>5 DEF GoesOn, Running
<1>9. SlotsFree'
  BY <1>5 DEF TakenOnce, SlotsFree, GoesOn, Running
<1>10. OneOfferEach' /\ OffersUntaken'
  BY <1>1, <1>3, <1>6 DEF TakenOnce, OneOfferEach, OffersUntaken, StartsNothing
<1>11. HeldAlone'
  <2> SUFFICES ASSUME NEW h \in Handlers, InHand(h)'
               PROVE  /\ acceptedBy[job[h].sid] = {} /\ job'[h].sid = job[h].sid
                      /\ \A g \in Handlers : job'[g].sid = job[h].sid => g = h
    BY <1>1 DEF HeldAlone
  <2>1. InHand(h) /\ Running(h) /\ Running(h)'
    BY <1>7 DEF InHand, Running
  <2> QED
    BY <1>2, <1>6, <1>8, <2>1 DEF TakenOnce, HeldAlone
<1>12. TakenFirst'
  <2>1. \A s \in Sids : session'[s].status \in {session[s].status, None}
    BY DEF StartsNothing, Absent
  <2>2. \A h \in Handlers : Running(h)' /\ ~InHand(h)' => Running(h) /\ ~InHand(h)
    BY <1>4, <1>5, <1>7 DEF GoesOn, InHand, Running
  <2> QED  BY <1>1, <1>8, <2>1, <2>2 DEF TakenOnce, TakenFirst
<1>13. OneDriverEach'
  BY <1>1 DEF TakenOnce, OneDriverEach
<1>14. RejectedGone'
  <2>1. rejected \subseteq Sids
    BY DEF Agreement, FieldsAgree, TypeOK
  <2> QED
    BY <1>1, <1>6, <2>1 DEF TakenOnce, RejectedGone, StartsNothing, Exists
<1> QED  BY <1>9, <1>10, <1>11, <1>12, <1>13, <1>14 DEF TakenOnce

-----------------------------------------------------------------------------
(***************************************************************************)
(* The steps by which a request changes hands.                             *)
(***************************************************************************)
\* A new request is in the hands of its handler only.
LEMMA RequestTakes ==
  ASSUME Agreement, TakenOnce, NEW h \in Handlers, NEW u \in Users, NEW d \in Drivers,
         NEW s \in Sids, NEW i \in Ids, Request(h, u, d, s, i)
  PROVE  TakenOnce'
<1>1. request[s] = NoRequest /\ request'[s] # NoRequest
  BY DEF Request, NoRequest, Agreement, FieldsAgree, TypeOK
<1>2. acceptedBy[s] = {} /\ acceptedBy' = acceptedBy /\ rejected' = rejected
  BY <1>1 DEF Request, NoRequest, Agreement, FieldsAgree, RequestsWhole
<1>3. offers' = offers /\ \A o \in offers : o.sid \in Sids /\ o.sid # s
  BY <1>1 DEF Request, NoRequest, Agreement, FieldsAgree, TypeOK, Offers, OffersAgree,
              Genuine
<1>4. \A g \in Handlers : job[g].sid # s
  BY <1>1 DEF NoRequest, Agreement, FieldsAgree, JobsAgree, TakenOnce, SlotsFree, Idle
<1>5. job'[h].sid = s /\ job'[h].pc = "offer" /\ ~Running(h)
  BY DEF Request, Idle, Agreement, FieldsAgree, TypeOK
<1>6. \A g \in Handlers \ {h} : job'[g] = job[g]
  BY DEF Request, Agreement, FieldsAgree, TypeOK
<1>7. session'[s].status = PENDING /\ \A t \in Sids \ {s} : session'[t] = session[t]
  BY DEF Request, SaveDriveRequest, Absent, Agreement, FieldsAgree, TypeOK
<1>8. \A t \in Sids \ {s} : request'[t] = request[t]
  BY DEF Request, Agreement, FieldsAgree, TypeOK
<1>9. SlotsFree' /\ OneOfferEach'
  BY <1>3, <1>5, <1>6 DEF TakenOnce, SlotsFree, OneOfferEach, Running
<1>10. HeldAlone'
  BY <1>2, <1>4, <1>5, <1>6 DEF TakenOnce, HeldAlone, InHand
<1>11. OffersUntaken' /\ OneDriverEach'
  BY <1>2, <1>3 DEF TakenOnce, OffersUntaken, OneDriverEach
<1>12. TakenFirst'
  BY <1>2, <1>5, <1>6, <1>7 DEF TakenOnce, TakenFirst, Running, InHand
<1>13. RejectedGone'
  <2>1. s \notin rejected /\ rejected \subseteq Sids
    BY <1>1 DEF TakenOnce, RejectedGone, Agreement, FieldsAgree, TypeOK
  <2> QED
    BY <1>2, <1>3, <1>5, <1>6, <1>7, <1>8, <2>1 DEF TakenOnce, RejectedGone, Exists
<1> QED  BY <1>9, <1>10, <1>11, <1>12, <1>13 DEF TakenOnce

\* The handler hands the request over to the driver.
LEMMA RequestOfferTakes ==
  ASSUME Agreement, TakenOnce, NEW h \in Handlers, RequestOffer(h)
  PROVE  TakenOnce'
<1> DEFINE s == job[h].sid
<1>1. s \in Sids /\ Running(h) /\ InHand(h)
  BY DEF RequestOffer, Running, InHand, Agreement, FieldsAgree, JobsAgree
<1>2. acceptedBy[s] = {} /\ \A g \in Handlers \ {h} : job[g].sid # s
  BY <1>1 DEF TakenOnce, HeldAlone
<1>3. \A o \in offers : o.sid # s
  BY DEF TakenOnce, OneOfferEach
<1>4. /\ \A o \in offers' : o \in offers \/ o.sid = s
      /\ \A o, p \in offers' : o \notin offers /\ p \notin offers => o = p
  BY DEF RequestOffer, Sent
<1>5. job'[h] = Idle /\ \A g \in Handlers \ {h} : job'[g] = job[g]
  BY DEF RequestOffer, Return, Agreement, FieldsAgree, TypeOK
<1>6. session' = session /\ UNCHANGED history
  BY DEF RequestOffer, redis
<1>7. Idle.sid = None /\ Idle.pc = "idle"
  BY DEF Idle
<1>8. SlotsFree' /\ OneOfferEach'
  BY <1>1, <1>2, <1>3, <1>4, <1>5, <1>7
     DEF TakenOnce, SlotsFree, OneOfferEach, Running, Agreement, FieldsAgree, TypeOK, Offers
<1>9. HeldAlone'
  <2>1. \A g \in Handlers : InHand(g) => Running(g)
    BY DEF InHand, Running
  <2> QED
    BY <1>5, <1>6, <1>7, <2>1
       DEF TakenOnce, HeldAlone, InHand, history, Agreement, FieldsAgree, JobsAgree
<1>10. OffersUntaken' /\ OneDriverEach'
  BY <1>2, <1>4, <1>6 DEF TakenOnce, OffersUntaken, OneDriverEach, history
<1>11. TakenFirst'
  BY <1>5, <1>6, <1>7 DEF TakenOnce, TakenFirst, Running, InHand, history
<1>12. RejectedGone'
  <2>1. s \notin rejected
    BY <1>1 DEF TakenOnce, RejectedGone
  <2> QED
    BY <1>1, <1>4, <1>5, <1>6, <1>7, <2>1
       DEF TakenOnce, RejectedGone, Exists, history, Agreement, FieldsAgree, TypeOK
<1> QED  BY <1>8, <1>9, <1>10, <1>11, <1>12 DEF TakenOnce

\* The driver hands the request over to the handler of the acceptance.
LEMMA AcceptCheckTakes ==
  ASSUME Agreement, TakenOnce, AnswersOnce, NEW h \in Handlers, NEW o \in offers,
         AcceptCheck(h, o)
  PROVE  TakenOnce'
<1>1. o.sid \in Sids /\ acceptedBy[o.sid] = {}
  BY DEF TakenOnce, OffersUntaken, Agreement, FieldsAgree, TypeOK, Offers
<1>2. \A g \in Handlers : job[g].sid # o.sid
  BY DEF TakenOnce, OneOfferEach
<1>3. offers' = offers \ {o} /\ \A p \in offers' : p.sid # o.sid
  BY DEF AcceptCheck, Answered, AnswersOnce, TakenOnce, OneOfferEach
<1>4. job'[h].sid = o.sid /\ job'[h].pc = "accept_save"
  BY DEF AcceptCheck, Idle, Agreement, FieldsAgree, TypeOK
<1>5. \A g \in Handlers \ {h} : job'[g] = job[g]
  BY DEF AcceptCheck, Agreement, FieldsAgree, TypeOK
<1>6. session' = session /\ UNCHANGED history
  BY DEF AcceptCheck, redis
<1>7. SlotsFree' /\ OneOfferEach'
  BY <1>3, <1>4, <1>5 DEF TakenOnce, SlotsFree, OneOfferEach, Running
<1>8. HeldAlone'
  BY <1>1, <1>2, <1>4, <1>5, <1>6 DEF TakenOnce, HeldAlone, InHand, history
<1>9. OffersUntaken' /\ OneDriverEach'
  BY <1>3, <1>6 DEF TakenOnce, OffersUntaken, OneDriverEach, history
<1>10. TakenFirst'
  BY <1>4, <1>5, <1>6 DEF TakenOnce, TakenFirst, Running, InHand, history
<1>11. RejectedGone'
  BY <1>3, <1>4, <1>5, <1>6
     DEF TakenOnce, RejectedGone, Exists, history, Agreement, FieldsAgree, TypeOK
<1> QED  BY <1>7, <1>8, <1>9, <1>10, <1>11 DEF TakenOnce

\* The driver hands the request over to the next driver.
LEMMA RejectOfferTakes ==
  ASSUME Agreement, TakenOnce, AnswersOnce, NEW o \in offers, NEW d \in Drivers,
         RejectOffer(o, d)
  PROVE  TakenOnce'
<1>1. offers' = (offers \ {o}) \cup {[o EXCEPT !.driver = d]}
  BY AnsweredOnce DEF RejectOffer, AnswersOnce
<1>2. [o EXCEPT !.driver = d].sid = o.sid
  BY DEF Agreement, FieldsAgree, TypeOK, Offers
<1>3. job' = job /\ session' = session /\ UNCHANGED history
  BY DEF RejectOffer, redis
<1>4. OneOfferEach'
  <2>1. \A p \in offers \ {o} : p.sid # o.sid
    BY DEF TakenOnce, OneOfferEach
  <2> QED  BY <1>1, <1>2, <1>3, <2>1 DEF TakenOnce, OneOfferEach
<1>5. OffersUntaken'
  BY <1>1, <1>2, <1>3 DEF TakenOnce, OffersUntaken, history
<1>6. SlotsFree' /\ HeldAlone' /\ TakenFirst' /\ OneDriverEach'
  BY <1>3 DEF TakenOnce, SlotsFree, HeldAlone, TakenFirst, OneDriverEach, Running,
              InHand, history
<1>7. RejectedGone'
  <2>1. \A p \in offers' : \E q \in offers : p.sid = q.sid
    BY <1>1, <1>2
  <2> QED  BY <1>3, <2>1 DEF TakenOnce, RejectedGone, Exists, history
<1> QED  BY <1>4, <1>5, <1>6, <1>7 DEF TakenOnce

\* The request that is rejected is in no other hands.
LEMMA RejectRemoveTakes ==
  ASSUME Agreement, TakenOnce, AnswersOnce, NEW o \in offers, RejectRemove(o)
  PROVE  TakenOnce'
<1>1. o.sid \in Sids /\ acceptedBy[o.sid] = {} /\ request[o.sid] # NoRequest
  BY DEF TakenOnce, OffersUntaken, Agreement, FieldsAgree, TypeOK, Offers, OffersAgree,
         Genuine, NoRequest
<1>2. \A g \in Handlers : job[g].sid # o.sid
  BY DEF TakenOnce, OneOfferEach
<1>3. offers' = offers \ {o} /\ \A p \in offers' : p.sid # o.sid
  BY DEF RejectRemove, Answered, AnswersOnce, TakenOnce, OneOfferEach
<1>4. session'[o.sid] = Absent /\ \A s \in Sids : session'[s] \in {session[s], Absent}
  BY <1>1 DEF RejectRemove, RemoveDriveRequest, Agreement, FieldsAgree, TypeOK
<1>5. job' = job /\ acceptedBy' = acceptedBy /\ request' = request
      /\ rejected' = rejected \cup {o.sid}
  BY DEF RejectRemove
<1>6. SlotsFree' /\ HeldAlone' /\ OneDriverEach'
  BY <1>5 DEF TakenOnce, SlotsFree, HeldAlone, OneDriverEach, Running, InHand
<1>7. OneOfferEach' /\ OffersUntaken'
  BY <1>3, <1>5 DEF TakenOnce, OneOfferEach, OffersUntaken
<1>8. TakenFirst'
  BY <1>4, <1>5 DEF TakenOnce, TakenFirst, Running, InHand, Absent
<1>9. RejectedGone'
  BY <1>1, <1>2, <1>3, <1>4, <1>5
     DEF TakenOnce, RejectedGone, Exists, Agreement, FieldsAgree, TypeOK
<1> QED  BY <1>6, <1>7, <1>8, <1>9 DEF TakenOnce

\* What the apps ask for follows an acceptance, so the request has been taken.
LEMMA UpdateReadTakes ==
  ASSUME Agreement, TakenOnce, AnswersOnce, NEW h \in Handlers, NEW s \in Sids,
         NEW next \in AppStatuses, UpdateRead(h, s, next)
  PROVE  TakenOnce'
<1>1. session[s].status \notin {PENDING, None}
  BY DEF UpdateRead, AnswersOnce, CanTransitionTo, NextStatuses, Statuses, PENDING,
         ON_GOING, ARRIVED, PICKED_UP
<1>2. acceptedBy[s] # {}
  BY <1>1 DEF TakenOnce, TakenFirst
<1>3. Exists(s)
  BY <1>1 DEF Exists, Absent
<1>4. job'[h].sid = s /\ job'[h].pc \in {"complete_remove", "update_save"}
  BY DEF UpdateRead, Agreement, FieldsAgree, TypeOK
<1>5. \A g \in Handlers \ {h} : job'[g] = job[g]
  BY DEF UpdateRead, Agreement, FieldsAgree, TypeOK
<1>6. session' = session /\ offers' = offers /\ UNCHANGED history
  BY DEF UpdateRead, redis
<1>7. SlotsFree'
  BY <1>4, <1>5 DEF TakenOnce, SlotsFree, Running
<1>8. OneOfferEach' /\ OffersUntaken' /\ OneDriverEach'
  BY <1>2, <1>4, <1>5, <1>6
     DEF TakenOnce, OneOfferEach, OffersUntaken, OneDriverEach, history
<1>9. HeldAlone'
  BY <1>2, <1>4, <1>5, <1>6 DEF TakenOnce, HeldAlone, InHand, history
<1>10. TakenFirst'
  BY <1>2, <1>4, <1>5, <1>6 DEF TakenOnce, TakenFirst, Running, InHand, history
<1>11. RejectedGone'
  BY <1>3, <1>4, <1>5, <1>6 DEF TakenOnce, RejectedGone, Exists, history
<1> QED  BY <1>7, <1>8, <1>9, <1>10, <1>11 DEF TakenOnce

\* The handler that takes the request was alone with it.
LEMMA AcceptSaveTakes ==
  ASSUME Agreement, TakenOnce, NEW h \in Handlers, AcceptSave(h)
  PROVE  TakenOnce'
<1> DEFINE s == job[h].sid
<1>1. s \in Sids /\ Running(h) /\ InHand(h)
  BY DEF AcceptSave, Running, InHand, Agreement, FieldsAgree, JobsAgree
<1>2. acceptedBy[s] = {} /\ \A g \in Handlers \ {h} : job[g].sid # s
  BY <1>1 DEF TakenOnce, HeldAlone
<1>3. offers' = offers /\ \A o \in offers : o.sid # s
  BY DEF AcceptSave, TakenOnce, OneOfferEach
<1>4. acceptedBy'[s] = {job[h].driverId}
  BY <1>1, <1>2 DEF AcceptSave, Agreement, FieldsAgree, TypeOK
<1>5. \A t \in Sids \ {s} : acceptedBy'[t] = acceptedBy[t] /\ session'[t] = session[t]
  BY DEF AcceptSave, SaveDriveRequest, Agreement, FieldsAgree, TypeOK
<1>6. job'[h].sid = s /\ job'[h].pc = "accept_publish"
  BY DEF AcceptSave, Goto, Agreement, FieldsAgree, TypeOK, Jobs
<1>7. \A g \in Handlers \ {h} : job'[g] = job[g]
  BY DEF AcceptSave, Goto, Agreement, FieldsAgree, TypeOK
<1>8. request' = request /\ rejected' = rejected /\ s \notin rejected
  BY <1>1 DEF AcceptSave, TakenOnce, RejectedGone
<1>9. \A g \in Handlers : Running(g) => job[g].sid \in Sids
  BY DEF Agreement, FieldsAgree, JobsAgree
<1>10. SlotsFree' /\ OneOfferEach'
  BY <1>3, <1>6, <1>7 DEF TakenOnce, SlotsFree, OneOfferEach, Running
<1>11. HeldAlone'
  BY <1>1, <1>2, <1>5, <1>6, <1>7, <1>9 DEF TakenOnce, HeldAlone, InHand, Running
<1>12. OffersUntaken' /\ OneDriverEach'
  BY <1>3, <1>4, <1>5
     DEF TakenOnce, OffersUntaken, OneDriverEach, Agreement, FieldsAgree, TypeOK, Offers
<1>13. TakenFirst'
  BY <1>1, <1>2, <1>4, <1>5, <1>6, <1>7, <1>9
     DEF TakenOnce, TakenFirst, Running, InHand
<1>14. RejectedGone'
  BY <1>3, <1>5, <1>6, <1>7, <1>8
     DEF TakenOnce, RejectedGone, Exists, Agreement, FieldsAgree, TypeOK
<1> QED  BY <1>10, <1>11, <1>12, <1>13, <1>14 DEF TakenOnce

\* A save brings back no hash of a request that was rejected: it is of one that was taken.
LEMMA UpdateSaveTakes ==
  ASSUME Agreement, TakenOnce, NEW h \in Handlers, UpdateSave(h)
  PROVE  TakenOnce'
<1> DEFINE s == job[h].sid
<1>1. s \in Sids /\ Running(h) /\ ~InHand(h)
  BY DEF UpdateSave, Running, InHand, Agreement, FieldsAgree, JobsAgree
<1>2. acceptedBy[s] # {}
  BY <1>1 DEF TakenOnce, TakenFirst
<1>3. s \notin rejected
  BY <1>1 DEF TakenOnce, RejectedGone
<1>4. \A t \in Sids \ {s} : session'[t] = session[t]
  BY DEF UpdateSave, SaveDriveRequest, Agreement, FieldsAgree, TypeOK
<1>5. job'[h] = Idle /\ \A g \in Handlers \ {h} : job'[g] = job[g]
  BY DEF UpdateSave, Return, Agreement, FieldsAgree, TypeOK
<1>6. offers' = offers /\ UNCHANGED history
  BY DEF UpdateSave
<1>7. Idle.sid = None /\ Idle.pc = "idle"
  BY DEF Idle
<1>8. SlotsFree' /\ OneOfferEach'
  BY <1>5, <1>6, <1>7
     DEF TakenOnce, SlotsFree, OneOfferEach, Running, Agreement, FieldsAgree, TypeOK, Offers
<1>9. HeldAlone'
  <2>1. \A g \in Handlers : InHand(g) => Running(g)
    BY DEF InHand, Running
  <2> QED
    BY <1>5, <1>6, <1>7, <2>1
       DEF TakenOnce, HeldAlone, InHand, history, Agreement, FieldsAgree, JobsAgree
<1>10. OffersUntaken' /\ OneDriverEach'
  BY <1>6 DEF TakenOnce, OffersUntaken, OneDriverEach, history
<1>11. TakenFirst'
  BY <1>2, <1>4, <1>5, <1>6, <1>7 DEF TakenOnce, TakenFirst, Running, InHand, history
<1>12. RejectedGone'
  BY <1>3, <1>4, <1>5, <1>6, <1>7
     DEF TakenOnce, RejectedGone, Exists, history, Agreement, FieldsAgree, TypeOK
<1> QED  BY <1>8, <1>9, <1>10, <1>11, <1>12 DEF TakenOnce

-----------------------------------------------------------------------------
(***************************************************************************)
(* Every step.                                                             *)
(***************************************************************************)
\* The continuations of the handlers, one by one.
LEMMA ContinueTakes ==
  ASSUME Agreement, TakenOnce, NEW h \in Handlers, Continue(h)
  PROVE  TakenOnce'
<1>1. CASE RequestOffer(h)    BY <1>1, RequestOfferTakes
<1>2. CASE AcceptSave(h)      BY <1>2, AcceptSaveTakes
<1>3. CASE UpdateSave(h)      BY <1>3, UpdateSaveTakes
<1>4. ASSUME session' = session, offers' = offers, UNCHANGED history, Return(h)
      PROVE  TakenOnce'
  BY <1>4, StartsNothingTakes DEF StartsNothing, Return, Agreement, FieldsAgree, TypeOK
<1>5. CASE AcceptPublish(h) \/ CompleteRefused(h) \/ CompleteFinish(h)
  BY <1>4, <1>5 DEF AcceptPublish, CompleteRefused, CompleteFinish, redis
<1>6. ASSUME \A s \in Sids : session'[s] \in {session[s], Absent}, offers' = offers,
             UNCHANGED history, job[h].pc \in CompletePCs, job'[h].pc \in CompletePCs,
             job'[h].sid = job[h].sid, \A g \in Handlers \ {h} : job'[g] = job[g]
      PROVE  TakenOnce'
  <2>1. GoesOn(h)
    BY <1>6 DEF GoesOn, Running, InHand, CompletePCs
  <2> QED  BY <1>6, <2>1, StartsNothingTakes DEF StartsNothing
<1>7. CASE CompleteRemove(h)
  <2>1. \A s \in Sids : session'[s] \in {session[s], Absent}
    BY <1>7 DEF CompleteRemove, RemoveDriveRequest, Agreement, FieldsAgree, TypeOK
  <2> QED
    BY <1>6, <1>7, <2>1
       DEF CompleteRemove, Goto, CompletePCs, Agreement, FieldsAgree, TypeOK, Jobs
<1>8. CASE CompleteLookup(h) \/ CompleteInsert(h) \/ CompleteUpdate(h)
  BY <1>6, <1>8 DEF CompleteLookup, CompleteInsert, CompleteUpdate, Goto, redis,
                    CompletePCs, Agreement, FieldsAgree, TypeOK, Jobs
<1> QED  BY <1>1, <1>2, <1>3, <1>5, <1>7, <1>8 DEF Continue

\* Every step keeps TakenOnce.
LEMMA NextTakes ==
  ASSUME Agreement, TakenOnce, AnswersOnce, [Next]_vars
  PROVE  TakenOnce'
<1>1. CASE \E h \in Handlers : Continue(h)
  BY <1>1, ContinueTakes
<1> Answers = offers
  BY AnsweredOnce DEF AnswersOnce
<1>2. CASE \E h \in Handlers : Message(h)
  BY <1>2, RequestTakes, AcceptCheckTakes, UpdateReadTakes DEF Message
<1>3. CASE \E h \in Handlers : Fail(h)
  BY <1>3, StartsNothingTakes
     DEF Fail, RequestUnoffered, QueryFails, StartsNothing, Return, redis, Agreement, FieldsAgree,
         TypeOK
<1>4. CASE \E o \in offers, d \in Drivers : RejectOffer(o, d)
  BY <1>4, RejectOfferTakes
<1>5. CASE \E o \in offers : RejectRemove(o)
  BY <1>5, RejectRemoveTakes
<1>6. CASE \E o \in offers : AcceptNotFound(o) \/ RejectLost(o)
  BY <1>6, StartsNothingTakes DEF AcceptNotFound, RejectLost, Answered, StartsNothing, redis
<1>7. CASE Crash
  BY <1>7, StartsNothingTakes DEF Crash, StartsNothing, redis
<1>8. CASE \E s \in Sids : Expire(s)
  BY <1>8, StartsNothingTakes
     DEF Expire, RemoveDriveRequest, StartsNothing, Agreement, FieldsAgree, TypeOK
<1>9. CASE UNCHANGED vars
  BY <1>9, StartsNothingTakes DEF vars, StartsNothing, history
<1> QED  BY <1>1, <1>2, <1>3, <1>4, <1>5, <1>6, <1>7, <1>8, <1>9 DEF Next, Answer

\* A request goes through one pair of hands until it is taken, by one driver.
THEOREM TakenOnceHolds ==
  ASSUME AnswersOnce
  PROVE  Spec => []TakenOnce
<1>1. Init => TakenOnce
  BY DEF Init, TakenOnce, SlotsFree, OneOfferEach, HeldAlone, OffersUntaken, TakenFirst,
         OneDriverEach, RejectedGone, Running, InHand, Idle, Absent
<1>2. Agreement /\ TakenOnce /\ [Next]_vars => TakenOnce'
  BY NextTakes
<1>3. Spec => []Agreement
  BY AnsweredOnce DEF AnswersOnce
<1> QED  BY <1>1, <1>2, <1>3, PTL DEF Spec

\* A passenger who was told that the request is rejected is not driven and not charged.
THEOREM RejectedIsFinalHolds ==
  ASSUME AnswersOnce, "fresh_ids" \in Assumed
  PROVE  Spec => []RejectedIsFinal
<1>1. Agreement /\ IdsDistinct /\ TakenOnce => RejectedIsFinal
  <2> SUFFICES ASSUME Agreement, IdsDistinct, TakenOnce, NEW s \in rejected
               PROVE  rides[request[s].id] = NoRow
    BY DEF RejectedIsFinal, TakenOnce, RejectedGone
  <2>1. s \in Sids /\ acceptedBy[s] = {} /\ request[s] # NoRequest
    BY DEF TakenOnce, RejectedGone, Agreement, FieldsAgree, TypeOK
  <2>2. request[s].id \in Ids
    BY <2>1 DEF Agreement, FieldsAgree, TypeOK, RequestsWhole, NoRequest
  <2>3. \A t \in Sids : request[t].id = request[s].id => t = s
    BY <2>1, <2>2 DEF IdsDistinct
  <2> QED  BY <2>1, <2>2, <2>3 DEF Agreement, FieldsAgree, RowsSound
<1>2. Spec => []Agreement
  BY AnsweredOnce DEF AnswersOnce
<1> QED  BY <1>1, <1>2, IdsAndSettled, TakenOnceHolds, PTL

\* Both queries of repository.save() write what the row has already, if it is there:
\* one request has the id, and one driver has taken it.
LEMMA WritesTheSame ==
  ASSUME Agreement, IdsDistinct, TakenOnce, NEW h \in Handlers,
         job[h].pc \in {"complete_insert", "complete_update"}, Storable(job[h]),
         NEW columns \in SUBSET Columns, WriteColumns(job[h], columns), NEW i \in Ids, rides[i] # NoRow
  PROVE  rides'[i] = rides[i]
<1> DEFINE s == job[h].sid
<1>1. /\ s \in Sids /\ job[h].id = request[s].id /\ job[h].userId = request[s].userId
      /\ job[h].driverId \in acceptedBy[s] /\ job[h].id # None
  BY DEF Agreement, FieldsAgree, JobsAgree, Running, Storable, UpdatePCs, CompletePCs
<1>2. CASE i # job[h].id
  BY <1>2 DEF WriteColumns, Agreement, FieldsAgree, TypeOK
<1>3. CASE i = job[h].id
  <2>1. PICK t \in Sids : request[t] = [id |-> i, userId |-> rides[i].userId]
    BY DEF Agreement, FieldsAgree, RowsSound
  <2>2. PICK v \in Sids : request[v].id = i /\ rides[i].driverId \in acceptedBy[v]
    BY DEF Agreement, FieldsAgree, RowsSound
  <2>3. rides[i].userId = job[h].userId /\ rides[i].driverId = job[h].driverId
    <3>1. t = s /\ v = s
      BY <1>1, <1>3, <2>1, <2>2 DEF IdsDistinct
    <3> QED  BY <1>1, <2>1, <2>2, <3>1 DEF TakenOnce, OneDriverEach
  <2>4. rides[i] \in Rows
    BY DEF Agreement, FieldsAgree, TypeOK
  <2> QED  BY <1>3, <2>3, <2>4 DEF WriteColumns, Rows, Agreement, FieldsAgree, TypeOK
<1> QED  BY <1>2, <1>3

\* A row once written never changes, though save() updates one that it finds and two
\* completions of a ride may race.
THEOREM RideNeverRewrittenHolds ==
  ASSUME AnswersOnce, "fresh_ids" \in Assumed
  PROVE  Spec => RideNeverRewritten
<1> DEFINE Kept == \A i \in Ids : rides[i] # NoRow => rides'[i] = rides[i]
<1>1. Agreement /\ IdsDistinct /\ TakenOnce /\ [Next]_vars => Kept
  <2> SUFFICES ASSUME Agreement, IdsDistinct, TakenOnce, [Next]_vars
               PROVE  rides' = rides \/ Kept
    OBVIOUS
  <2>1. ASSUME NEW h \in Handlers, Continue(h) PROVE rides' = rides \/ Kept
    <3>1. CASE CompleteInsert(h)   BY <3>1, WritesTheSame DEF CompleteInsert
    <3>2. CASE CompleteUpdate(h)
      <4>1. job[h].changed \in SUBSET Columns
        BY DEF Agreement, FieldsAgree, TypeOK, Jobs
      <4> QED  BY <3>2, <4>1, WritesTheSame DEF CompleteUpdate
    <3> QED
      BY <2>1, <3>1, <3>2
         DEF Continue, RequestOffer, AcceptSave, AcceptPublish, UpdateSave, CompleteRemove,
             CompleteLookup, CompleteRefused, CompleteFinish
  <2>2. ASSUME NEW h \in Handlers, Message(h) \/ Fail(h) PROVE rides' = rides
    BY <2>2 DEF Message, Fail, Request, AcceptCheck, UpdateRead, RequestUnoffered, QueryFails
  <2>3. ASSUME NEW o \in Answers, Answer(o) PROVE rides' = rides
    BY <2>3 DEF Answer, AcceptNotFound, RejectOffer, RejectRemove, RejectLost
  <2>4. ASSUME Crash \/ (\E s \in Sids : Expire(s)) \/ UNCHANGED vars PROVE rides' = rides
    BY <2>4 DEF Crash, Expire, vars
  <2> QED  BY <2>1, <2>2, <2>3, <2>4 DEF Next
<1>2. Agreement /\ IdsDistinct /\ TakenOnce /\ [Next]_vars => [Kept]_vars
  BY <1>1
<1>3. Spec => []Agreement
  BY AnsweredOnce DEF AnswersOnce
<1> QED
  BY <1>2, <1>3, IdsAndSettled, TakenOnceHolds, PTL DEF Spec, RideNeverRewritten

-----------------------------------------------------------------------------
(***************************************************************************)
(* Pointers and rides stay together.                                       *)
(***************************************************************************)
OneRideApps ==
  /\ OrderlyApps
  /\ "one_ride_each" \in Assumed
  /\ "crash" \notin Faults

\* A handler goes on, without an offer to make or pointers to publish.
Works(h) ==
  /\ job[h].pc \notin {"offer", "accept_publish"}
  /\ job'[h].pc \notin {"offer", "accept_publish"}
  /\ job'[h].sid = job[h].sid /\ job'[h].userId = job[h].userId
  /\ job'[h].driverId = job[h].driverId

Ends(h) == job'[h] = Idle /\ job[h].pc # "accept_publish"

\* A step that engages nobody and changes no pointer.
EngagesNobody ==
  /\ pointer' = pointer
  /\ offers' \subseteq offers
  /\ \A s \in Sids : session'[s] \in {session[s], Absent}
  /\ \A h \in Handlers : job'[h] = job[h] \/ Ends(h) \/ Works(h)

\* Hashes that stay or go and handlers that go on or end engage nobody anew.
LEMMA EngagedBefore ==
  ASSUME \A s \in Sids : session'[s] \in {session[s], Absent},
         \A h \in Handlers : job'[h] = job[h] \/ job'[h] = Idle \/ Works(h),
         NEW a \in Accounts, NEW s \in Sids, Engaged(a, s)'
  PROVE  Engaged(a, s)
<1>1. a # None
  OBVIOUS
<1>2. CASE TakesPart(a, session[s])' /\ session'[s].status # CANCELLED
  BY <1>1, <1>2 DEF TakesPart, Absent, Engaged
<1>3. ASSUME NEW h \in Handlers, job'[h].sid = s,
             a = job'[h].userId \/ (a = job'[h].driverId /\ job'[h].pc # "offer")
      PROVE  Engaged(a, s)
  <2>1. job'[h] # Idle
    BY <1>1, <1>3 DEF Idle
  <2> QED  BY <1>3, <2>1 DEF Works, Engaged
<1> QED  BY <1>2, <1>3 DEF Engaged

\* A step that engages nobody and leaves the pointers alone leaves every ride reachable.
LEMMA EngagesNobodyReaches ==
  ASSUME Agreement, Reachable, EngagesNobody
  PROVE  Reachable'
<1>1. EngagedOnce'
  <2>1. \A a \in Accounts, s \in Sids : Engaged(a, s)' => Engaged(a, s)
    BY EngagedBefore DEF EngagesNobody, Ends
  <2> QED  BY <2>1 DEF Reachable, EngagedOnce
<1>2. \A s \in Sids, u \in Accounts : Whole(s, u) => Whole(s, u)'
  BY DEF EngagesNobody, Whole, Exists
<1>3. OfferedWhole'
  <2>1. \A o \in offers : o.sid \in Sids /\ o.userId \in Accounts
    BY DEF Agreement, FieldsAgree, TypeOK, Offers
  <2>2. \A h \in Handlers : job[h].pc = "offer" => job[h].sid \in Sids /\ job[h].userId \in Accounts
    BY DEF Agreement, FieldsAgree, TypeOK, JobsAgree, Running, Jobs
  <2>3. \A h \in Handlers : job'[h].pc = "offer" => job'[h] = job[h]
    BY DEF EngagesNobody, Works, Ends, Idle
  <2> QED  BY <1>2, <2>1, <2>2, <2>3 DEF Reachable, OfferedWhole, EngagesNobody
<1>4. ActiveRideReachable'
  <2>1. \A h \in Handlers : job[h].pc = "accept_publish" => job'[h] = job[h]
    BY DEF EngagesNobody, Works, Ends
  <2>2. \A s \in Sids : session'[s].userId # None => session'[s] = session[s]
    BY DEF EngagesNobody, Absent
  <2> QED  BY <2>1, <2>2 DEF Reachable, ActiveRideReachable, EngagesNobody
<1> QED  BY <1>1, <1>3, <1>4 DEF Reachable

-----------------------------------------------------------------------------
\* A passenger who asks for a ride is engaged in no other.
LEMMA RequestReaches ==
  ASSUME Agreement, Reachable, OneRideApps, NEW h \in Handlers, NEW u \in Users,
         NEW d \in Drivers, NEW s \in Sids, NEW i \in Ids, Request(h, u, d, s, i)
  PROVE  Reachable'
<1>1. /\ session'[s] = [id |-> i, userId |-> u, driverId |-> None, status |-> PENDING]
      /\ \A t \in Sids \ {s} : session'[t] = session[t]
  BY DEF Request, SaveDriveRequest, Absent, Agreement, FieldsAgree, TypeOK
<1>2. /\ job'[h] = [Idle EXCEPT !.pc = "offer", !.sid = s, !.userId = u, !.driverId = d]
      /\ \A g \in Handlers \ {h} : job'[g] = job[g]
  BY DEF Request, Agreement, FieldsAgree, TypeOK
<1>3. job'[h].pc = "offer" /\ job'[h].sid = s /\ job'[h].userId = u
  BY <1>2 DEF Idle
<1>4. offers' = offers /\ pointer' = pointer
  BY DEF Request
<1>5. \A t \in Sids \ {s} : ~Engaged(u, t)
  BY DEF Request, MayRide, OneRideApps, Engaged, TakesPart
<1>6. request[s].userId = None
  BY DEF Request, NoRequest
<1>7. /\ \A o \in offers : o.sid # s
      /\ \A g \in Handlers : Running(g) => job[g].sid # s
  BY <1>6 DEF Agreement, FieldsAgree, TypeOK, Offers, OffersAgree, Genuine, JobsAgree
<1>8. EngagedOnce'
  <2>1. ASSUME NEW a \in Accounts, NEW t \in Sids, Engaged(a, t)'
        PROVE  Engaged(a, t) \/ (a = u /\ t = s)
    <3>1. a # None
      OBVIOUS
    <3>2. CASE TakesPart(a, session[t])' /\ session'[t].status # CANCELLED
      BY <1>1, <3>1, <3>2 DEF Engaged, TakesPart
    <3>3. ASSUME NEW g \in Handlers, job'[g].sid = t,
                 a = job'[g].userId \/ (a = job'[g].driverId /\ job'[g].pc # "offer")
          PROVE  Engaged(a, t) \/ (a = u /\ t = s)
      BY <1>2, <1>3, <3>3 DEF Engaged
    <3> QED  BY <2>1, <3>2, <3>3 DEF Engaged
  <2> QED  BY <1>5, <2>1 DEF Reachable, EngagedOnce
<1>9. OfferedWhole'
  <2>1. Whole(s, u)' /\ \A t \in Sids \ {s}, v \in Accounts : Whole(t, v) => Whole(t, v)'
    BY <1>1 DEF Whole, Exists
  <2>2. \A o \in offers : o.sid \in Sids \ {s} /\ o.userId \in Accounts
    BY <1>7 DEF Agreement, FieldsAgree, TypeOK, Offers
  <2>3. \A g \in Handlers \ {h} : job[g].pc = "offer" =>
          job[g].sid \in Sids \ {s} /\ job[g].userId \in Accounts
    BY <1>7 DEF Agreement, FieldsAgree, TypeOK, JobsAgree, Running, Jobs
  <2> QED  BY <1>2, <1>3, <1>4, <2>1, <2>2, <2>3 DEF Reachable, OfferedWhole
<1>10. ActiveRideReachable'
  <2>1. session'[s].status \notin Active
    BY <1>1 DEF Active, PENDING, ON_GOING, ARRIVED, PICKED_UP
  <2>2. \A g \in Handlers : job[g].pc = "accept_publish" => job'[g] = job[g]
    BY <1>2 DEF Request, Running
  <2> QED  BY <1>1, <1>4, <2>1, <2>2 DEF Reachable, ActiveRideReachable
<1> QED  BY <1>8, <1>9, <1>10 DEF Reachable

\* The passenger stays engaged by the hash while the driver looks at the offer.
LEMMA RequestOfferReaches ==
  ASSUME Agreement, Reachable, NEW h \in Handlers, RequestOffer(h)
  PROVE  Reachable'
<1>1. session' = session /\ pointer' = pointer
  BY DEF RequestOffer, redis
<1>2. job'[h] = Idle /\ \A g \in Handlers \ {h} : job'[g] = job[g]
  BY DEF RequestOffer, Return, Agreement, FieldsAgree, TypeOK
<1>3. \A o \in offers' : o \in offers \/ (o.sid = job[h].sid /\ o.userId = job[h].userId)
  BY DEF RequestOffer, Sent
<1>4. job[h].pc = "offer"
  BY DEF RequestOffer
<1>5. EngagedOnce'
  <2>1. \A a \in Accounts, s \in Sids : Engaged(a, s)' => Engaged(a, s)
    BY <1>1, <1>2, EngagedBefore
  <2> QED  BY <2>1 DEF Reachable, EngagedOnce
<1>6. OfferedWhole'
  BY <1>1, <1>2, <1>3, <1>4 DEF Reachable, OfferedWhole, Whole, Exists, Idle
<1>7. ActiveRideReachable'
  BY <1>1, <1>2, <1>4 DEF Reachable, ActiveRideReachable
<1> QED  BY <1>5, <1>6, <1>7 DEF Reachable

\* A driver who accepts is engaged in no other ride, and the passenger in this one.
LEMMA AcceptCheckReaches ==
  ASSUME Agreement, Reachable, OneRideApps, NEW h \in Handlers, NEW o \in offers,
         AcceptCheck(h, o)
  PROVE  Reachable'
<1>1. session' = session /\ pointer' = pointer /\ offers' \subseteq offers
  BY DEF AcceptCheck, redis, Answered
<1>2. /\ job'[h] = [Idle EXCEPT !.pc = "accept_save", !.sid = o.sid,
                      !.userId = o.userId, !.driverId = o.driver]
      /\ \A g \in Handlers \ {h} : job'[g] = job[g]
  BY DEF AcceptCheck, Agreement, FieldsAgree, TypeOK
<1>3. /\ job'[h].pc = "accept_save" /\ job'[h].sid = o.sid
      /\ job'[h].userId = o.userId /\ job'[h].driverId = o.driver
  BY <1>2 DEF Idle
<1>4. o.sid \in Sids /\ o.userId \in Accounts /\ o.driver \in Accounts
  BY DEF Agreement, FieldsAgree, TypeOK, Offers
<1>5. \A t \in Sids : ~Engaged(o.driver, t)
  BY DEF AcceptCheck, MayRide, OneRideApps, Engaged, TakesPart
<1>6. Engaged(o.userId, o.sid)
  <2>1. session[o.sid].userId = o.userId /\ session[o.sid].status = PENDING
    BY DEF AcceptCheck, Reachable, OfferedWhole, Whole
  <2> QED  BY <2>1 DEF Engaged, TakesPart, PENDING, CANCELLED
<1>7. EngagedOnce'
  <2>1. ASSUME NEW a \in Accounts, NEW t \in Sids, Engaged(a, t)'
        PROVE  Engaged(a, t) \/ (a \in {o.driver, o.userId} /\ t = o.sid)
    <3>1. CASE TakesPart(a, session[t])' /\ session'[t].status # CANCELLED
      BY <1>1, <3>1 DEF Engaged
    <3>2. ASSUME NEW g \in Handlers, job'[g].sid = t,
                 a = job'[g].userId \/ (a = job'[g].driverId /\ job'[g].pc # "offer")
          PROVE  Engaged(a, t) \/ (a \in {o.driver, o.userId} /\ t = o.sid)
      <4>1. CASE g = h    BY <1>3, <3>2, <4>1
      <4>2. CASE g # h    BY <1>2, <3>2, <4>2 DEF Engaged
      <4> QED  BY <4>1, <4>2
    <3> QED  BY <2>1, <3>1, <3>2 DEF Engaged
  <2> QED  BY <1>4, <1>5, <1>6, <2>1 DEF Reachable, EngagedOnce
<1>8. OfferedWhole'
  BY <1>1, <1>2, <1>3 DEF Reachable, OfferedWhole, Whole, Exists
<1>9. ActiveRideReachable'
  <2>1. ~Running(h)
    BY DEF AcceptCheck
  <2> QED  BY <1>1, <1>2, <2>1 DEF Reachable, ActiveRideReachable, Running
<1> QED  BY <1>7, <1>8, <1>9 DEF Reachable

\* A rejection passes the offer on with the passenger it has.
LEMMA RejectOfferReaches ==
  ASSUME Agreement, Reachable, NEW o \in offers, NEW d \in Drivers, RejectOffer(o, d)
  PROVE  Reachable'
<1>1. session' = session /\ pointer' = pointer /\ job' = job
  BY DEF RejectOffer, redis
<1>2. \A p \in offers' : \E q \in offers : p.sid = q.sid /\ p.userId = q.userId
  BY DEF RejectOffer, Answered, Sent, Agreement, FieldsAgree, TypeOK, Offers
<1>3. EngagedOnce'
  <2>1. \A a \in Accounts, s \in Sids : Engaged(a, s)' => Engaged(a, s)
    BY <1>1 DEF Engaged, TakesPart
  <2> QED  BY <2>1 DEF Reachable, EngagedOnce
<1>4. OfferedWhole'
  BY <1>1, <1>2 DEF Reachable, OfferedWhole, Whole, Exists
<1>5. ActiveRideReachable'
  BY <1>1 DEF Reachable, ActiveRideReachable
<1> QED  BY <1>3, <1>4, <1>5 DEF Reachable

\* What an update has read are the parties of the ride it works on.
LEMMA UpdateReadReaches ==
  ASSUME Agreement, Reachable, NEW h \in Handlers, NEW s \in Sids,
         NEW next \in AppStatuses, UpdateRead(h, s, next)
  PROVE  Reachable'
<1>1. session' = session /\ pointer' = pointer /\ offers' = offers
  BY DEF UpdateRead, redis
<1>2. /\ job'[h].sid = s /\ job'[h].userId = session[s].userId
      /\ job'[h].driverId = session[s].driverId /\ job'[h].next = next
      /\ job'[h].pc \in {"complete_remove", "update_save"}
      /\ \A g \in Handlers \ {h} : job'[g] = job[g]
  BY DEF UpdateRead, Idle, Agreement, FieldsAgree, TypeOK
<1>3. session[s].status # CANCELLED
  BY DEF UpdateRead, CanTransitionTo, NextStatuses, PENDING, ON_GOING, ARRIVED,
         PICKED_UP, CANCELLED
<1>4. EngagedOnce'
  <2>1. \A a \in Accounts, t \in Sids : Engaged(a, t)' => Engaged(a, t)
    BY <1>1, <1>2, <1>3 DEF Engaged, TakesPart
  <2> QED  BY <2>1 DEF Reachable, EngagedOnce
<1>5. OfferedWhole'
  BY <1>1, <1>2 DEF Reachable, OfferedWhole, Whole, Exists
<1>6. ActiveRideReachable'
  <2>1. ~Running(h)
    BY DEF UpdateRead
  <2> QED  BY <1>1, <1>2, <2>1 DEF Reachable, ActiveRideReachable, Running
<1> QED  BY <1>4, <1>5, <1>6 DEF Reachable

\* The hash that takes the driver has the passenger of the handler, or none.
LEMMA AcceptSaveReaches ==
  ASSUME Agreement, Orderly, Reachable, NEW h \in Handlers, AcceptSave(h)
  PROVE  Reachable'
<1> DEFINE s == job[h].sid
<1>1. Running(h) /\ s \in Sids
  BY DEF AcceptSave, Running, Agreement, FieldsAgree, JobsAgree
<1>2. /\ session'[s].status = ON_GOING /\ session'[s].driverId = job[h].driverId
      /\ session'[s].userId = session[s].userId
      /\ \A t \in Sids \ {s} : session'[t] = session[t]
  BY <1>1 DEF AcceptSave, SaveDriveRequest, Agreement, FieldsAgree, TypeOK, Sessions
<1>3. /\ job'[h].pc = "accept_publish" /\ job'[h].sid = s
      /\ job'[h].userId = job[h].userId /\ job'[h].driverId = job[h].driverId
      /\ \A g \in Handlers \ {h} : job'[g] = job[g]
  BY DEF AcceptSave, Goto, Agreement, FieldsAgree, TypeOK, Jobs
<1>4. offers' = offers /\ pointer' = pointer /\ job[h].pc = "accept_save"
  BY DEF AcceptSave
<1>5. session[s].userId \in {None, job[h].userId}
  BY <1>1, <1>4 DEF Agreement, FieldsAgree, SessionAgrees, AnswersAgree, Genuine, AcceptPCs
<1>6. \A o \in offers : o.sid # s
  BY DEF Orderly, OneOfferEach
<1>7. \A g \in Handlers \ {h} : job[g].sid # s
  BY <1>1 DEF Orderly, OneHandlerEach
<1>8. EngagedOnce'
  <2>1. \A a \in Accounts, t \in Sids : Engaged(a, t)' => Engaged(a, t)
    BY <1>2, <1>3, <1>4, <1>5 DEF Engaged, TakesPart
  <2> QED  BY <2>1 DEF Reachable, EngagedOnce
<1>9. OfferedWhole'
  <2>1. \A t \in Sids \ {s}, v \in Accounts : Whole(t, v) => Whole(t, v)'
    BY <1>2 DEF Whole, Exists
  <2>2. \A o \in offers : o.sid \in Sids \ {s} /\ o.userId \in Accounts
    BY <1>6 DEF Agreement, FieldsAgree, TypeOK, Offers
  <2>3. \A g \in Handlers \ {h} : job[g].pc = "offer" =>
          job[g].sid \in Sids \ {s} /\ job[g].userId \in Accounts
    BY <1>7 DEF Agreement, FieldsAgree, TypeOK, JobsAgree, Running, Jobs
  <2> QED  BY <1>3, <1>4, <2>1, <2>2, <2>3 DEF Reachable, OfferedWhole
<1>10. ActiveRideReachable'
  BY <1>2, <1>3, <1>4 DEF Reachable, ActiveRideReachable
<1> QED  BY <1>8, <1>9, <1>10 DEF Reachable

\* The pointers that are published are of accounts engaged in no other ride.
LEMMA AcceptPublishReaches ==
  ASSUME Agreement, TakenOnce, Reachable, NEW h \in Handlers, AcceptPublish(h)
  PROVE  Reachable'
<1> DEFINE s == job[h].sid
<1>1. Running(h) /\ s \in Sids /\ job[h].pc = "accept_publish"
  BY DEF AcceptPublish, Running, Agreement, FieldsAgree, JobsAgree
<1>2. session' = session /\ offers' = offers
  BY DEF AcceptPublish
<1>3. job'[h] = Idle /\ \A g \in Handlers \ {h} : job'[g] = job[g]
  BY DEF AcceptPublish, Return, Agreement, FieldsAgree, TypeOK
<1>4. /\ job[h].userId = request[s].userId /\ job[h].userId \in Accounts
      /\ job[h].driverId \in acceptedBy[s] /\ job[h].driverId \in Accounts
  BY <1>1 DEF Agreement, FieldsAgree, TypeOK, JobsAgree, AnswersAgree, Genuine, AcceptPCs,
              Jobs
<1>5. /\ pointer'[job[h].userId] = s /\ pointer'[job[h].driverId] = s
      /\ \A a \in Accounts \ {job[h].userId, job[h].driverId} : pointer'[a] = pointer[a]
  BY <1>4 DEF AcceptPublish, Agreement, FieldsAgree, TypeOK
<1>6. Engaged(job[h].userId, s) /\ Engaged(job[h].driverId, s)
  BY <1>1 DEF Engaged
<1>7. EngagedOnce'
  <2>1. \A a \in Accounts, t \in Sids : Engaged(a, t)' => Engaged(a, t)
    BY <1>2, <1>3, EngagedBefore
  <2> QED  BY <2>1 DEF Reachable, EngagedOnce
<1>8. OfferedWhole'
  BY <1>2, <1>3 DEF Reachable, OfferedWhole, Whole, Exists, Idle
<1>9. ActiveRideReachable'
  <2> SUFFICES ASSUME NEW t \in Sids, session[t].status \in Active,
                      None \notin {session[t].userId, session[t].driverId},
                      \A g \in Handlers : job'[g].sid = t => job'[g].pc # "accept_publish"
               PROVE  pointer'[session[t].userId] = t /\ pointer'[session[t].driverId] = t
    BY <1>2 DEF ActiveRideReachable
  <2>1. session[t].userId \in Accounts /\ session[t].driverId \in Accounts
    BY DEF Agreement, FieldsAgree, TypeOK, Sessions
  <2>2. CASE t = s
    <3>1. session[t].userId = job[h].userId
      BY <1>4, <2>2 DEF Agreement, FieldsAgree, SessionAgrees
    <3>2. session[t].driverId = job[h].driverId
      BY <1>4, <2>2 DEF Agreement, FieldsAgree, SessionAgrees, TakenOnce, OneDriverEach
    <3> QED  BY <1>5, <2>2, <3>1, <3>2
  <2>3. CASE t # s
    <3>1. Engaged(session[t].userId, t) /\ Engaged(session[t].driverId, t)
      BY DEF Engaged, TakesPart, Active, ON_GOING, ARRIVED, PICKED_UP, CANCELLED
    <3>2. {session[t].userId, session[t].driverId} \cap {job[h].userId, job[h].driverId} = {}
      BY <1>1, <1>4, <1>6, <2>1, <2>3, <3>1 DEF Reachable, EngagedOnce
    <3>3. pointer[session[t].userId] = t /\ pointer[session[t].driverId] = t
      BY <1>3, <2>3 DEF Reachable, ActiveRideReachable
    <3> QED  BY <1>5, <2>1, <3>2, <3>3
  <2> QED  BY <2>2, <2>3
<1> QED  BY <1>7, <1>8, <1>9 DEF Reachable

\* A ride that is updated was under way before, with the pointers it has.
LEMMA UpdateSaveReaches ==
  ASSUME Agreement, Orderly, Settlements, Reachable, OneRideApps, NEW h \in Handlers,
         UpdateSave(h)
  PROVE  Reachable'
<1> DEFINE s == job[h].sid
<1>1. Running(h) /\ s \in Sids /\ job[h].pc = "update_save"
  BY DEF UpdateSave, Running, Agreement, FieldsAgree, JobsAgree
<1>2. /\ session'[s].status = job[h].next /\ session'[s].driverId = session[s].driverId
      /\ session'[s].userId = session[s].userId
      /\ \A t \in Sids \ {s} : session'[t] = session[t]
  BY <1>1 DEF UpdateSave, SaveDriveRequest, Agreement, FieldsAgree, TypeOK, Sessions
<1>3. job'[h] = Idle /\ \A g \in Handlers \ {h} : job'[g] = job[g]
  BY DEF UpdateSave, Return, Agreement, FieldsAgree, TypeOK
<1>4. offers' = offers /\ pointer' = pointer
  BY DEF UpdateSave
<1>5. session[s].status = None \/ CanTransitionTo(session[s].status, job[h].next)
  BY <1>1 DEF Orderly, UpdatesChecked
<1>6. job[h].next \in Statuses \ {PENDING, ON_GOING}
  BY <1>1 DEF Settlements, UpdatesAskedFor, OneRideApps, OrderlyApps
<1>7. \A o \in offers : o.sid # s
  BY DEF Orderly, OneOfferEach
<1>8. \A g \in Handlers \ {h} : job[g].sid # s
  BY <1>1 DEF Orderly, OneHandlerEach
<1>9. session[s].status # CANCELLED
  BY <1>5 DEF CanTransitionTo, NextStatuses, PENDING, ON_GOING, ARRIVED, PICKED_UP,
              CANCELLED, Statuses
<1>10. EngagedOnce'
  <2>1. ASSUME NEW a \in Accounts, NEW t \in Sids, Engaged(a, t)'
        PROVE  Engaged(a, t)
    <3>1. a # None
      OBVIOUS
    <3>2. CASE TakesPart(a, session[t])' /\ session'[t].status # CANCELLED
      BY <1>2, <1>9, <3>2 DEF Engaged, TakesPart
    <3>3. ASSUME NEW g \in Handlers, job'[g].sid = t,
                 a = job'[g].userId \/ (a = job'[g].driverId /\ job'[g].pc # "offer")
          PROVE  Engaged(a, t)
      BY <1>3, <3>1, <3>3 DEF Engaged, Idle
    <3> QED  BY <2>1, <3>2, <3>3 DEF Engaged
  <2> QED  BY <2>1 DEF Reachable, EngagedOnce
<1>11. OfferedWhole'
  <2>1. \A t \in Sids \ {s}, v \in Accounts : Whole(t, v) => Whole(t, v)'
    BY <1>2 DEF Whole, Exists
  <2>2. \A o \in offers : o.sid \in Sids \ {s} /\ o.userId \in Accounts
    BY <1>7 DEF Agreement, FieldsAgree, TypeOK, Offers
  <2>3. \A g \in Handlers \ {h} : job[g].pc = "offer" =>
          job[g].sid \in Sids \ {s} /\ job[g].userId \in Accounts
    BY <1>8 DEF Agreement, FieldsAgree, TypeOK, JobsAgree, Running, Jobs
  <2> QED  BY <1>3, <1>4, <2>1, <2>2, <2>3 DEF Reachable, OfferedWhole, Idle
<1>12. ActiveRideReachable'
  <2> SUFFICES ASSUME NEW t \in Sids, session'[t].status \in Active,
                      None \notin {session'[t].userId, session'[t].driverId},
                      \A g \in Handlers : job'[g].sid = t => job'[g].pc # "accept_publish"
               PROVE  pointer[session'[t].userId] = t /\ pointer[session'[t].driverId] = t
    BY <1>4 DEF ActiveRideReachable
  <2>1. session[t].status \in Active
    <3>1. CASE t = s
      <4>1. session[s].status # None
        BY <1>2, <3>1 DEF Settlements, StatusesKnown
      <4> QED
        BY <1>2, <1>5, <1>6, <3>1, <4>1
           DEF CanTransitionTo, NextStatuses, Active, PENDING, ON_GOING, ARRIVED,
               PICKED_UP, COMPLETED, CANCELLED, Statuses
    <3> QED  BY <1>2, <3>1
  <2>2. \A g \in Handlers : job[g].sid = t => job[g].pc # "accept_publish"
    BY <1>1, <1>3
  <2> QED  BY <1>2, <2>1, <2>2 DEF Reachable, ActiveRideReachable
<1> QED  BY <1>10, <1>11, <1>12 DEF Reachable

\* The end of a ride deletes the pointers of two accounts engaged in no other, and the
\* ride's hash is not whole any more: it was removed when the completion began.
LEMMA CompleteFinishReaches ==
  ASSUME Agreement, Settlements, Reachable, NEW h \in Handlers, CompleteFinish(h)
  PROVE  Reachable'
<1> DEFINE s == job[h].sid
<1>1. Running(h) /\ s \in Sids /\ job[h].pc = "complete_finish"
  BY DEF CompleteFinish, Running, Agreement, FieldsAgree, JobsAgree
<1>2. session' = session /\ offers' = offers
  BY DEF CompleteFinish
<1>3. job'[h] = Idle /\ \A g \in Handlers \ {h} : job'[g] = job[g]
  BY DEF CompleteFinish, Return, Agreement, FieldsAgree, TypeOK
<1>4. job[h].userId \in Accounts /\ job[h].driverId \in Accounts
  BY <1>1 DEF Agreement, FieldsAgree, TypeOK, JobsAgree, Jobs, Storable
<1>5. \A a \in Accounts \ {job[h].userId, job[h].driverId} : pointer'[a] = pointer[a]
  BY <1>4 DEF CompleteFinish, Agreement, FieldsAgree, TypeOK
<1>6. Engaged(job[h].userId, s) /\ Engaged(job[h].driverId, s)
  BY <1>1 DEF Engaged
<1>7. EngagedOnce'
  <2>1. \A a \in Accounts, t \in Sids : Engaged(a, t)' => Engaged(a, t)
    BY <1>2, <1>3, EngagedBefore
  <2> QED  BY <2>1 DEF Reachable, EngagedOnce
<1>8. OfferedWhole'
  BY <1>2, <1>3 DEF Reachable, OfferedWhole, Whole, Exists, Idle
<1>9. ActiveRideReachable'
  <2> SUFFICES ASSUME NEW t \in Sids, session[t].status \in Active,
                      None \notin {session[t].userId, session[t].driverId},
                      \A g \in Handlers : job'[g].sid = t => job'[g].pc # "accept_publish"
               PROVE  pointer'[session[t].userId] = t /\ pointer'[session[t].driverId] = t
    BY <1>2 DEF ActiveRideReachable
  <2>1. session[t].userId \in Accounts /\ session[t].driverId \in Accounts
    BY DEF Agreement, FieldsAgree, TypeOK, Sessions
  <2>2. t # s
    BY <1>1 DEF Settlements, RemovedForGood, Exists, Absent
  <2>3. Engaged(session[t].userId, t) /\ Engaged(session[t].driverId, t)
    BY DEF Engaged, TakesPart, Active, ON_GOING, ARRIVED, PICKED_UP, CANCELLED
  <2>4. {session[t].userId, session[t].driverId} \cap {job[h].userId, job[h].driverId} = {}
    BY <1>1, <1>4, <1>6, <2>1, <2>2, <2>3 DEF Reachable, EngagedOnce
  <2>5. pointer[session[t].userId] = t /\ pointer[session[t].driverId] = t
    BY <1>1, <1>3 DEF Reachable, ActiveRideReachable
  <2> QED  BY <1>5, <2>1, <2>4, <2>5
<1> QED  BY <1>7, <1>8, <1>9 DEF Reachable

-----------------------------------------------------------------------------
\* The continuations of the handlers, one by one.
LEMMA ContinueReaches ==
  ASSUME Agreement, Orderly, Settlements, TakenOnce, Reachable, OneRideApps,
         NEW h \in Handlers, Continue(h)
  PROVE  Reachable'
<1>1. CASE RequestOffer(h)      BY <1>1, RequestOfferReaches
<1>2. CASE AcceptSave(h)        BY <1>2, AcceptSaveReaches
<1>3. CASE AcceptPublish(h)     BY <1>3, AcceptPublishReaches
<1>4. CASE UpdateSave(h)        BY <1>4, UpdateSaveReaches
<1>5. CASE CompleteFinish(h)    BY <1>5, CompleteFinishReaches
<1>6. CASE CompleteRefused(h)
  BY <1>6, EngagesNobodyReaches
     DEF CompleteRefused, EngagesNobody, Ends, Return, redis, Agreement, FieldsAgree, TypeOK
<1>7. ASSUME pointer' = pointer, offers' = offers,
             \A s \in Sids : session'[s] \in {session[s], Absent},
             Works(h), \A g \in Handlers \ {h} : job'[g] = job[g]
      PROVE  Reachable'
  BY <1>7, EngagesNobodyReaches DEF EngagesNobody
<1>8. CASE CompleteRemove(h)
  <2>1. \A s \in Sids : session'[s] \in {session[s], Absent}
    BY <1>8 DEF CompleteRemove, RemoveDriveRequest, Agreement, FieldsAgree, TypeOK
  <2>2. Works(h) /\ \A g \in Handlers \ {h} : job'[g] = job[g]
    BY <1>8 DEF CompleteRemove, Goto, Works, Agreement, FieldsAgree, TypeOK, Jobs
  <2> QED
    BY <1>7, <1>8, <2>1, <2>2 DEF CompleteRemove
<1>9. CASE CompleteLookup(h) \/ CompleteInsert(h) \/ CompleteUpdate(h)
  <2>1. session' = session /\ pointer' = pointer /\ offers' = offers
    BY <1>9 DEF CompleteLookup, CompleteInsert, CompleteUpdate, redis
  <2>2. Works(h) /\ \A g \in Handlers \ {h} : job'[g] = job[g]
    BY <1>9 DEF CompleteLookup, CompleteInsert, CompleteUpdate, Goto, Works, Agreement,
                FieldsAgree, TypeOK, Jobs
  <2> QED
    BY <1>7, <2>1, <2>2
<1> QED  BY <1>1, <1>2, <1>3, <1>4, <1>5, <1>6, <1>8, <1>9 DEF Continue

\* Every step keeps pointers and rides together.
LEMMA NextReaches ==
  ASSUME Agreement, Orderly, Settlements, TakenOnce, Reachable, OneRideApps, [Next]_vars
  PROVE  Reachable'
<1>1. CASE \E h \in Handlers : Continue(h)
  BY <1>1, ContinueReaches
<1> Answers = offers
  BY AnsweredOnce DEF OneRideApps, OrderlyApps
<1>2. CASE \E h \in Handlers : Message(h)
  BY <1>2, RequestReaches, AcceptCheckReaches, UpdateReadReaches DEF Message
<1>3. CASE \E h \in Handlers : Fail(h)
  BY <1>3, EngagesNobodyReaches
     DEF Fail, RequestUnoffered, QueryFails, EngagesNobody, Ends, Return, redis,
         SettlingPCs, Agreement, FieldsAgree, TypeOK
<1>4. CASE \E o \in offers, d \in Drivers : RejectOffer(o, d)
  BY <1>4, RejectOfferReaches
<1>5. CASE \E o \in offers : RejectRemove(o)
  BY <1>5, EngagesNobodyReaches
     DEF RejectRemove, RemoveDriveRequest, Answered, EngagesNobody, Agreement, FieldsAgree, TypeOK
<1>6. CASE \E o \in offers : AcceptNotFound(o) \/ RejectLost(o)
  BY <1>6, EngagesNobodyReaches
     DEF AcceptNotFound, RejectLost, Answered, EngagesNobody, redis
<1>7. CASE Crash
  BY <1>7 DEF Crash, OneRideApps
<1>8. CASE \E s \in Sids : Expire(s)
  BY <1>8, EngagesNobodyReaches
     DEF Expire, RemoveDriveRequest, EngagesNobody, Agreement, FieldsAgree, TypeOK
<1>9. CASE UNCHANGED vars
  BY <1>9, EngagesNobodyReaches DEF vars, EngagesNobody
<1> QED  BY <1>1, <1>2, <1>3, <1>4, <1>5, <1>6, <1>7, <1>8, <1>9 DEF Next, Answer

\* An app that reconnects during a ride finds it: the pointers that the end of one ride
\* deletes are those of no other ride, of an account that takes part in one at a time.
THEOREM ActiveRideReachableHolds ==
  ASSUME OneRideApps
  PROVE  Spec => []ActiveRideReachable
<1>1. Init => Reachable
  BY DEF Init, Reachable, EngagedOnce, Engaged, TakesPart, OfferedWhole,
         ActiveRideReachable, Active, Absent, Idle
<1>2. Agreement /\ Orderly /\ Settlements /\ TakenOnce /\ Reachable /\ [Next]_vars => Reachable'
  BY NextReaches
<1>3. OrderlyApps /\ AnswersOnce
  BY DEF OneRideApps, OrderlyApps, AnswersOnce
<1>4. Spec => []Orderly /\ []Settlements /\ []TakenOnce
  BY <1>3, OrderlyHolds, SettlementsHold, TakenOnceHolds, PTL
<1>5. Reachable => ActiveRideReachable
  BY DEF Reachable
<1>6. Spec => []Agreement
  BY AnsweredOnce DEF OneRideApps, OrderlyApps
<1> QED  BY <1>1, <1>2, <1>4, <1>5, <1>6, PTL DEF Spec
=============================================================================
