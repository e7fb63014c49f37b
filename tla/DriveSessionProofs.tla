------------------------- MODULE DriveSessionProofs -------------------------
(***************************************************************************)
(* What holds of DriveSession for any accounts, sessions, ids and handlers *)
(* and any faults: the inductive invariant FieldsAgree, whatever the apps  *)
(* send, Agreement, for apps that answer genuinely, and what follows.      *)
(***************************************************************************)
EXTENDS DriveSession, TLAPS

USE NoneIsNoValue, ConstantsAreSane DEF Accounts
-----------------------------------------------------------------------------
(***************************************************************************)
(* FieldsAgree, action by action: a step for each conjunct that the action *)
(* can disturb.                                                            *)
(***************************************************************************)
\* A handler that goes on to a later await keeps its type.
LEMMA GotoTyped ==
  ASSUME job \in [Handlers -> Jobs], NEW h \in Handlers, NEW pc \in PCs, Goto(h, pc)
  PROVE  job' \in [Handlers -> Jobs]
BY DEF Goto, Jobs

\* So does one that has found out what it has to write.
LEMMA JobLooksUp ==
  ASSUME NEW j \in Jobs, NEW pc \in PCs, NEW changed \in SUBSET Columns
  PROVE  [j EXCEPT !.pc = pc, !.changed = changed] \in Jobs
BY DEF Jobs

\* A handler that returns keeps its type, and what agreed of the others still does.
LEMMA ReturnAgrees ==
  ASSUME FieldsAgree, NEW h \in Handlers, Return(h), UNCHANGED <<request, rides>>,
         \A s \in Sids : acceptedBy[s] \subseteq acceptedBy'[s]
  PROVE  job' \in [Handlers -> Jobs] /\ JobsAgree'
<1>1. job' \in [Handlers -> Jobs]
  BY DEF FieldsAgree, TypeOK, Return, Idle, Jobs, PCs
<1>2. \A g \in Handlers : Running(g)' => job'[g] = job[g] /\ Running(g)
  BY DEF FieldsAgree, TypeOK, Return, Idle, Running
<1>3. JobsAgree'
  BY <1>2 DEF FieldsAgree, JobsAgree, Found, Storable
<1> QED  BY <1>1, <1>3

\* Whoever an app says it is and whatever it says: the session was handed out.
LEMMA AnswersTyped ==
  ASSUME FieldsAgree, NEW o \in Answers
  PROVE  o \in Offers
BY DEF FieldsAgree, TypeOK, Answers

\* A new request disturbs no copy: no hash, handler, row or acceptance is for its
\* sid yet, since nanoid() never repeats one.
LEMMA RequestAgrees ==
  ASSUME FieldsAgree, NEW h \in Handlers, NEW u \in Users, NEW d \in Drivers,
         NEW s \in Sids, NEW i \in Ids, Request(h, u, d, s, i)
  PROVE  FieldsAgree'
<1>1. TypeOK'
  BY DEF FieldsAgree, TypeOK, Request, SaveDriveRequest, Absent, Idle, Sessions, Jobs,
       PCs, Statuses, PENDING, ON_GOING, ARRIVED, PICKED_UP, COMPLETED, CANCELLED
<1>2. SessionAgrees'
  BY DEF FieldsAgree, TypeOK, Request, SessionAgrees, SaveDriveRequest, Absent
<1>3. JobsAgree'
  BY DEF FieldsAgree, TypeOK, Request, JobsAgree, NoRequest, Running, UpdatePCs,
       CompletePCs, AcceptPCs, Idle, Found, Storable
<1>4. RequestsWhole'
  BY DEF FieldsAgree, Request, RequestsWhole
<1>5. RowsSound'
  BY DEF FieldsAgree, Request, RowsSound, NoRequest, RequestsWhole
<1> QED  BY <1>1, <1>2, <1>3, <1>4, <1>5 DEF FieldsAgree

\* The offer that is emitted is typed, and leaves the copies as they were.
LEMMA RequestOfferAgrees ==
  ASSUME FieldsAgree, NEW h \in Handlers, RequestOffer(h)
  PROVE  FieldsAgree'
<1>1. [driver |-> job[h].driverId, sid |-> job[h].sid, userId |-> job[h].userId] \in Offers
  BY DEF RequestOffer, FieldsAgree, TypeOK, JobsAgree, Running, Jobs, Offers
<1>2. offers' \subseteq Offers
  BY <1>1 DEF RequestOffer, Sent, FieldsAgree, TypeOK
<1>3. job' \in [Handlers -> Jobs] /\ JobsAgree'
  BY ReturnAgrees DEF RequestOffer, history
<1> QED  BY <1>2, <1>3 DEF FieldsAgree, TypeOK, RequestOffer, redis, history,
              SessionAgrees, RequestsWhole, RowsSound

\* Handlers that return, or lose their query, with nothing else written.
LEMMA ReturnOnlyAgrees ==
  ASSUME FieldsAgree, NEW h \in Handlers, Return(h), UNCHANGED <<redis, rides, offers, history>>
  PROVE  FieldsAgree'
<1>1. job' \in [Handlers -> Jobs] /\ JobsAgree'
  BY ReturnAgrees DEF history
<1> QED  BY <1>1 DEF FieldsAgree, TypeOK, redis, history, SessionAgrees, RequestsWhole,
              RowsSound

\* accept-drive-request starts for a session that was handed out, with a passenger
\* of the app's choice.
LEMMA AcceptCheckAgrees ==
  ASSUME FieldsAgree, NEW h \in Handlers, NEW o \in Answers, AcceptCheck(h, o)
  PROVE  FieldsAgree'
<1>1. o \in Offers
  BY AnswersTyped
<1>2. request[o.sid].userId # None
  <2>1. o.sid \in Sids /\ session[o.sid] \in Sessions /\ session[o.sid] # Absent
    BY <1>1 DEF AcceptCheck, Exists, FieldsAgree, TypeOK, Offers
  <2>2. \/ session[o.sid].id # None \/ session[o.sid].userId # None
        \/ session[o.sid].driverId # None \/ session[o.sid].status # None
    BY <2>1 DEF Sessions, Absent
  <2> QED  BY <2>1, <2>2 DEF FieldsAgree, SessionAgrees, RequestsWhole
<1>3. TypeOK'
  BY <1>1 DEF FieldsAgree, TypeOK, AcceptCheck, Answered, Idle, Offers, Jobs, PCs,
       AcceptPCs, redis, history
<1>4. JobsAgree'
  BY <1>1, <1>2 DEF FieldsAgree, TypeOK, AcceptCheck, JobsAgree, history, Running,
       UpdatePCs, CompletePCs, AcceptPCs, Offers, Idle, Found, Storable
<1> QED  BY <1>3, <1>4 DEF FieldsAgree, AcceptCheck, redis, history, SessionAgrees,
              RequestsWhole, RowsSound

\* Answers that write nothing, and a rejection that is passed on, leave the copies
\* as they were.
LEMMA AnswerAgrees ==
  ASSUME FieldsAgree, offers' \subseteq Offers, UNCHANGED <<redis, rides, job, history>>
  PROVE  FieldsAgree'
BY DEF FieldsAgree, TypeOK, redis, history, SessionAgrees, JobsAgree, Running, Found,
     RequestsWhole, RowsSound

\* A rejection is passed on with what the app sent.
LEMMA RejectOfferAgrees ==
  ASSUME FieldsAgree, NEW o \in Answers, NEW d \in Drivers, RejectOffer(o, d)
  PROVE  FieldsAgree'
<1>1. [o EXCEPT !.driver = d] \in Offers
  BY AnswersTyped DEF Offers
<1>2. offers' \subseteq Offers
  BY <1>1 DEF RejectOffer, Answered, Sent, FieldsAgree, TypeOK
<1> QED  BY <1>2, AnswerAgrees DEF RejectOffer

\* An acceptance of a session that is gone, or a rejection that is lost.
LEMMA AnswerLostAgrees ==
  ASSUME FieldsAgree, NEW o \in Answers, AcceptNotFound(o) \/ RejectLost(o)
  PROVE  FieldsAgree'
<1>1. offers' \subseteq Offers
  BY DEF AcceptNotFound, RejectLost, Answered, FieldsAgree, TypeOK
<1> QED  BY <1>1, AnswerAgrees DEF AcceptNotFound, RejectLost

\* The save of an acceptance, also into a hash another handler removed meanwhile:
\* the driver it writes is one whose acceptance is saved.
LEMMA AcceptSaveAgrees ==
  ASSUME FieldsAgree, NEW h \in Handlers, AcceptSave(h)
  PROVE  FieldsAgree'
<1>1. job[h] \in Jobs /\ job[h].sid \in Sids /\ job[h].driverId \in Accounts
      /\ request[job[h].sid].userId # None
  BY DEF FieldsAgree, TypeOK, AcceptSave, Jobs, JobsAgree, Running, AcceptPCs
<1>2. TypeOK'
  <2>1. job' \in [Handlers -> Jobs]
    <3>1. "accept_publish" \in PCs
      BY DEF PCs, AcceptPCs
    <3> QED  BY <3>1, GotoTyped DEF FieldsAgree, TypeOK, AcceptSave
  <2>2. session' \in [Sids -> Sessions]
    <3> DEFINE s == job[h].sid
               hash == [session[s] EXCEPT !.status = ON_GOING, !.driverId = job[h].driverId]
    <3>1. session[s] \in Sessions
      BY <1>1 DEF FieldsAgree, TypeOK
    <3>2. hash \in Sessions
      BY <1>1, <3>1 DEF Sessions, Statuses
    <3>3. session' = [session EXCEPT ![s] = hash]
      BY DEF AcceptSave, SaveDriveRequest
    <3> HIDE DEF hash
    <3> QED  BY <1>1, <3>2, <3>3 DEF FieldsAgree, TypeOK
  <2>3. acceptedBy' \in [Sids -> SUBSET Accounts]
    BY <1>1 DEF FieldsAgree, TypeOK, AcceptSave
  <2> QED  BY <2>1, <2>2, <2>3 DEF FieldsAgree, TypeOK, AcceptSave
<1>3. \A s \in Sids : acceptedBy[s] \subseteq acceptedBy'[s]
  BY DEF FieldsAgree, TypeOK, AcceptSave
<1>4. SessionAgrees'
  BY <1>1 DEF FieldsAgree, TypeOK, AcceptSave, SessionAgrees, SaveDriveRequest, Sessions
<1>5. JobsAgree'
  <2>1. acceptedBy'[job[h].sid] = acceptedBy[job[h].sid] \cup {job[h].driverId}
    BY <1>1 DEF AcceptSave, FieldsAgree, TypeOK
  <2>2. job' = [job EXCEPT ![h].pc = "accept_publish"]
    BY DEF AcceptSave, Goto
  <2>3. job[h].pc = "accept_save" /\ Running(h)
    BY DEF AcceptSave, Running
  <2> QED  BY <1>1, <1>3, <2>1, <2>2, <2>3 DEF FieldsAgree, TypeOK, AcceptSave, JobsAgree,
                Running, AcceptPCs, UpdatePCs, CompletePCs, Found, Storable
<1>6. RequestsWhole' /\ RowsSound'
  BY <1>1, <1>3 DEF FieldsAgree, TypeOK, AcceptSave, RequestsWhole, RowsSound
<1> QED  BY <1>2, <1>4, <1>5, <1>6 DEF FieldsAgree

\* The pointers are written: of the driver who accepted and of whomever the app named.
LEMMA AcceptPublishAgrees ==
  ASSUME FieldsAgree, NEW h \in Handlers, AcceptPublish(h)
  PROVE  FieldsAgree'
<1>1. job[h].sid \in Sids
  BY DEF FieldsAgree, AcceptPublish, JobsAgree, Running
<1>2. pointer' \in [Accounts -> Sids \cup {None}]
  BY <1>1 DEF FieldsAgree, TypeOK, AcceptPublish
<1>3. job' \in [Handlers -> Jobs] /\ JobsAgree'
  BY ReturnAgrees DEF AcceptPublish, history
<1> QED  BY <1>2, <1>3 DEF FieldsAgree, TypeOK, AcceptPublish, history, SessionAgrees,
              RequestsWhole, RowsSound

\* A rejection, and the TTL, remove a hash under the feet of other handlers: what they
\* hold was true of the request and still is.
LEMMA RemovalAgrees ==
  ASSUME FieldsAgree, NEW s \in Sids, RemoveDriveRequest(s), offers' \subseteq Offers,
         rejected' \subseteq Sids, UNCHANGED <<pointer, rides, job, request, acceptedBy>>
  PROVE  FieldsAgree'
<1>1. session' \in [Sids -> Sessions]
  BY DEF FieldsAgree, TypeOK, RemoveDriveRequest, Absent, Sessions
<1>2. SessionAgrees'
  BY DEF FieldsAgree, SessionAgrees, RemoveDriveRequest, Absent
<1> QED  BY <1>1, <1>2 DEF FieldsAgree, TypeOK, JobsAgree, Running, Found,
              RequestsWhole, RowsSound

\* update-drive-request-status copies the hash, which is missing fields if it came
\* back after a removal, into its closure.
LEMMA UpdateReadAgrees ==
  ASSUME FieldsAgree, NEW h \in Handlers, NEW s \in Sids, NEW next \in AppStatuses,
         UpdateRead(h, s, next)
  PROVE  FieldsAgree'
<1>1. TypeOK'
  BY DEF FieldsAgree, TypeOK, UpdateRead, CanTransitionTo, NextStatuses, Jobs, PCs, Idle,
       UpdatePCs, CompletePCs, redis, history, Sessions
<1>2. JobsAgree'
  BY DEF FieldsAgree, UpdateRead, JobsAgree, Running, CanTransitionTo, NextStatuses, Idle,
       history, AcceptPCs, Statuses, PENDING, ON_GOING, ARRIVED, PICKED_UP, COMPLETED,
       CANCELLED, SessionAgrees, Found, Storable
<1> QED  BY <1>1, <1>2 DEF FieldsAgree, UpdateRead, redis, history, SessionAgrees,
              RequestsWhole, RowsSound

\* The save of a status writes no other field, whatever happened since the read.
LEMMA UpdateSaveAgrees ==
  ASSUME FieldsAgree, NEW h \in Handlers, UpdateSave(h)
  PROVE  FieldsAgree'
<1>1. session' \in [Sids -> Sessions]
  <2> DEFINE s == job[h].sid
             hash == [session[s] EXCEPT !.status = job[h].next]
  <2>1. s \in Sids /\ session[s] \in Sessions /\ job[h].next \in Statuses \cup {None}
    BY DEF UpdateSave, FieldsAgree, TypeOK, JobsAgree, Running, Jobs
  <2>2. hash \in Sessions
    BY <2>1 DEF Sessions
  <2>3. session' = [session EXCEPT ![s] = hash]
    BY DEF UpdateSave, SaveDriveRequest
  <2> HIDE DEF hash
  <2> QED  BY <2>1, <2>2, <2>3 DEF FieldsAgree, TypeOK
<1>2. SessionAgrees'
  BY DEF FieldsAgree, UpdateSave, SessionAgrees, SaveDriveRequest, history, JobsAgree,
       Running
<1>3. job' \in [Handlers -> Jobs] /\ JobsAgree'
  BY ReturnAgrees DEF UpdateSave, history
<1> QED  BY <1>1, <1>2, <1>3 DEF FieldsAgree, TypeOK, UpdateSave, history, RequestsWhole,
              RowsSound

\* The hash of a completed ride is removed; its data is in the handler.
LEMMA CompleteRemoveAgrees ==
  ASSUME FieldsAgree, NEW h \in Handlers, CompleteRemove(h)
  PROVE  FieldsAgree'
<1>1. TypeOK'
  <2>1. session' \in [Sids -> Sessions]
    BY DEF FieldsAgree, TypeOK, CompleteRemove, RemoveDriveRequest, Absent, Sessions
  <2>2. job' \in [Handlers -> Jobs]
    <3>1. "complete_lookup" \in PCs
      BY DEF PCs, UpdatePCs, CompletePCs
    <3> QED  BY <3>1, GotoTyped DEF FieldsAgree, TypeOK, CompleteRemove
  <2> QED  BY <2>1, <2>2 DEF FieldsAgree, TypeOK, CompleteRemove, history
<1>2. SessionAgrees'
  BY DEF FieldsAgree, CompleteRemove, SessionAgrees, RemoveDriveRequest, Absent, history
<1>3. JobsAgree'
  BY DEF FieldsAgree, CompleteRemove, JobsAgree, Goto, history, Running, AcceptPCs,
       UpdatePCs, CompletePCs, Found, Storable
<1> QED  BY <1>1, <1>2, <1>3 DEF FieldsAgree, CompleteRemove, history, RequestsWhole,
              RowsSound

\* repository.save() looks for the row and for what differs, and writes nothing yet.
LEMMA CompleteLookupAgrees ==
  ASSUME FieldsAgree, NEW h \in Handlers, CompleteLookup(h)
  PROVE  FieldsAgree'
<1>1. PICK pc \in {"complete_insert", "complete_update"} :
        /\ job' = [job EXCEPT ![h].pc = pc, ![h].changed = Changed(job[h])]
        /\ pc = "complete_update" => Found(job[h])
  BY DEF CompleteLookup
<1>2. Changed(job[h]) \in SUBSET Columns
  BY DEF Changed
<1>3. pc \in PCs /\ pc \in UpdatePCs /\ pc \notin {"offer", "complete_finish"} \cup AcceptPCs
  BY DEF PCs, UpdatePCs, CompletePCs, AcceptPCs
<1>4. job' \in [Handlers -> Jobs]
  <2>1. job' = [job EXCEPT ![h] = [job[h] EXCEPT !.pc = pc, !.changed = Changed(job[h])]]
    BY <1>1
  <2>2. [job[h] EXCEPT !.pc = pc, !.changed = Changed(job[h])] \in Jobs
    BY <1>2, <1>3, JobLooksUp DEF FieldsAgree, TypeOK
  <2> QED  BY <2>1, <2>2 DEF FieldsAgree, TypeOK
<1>5. job[h].pc \in UpdatePCs /\ Running(h)
  BY DEF CompleteLookup, UpdatePCs, CompletePCs, Running
<1>6. JobsAgree'
  <2>1. \A g \in Handlers \ {h} : job'[g] = job[g]
    BY <1>1 DEF FieldsAgree, TypeOK
  <2>2. job[h] \in Jobs
    BY DEF FieldsAgree, TypeOK
  <2>3. /\ job'[h].sid = job[h].sid /\ job'[h].id = job[h].id
        /\ job'[h].userId = job[h].userId /\ job'[h].driverId = job[h].driverId
        /\ job'[h].pc = pc
    BY <1>1, <2>2 DEF FieldsAgree, TypeOK, Jobs
  <2>4. rides' = rides /\ request' = request /\ acceptedBy' = acceptedBy
    BY DEF CompleteLookup, history
  <2> HIDE DEF Changed
  <2>5. Found(job[h])' <=> Found(job[h])
    BY <2>3, <2>4 DEF Found
  <2> SUFFICES ASSUME NEW g \in Handlers, Running(g)'
               PROVE  LET s == job'[g].sid IN
                      /\ s \in Sids /\ request[s].userId # None
                      /\ job'[g].pc \in {"offer"} \cup AcceptPCs =>
                           None \notin {job'[g].userId, job'[g].driverId}
                      /\ job'[g].pc = "offer" =>
                           /\ job'[g].userId = request[s].userId
                           /\ job'[g].driverId \in Drivers \ {job'[g].userId}
                      /\ job'[g].pc = "accept_publish" => job'[g].driverId \in acceptedBy[s]
                      /\ job'[g].pc \in UpdatePCs =>
                           /\ job'[g].id \in {None, request[s].id}
                           /\ job'[g].userId \in {None, request[s].userId}
                           /\ job'[g].driverId \in {None} \cup acceptedBy[s]
                      /\ job'[g].pc = "complete_update" => Found(job[g])'
                      /\ job'[g].pc = "complete_finish" => Storable(job[g])'
    BY <2>4 DEF JobsAgree
  <2>6. CASE g = h
    BY <1>1, <1>3, <1>5, <2>3, <2>5, <2>6 DEF FieldsAgree, JobsAgree
  <2>7. CASE g # h
    BY <2>1, <2>4, <2>7 DEF FieldsAgree, JobsAgree, Running, Found, Storable
  <2> QED  BY <2>6, <2>7
<1> QED  BY <1>4, <1>6 DEF FieldsAgree, TypeOK, CompleteLookup, redis, history,
              SessionAgrees, RequestsWhole, RowsSound

\* A row is inserted, or some of its columns updated, from a closure that agrees with
\* the request: each column is still one of a request under that id.
LEMMA WriteAgrees ==
  ASSUME FieldsAgree, NEW h \in Handlers, NEW columns \in SUBSET Columns,
         \/ job[h].pc = "complete_insert" /\ columns = Columns
         \/ job[h].pc = "complete_update",
         Storable(job[h]), WriteColumns(job[h], columns), Goto(h, "complete_finish"),
         UNCHANGED <<redis, offers, history>>
  PROVE  FieldsAgree'
<1> DEFINE i == job[h].id
           row == rides'[i]
<1>1. job[h] \in Jobs /\ i \in Ids /\ job[h].sid \in Sids /\ Running(h)
      /\ request[job[h].sid].id = i /\ request[job[h].sid].userId = job[h].userId
      /\ job[h].driverId \in acceptedBy[job[h].sid]
  BY DEF FieldsAgree, TypeOK, JobsAgree, Running, Storable, Jobs, UpdatePCs, CompletePCs
<1>2. rides' = [rides EXCEPT ![i] = row]
      /\ row = [userId   |-> IF "userId" \in columns THEN job[h].userId ELSE rides[i].userId,
                driverId |-> IF "driverId" \in columns THEN job[h].driverId
                                                       ELSE rides[i].driverId]
  BY <1>1 DEF WriteColumns, FieldsAgree, TypeOK
<1>3. columns = Columns \/ rides[i] # NoRow
  BY DEF FieldsAgree, JobsAgree, Running, Found
<1>4. row \in Rows
  <2>1. row.userId \in Users
    BY <1>1, <1>2, <1>3 DEF Storable, FieldsAgree, TypeOK, Rows, Columns
  <2>2. row.driverId \in Drivers
    BY <1>1, <1>2, <1>3 DEF Storable, FieldsAgree, TypeOK, Rows, Columns
  <2> QED  BY <1>2, <2>1, <2>2 DEF Rows
<1>5. TypeOK'
  <2>1. "complete_finish" \in PCs
    BY DEF PCs, UpdatePCs, CompletePCs
  <2>2. job' \in [Handlers -> Jobs]
    BY <2>1, GotoTyped DEF FieldsAgree, TypeOK
  <2>3. rides' \in [Ids -> Rows \cup {NoRow}]
    BY <1>1, <1>2, <1>4 DEF FieldsAgree, TypeOK
  <2> QED  BY <2>2, <2>3 DEF FieldsAgree, TypeOK, redis, history
<1>6. \A j \in Ids : rides[j] # NoRow => rides'[j] # NoRow
  BY <1>1, <1>2, <1>4 DEF FieldsAgree, TypeOK, Rows, NoRow
<1>7. JobsAgree'
  <2>1. job' = [job EXCEPT ![h].pc = "complete_finish"]
    BY DEF Goto
  <2>2. \A g \in Handlers : job[g].id # None => job[g].id \in Ids
    BY DEF FieldsAgree, TypeOK, Jobs
  <2> QED  BY <1>6, <2>1, <2>2 DEF FieldsAgree, TypeOK, JobsAgree, history, Running,
                AcceptPCs, UpdatePCs, CompletePCs, Found, Storable
<1>8. RowsSound'
  <2> SUFFICES ASSUME NEW j \in Ids, rides'[j] # NoRow
               PROVE  /\ \E s \in Sids : request[s] = [id |-> j, userId |-> rides'[j].userId]
                      /\ \E s \in Sids : request[s].id = j
                                         /\ rides'[j].driverId \in acceptedBy[s]
    BY DEF RowsSound, history
  <2>1. CASE j # i
    BY <1>1, <1>2, <2>1 DEF FieldsAgree, TypeOK, RowsSound
  <2>2. CASE j = i
    <3>1. request[job[h].sid] = [id |-> i, userId |-> job[h].userId]
      BY <1>1 DEF FieldsAgree, TypeOK
    <3>2. rides[i] # NoRow =>
            /\ \E s \in Sids : request[s] = [id |-> i, userId |-> rides[i].userId]
            /\ \E s \in Sids : request[s].id = i /\ rides[i].driverId \in acceptedBy[s]
      BY <1>1 DEF FieldsAgree, RowsSound
    <3>3. \E s \in Sids : request[s] = [id |-> i, userId |-> row.userId]
      BY <1>1, <1>2, <1>3, <3>1, <3>2 DEF Columns
    <3>4. \E s \in Sids : request[s].id = i /\ row.driverId \in acceptedBy[s]
      BY <1>1, <1>2, <1>3, <3>1, <3>2 DEF Columns
    <3> QED  BY <2>2, <3>3, <3>4
  <2> QED  BY <2>1, <2>2
<1> QED  BY <1>5, <1>7, <1>8 DEF FieldsAgree, redis, history, SessionAgrees, RequestsWhole

\* The two ways save() writes.
LEMMA SaveAgrees ==
  ASSUME FieldsAgree, NEW h \in Handlers, CompleteInsert(h) \/ CompleteUpdate(h)
  PROVE  FieldsAgree'
<1>1. job[h].changed \in SUBSET Columns
  BY DEF FieldsAgree, TypeOK, Jobs
<1> QED  BY <1>1, WriteAgrees DEF CompleteInsert, CompleteUpdate

\* The pointers of both accounts are deleted.
LEMMA CompleteFinishAgrees ==
  ASSUME FieldsAgree, NEW h \in Handlers, CompleteFinish(h)
  PROVE  FieldsAgree'
<1>1. job' \in [Handlers -> Jobs] /\ JobsAgree'
  BY ReturnAgrees DEF CompleteFinish, history
<1>2. pointer' \in [Accounts -> Sids \cup {None}]
  BY DEF FieldsAgree, TypeOK, CompleteFinish
<1> QED  BY <1>1, <1>2 DEF FieldsAgree, TypeOK, CompleteFinish, history, SessionAgrees,
              RequestsWhole, RowsSound

\* A restart loses the handlers; Redis, Postgres and the offers are still sound.
LEMMA CrashAgrees ==
  ASSUME FieldsAgree, Crash
  PROVE  FieldsAgree'
<1>1. job' \in [Handlers -> Jobs]
  BY DEF Crash, Idle, Jobs, PCs
<1>2. JobsAgree'
  BY DEF Crash, JobsAgree, Idle, Running
<1> QED  BY <1>1, <1>2 DEF FieldsAgree, TypeOK, Crash, redis, history, SessionAgrees,
              RequestsWhole, RowsSound
-----------------------------------------------------------------------------
\* Nothing has been asked for.
LEMMA InitAgrees == Init => FieldsAgree
<1> SUFFICES ASSUME Init PROVE FieldsAgree
  OBVIOUS
<1>1. TypeOK
  BY DEF Init, TypeOK, Sessions, Jobs, NoRequest, Absent, Idle, PCs
<1>2. SessionAgrees /\ JobsAgree
  BY DEF Init, SessionAgrees, JobsAgree, Running, Absent, Idle
<1>3. RequestsWhole /\ RowsSound
  BY DEF Init, RequestsWhole, RowsSound, NoRequest
<1> QED  BY <1>1, <1>2, <1>3 DEF FieldsAgree

\* FieldsAgree is about the variables of the specification only.
LEMMA StutterAgrees == FieldsAgree /\ UNCHANGED vars => FieldsAgree'
BY DEF vars, FieldsAgree, TypeOK, SessionAgrees, JobsAgree, RequestsWhole, RowsSound,
     Running, Found

\* Every step keeps FieldsAgree: one lemma above for each action.
LEMMA NextAgrees == FieldsAgree /\ [Next]_vars => FieldsAgree'
<1> SUFFICES ASSUME FieldsAgree, [Next]_vars PROVE FieldsAgree'
  OBVIOUS
<1>1. ASSUME NEW h \in Handlers, Continue(h) PROVE FieldsAgree'
  <2>1. ASSUME CompleteRefused(h) PROVE FieldsAgree'
    BY <2>1, ReturnOnlyAgrees DEF CompleteRefused
  <2> QED  BY <1>1, <2>1, RequestOfferAgrees, AcceptSaveAgrees, AcceptPublishAgrees,
                UpdateSaveAgrees, CompleteRemoveAgrees, CompleteLookupAgrees, SaveAgrees,
                CompleteFinishAgrees DEF Continue
<1>2. ASSUME NEW h \in Handlers, Message(h) PROVE FieldsAgree'
  BY <1>2, RequestAgrees, AcceptCheckAgrees, UpdateReadAgrees DEF Message
<1>3. ASSUME NEW h \in Handlers, Fail(h) PROVE FieldsAgree'
  BY <1>3, ReturnOnlyAgrees DEF Fail, RequestUnoffered, QueryFails
<1>4. ASSUME NEW o \in Answers, Answer(o) PROVE FieldsAgree'
  <2>1. ASSUME RejectRemove(o) PROVE FieldsAgree'
    <3>1. o.sid \in Sids
      BY AnswersTyped DEF Offers
    <3>2. offers' \subseteq Offers /\ rejected' \subseteq Sids
      BY <2>1, <3>1 DEF RejectRemove, Answered, FieldsAgree, TypeOK
    <3> QED  BY <2>1, <3>1, <3>2, RemovalAgrees DEF RejectRemove
  <2> QED  BY <1>4, <2>1, AnswerLostAgrees, RejectOfferAgrees DEF Answer
<1>5. CASE Crash
  BY <1>5, CrashAgrees
<1>6. ASSUME NEW s \in Sids, Expire(s) PROVE FieldsAgree'
  <2>1. offers' \subseteq Offers /\ rejected' \subseteq Sids
    BY <1>6 DEF Expire, history, FieldsAgree, TypeOK
  <2> QED  BY <1>6, <2>1, RemovalAgrees DEF Expire, history
<1>7. CASE UNCHANGED vars
  BY <1>7, StutterAgrees
<1> QED  BY <1>1, <1>2, <1>3, <1>4, <1>5, <1>6, <1>7 DEF Next

\* However handlers interleave, fail or are lost, and whatever the apps send, no field
\* of a hash, of a row or of the closure that completes a ride is wrong.
THEOREM FieldsAgreeHolds == Spec => []FieldsAgree
BY InitAgrees, NextAgrees, PTL DEF Spec

\* The type invariant; a row of drive_request is never written with a null.
THEOREM TypeCorrect == Spec => []TypeOK
<1>1. FieldsAgree => TypeOK
  BY DEF FieldsAgree
<1> QED  BY <1>1, FieldsAgreeHolds, PTL

\* Of a row the passenger asked under its id and the driver accepted under its id,
\* whatever the apps send.
THEOREM RowsAreSound == Spec => []RowsSound
<1>1. FieldsAgree => RowsSound
  BY DEF FieldsAgree
<1> QED  BY <1>1, FieldsAgreeHolds, PTL
-----------------------------------------------------------------------------
(***************************************************************************)
(* Agreement, for apps that answer genuinely.                              *)
(***************************************************************************)
\* The part of Agreement that takes "genuine_answers".
AnswersSound == OffersAgree /\ AnswersAgree /\ AcceptedByOthers /\ PointerSound

\* Steps that send no offer, take no acceptance up or further and write no pointer.
LEMMA BystandersSound ==
  ASSUME AnswersSound, offers' \subseteq offers, UNCHANGED <<pointer, request, acceptedBy>>,
         \A h \in Handlers : job'[h].pc \in AcceptPCs => job'[h] = job[h]
  PROVE  AnswersSound'
BY DEF AnswersSound, OffersAgree, AnswersAgree, AcceptedByOthers, PointerSound, Genuine

\* A handler that returns has taken nothing up.
LEMMA ReturnsSound ==
  ASSUME TypeOK, NEW h \in Handlers, Return(h)
  PROVE  \A g \in Handlers : job'[g].pc \in AcceptPCs => job'[g] = job[g] /\ g # h
BY DEF TypeOK, Return, Idle, AcceptPCs

\* A new request's sid is in no offer, acceptance or pointer.
LEMMA RequestSound ==
  ASSUME FieldsAgree, AnswersSound, NEW h \in Handlers, NEW u \in Users,
         NEW d \in Drivers, NEW s \in Sids, NEW i \in Ids, Request(h, u, d, s, i)
  PROVE  AnswersSound'
<1>1. request[s].userId = None /\ acceptedBy[s] = {}
  BY DEF Request, NoRequest, FieldsAgree, RequestsWhole
<1>2. \A t \in Sids \ {s} : request'[t] = request[t]
  BY DEF Request, FieldsAgree, TypeOK
<1>3. request'[s].userId = u /\ u # None
  BY DEF Request, FieldsAgree, TypeOK
<1>4. OffersAgree'
  BY <1>1, <1>2 DEF Request, AnswersSound, OffersAgree, Genuine, FieldsAgree, TypeOK, Offers
<1>5. AnswersAgree'
  <2>1. \A g \in Handlers : job'[g].pc \in AcceptPCs => job'[g] = job[g]
    BY DEF Request, FieldsAgree, TypeOK, Idle, AcceptPCs
  <2> QED  BY <1>1, <1>2, <2>1 DEF AnswersSound, AnswersAgree, Genuine, FieldsAgree,
                JobsAgree, Running, AcceptPCs
<1>6. AcceptedByOthers'
  BY <1>1, <1>2 DEF Request, AnswersSound, AcceptedByOthers
<1>7. PointerSound'
  BY <1>1, <1>2, <1>3 DEF Request, AnswersSound, PointerSound, FieldsAgree, TypeOK
<1> QED  BY <1>4, <1>5, <1>6, <1>7 DEF AnswersSound

\* The offer that is emitted carries the request's passenger and another driver.
LEMMA RequestOfferSound ==
  ASSUME FieldsAgree, AnswersSound, NEW h \in Handlers, RequestOffer(h)
  PROVE  AnswersSound'
<1>1. \A g \in Handlers : job'[g].pc \in AcceptPCs => job'[g] = job[g]
  BY ReturnsSound DEF FieldsAgree, RequestOffer
<1>2. OffersAgree'
  BY DEF RequestOffer, Sent, history, AnswersSound, OffersAgree, Genuine, FieldsAgree,
       JobsAgree, Running
<1> QED  BY <1>1, <1>2 DEF RequestOffer, redis, history, AnswersSound, AnswersAgree, Genuine,
              AcceptedByOthers, PointerSound

\* accept-drive-request starts from a sound offer, so its closure is sound.
LEMMA AcceptCheckSound ==
  ASSUME FieldsAgree, AnswersSound, NEW h \in Handlers, NEW o \in offers, AcceptCheck(h, o)
  PROVE  AnswersSound'
<1>1. offers' \subseteq offers
  BY DEF AcceptCheck, Answered
<1>2. AnswersAgree'
  BY DEF AcceptCheck, history, AnswersSound, OffersAgree, AnswersAgree, Genuine,
       FieldsAgree, TypeOK, Idle
<1> QED  BY <1>1, <1>2 DEF AcceptCheck, redis, history, AnswersSound, OffersAgree, Genuine,
              AcceptedByOthers, PointerSound

\* The acceptance that is saved is of a driver who is not the passenger.
LEMMA AcceptSaveSound ==
  ASSUME FieldsAgree, AnswersSound, NEW h \in Handlers, AcceptSave(h)
  PROVE  AnswersSound'
<1>1. /\ job[h].sid \in Sids /\ job[h].driverId \in Drivers
      /\ job[h].driverId # request[job[h].sid].userId
  BY DEF AcceptSave, FieldsAgree, JobsAgree, Running, AnswersSound, AnswersAgree, Genuine,
       AcceptPCs
<1>2. acceptedBy' = [acceptedBy EXCEPT ![job[h].sid] = @ \cup {job[h].driverId}]
      /\ request' = request /\ pointer' = pointer /\ offers' = offers
  BY DEF AcceptSave
<1>3. AnswersAgree'
  BY <1>2 DEF AcceptSave, Goto, AnswersSound, AnswersAgree, Genuine, FieldsAgree, TypeOK,
       AcceptPCs, Jobs
<1>4. AcceptedByOthers'
  BY <1>1, <1>2 DEF AnswersSound, AcceptedByOthers, FieldsAgree, TypeOK
<1>5. PointerSound'
  BY <1>2 DEF AnswersSound, PointerSound, FieldsAgree, TypeOK
<1> QED  BY <1>2, <1>3, <1>4, <1>5 DEF AnswersSound, OffersAgree, Genuine

\* The pointers that are written are of the request's passenger and of a driver
\* whose acceptance of it was saved.
LEMMA AcceptPublishSound ==
  ASSUME FieldsAgree, AnswersSound, NEW h \in Handlers, AcceptPublish(h)
  PROVE  AnswersSound'
<1>1. \A g \in Handlers : job'[g].pc \in AcceptPCs => job'[g] = job[g]
  BY ReturnsSound DEF FieldsAgree, AcceptPublish
<1>2. /\ job[h].userId = request[job[h].sid].userId
      /\ job[h].driverId \in acceptedBy[job[h].sid]
  BY DEF AcceptPublish, FieldsAgree, JobsAgree, Running, AnswersSound, AnswersAgree, Genuine,
       AcceptPCs
<1>3. PointerSound'
  BY <1>2 DEF AcceptPublish, history, AnswersSound, PointerSound, FieldsAgree, TypeOK
<1> QED  BY <1>1, <1>3 DEF AcceptPublish, history, AnswersSound, OffersAgree, AnswersAgree,
              Genuine, AcceptedByOthers

\* A rejected offer that is passed on changes its driver, and to no passenger.
LEMMA RejectOfferSound ==
  ASSUME FieldsAgree, AnswersSound, NEW o \in offers, NEW d \in Drivers, RejectOffer(o, d)
  PROVE  AnswersSound'
<1>1. OffersAgree'
  BY DEF RejectOffer, Answered, Sent, history, AnswersSound, OffersAgree, Genuine,
       FieldsAgree, TypeOK, Offers
<1> QED  BY <1>1 DEF RejectOffer, redis, history, AnswersSound, AnswersAgree, Genuine,
              AcceptedByOthers, PointerSound

\* Deleted pointers name nothing.
LEMMA CompleteFinishSound ==
  ASSUME FieldsAgree, AnswersSound, NEW h \in Handlers, CompleteFinish(h)
  PROVE  AnswersSound'
<1>1. \A g \in Handlers : job'[g].pc \in AcceptPCs => job'[g] = job[g]
  BY ReturnsSound DEF FieldsAgree, CompleteFinish
<1>2. PointerSound'
  BY DEF CompleteFinish, history, AnswersSound, PointerSound, FieldsAgree, TypeOK
<1> QED  BY <1>1, <1>2 DEF CompleteFinish, history, AnswersSound, OffersAgree, AnswersAgree,
              Genuine, AcceptedByOthers

\* The continuations that are neither of a request nor of an acceptance.
LEMMA ContinueSound ==
  ASSUME FieldsAgree, AnswersSound, NEW h \in Handlers, Continue(h)
  PROVE  AnswersSound'
<1>1. CASE UpdateSave(h) \/ CompleteRefused(h)
  BY <1>1, ReturnsSound, BystandersSound DEF FieldsAgree, UpdateSave, CompleteRefused, redis,
     history
<1>2. CASE CompleteRemove(h) \/ CompleteLookup(h) \/ CompleteInsert(h) \/ CompleteUpdate(h)
  <2>1. job[h].pc \notin AcceptPCs /\ job'[h].pc \notin AcceptPCs
        /\ \A g \in Handlers \ {h} : job'[g] = job[g]
    BY <1>2 DEF CompleteRemove, CompleteLookup, CompleteInsert, CompleteUpdate, Goto,
         AcceptPCs, FieldsAgree, TypeOK, Jobs
  <2> QED  BY <1>2, <2>1, BystandersSound DEF CompleteRemove, CompleteLookup,
                CompleteInsert, CompleteUpdate, redis, history
<1> QED  BY <1>1, <1>2, RequestOfferSound, AcceptSaveSound, AcceptPublishSound,
            CompleteFinishSound DEF Continue

\* Every step of genuine apps keeps the answers sound.
LEMMA NextSound ==
  ASSUME "genuine_answers" \in Assumed, FieldsAgree, AnswersSound, [Next]_vars
  PROVE  AnswersSound'
<1>1. Answers = offers
  BY DEF Answers
<1>2. ASSUME NEW h \in Handlers, Message(h) PROVE AnswersSound'
  <2>1. ASSUME NEW s \in Sids, NEW next \in AppStatuses, UpdateRead(h, s, next)
        PROVE  AnswersSound'
    <3>1. job'[h].pc \notin AcceptPCs /\ \A g \in Handlers \ {h} : job'[g] = job[g]
      BY <2>1 DEF UpdateRead, AcceptPCs, FieldsAgree, TypeOK, Idle
    <3> QED  BY <2>1, <3>1, BystandersSound DEF UpdateRead, redis, history
  <2> QED  BY <1>1, <1>2, <2>1, RequestSound, AcceptCheckSound DEF Message
<1>3. ASSUME NEW h \in Handlers, Fail(h) PROVE AnswersSound'
  BY <1>3, ReturnsSound, BystandersSound DEF Fail, RequestUnoffered, QueryFails, FieldsAgree,
     redis, history
<1>4. ASSUME NEW o \in offers, Answer(o) PROVE AnswersSound'
  <2>1. ASSUME AcceptNotFound(o) \/ RejectRemove(o) \/ RejectLost(o) PROVE AnswersSound'
    BY <2>1, BystandersSound DEF AcceptNotFound, RejectRemove, RejectLost, Answered, redis,
       history
  <2> QED  BY <1>4, <2>1, RejectOfferSound DEF Answer
<1>5. CASE Crash
  BY <1>5, BystandersSound DEF Crash, Idle, AcceptPCs, redis, history
<1>6. ASSUME NEW s \in Sids, Expire(s) PROVE AnswersSound'
  BY <1>6, BystandersSound DEF Expire, history
<1>7. CASE UNCHANGED vars
  BY <1>7, BystandersSound DEF vars
<1> QED  BY <1>1, <1>2, <1>3, <1>4, <1>5, <1>6, <1>7, ContinueSound DEF Next

\* Agreement is inductive.
LEMMA NextKeepsAgreement ==
  ASSUME "genuine_answers" \in Assumed
  PROVE  Agreement /\ [Next]_vars => Agreement'
BY NextAgrees, NextSound DEF Agreement, AnswersSound

\* However handlers interleave, fail or are lost, no copy of a request's data, in
\* Redis, in an offer or in a closure, is ever wrong, if answers are genuine.
THEOREM AgreementHolds ==
  ASSUME "genuine_answers" \in Assumed
  PROVE  Spec => []Agreement
<1>1. Init => Agreement
  BY InitAgrees DEF Init, Agreement, OffersAgree, AnswersAgree, AcceptedByOthers,
     PointerSound, NoRequest, Idle, AcceptPCs
<1>2. Agreement /\ [Next]_vars => Agreement'
  BY NextKeepsAgreement
<1> QED  BY <1>1, <1>2, PTL DEF Spec

\* get-drive-request shows an account only rides it asked for or accepted, if answers
\* are genuine.
THEOREM PointersAreSound ==
  ASSUME "genuine_answers" \in Assumed
  PROVE  Spec => []PointerSound
<1>1. Agreement => PointerSound
  BY DEF Agreement
<1> QED  BY <1>1, AgreementHolds, PTL

\* Where each offer is answered once, the answers are the offers.
LEMMA AnsweredOnce ==
  ASSUME "answer_once" \in Assumed
  PROVE  /\ Answers = offers
         /\ \A o : Sent(o) = {o}
         /\ \A o : Answered(o) = offers \ {o}
         /\ Spec => []Agreement
BY AgreementHolds DEF Answers, Sent, Answered

-----------------------------------------------------------------------------
(***************************************************************************)
(* SettledStaysRemoved. Most steps give no session an id, make no handler  *)
(* settle a ride and touch neither the requests nor the rows.              *)
(***************************************************************************)
Quiet ==
  /\ UNCHANGED <<request, rides>>
  /\ \A s \in Sids : session'[s].id \in {None, session[s].id}
  /\ \A h \in Handlers : job'[h].pc \in SettlingPCs =>
       job[h].pc \in SettlingPCs /\ job'[h].sid = job[h].sid

\* A quiet step brings no hash back and starts no settlement.
LEMMA QuietSettles ==
  ASSUME IdsDistinct, SettledStaysRemoved, Quiet
  PROVE  IdsDistinct' /\ SettledStaysRemoved'
BY DEF IdsDistinct, SettledStaysRemoved, Quiet

\* A new request has an id no row has: rows are of requests, whose ids are others.
LEMMA RequestSettles ==
  ASSUME "fresh_ids" \in Assumed, FieldsAgree, IdsDistinct, SettledStaysRemoved,
         NEW h \in Handlers, NEW u \in Users, NEW d \in Drivers, NEW s \in Sids,
         NEW i \in Ids, Request(h, u, d, s, i)
  PROVE  IdsDistinct' /\ SettledStaysRemoved'
<1>1. \A t \in Sids : request[t].id # i
  BY DEF Request, MayUseId
<1>2. request' = [request EXCEPT ![s] = [id |-> i, userId |-> u]] /\ request'[s].id = i
  BY DEF Request, FieldsAgree, TypeOK
<1>3. IdsDistinct'
  BY <1>1, <1>2 DEF IdsDistinct, FieldsAgree
<1>4. rides[i] = NoRow
  <2>1. \A t \in Sids : request[t] # [id |-> i, userId |-> rides[i].userId]
    BY <1>1
  <2> QED  BY <2>1 DEF FieldsAgree, RowsSound
<1>5. \A g \in Handlers : job'[g].pc \in SettlingPCs => job[g].pc \in SettlingPCs
                            /\ job'[g].sid = job[g].sid /\ job[g].sid # s
  BY DEF Request, FieldsAgree, JobsAgree, Running, SettlingPCs, NoRequest
<1>6. \A t \in Sids \ {s} : session'[t] = session[t] /\ request'[t] = request[t]
  BY DEF Request, SaveDriveRequest, FieldsAgree
<1>7. SettledStaysRemoved'
  BY <1>2, <1>4, <1>5, <1>6 DEF SettledStaysRemoved, Request
<1> QED  BY <1>3, <1>7

\* The settlement that starts has removed the hash.
LEMMA CompleteRemoveSettles ==
  ASSUME FieldsAgree, IdsDistinct, SettledStaysRemoved, NEW h \in Handlers, CompleteRemove(h)
  PROVE  IdsDistinct' /\ SettledStaysRemoved'
<1>1. IdsDistinct'
  BY DEF CompleteRemove, IdsDistinct, history
<1>2. \A s \in Sids : session'[s].id = IF s = job[h].sid THEN None ELSE session[s].id
  BY DEF CompleteRemove, RemoveDriveRequest, Absent, FieldsAgree, TypeOK
<1>3. \A g \in Handlers \ {h} : job'[g] = job[g]
  BY DEF CompleteRemove, Goto, FieldsAgree
<1>4. job'[h].sid = job[h].sid
  BY DEF CompleteRemove, Goto, FieldsAgree
<1>5. SettledStaysRemoved'
  BY <1>2, <1>3, <1>4 DEF SettledStaysRemoved, CompleteRemove, history
<1> QED  BY <1>1, <1>5

\* The write of a row, by the insert or by the update of repository.save(), settles
\* the handler's request and, ids being distinct, no other.
LEMMA WriteSettles ==
  ASSUME FieldsAgree, IdsDistinct, SettledStaysRemoved, NEW h \in Handlers,
         NEW columns \in SUBSET Columns,
         job[h].pc \in {"complete_insert", "complete_update"}, Storable(job[h]),
         WriteColumns(job[h], columns), Goto(h, "complete_finish"), UNCHANGED <<redis, history>>
  PROVE  IdsDistinct' /\ SettledStaysRemoved'
<1>1. IdsDistinct'
  BY DEF IdsDistinct, history
<1>2. job[h].sid \in Sids /\ request[job[h].sid].id = job[h].id /\ job[h].id # None
  BY DEF FieldsAgree, JobsAgree, Running, Storable, UpdatePCs, CompletePCs
<1>3. session[job[h].sid].id = None
  BY <1>2 DEF SettledStaysRemoved, SettlingPCs
<1>4. \A g \in Handlers : job'[g].pc \in SettlingPCs =>
        job[g].pc \in SettlingPCs /\ job'[g].sid = job[g].sid
  BY DEF Goto, FieldsAgree, SettlingPCs
<1>5. \A s \in Sids : request[s] # NoRequest /\ rides'[request[s].id] # NoRow =>
        s = job[h].sid \/ rides[request[s].id] # NoRow
  <2> SUFFICES ASSUME NEW s \in Sids, s # job[h].sid, request[s] # NoRequest
               PROVE  rides'[request[s].id] = rides[request[s].id]
    OBVIOUS
  <2>1. request[s].id \in Ids
    BY DEF FieldsAgree, TypeOK, RequestsWhole, NoRequest
  <2>2. request[s].id # job[h].id
    BY <1>2 DEF IdsDistinct
  <2> QED  BY <2>1, <2>2 DEF WriteColumns, FieldsAgree
<1>6. SettledStaysRemoved'
  BY <1>3, <1>4, <1>5 DEF SettledStaysRemoved, redis, history
<1> QED  BY <1>1, <1>6

\* The continuations of the handlers, one by one.
LEMMA ContinueSettles ==
  ASSUME FieldsAgree, IdsDistinct, SettledStaysRemoved, NEW h \in Handlers, Continue(h)
  PROVE  IdsDistinct' /\ SettledStaysRemoved'
<1>1. CASE RequestOffer(h) \/ AcceptPublish(h) \/ CompleteRefused(h) \/ CompleteFinish(h)
  <2>1. Quiet
    BY <1>1 DEF Quiet, RequestOffer, AcceptPublish, CompleteRefused, CompleteFinish,
         Return, Idle, redis, history, SettlingPCs, FieldsAgree, TypeOK
  <2> QED  BY <2>1, QuietSettles
<1>2. CASE AcceptSave(h)
  <2>1. Quiet
    BY <1>2 DEF Quiet, AcceptSave, SaveDriveRequest, Goto, SettlingPCs, FieldsAgree
  <2> QED  BY <2>1, QuietSettles
<1>3. CASE UpdateSave(h)
  <2>1. Quiet
    BY <1>3 DEF Quiet, UpdateSave, SaveDriveRequest, Return, Idle, SettlingPCs,
         history, FieldsAgree
  <2> QED  BY <2>1, QuietSettles
<1>4. CASE CompleteRemove(h)
  BY <1>4, CompleteRemoveSettles
<1>5. CASE CompleteLookup(h)
  <2>1. Quiet
    BY <1>5 DEF Quiet, CompleteLookup, SettlingPCs, redis, history, FieldsAgree, TypeOK, Jobs
  <2> QED  BY <2>1, QuietSettles
<1>6. CASE CompleteInsert(h)
  BY <1>6, WriteSettles DEF CompleteInsert
<1>7. CASE CompleteUpdate(h)
  <2>1. job[h].changed \in SUBSET Columns
    BY DEF FieldsAgree, TypeOK, Jobs
  <2> QED  BY <1>7, <2>1, WriteSettles DEF CompleteUpdate
<1> QED  BY <1>1, <1>2, <1>3, <1>4, <1>5, <1>6, <1>7 DEF Continue

\* Every step keeps ids distinct and settled sessions removed.
LEMMA NextSettles ==
  ASSUME "fresh_ids" \in Assumed, FieldsAgree, IdsDistinct, SettledStaysRemoved, [Next]_vars
  PROVE  IdsDistinct' /\ SettledStaysRemoved'
<1>1. ASSUME NEW h \in Handlers, Continue(h) PROVE IdsDistinct' /\ SettledStaysRemoved'
  BY <1>1, ContinueSettles
<1>2. ASSUME NEW h \in Handlers, NEW o \in Answers, AcceptCheck(h, o) PROVE Quiet
  BY <1>2 DEF Quiet, AcceptCheck, redis, history, SettlingPCs, FieldsAgree
<1>3. ASSUME NEW h \in Handlers, NEW s \in Sids, NEW next \in AppStatuses,
             UpdateRead(h, s, next)
      PROVE  Quiet
  <2>1. job'[h].pc \notin SettlingPCs /\ \A g \in Handlers \ {h} : job'[g] = job[g]
    BY <1>3 DEF UpdateRead, Idle, SettlingPCs, FieldsAgree, TypeOK
  <2> QED  BY <1>3, <2>1 DEF Quiet, UpdateRead, redis, history
<1>4. ASSUME NEW h \in Handlers, Message(h) PROVE IdsDistinct' /\ SettledStaysRemoved'
  BY <1>2, <1>3, <1>4, RequestSettles, QuietSettles DEF Message
<1>5. ASSUME NEW h \in Handlers, Fail(h) PROVE Quiet
  BY <1>5 DEF Quiet, Fail, RequestUnoffered, QueryFails, Return, Idle, redis, history,
       SettlingPCs, FieldsAgree, TypeOK
<1>6. ASSUME NEW o \in Answers, Answer(o) PROVE Quiet
  <2>1. CASE RejectRemove(o)
    <3>1. \A s \in Sids : session'[s].id \in {None, session[s].id}
      BY <2>1 DEF RejectRemove, RemoveDriveRequest, Absent, FieldsAgree, TypeOK
    <3> QED  BY <2>1, <3>1 DEF Quiet, RejectRemove
  <2>2. CASE AcceptNotFound(o) \/ RejectLost(o) \/ \E d \in Drivers : RejectOffer(o, d)
    BY <2>2 DEF Quiet, AcceptNotFound, RejectOffer, RejectLost, redis, history
  <2> QED  BY <1>6, <2>1, <2>2 DEF Answer
<1>7. CASE Crash
  <2>1. Quiet
    BY <1>7 DEF Quiet, Crash, Idle, redis, history, SettlingPCs
  <2> QED  BY <2>1, QuietSettles
<1>8. ASSUME NEW s \in Sids, Expire(s) PROVE Quiet
  BY <1>8 DEF Quiet, Expire, RemoveDriveRequest, Absent, history, FieldsAgree
<1>9. CASE UNCHANGED vars
  <2>1. Quiet
    BY <1>9 DEF Quiet, vars
  <2> QED  BY <2>1, QuietSettles
<1> QED  BY <1>1, <1>4, <1>5, <1>6, <1>7, <1>8, <1>9, QuietSettles DEF Next

\* Ids stay distinct, and settled sessions removed, if the six digits do not repeat.
LEMMA IdsAndSettled ==
  ASSUME "fresh_ids" \in Assumed
  PROVE  Spec => [](IdsDistinct /\ SettledStaysRemoved)
<1>1. Init => IdsDistinct /\ SettledStaysRemoved
  BY DEF Init, IdsDistinct, SettledStaysRemoved, NoRequest, Absent
<1>2. FieldsAgree /\ (IdsDistinct /\ SettledStaysRemoved) /\ [Next]_vars
        => (IdsDistinct /\ SettledStaysRemoved)'
  BY NextSettles
<1> QED  BY <1>1, <1>2, FieldsAgreeHolds, PTL DEF Spec

\* A save that was under way when a completion removed the hash never makes a ride
\* that can be completed again.
THEOREM SettledStaysRemovedHolds ==
  ASSUME "fresh_ids" \in Assumed
  PROVE  Spec => []SettledStaysRemoved
BY IdsAndSettled, PTL
-----------------------------------------------------------------------------
\* Who is charged asked for the ride, and who is paid accepted it and is another: of
\* distinct ids the two halves of RowsSound are about one request.
THEOREM RidesAreSound ==
  ASSUME "fresh_ids" \in Assumed, "genuine_answers" \in Assumed
  PROVE  Spec => []RideSound
<1>1. ASSUME Agreement, IdsDistinct, NEW i \in Ids, rides[i] # NoRow
      PROVE  /\ rides[i].driverId # rides[i].userId
             /\ \E s \in Sids : /\ request[s] = [id |-> i, userId |-> rides[i].userId]
                                /\ rides[i].driverId \in acceptedBy[s]
  <2>1. PICK s \in Sids : request[s] = [id |-> i, userId |-> rides[i].userId]
    BY <1>1 DEF Agreement, FieldsAgree, RowsSound
  <2>2. PICK t \in Sids : request[t].id = i /\ rides[i].driverId \in acceptedBy[t]
    BY <1>1 DEF Agreement, FieldsAgree, RowsSound
  <2>3. s = t
    BY <1>1, <2>1, <2>2 DEF IdsDistinct
  <2> QED  BY <1>1, <2>1, <2>2, <2>3 DEF Agreement, AcceptedByOthers
<1>2. Agreement /\ IdsDistinct => RideSound
  BY <1>1 DEF RideSound
<1> QED  BY <1>2, AgreementHolds, IdsAndSettled, PTL
=============================================================================
