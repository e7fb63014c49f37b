------------------------------- MODULE Feedback -------------------------------
(***************************************************************************)
(* Feedback on completed rides and the ratings of drivers:                 *)
(* DriveRequestsService.createFeedback, and the first call of drivers/me,  *)
(* which inserts the driver and then, in DriverSubscriber, the ratings.    *)
(*                                                                         *)
(* createFeedback opens a transaction on one connection of the pool and    *)
(* inserts the feedback through another, outside the transaction. Within   *)
(* it, the ratings are read, counted up in memory and saved: save() reads  *)
(* them again and updates the columns that differ, under READ COMMITTED.   *)
(***************************************************************************)
EXTENDS ConnectionPool, Integers, FiniteSetsExt

CONSTANTS
  Drivers,     \* drivers' account ids
  Categories,  \* 'manner', 'driving', 'vehicle', 'service'
  Forms,       \* what the app may send: sequences of categories and scores
  MaxForms,    \* bound: how many feedbacks are given
  Faults       \* "failure": a query fails; "crash"

ASSUME NoneIsNoDriver == None \notin Drivers

\* What Postgres takes: a category of the enumeration and an integer. The rest fails.
ASSUME FormsAreScores == Forms \subseteq Seq([category: Categories, rating: Int])

ASSUME MaxFormsIsNat == MaxForms \in Nat

VARIABLES
  registered,  \* the rows of driver
  ratings,     \* the rows of driver_rating, by driver and category; None: no rows
  given,       \* the rows of drive_request_feedback: their number and sum
  job,         \* what each request keeps across its awaits
  left,        \* bound: feedbacks still to come
  clean        \* history: drivers whose feedbacks came whole and one by one

vars == <<conn, queue, registered, ratings, given, job, left, clean>>

Tally == [rating: Int, totalFeedbacks: Nat]

ASSUME NoneIsNoTally == None \notin [Categories -> Tally]

\* The columns of a rating that save() compares.
Columns == {"rating", "totalFeedbacks"}

FeedbackPCs == {"connect", "insert", "find", "reload", "update", "commit"}
MePCs       == {"me_insert", "me_rate"}

\* read: the ratings as counted up in memory. changed: category and column to update.
Job(pc, d, form, read, changed) ==
  [pc |-> pc, driver |-> d, form |-> form, read |-> read, changed |-> changed]

Idle == Job("idle", None, <<>>, None, {})

Init ==
  /\ PoolInit
  /\ registered = {}
  /\ ratings = [d \in Drivers |-> None]
  /\ given = [d \in Drivers |-> [c \in Categories |-> [count |-> 0, sum |-> 0]]]
  /\ job = [h \in Handlers |-> Idle]
  /\ left = MaxForms
  /\ clean = Drivers
-----------------------------------------------------------------------------
Goto(h, pc) == job' = [job EXCEPT ![h].pc = pc]
Return(h)   == job' = [job EXCEPT ![h] = Idle]

Busy(d) == \E h \in Handlers : job[h].driver = d

\* Scores of a form in one category, by their places in it.
Scores(form, c) == {i \in DOMAIN form : form[i].category = c}

Rates(form) == [i \in DOMAIN form |-> form[i].rating]

\* Fault: a category that was not scored is counted as well.
CountedAlways(tally, form, c) ==
  LET scores == Scores(form, c) IN
  [rating |-> tally.rating + IF scores = {} THEN 0 ELSE form[Min(scores)].rating,
   totalFeedbacks |-> tally.totalFeedbacks + 1]

\* Fault: the score is added, the feedback not counted.
CountedHalf(tally, form, c) ==
  LET scores == Scores(form, c) IN
  IF scores = {} THEN tally
  ELSE [tally EXCEPT !.rating = @ + form[Min(scores)].rating]

\* find() takes the first score of the category.
Counted(tally, form, c) ==
  LET scores == Scores(form, c) IN
  IF scores = {} THEN tally
  ELSE [rating |-> tally.rating + form[Min(scores)].rating,
        totalFeedbacks |-> tally.totalFeedbacks + 1]

\* A form that scores each category once at most.
Whole(form) == \A i, j \in DOMAIN form : form[i].category = form[j].category => i = j
-----------------------------------------------------------------------------
(***************************************************************************)
(* createFeedback.                                                         *)
(***************************************************************************)
\* The ride is found; queryRunner.connect().
Give(h, d, form) ==
  /\ job[h] = Idle /\ ~Waiting(h)
  /\ d \in registered
  /\ left > 0 /\ left' = left - 1
  /\ Ask(h)
  /\ clean' = IF Busy(d) \/ ~Whole(form) \/ ratings[d] = None THEN clean \ {d} ELSE clean
  /\ job' = [job EXCEPT ![h] = Job("connect", d, form, None, {})]
  /\ UNCHANGED <<registered, ratings, given>>

\* Fault: the connection is not awaited.
BeginEarly(h) ==
  /\ job[h].pc = "connect"
  /\ Ask(h)
  /\ Goto(h, "insert")
  /\ UNCHANGED <<registered, ratings, given, left, clean>>

\* BEGIN on the connection; the insert's query builder asks for another.
Begin(h) ==
  /\ job[h].pc = "connect" /\ ~Waiting(h)
  /\ Ask(h)
  /\ Goto(h, "insert")
  /\ UNCHANGED <<registered, ratings, given, left, clean>>

AddRows(d, form) ==
  given' = [given EXCEPT ![d] = [c \in Categories |->
    [count |-> given[d][c].count + Cardinality(Scores(form, c)),
     sum |-> given[d][c].sum + SumFunctionOnSet(Rates(form), Scores(form, c))]]]

\* The rows are committed by themselves; one connection is kept for the transaction.
InsertRows(h) ==
  /\ job[h].pc = "insert" /\ ~Waiting(h)
  /\ AddRows(job[h].driver, job[h].form)
  /\ \E x \in Held(h) : Release({x})
  /\ Goto(h, "find")
  /\ UNCHANGED <<registered, ratings, left, clean>>

\* driverRatingRepo.find, and the map over what it found.
Find(h) ==
  LET d    == job[h].driver
      form == job[h].form
      read == IF ratings[d] = None THEN None
              ELSE [c \in Categories |-> Counted(ratings[d][c], form, c)] IN
  /\ job[h].pc = "find"
  /\ job' = [job EXCEPT ![h] = Job("reload", d, form, read, {})]
  /\ UNCHANGED <<conn, queue, registered, ratings, given, left, clean>>

\* save() reads the rows again; columns that are the same will not be written.
Reload(h) ==
  LET d    == job[h].driver
      read == job[h].read
      changed == IF read = None THEN {}
                 ELSE {cell \in Categories \X Columns :
                         read[cell[1]][cell[2]] # ratings[d][cell[1]][cell[2]]} IN
  /\ job[h].pc = "reload"
  /\ job' = [job EXCEPT ![h] = Job("update", d, job[h].form, read, changed)]
  /\ UNCHANGED <<conn, queue, registered, ratings, given, left, clean>>

\* The row locks of the UPDATEs, held until the transaction ends.
Locked(d, c) ==
  \E h \in Handlers : /\ job[h].pc = "commit" /\ job[h].driver = d
                      /\ \E k \in Columns : <<c, k>> \in job[h].changed

Update(h) ==
  /\ job[h].pc = "update"
  /\ \A cell \in job[h].changed : ~Locked(job[h].driver, cell[1])
  /\ Goto(h, "commit")
  /\ UNCHANGED <<conn, queue, registered, ratings, given, left, clean>>

Write(j) ==
  ratings' = IF j.changed = {} THEN ratings
             ELSE [ratings EXCEPT ![j.driver] = [c \in Categories |-> [k \in Columns |->
                     IF <<c, k>> \in j.changed THEN j.read[c][k] ELSE @[c][k]]]]

\* Fault: the connection is not released.
CommitLeak(h) ==
  /\ job[h].pc = "commit"
  /\ Write(job[h])
  /\ Return(h)
  /\ UNCHANGED <<conn, queue, registered, given, left, clean>>

Commit(h) ==
  /\ job[h].pc = "commit"
  /\ Write(job[h])
  /\ Release(Held(h))
  /\ Return(h)
  /\ UNCHANGED <<registered, given, left, clean>>
-----------------------------------------------------------------------------
(***************************************************************************)
(* drivers/me of an account without a row. Each statement uses a connection *)
(* for itself and waits for no other, and is left out of the pool.         *)
(***************************************************************************)
MeFind(h, d) ==
  /\ job[h] = Idle /\ ~Waiting(h)
  /\ d \notin registered
  /\ job' = [job EXCEPT ![h] = Job("me_insert", d, <<>>, None, {})]
  /\ UNCHANGED <<conn, queue, registered, ratings, given, left, clean>>

\* The second of two inserts is refused by the key.
MeInsert(h) ==
  LET d == job[h].driver IN
  /\ job[h].pc = "me_insert"
  /\ IF d \in registered THEN Return(h) ELSE Goto(h, "me_rate")
  /\ registered' = registered \cup {d}
  /\ UNCHANGED <<conn, queue, ratings, given, left, clean>>

\* Fault: the count is left out.
MeRateUncounted(h) ==
  /\ job[h].pc = "me_rate"
  /\ ratings' = [ratings EXCEPT ![job[h].driver] =
       [c \in Categories |-> [rating |-> 5, totalFeedbacks |-> None]]]
  /\ Return(h)
  /\ UNCHANGED <<conn, queue, registered, given, left, clean>>

\* DriverSubscriber.afterInsert, in a transaction of its own.
MeRate(h) ==
  /\ job[h].pc = "me_rate"
  /\ ratings' = [ratings EXCEPT ![job[h].driver] =
       [c \in Categories |-> [rating |-> 5, totalFeedbacks |-> 1]]]
  /\ Return(h)
  /\ UNCHANGED <<conn, queue, registered, given, left, clean>>
-----------------------------------------------------------------------------
\* What is lost when a request ends here: feedback that is not counted, ratings that
\* are never created.
Half(j) == j.pc \in {"find", "reload", "update", "commit", "me_rate"}

\* A query fails; the transaction is rolled back and its connections released. BEGIN,
\* before the try, fails only with its connection, which TypeORM then gives back.
Fail(h) ==
  /\ "failure" \in Faults
  /\ job[h] # Idle /\ ~Waiting(h)
  /\ clean' = IF Half(job[h]) THEN clean \ {job[h].driver} ELSE clean
  /\ Release(Held(h))
  /\ Return(h)
  /\ UNCHANGED <<registered, ratings, given, left>>

Crash ==
  /\ "crash" \in Faults
  /\ clean' = clean \ {job[h].driver : h \in {g \in Handlers : Half(job[g])}}
  /\ job' = [h \in Handlers |-> Idle]
  /\ PoolCrash
  /\ UNCHANGED <<registered, ratings, given, left>>
-----------------------------------------------------------------------------
Continue(h) ==
  \/ Begin(h)
  \/ InsertRows(h)
  \/ Find(h)
  \/ Reload(h)
  \/ Update(h)
  \/ Commit(h)
  \/ MeInsert(h)
  \/ MeRate(h)

GrantOne ==
  /\ \E x \in Conns : Grant(x)
  /\ UNCHANGED <<registered, ratings, given, job, left, clean>>

Next ==
  \/ \E h \in Handlers : Continue(h) \/ Fail(h)
  \/ \E h \in Handlers, d \in Drivers : MeFind(h, d) \/ \E form \in Forms : Give(h, d, form)
  \/ GrantOne
  \/ Crash

Spec == Init /\ [][Next]_vars

\* Postgres answers, the event loop runs the callbacks, and the pool serves its queue.
FairSpec == Spec /\ WF_vars(GrantOne) /\ \A h \in Handlers : WF_vars(Continue(h))
-----------------------------------------------------------------------------
\* Every variable keeps its shape: the three tables, the requests and the pool.
TypeOK ==
  /\ PoolTypeOK
  /\ registered \subseteq Drivers
  /\ ratings \in [Drivers -> [Categories -> Tally] \cup {None}]
  /\ given \in [Drivers -> [Categories -> [count: Nat, sum: Int]]]
  /\ job \in [Handlers -> [pc: {"idle"} \cup FeedbackPCs \cup MePCs,
                           driver: Drivers \cup {None}, form: Forms \cup {<<>>},
                           read: [Categories -> Tally] \cup {None},
                           changed: SUBSET (Categories \X Columns)]]
  /\ left \in 0..MaxForms
  /\ clean \subseteq Drivers

\* A rating counts no feedback that is not in the table, however feedbacks overlap
\* and whatever is rolled back: the count starts at 1 and each feedback's rows are
\* committed before it is counted.
CountsBacked ==
  \A d \in Drivers : ratings[d] # None =>
    \A c \in Categories : ratings[d][c].totalFeedbacks - 1 <= given[d][c].count

\* While feedbacks on a driver come one after the other and none fails half way, the
\* driver's ratings are the initial 5 of one feedback and what was given, to the last
\* score: save() overwrites nothing, though columns that look unchanged are not
\* written. (Feedbacks that overlap do lose scores.)
RatingsExact ==
  \A d \in registered \cap clean : ~Busy(d) =>
    /\ ratings[d] # None
    /\ \A c \in Categories :
         ratings[d][c] = [rating |-> 5 + given[d][c].sum,
                          totalFeedbacks |-> 1 + given[d][c].count]

\* A feedback under way comes to an end, though it holds a connection and a driver's
\* row locks while it waits for another connection or another's locks; unless the
\* pool stalls, which is all that stands in its way.
FeedbackEnds ==
  \A h \in Handlers : job[h].pc = "connect" ~> job[h].pc = "idle" \/ Stalled

(***************************************************************************)
(* Why CountsBacked holds: feedbacks whose rows are inserted are either    *)
(* counted or still to be counted, each by its own handler; one that has   *)
(* read the ratings holds a count that leaves room for all the others.     *)
(***************************************************************************)
CountingPCs == {"reload", "update", "commit"}

\* Feedbacks that have inserted rows in the category and not written the rating.
Uncounted(d, c) ==
  {h \in Handlers : /\ job[h].pc \in {"find"} \cup CountingPCs /\ job[h].driver = d
                    /\ Scores(job[h].form, c) # {}}

\* There are rows for n feedbacks on the driver in the category.
RowsFor(d, c, n) == n <= given[d][c].count

RoomToCountIn(d, c) ==
  /\ RowsFor(d, c, Cardinality(Uncounted(d, c)))
  /\ ratings[d] # None =>
       RowsFor(d, c, ratings[d][c].totalFeedbacks - 1 + Cardinality(Uncounted(d, c)))
  /\ \A h \in Handlers :
       job[h].pc \in CountingPCs /\ job[h].driver = d /\ job[h].read # None =>
         RowsFor(d, c, job[h].read[c].totalFeedbacks - 1 + Cardinality(Uncounted(d, c) \ {h}))

RoomToCount == \A d \in Drivers, c \in Categories : RoomToCountIn(d, c)

\* What each step of a request goes by.
JobsWhole ==
  \A h \in Handlers :
    /\ job[h].pc # "idle" => job[h].driver # None
    /\ job[h].pc \in FeedbackPCs => job[h].form \in Forms /\ job[h].driver \in registered
    /\ job[h].pc \in CountingPCs /\ job[h].read # None => ratings[job[h].driver] # None
    /\ job[h].changed # {} => job[h].pc \in CountingPCs /\ job[h].read # None

\* Ratings are created once, by the request that inserted the driver.
RatedOnce ==
  /\ \A d \in Drivers \ registered : ratings[d] = None
  /\ \A h \in Handlers : job[h].pc = "me_rate" =>
       /\ job[h].driver \in registered /\ ratings[job[h].driver] = None
       /\ \A g \in Handlers :
            job[g].pc = "me_rate" /\ job[g].driver = job[h].driver => g = h

\* Inductive.
CountsSound == TypeOK /\ JobsWhole /\ RatedOnce /\ RoomToCount

(***************************************************************************)
(* Why RatingsExact holds: of a driver who is clean one feedback at most   *)
(* is under way, and the ratings, what it has read and what it will write  *)
(* differ by what it has inserted.                                         *)
(***************************************************************************)
\* Tallies say of the driver what was given.
Exact(d, tallies) ==
  \A c \in Categories :
    tallies[c] = [rating |-> 5 + given[d][c].sum, totalFeedbacks |-> 1 + given[d][c].count]

FeedbackOn(h, d) == job[h].pc \in FeedbackPCs /\ job[h].driver = d

OneFeedback(d) ==
  \A h \in Handlers : FeedbackOn(h, d) =>
    /\ Whole(job[h].form) /\ ratings[d] # None
    /\ \A g \in Handlers : FeedbackOn(g, d) => g = h

\* Ratings that do not exist yet are on their way, and nothing was given.
Unrated(d) ==
  /\ \A c \in Categories : given[d][c] = [count |-> 0, sum |-> 0]
  /\ d \in registered => \E h \in Handlers : job[h].pc = "me_rate" /\ job[h].driver = d

NothingInserted(d) ==
  \A h \in Handlers : FeedbackOn(h, d) => job[h].pc \in {"connect", "insert"}

\* The ratings will be exact when this feedback is through.
ExactInTheEnd(h, d) ==
  /\ job[h].pc = "find" =>
       Exact(d, [c \in Categories |-> Counted(ratings[d][c], job[h].form, c)])
  /\ job[h].pc \in CountingPCs => job[h].read # None /\ Exact(d, job[h].read)
  /\ job[h].pc \in {"update", "commit"} =>
       \A c \in Categories, k \in Columns :
         <<c, k>> \notin job[h].changed => job[h].read[c][k] = ratings[d][c][k]

DriverSound(d) ==
  /\ OneFeedback(d)
  /\ ratings[d] = None => Unrated(d)
  /\ ratings[d] # None /\ NothingInserted(d) => Exact(d, ratings[d])
  /\ \A h \in Handlers : FeedbackOn(h, d) => ExactInTheEnd(h, d)

\* Inductive together with CountsSound.
RatingsSound == \A d \in clean : DriverSound(d)
=============================================================================
