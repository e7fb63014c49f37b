---------------------------- MODULE FeedbackProofs ----------------------------
(***************************************************************************)
(* The pool stalls only when every connection is held by a request of its  *)
(* own that waits for a second, and Feedback implements the discipline of  *)
(* the pool (PoolSpec), so the same goes for its requests. No rating       *)
(* counts a feedback that is not in the table, and the ratings of a driver *)
(* whose feedbacks come one by one are exact: for any number of drivers,   *)
(* categories, forms and requests.                                         *)
(***************************************************************************)
EXTENDS Feedback, FiniteSetTheorems, WellFoundedInduction, TLAPS

-----------------------------------------------------------------------------
(***************************************************************************)
(* The pool by itself: a request that waits holds one connection at most.  *)
(***************************************************************************)
\* What is known of the pool at all times.
PoolSound == PoolTypeOK /\ WaitersHoldOne

\* A request joins the queue.
LEMMA AskSound ==
  ASSUME PoolSound, NEW h \in Handlers, MayAsk(h), Ask(h)
  PROVE  PoolSound'
<1>1. queue \in Seq(Handlers) /\ queue' = Append(queue, h) /\ conn' = conn
  BY DEF PoolSound, PoolTypeOK, Ask
<1>2. /\ queue' \in Seq(Handlers) /\ Len(queue') = Len(queue) + 1 /\ Len(queue) \in Nat
      /\ \A i \in 1..Len(queue) : queue'[i] = queue[i]
      /\ queue'[Len(queue) + 1] = h
  BY <1>1
<1>3. \A i \in 1..Len(queue) : queue[i] # h
  BY DEF MayAsk, Waiting
<1>4. \A i, j \in 1..Len(queue') : queue'[i] = queue'[j] => i = j
  <2>1. \A i \in 1..Len(queue') : i \in 1..Len(queue) \/ i = Len(queue) + 1
    BY <1>2
  <2> QED
    BY <1>2, <1>3, <2>1 DEF PoolSound, WaitersHoldOne
<1>5. \A g \in Handlers : Held(g)' = Held(g) /\ (Waiting(g)' => Waiting(g) \/ g = h)
  <2>1. \A i \in 1..Len(queue') : i \in 1..Len(queue) \/ i = Len(queue) + 1
    BY <1>2
  <2> QED
    BY <1>1, <1>2, <2>1 DEF Held, Waiting
<1>6. \A g \in Handlers : Waiting(g)' => \A x, y \in Held(g)' : x = y
  BY <1>5 DEF PoolSound, WaitersHoldOne, MayAsk
<1> QED
  BY <1>1, <1>2, <1>4, <1>6 DEF PoolSound, PoolTypeOK, WaitersHoldOne

\* The request at the head of the queue waits no longer when it gets a connection.
LEMMA GrantSound ==
  ASSUME PoolSound, NEW x \in Conns, Grant(x)
  PROVE  PoolSound'
<1>1. /\ queue \in Seq(Handlers) /\ queue # <<>> /\ queue' = Tail(queue)
      /\ conn \in [Conns -> Handlers \cup {None}]
      /\ conn' = [conn EXCEPT ![x] = Head(queue)]
  BY DEF PoolSound, PoolTypeOK, Grant
<1>2. /\ queue' \in Seq(Handlers) /\ Len(queue') = Len(queue) - 1 /\ Len(queue) \in Nat \ {0}
      /\ \A i \in 1..Len(queue') : queue'[i] = queue[i + 1] /\ i + 1 \in 1..Len(queue)
      /\ Head(queue) = queue[1] /\ 1 \in 1..Len(queue)
  BY <1>1
<1>3. queue[1] \in Handlers
  BY <1>1, <1>2
<1>4. \A i, j \in 1..Len(queue) : queue[i] = queue[j] => i = j
  BY DEF PoolSound, WaitersHoldOne
<1>5. \A i, j \in 1..Len(queue') : queue'[i] = queue'[j] => i = j
  BY <1>2, <1>4
<1>6. \A i \in 1..Len(queue') : queue'[i] # queue[1]
  <2>1. \A i \in 1..Len(queue') : i + 1 # 1
    BY <1>2
  <2> QED
    BY <1>2, <1>4, <2>1
<1>7. \A g \in Handlers : Waiting(g)' => Waiting(g) /\ g # queue[1]
  BY <1>2, <1>6 DEF Waiting
<1>8. \A g \in Handlers : g # queue[1] => Held(g)' \subseteq Held(g)
  BY <1>1, <1>2 DEF Held
<1>9. \A g \in Handlers : Waiting(g)' => \A y, z \in Held(g)' : y = z
  BY <1>7, <1>8 DEF PoolSound, WaitersHoldOne
<1>10. conn' \in [Conns -> Handlers \cup {None}]
  BY <1>1, <1>2, <1>3
<1> QED
  BY <1>2, <1>5, <1>9, <1>10 DEF PoolSound, PoolTypeOK, WaitersHoldOne

\* Connections that are given back are held by nobody.
LEMMA ReleaseSound ==
  ASSUME PoolSound, NEW held \in SUBSET Conns, Release(held)
  PROVE  PoolSound'
<1>1. conn' \in [Conns -> Handlers \cup {None}] /\ queue' = queue
  BY DEF PoolSound, PoolTypeOK, Release
<1>2. \A g \in Handlers : Held(g)' \subseteq Held(g) /\ Waiting(g)' = Waiting(g)
  BY NoneIsNoHandler DEF Release, Held, Waiting
<1> QED
  BY <1>1, <1>2 DEF PoolSound, PoolTypeOK, WaitersHoldOne

\* A pool without requests is sound.
LEMMA EmptySound ==
  ASSUME PoolInit
  PROVE  PoolSound
<1>1. queue = <<>> /\ queue \in Seq(Handlers) /\ Len(queue) = 0
  BY DEF PoolInit
<1>2. 1..Len(queue) = {}
  BY <1>1
<1> QED
  BY <1>1, <1>2 DEF PoolInit, PoolSound, PoolTypeOK, WaitersHoldOne, Waiting

\* Whoever uses the pool as these services do keeps it sound.
THEOREM PoolSoundHolds == PoolSpec => []PoolSound
<1>1. PoolSound /\ [PoolNext]_poolVars => PoolSound'
  <2> SUFFICES ASSUME PoolSound, [PoolNext]_poolVars
               PROVE  PoolSound'
    OBVIOUS
  <2>1. CASE UNCHANGED poolVars
    BY <2>1 DEF poolVars, PoolSound, PoolTypeOK, WaitersHoldOne, Waiting, Held
  <2>2. CASE PoolCrash
    <3>1. PoolInit'
      BY <2>2 DEF PoolCrash, PoolInit
    <3>2. (queue = <<>>)' /\ queue' \in Seq(Handlers) /\ Len(queue') = 0
      BY <3>1 DEF PoolInit
    <3>3. 1..Len(queue') = {}
      BY <3>2
    <3> QED
      BY <2>2, <3>2, <3>3
      DEF PoolCrash, PoolSound, PoolTypeOK, WaitersHoldOne, Waiting
  <2> QED
    BY <2>1, <2>2, AskSound, GrantSound, ReleaseSound DEF PoolNext
<1> QED
  BY <1>1, EmptySound, PTL DEF PoolSpec

\* As many requests as there are connections hold one and wait, when the pool stalls.
LEMMA SoundStall ==
  ASSUME IsFiniteSet(Conns), PoolSound
  PROVE  StallTakesAll
<1> DEFINE Stuck == {h \in Handlers : Waiting(h) /\ Held(h) # {}}
<1> SUFFICES ASSUME Stalled
             PROVE  Cardinality(Stuck) = Cardinality(Conns)
  BY DEF StallTakesAll
<1>1. conn \in [Conns -> Handlers]
  BY DEF Stalled, PoolSound, PoolTypeOK
<1>2. conn \in [Conns -> Stuck]
  BY <1>1 DEF Stalled, Held
<1>3. \A x, y \in Conns : conn[x] = conn[y] => x = y
  BY <1>1 DEF Stalled, PoolSound, WaitersHoldOne, Held
<1>4. \A h \in Stuck : \E x \in Conns : conn[x] = h
  BY DEF Held
<1>5. conn \in Bijection(Conns, Stuck)
  BY <1>2, <1>3, <1>4 DEF Bijection, Injection, IsInjective, Surjection
<1>6. ExistsBijection(Conns, Stuck)
  BY <1>5 DEF ExistsBijection
<1> QED
  BY <1>6, FS_Bijection

\* It takes as many requests as the pool has connections to stall it, whoever uses the
\* pool as these services do, and however many they are.
THEOREM StallTakesAllHolds ==
  ASSUME IsFiniteSet(Conns)
  PROVE  PoolSpec => []StallTakesAll
<1>1. PoolSound => StallTakesAll
  BY SoundStall
<1> QED
  BY <1>1, PoolSoundHolds, PTL

-----------------------------------------------------------------------------
(***************************************************************************)
(* The feedback requests.                                                  *)
(***************************************************************************)
\* Requests are records made by Job.
Whose(j) == Job(j.pc, j.driver, j.form, j.read, j.changed)

JobsShaped ==
  /\ job = [h \in Handlers |-> job[h]]
  /\ \A h \in Handlers : job[h] = Whose(job[h])

\* What a request holds of the pool, by the step it is at.
Holds(h) ==
  /\ job[h].pc \notin {"connect", "insert"} => ~Waiting(h)
  /\ job[h].pc \in {"idle"} \cup MePCs => Held(h) = {}
  /\ job[h].pc = "connect" => /\ Waiting(h) => Held(h) = {}
                              /\ \A x, y \in Held(h) : x = y

FeedbackSound ==
  /\ PoolSound
  /\ JobsShaped
  /\ \A h \in Handlers : Holds(h)
-----------------------------------------------------------------------------
\* Job gives back what it was made of, also when the step alone changes.
LEMMA JobFields ==
  /\ Idle.pc = "idle" /\ Idle = Whose(Idle)
  /\ \A pc, d, form, read, changed :
       LET j == Job(pc, d, form, read, changed) IN j.pc = pc /\ j = Whose(j)
  /\ \A j, pc : j = Whose(j) =>
       /\ [j EXCEPT !.pc = pc].pc = pc
       /\ [j EXCEPT !.pc = pc] = Whose([j EXCEPT !.pc = pc])
  BY DEF Job, Whose, Idle

\* One request moves to a step and leaves the pool alone.
LEMMA MovesOn ==
  ASSUME FeedbackSound, NEW h \in Handlers, UNCHANGED poolVars,
         NEW new, new = Whose(new), job' = [job EXCEPT ![h] = new],
         \/ /\ new.pc \in {"find", "reload", "update", "commit"}
            /\ job[h].pc \notin {"connect", "insert"}
         \/ new.pc \in {"idle"} \cup MePCs /\ job[h].pc \in {"idle"} \cup MePCs
  PROVE  FeedbackSound'
<1>1. PoolSound'
  BY DEF FeedbackSound, PoolSound, PoolTypeOK, WaitersHoldOne, Waiting, Held, poolVars
<1>2. /\ job'[h] = new
      /\ \A g \in Handlers \ {h} : job'[g] = job[g]
      /\ job' = [g \in Handlers |-> job'[g]]
  BY DEF FeedbackSound, JobsShaped
<1>3. JobsShaped'
  BY <1>2 DEF FeedbackSound, JobsShaped
<1>4. \A g \in Handlers : (Waiting(g)' <=> Waiting(g)) /\ Held(g)' = Held(g)
  BY DEF Waiting, Held, poolVars
<1>5. \A g \in Handlers \ {h} : Holds(g)'
  BY <1>2, <1>4 DEF FeedbackSound, Holds
<1>6. Holds(h)'
  BY <1>2, <1>4 DEF FeedbackSound, Holds, MePCs
<1> QED
  BY <1>1, <1>3, <1>5, <1>6 DEF FeedbackSound

\* One request asks for a connection, its first or its second.
LEMMA AsksOn ==
  ASSUME FeedbackSound, NEW h \in Handlers, Ask(h), MayAsk(h),
         NEW new, new = Whose(new), job' = [job EXCEPT ![h] = new],
         \/ new.pc = "connect" /\ Held(h) = {}
         \/ new.pc = "insert"
  PROVE  FeedbackSound'
<1>1. PoolSound'
  BY AskSound DEF FeedbackSound
<1>2. /\ job'[h] = new
      /\ \A g \in Handlers \ {h} : job'[g] = job[g]
      /\ job' = [g \in Handlers |-> job'[g]]
  BY DEF FeedbackSound, JobsShaped
<1>3. JobsShaped'
  BY <1>2 DEF FeedbackSound, JobsShaped
<1>4. \A g \in Handlers : Held(g)' = Held(g)
  BY DEF Ask, Held
<1>5. \A g \in Handlers \ {h} : Waiting(g)' => Waiting(g)
  <2>1. queue \in Seq(Handlers) /\ queue' = Append(queue, h)
    BY DEF FeedbackSound, PoolSound, PoolTypeOK, Ask
  <2>2. \A i \in 1..Len(queue') : (i \in 1..Len(queue) /\ queue'[i] = queue[i]) \/ queue'[i] = h
    BY <2>1
  <2> QED
    BY <2>2 DEF Waiting
<1>6. \A g \in Handlers \ {h} : Holds(g)'
  BY <1>2, <1>4, <1>5 DEF FeedbackSound, Holds
<1>7. Holds(h)'
  BY <1>2, <1>4 DEF Holds, MePCs
<1> QED
  BY <1>1, <1>3, <1>6, <1>7 DEF FeedbackSound

\* The pool grants a connection: who gets it waits no longer, and holds no other if it
\* is its first.
LEMMA GrantsOn ==
  ASSUME FeedbackSound, NEW x \in Conns, Grant(x), job' = job
  PROVE  FeedbackSound'
<1>1. PoolSound'
  BY GrantSound DEF FeedbackSound
<1>2. /\ queue \in Seq(Handlers) /\ queue # <<>> /\ queue' = Tail(queue)
      /\ conn \in [Conns -> Handlers \cup {None}]
      /\ conn' = [conn EXCEPT ![x] = Head(queue)]
  BY DEF FeedbackSound, PoolSound, PoolTypeOK, Grant
<1>3. /\ Head(queue) = queue[1] /\ 1 \in 1..Len(queue) /\ queue[1] \in Handlers
      /\ \A i \in 1..Len(queue') :
           queue'[i] = queue[i + 1] /\ i + 1 \in 1..Len(queue) /\ i + 1 # 1
  BY <1>2
<1>4. \A g \in Handlers : Waiting(g)' => Waiting(g) /\ g # queue[1]
  BY <1>3 DEF Waiting, FeedbackSound, PoolSound, WaitersHoldOne
<1>5. \A g \in Handlers : g # queue[1] => Held(g)' \subseteq Held(g)
  BY <1>2, <1>3 DEF Held
<1>6. ASSUME NEW g \in Handlers, g = queue[1]
      PROVE  Waiting(g) /\ Held(g)' \subseteq Held(g) \cup {x}
  <2>1. Waiting(g)
    BY <1>3, <1>6 DEF Waiting
  <2>2. \A y \in Conns \ {x} : conn'[y] = conn[y]
    BY <1>2
  <2> QED
    BY <2>1, <2>2 DEF Held
<1>7. \A g \in Handlers : Holds(g)'
  <2> TAKE g \in Handlers
  <2>1. CASE g = queue[1]
    <3>1. ~Waiting(g)' /\ Waiting(g) /\ Held(g)' \subseteq Held(g) \cup {x}
      BY <1>4, <1>6, <2>1
    <3>2. job[g].pc \in {"connect", "insert"} /\ (job[g].pc = "connect" => Held(g) = {})
      BY <3>1 DEF FeedbackSound, Holds
    <3> QED
      BY <3>1, <3>2 DEF Holds, MePCs
  <2>2. CASE g # queue[1]
    BY <1>4, <1>5, <2>2 DEF FeedbackSound, Holds, MePCs
  <2> QED
    BY <2>1, <2>2
<1> QED
  BY <1>1, <1>7 DEF FeedbackSound, JobsShaped

\* One request gives connections back, and is done if it keeps none.
LEMMA ReleasesOn ==
  ASSUME FeedbackSound, NEW h \in Handlers, NEW held \in SUBSET Conns, Release(held),
         ~Waiting(h),
         NEW new, new = Whose(new), job' = [job EXCEPT ![h] = new],
         \/ new.pc = "find"
         \/ new.pc = "idle" /\ held = Held(h)
  PROVE  FeedbackSound'
<1>1. PoolSound'
  BY ReleaseSound DEF FeedbackSound
<1>2. /\ job'[h] = new
      /\ \A g \in Handlers \ {h} : job'[g] = job[g]
      /\ job' = [g \in Handlers |-> job'[g]]
  BY DEF FeedbackSound, JobsShaped
<1>3. JobsShaped'
  BY <1>2 DEF FeedbackSound, JobsShaped
<1>4. \A g \in Handlers : (Waiting(g)' <=> Waiting(g)) /\ Held(g)' \subseteq Held(g)
  BY NoneIsNoHandler DEF Release, Waiting, Held
<1>5. held = Held(h) => Held(h)' = {}
  BY NoneIsNoHandler DEF Release, Held
<1>6. \A g \in Handlers \ {h} : Holds(g)'
  BY <1>2, <1>4 DEF FeedbackSound, Holds
<1>7. Holds(h)'
  BY <1>2, <1>4, <1>5 DEF Holds, MePCs
<1> QED
  BY <1>1, <1>3, <1>6, <1>7 DEF FeedbackSound
-----------------------------------------------------------------------------
\* What Goto does to a request.
LEMMA JobMoves ==
  ASSUME FeedbackSound, NEW h \in Handlers
  PROVE  \A pc : Goto(h, pc) => \E new : /\ new = Whose(new) /\ new.pc = pc
                                        /\ job' = [job EXCEPT ![h] = new]
<1> TAKE pc
<1> HAVE Goto(h, pc)
<1> DEFINE new == [job[h] EXCEPT !.pc = pc]
<1>1. job[h] = Whose(job[h])
  BY DEF FeedbackSound, JobsShaped
<1>2. job' = [job EXCEPT ![h] = new]
  BY DEF Goto
<1>3. new = Whose(new) /\ new.pc = pc
  BY <1>1, JobFields
<1> QED
  BY <1>2, <1>3

\* The pool of the next process is sound, and nobody waits.
LEMMA EmptyAgain ==
  ASSUME PoolInit'
  PROVE  PoolSound' /\ 1..Len(queue') = {}
<1>1. queue' = <<>> /\ queue' \in Seq(Handlers) /\ Len(queue') = 0
  BY DEF PoolInit
<1>2. 1..Len(queue') = {}
  BY <1>1
<1> QED
  BY <1>1, <1>2 DEF PoolInit, PoolSound, PoolTypeOK, WaitersHoldOne, Waiting

\* A request that begins, asks, grants or releases as the pool has it, step by step.
LEMMA FeedbackStep ==
  ASSUME FeedbackSound, Next
  PROVE  FeedbackSound' /\ [PoolNext]_poolVars
<1>1. CASE \E h \in Handlers, d \in Drivers, form \in Forms : Give(h, d, form)
  <2>1. PICK h \in Handlers, d \in Drivers, form \in Forms : Give(h, d, form)
    BY <1>1
  <2>2. /\ job[h] = Idle /\ ~Waiting(h) /\ Ask(h)
        /\ job' = [job EXCEPT ![h] = Job("connect", d, form, None, {})]
    BY <2>1 DEF Give
  <2>3. Held(h) = {}
    BY <2>2, JobFields DEF FeedbackSound, Holds
  <2>4. MayAsk(h)
    BY <2>2, <2>3 DEF MayAsk
  <2> DEFINE new == Job("connect", d, form, None, {})
  <2>5. new.pc = "connect" /\ new = Whose(new)
    BY JobFields
  <2> HIDE DEF new
  <2>6. job' = [job EXCEPT ![h] = new]
    BY <2>2 DEF new
  <2> QED
    BY <2>2, <2>3, <2>4, <2>5, <2>6, AsksOn DEF PoolNext
<1>2. CASE \E h \in Handlers : Begin(h)
  <2>1. PICK h \in Handlers : Begin(h)
    BY <1>2
  <2>2. /\ job[h].pc = "connect" /\ ~Waiting(h) /\ Ask(h) /\ Goto(h, "insert")
    BY <2>1 DEF Begin
  <2>3. MayAsk(h)
    BY <2>2 DEF MayAsk, FeedbackSound, Holds
  <2> QED
    BY <2>2, <2>3, JobMoves, AsksOn DEF PoolNext
<1>3. CASE \E h \in Handlers : InsertRows(h)
  <2>1. PICK h \in Handlers : InsertRows(h)
    BY <1>3
  <2>2. ~Waiting(h) /\ Goto(h, "find") /\ \E x \in Held(h) : Release({x})
    BY <2>1 DEF InsertRows
  <2>3. PICK x \in Held(h) : Release({x})
    BY <2>2
  <2>4. {x} \in SUBSET Conns
    BY DEF Held
  <2> QED
    BY <2>2, <2>3, <2>4, JobMoves, ReleasesOn DEF PoolNext
<1>4. CASE \E h \in Handlers : Commit(h) \/ Fail(h)
  <2>1. PICK h \in Handlers : Commit(h) \/ Fail(h)
    BY <1>4
  <2>2. /\ ~Waiting(h) /\ Release(Held(h)) /\ job' = [job EXCEPT ![h] = Idle]
    BY <2>1 DEF Commit, Fail, Return, FeedbackSound, Holds
  <2>3. Held(h) \in SUBSET Conns
    BY DEF Held
  <2>4. Idle.pc = "idle" /\ Idle = Whose(Idle)
    BY JobFields
  <2> QED
    BY <2>2, <2>3, <2>4, ReleasesOn DEF PoolNext
<1>5. CASE \E h \in Handlers : Find(h) \/ Reload(h) \/ Update(h)
  <2>1. PICK h \in Handlers : Find(h) \/ Reload(h) \/ Update(h)
    BY <1>5
  <2>2. UNCHANGED poolVars /\ job[h].pc \in {"find", "reload", "update"}
    BY <2>1 DEF Find, Reload, Update, poolVars
  <2>3. \E new : /\ new = Whose(new) /\ new.pc \in {"reload", "update", "commit"}
                /\ job' = [job EXCEPT ![h] = new]
    <3>1. CASE Find(h) \/ Reload(h)
      <4>1. PICK pc, d, form, read, changed :
              /\ pc \in {"reload", "update"}
              /\ job' = [job EXCEPT ![h] = Job(pc, d, form, read, changed)]
        BY <3>1 DEF Find, Reload
      <4> DEFINE new == Job(pc, d, form, read, changed)
      <4>2. new.pc = pc /\ new = Whose(new)
        BY JobFields
      <4> QED
        BY <4>1, <4>2
    <3>2. CASE Update(h)
      BY <3>2, JobMoves DEF Update
    <3> QED
      BY <2>1, <3>1, <3>2
  <2> QED
    BY <2>2, <2>3, MovesOn
<1>6. CASE \E h \in Handlers : MeInsert(h) \/ MeRate(h) \/ \E d \in Drivers : MeFind(h, d)
  <2>1. PICK h \in Handlers : MeInsert(h) \/ MeRate(h) \/ \E d \in Drivers : MeFind(h, d)
    BY <1>6
  <2>2. Idle.pc = "idle" /\ Idle = Whose(Idle)
    BY JobFields
  <2>3. UNCHANGED poolVars /\ job[h].pc \in {"idle"} \cup MePCs
    BY <2>1, <2>2 DEF MeInsert, MeRate, MeFind, MePCs, poolVars
  <2>4. \E new : /\ new = Whose(new) /\ new.pc \in {"idle"} \cup MePCs
                /\ job' = [job EXCEPT ![h] = new]
    <3>1. CASE MeInsert(h)
      BY <2>2, <3>1, JobMoves DEF MeInsert, Return, MePCs
    <3>2. CASE MeRate(h)
      BY <2>2, <3>2 DEF MeRate, Return
    <3>3. CASE \E d \in Drivers : MeFind(h, d)
      <4>1. PICK d \in Drivers : MeFind(h, d)
        BY <3>3
      <4> DEFINE new == Job("me_insert", d, <<>>, None, {})
      <4>2. new.pc = "me_insert" /\ new = Whose(new)
        BY JobFields
      <4> QED
        BY <4>1, <4>2 DEF MeFind, MePCs
    <3> QED
      BY <2>1, <3>1, <3>2, <3>3
  <2> QED
    BY <2>3, <2>4, MovesOn
<1>7. CASE GrantOne
  BY <1>7, GrantsOn DEF GrantOne, PoolNext
<1>8. CASE Crash
  <2>1. job' = [h \in Handlers |-> Idle] /\ PoolCrash
    BY <1>8 DEF Crash
  <2>2. PoolInit'
    BY <2>1 DEF PoolCrash, PoolInit
  <2>3. PoolSound' /\ 1..Len(queue') = {}
    BY <2>2, EmptyAgain
  <2>4. \A h \in Handlers : ~Waiting(h)' /\ Held(h)' = {}
    BY <2>2, <2>3, NoneIsNoHandler DEF Waiting, Held, PoolInit
  <2>5. Idle = Whose(Idle)
    BY JobFields
  <2> QED
    BY <2>1, <2>3, <2>4, <2>5 DEF FeedbackSound, JobsShaped, Holds, PoolNext
<1> QED
  BY <1>1, <1>2, <1>3, <1>4, <1>5, <1>6, <1>7, <1>8 DEF Next, Continue

\* The invariant that ties the steps of a feedback to what it holds of the pool.
LEMMA FeedbackSoundHolds == Spec => []FeedbackSound
<1>1. Init => FeedbackSound
  <2> SUFFICES ASSUME Init
               PROVE  FeedbackSound
    OBVIOUS
  <2>1. PoolSound /\ queue = <<>> /\ conn = [x \in Conns |-> None]
    BY EmptySound DEF Init, PoolInit
  <2>2. 1..Len(queue) = {}
    BY <2>1
  <2>3. \A h \in Handlers : ~Waiting(h) /\ Held(h) = {}
    BY <2>1, <2>2, NoneIsNoHandler DEF Waiting, Held
  <2> QED
    BY <2>1, <2>3, JobFields DEF Init, FeedbackSound, JobsShaped, Holds
<1>2. FeedbackSound /\ [Next]_vars => FeedbackSound'
  <2>1. ASSUME FeedbackSound, UNCHANGED vars
        PROVE  FeedbackSound'
    BY <2>1
    DEF vars, FeedbackSound, PoolSound, PoolTypeOK, WaitersHoldOne, Waiting, Held, JobsShaped, Holds
  <2> QED
    BY <2>1, FeedbackStep
<1> QED
  BY <1>1, <1>2, PTL DEF Spec

\* createFeedback asks the pool for a connection only while it holds one at most, and for
\* one at a time, whatever fails: it implements the pool's discipline.
THEOREM UsesThePool == Spec => PoolSpec
<1>1. Init => PoolInit
  BY DEF Init
<1>2. FeedbackSound /\ [Next]_vars => [PoolNext]_poolVars
  <2>1. UNCHANGED vars => UNCHANGED poolVars
    BY DEF vars, poolVars
  <2> QED
    BY <2>1, FeedbackStep
<1> QED
  BY <1>1, <1>2, FeedbackSoundHolds, PTL DEF Spec, PoolSpec

\* Feedbacks stall the pool only by holding every connection between them, each with
\* one and in wait for the next, whatever overlaps, fails and dies.
THEOREM FeedbackStallTakesAll ==
  ASSUME IsFiniteSet(Conns)
  PROVE  Spec => []StallTakesAll
<1>1. FeedbackSound => StallTakesAll
  BY SoundStall DEF FeedbackSound
<1> QED
  BY <1>1, FeedbackSoundHolds, PTL

-----------------------------------------------------------------------------
(***************************************************************************)
(* Induction over finite sets, by a smallest counterexample: of the subsets *)
(* of a finite set that are wrong, one has no wrong subset but itself.     *)
(***************************************************************************)
\* A family of subsets of a finite set has a member without smaller ones.
LEMMA SmallestSubset ==
  ASSUME NEW S, IsFiniteSet(S), NEW Family \in SUBSET SUBSET S, Family # {}
  PROVE  \E T \in Family : \A U \in SUBSET T : U \in Family => U = T
<1>1. Family \subseteq FiniteSubsetsOf(S)
  BY FS_FiniteSubsetsOfFinite
<1>2. PICK T \in Family : \A U \in Family : <<U, T>> \notin StrictSubsetOrdering(S)
  BY <1>1, FS_StrictSubsetOrderingWellFounded, WFMin
<1> QED
  BY <1>2 DEF StrictSubsetOrdering

\* What holds of 0 and is passed on up to n holds of all numbers up to n.
LEMMA UpTo ==
  ASSUME NEW n \in Nat, NEW Good, 0 \in Good,
         \A k \in 0..n : k \in Good /\ k < n => k + 1 \in Good
  PROVE  \A k \in 0..n : k \in Good
<1> DEFINE Bad == {k \in 0..n : k \notin Good}
           Below == {1..k : k \in Bad}
<1>1. SUFFICES ASSUME Bad # {}
               PROVE  FALSE
  OBVIOUS
<1>2. Below \in SUBSET SUBSET (1..n) /\ Below # {}
  <2>1. \A k \in Bad : 1..k \subseteq 1..n
    OBVIOUS
  <2> QED
    BY <1>1, <2>1
<1>3. PICK T \in Below : \A U \in SUBSET T : U \in Below => U = T
  <2> DEFINE Whole_n == 1..n
  <2>1. IsFiniteSet(Whole_n)
    BY FS_Interval
  <2>2. Below \in SUBSET SUBSET Whole_n /\ Below # {}
    BY <1>2
  <2> HIDE DEF Below, Whole_n
  <2> QED
    BY <2>1, <2>2, SmallestSubset
<1>4. PICK k \in Bad : T = 1..k
  BY <1>3
<1>5. k \in 1..n /\ k - 1 \in 0..n
  BY <1>4
<1>6. k - 1 \notin Good
  BY <1>5
<1>7. 1..(k - 1) \in Below /\ 1..(k - 1) \subseteq T /\ k \in T /\ k \notin 1..(k - 1)
  BY <1>4, <1>5, <1>6
<1> QED
  BY <1>3, <1>7

\* A set of places has a first one.
LEMMA FirstOf ==
  ASSUME NEW n \in Nat, NEW S \in SUBSET (1..n), S # {}
  PROVE  Min(S) \in S
<1> DEFINE All == 1..n
           Ranges == {1..k : k \in S}
<1>1. IsFiniteSet(All)
  BY FS_Interval
<1>2. Ranges \in SUBSET SUBSET All /\ Ranges # {}
  <2>1. \A k \in S : 1..k \subseteq 1..n
    OBVIOUS
  <2> QED
    BY <2>1
<1>3. PICK T \in Ranges : \A U \in SUBSET T : U \in Ranges => U = T
  <2> HIDE DEF All, Ranges
  <2> QED
    BY <1>1, <1>2, SmallestSubset
<1>4. PICK k \in S : T = 1..k
  BY <1>3
<1>5. ASSUME NEW i \in S
      PROVE  k <= i
  <2>1. SUFFICES ASSUME i < k
                 PROVE  FALSE
    OBVIOUS
  <2>2. 1..i \in Ranges /\ 1..i \subseteq T /\ k \in T /\ k \notin 1..i
    BY <1>4, <2>1
  <2> QED
    BY <1>3, <2>2
<1> QED
  BY <1>5 DEF Min
-----------------------------------------------------------------------------
(***************************************************************************)
(* The sum over a finite set, which adds up one element after the other.   *)
(***************************************************************************)
One(T) == CHOOSE x \in T : TRUE

SumBy(f, sum, T) == IF T = {} THEN 0 ELSE f[One(T)] + sum[T \ {One(T)}]

\* sum is the function that the library's fold defines by recursion.
Sums(f, S, sum) == sum = [T \in SUBSET S |-> SumBy(f, sum, T)]

\* There is such a function.
LEMMA SumExists ==
  ASSUME NEW S, IsFiniteSet(S), NEW f
  PROVE  \E sum : Sums(f, S, sum)
<1> DEFINE To(k, sum) == \A T \in SUBSET S : Cardinality(T) <= k => sum[T] = SumBy(f, sum, T)
           Good == {k \in Nat : \E sum : To(k, sum)}
           n == Cardinality(S)
<1>1. n \in Nat /\ \A T \in SUBSET S : IsFiniteSet(T) /\ Cardinality(T) \in 0..n
  BY FS_CardinalityType, FS_Subset
<1>2. 0 \in Good
  <2>1. To(0, [T \in SUBSET S |-> 0])
    BY <1>1, FS_EmptySet DEF SumBy
  <2> QED
    BY <2>1
<1>3. ASSUME NEW k \in 0..n, k \in Good
      PROVE  k + 1 \in Good
  <2>1. PICK sum : To(k, sum)
    BY <1>3
  <2> DEFINE next == [T \in SUBSET S |-> IF Cardinality(T) <= k THEN sum[T] ELSE SumBy(f, sum, T)]
  <2>2. ASSUME NEW T \in SUBSET S, Cardinality(T) <= k + 1
        PROVE  next[T] = SumBy(f, next, T)
    <3>1. CASE T = {}
      BY <2>1, <3>1 DEF SumBy
    <3>2. CASE T # {}
      <4>1. One(T) \in T
        BY <3>2 DEF One
      <4>2. /\ T \ {One(T)} \in SUBSET S
            /\ Cardinality(T \ {One(T)}) = Cardinality(T) - 1
        BY <1>1, <4>1, FS_RemoveElement
      <4>3. Cardinality(T \ {One(T)}) <= k
        BY <1>1, <2>2, <4>2
      <4>4. next[T \ {One(T)}] = sum[T \ {One(T)}]
        BY <4>2, <4>3
      <4>5. next[T] = SumBy(f, sum, T)
        BY <2>1
      <4> QED
        BY <3>2, <4>4, <4>5 DEF SumBy
    <3> QED
      BY <3>1, <3>2
  <2>3. To(k + 1, next)
    BY <2>2
  <2>4. k + 1 \in Nat
    BY <1>1
  <2> HIDE DEF To, next
  <2> QED
    BY <2>3, <2>4
<1>4. n \in Good
  <2> HIDE DEF Good
  <2> QED
    BY <1>1, <1>2, <1>3, UpTo
<1>5. PICK sum : To(n, sum)
  BY <1>4
<1> DEFINE all == [T \in SUBSET S |-> sum[T]]
<1>6. ASSUME NEW T \in SUBSET S
      PROVE  all[T] = SumBy(f, all, T)
  <2>1. T \ {One(T)} \in SUBSET S
    OBVIOUS
  <2> QED
    BY <1>1, <1>5, <2>1 DEF SumBy
<1>7. Sums(f, S, all)
  BY <1>6 DEF Sums
<1> QED
  BY <1>7

\* The library's sum is what such a function has for the whole set.
LEMMA SumOf ==
  ASSUME NEW S, IsFiniteSet(S), NEW f
  PROVE  \E sum : Sums(f, S, sum) /\ SumFunctionOnSet(f, S) = sum[S]
<1> DEFINE Is(sum) == Sums(f, S, sum)
<1>1. SumFunctionOnSet(f, S) = (CHOOSE sum : Is(sum))[S]
  BY DEF SumFunctionOnSet, FoldFunctionOnSet, MapThenFoldSet, Sums, SumBy, One
<1>2. \E sum : Is(sum)
  BY SumExists
<1> HIDE DEF Is
<1>3. Is(CHOOSE sum : Is(sum))
  BY <1>2
<1> QED
  BY <1>1, <1>3 DEF Is

\* Sums of integers are integers; nothing adds up to 0, one element to itself.
LEMMA SumFacts ==
  ASSUME NEW S, IsFiniteSet(S), NEW f, \A x \in S : f[x] \in Int
  PROVE  /\ SumFunctionOnSet(f, S) \in Int
         /\ S = {} => SumFunctionOnSet(f, S) = 0
         /\ \A x : S = {x} => SumFunctionOnSet(f, S) = f[x]
<1>1. PICK sum : Sums(f, S, sum) /\ SumFunctionOnSet(f, S) = sum[S]
  BY SumOf
<1> DEFINE Wrong == {T \in SUBSET S : sum[T] \notin Int}
<1>2. \A T \in SUBSET S : sum[T] = SumBy(f, sum, T)
  BY <1>1 DEF Sums
<1>3. sum[{}] = 0
  BY <1>2 DEF SumBy
<1>4. Wrong = {}
  <2>1. SUFFICES ASSUME Wrong # {}
                 PROVE  FALSE
    OBVIOUS
  <2>2. PICK T \in Wrong : \A U \in SUBSET T : U \in Wrong => U = T
    <3> HIDE DEF Wrong
    <3>1. Wrong \in SUBSET SUBSET S
      BY DEF Wrong
    <3> QED
      BY <2>1, <3>1, SmallestSubset
  <2>3. One(T) \in T /\ sum[T] = f[One(T)] + sum[T \ {One(T)}]
    <3>1. T # {}
      BY <1>3
    <3>2. One(T) \in T
      BY <3>1 DEF One
    <3>3. sum[T] = SumBy(f, sum, T)
      BY <1>2
    <3> QED
      BY <3>1, <3>2, <3>3 DEF SumBy
  <2>4. sum[T \ {One(T)}] \in Int
    <3>1. /\ T \ {One(T)} \in SUBSET S /\ T \ {One(T)} \in SUBSET T
          /\ T \ {One(T)} # T
      BY <2>2, <2>3
    <3> QED
      BY <2>2, <3>1
  <2> QED
    BY <2>2, <2>3, <2>4
<1>5. ASSUME NEW x, S = {x}
      PROVE  sum[S] = f[x]
  <2>1. One(S) = x /\ S \ {x} = {}
    BY <1>5 DEF One
  <2>2. sum[S] = f[x] + sum[{}]
    BY <1>2, <1>5, <2>1 DEF SumBy
  <2> QED
    BY <1>3, <1>5, <2>2
<1> QED
  BY <1>1, <1>3, <1>4, <1>5
-----------------------------------------------------------------------------
(***************************************************************************)
(* The scores of a form.                                                   *)
(***************************************************************************)
\* Scores of a category are finitely many places of integers, and the first is one.
LEMMA FormFacts ==
  ASSUME NEW form \in Forms, NEW c \in Categories
  PROVE  /\ IsFiniteSet(Scores(form, c))
         /\ \A i \in Scores(form, c) : form[i].rating \in Int /\ Rates(form)[i] = form[i].rating
         /\ Scores(form, c) # {} => Min(Scores(form, c)) \in Scores(form, c)
<1> DEFINE Score == [category: Categories, rating: Int]
<1>1. form \in Seq(Score)
  BY FormsAreScores
<1>2. /\ Len(form) \in Nat /\ DOMAIN form = 1..Len(form)
      /\ \A i \in DOMAIN form : form[i] \in Score
  <2> HIDE DEF Score
  <2> QED
    BY <1>1
<1>3. Scores(form, c) \subseteq 1..Len(form)
  BY <1>2 DEF Scores
<1>4. IsFiniteSet(Scores(form, c))
  <2>1. IsFiniteSet(1..Len(form))
    BY <1>2, FS_Interval
  <2> QED
    BY <1>3, <2>1, FS_Subset
<1>5. Scores(form, c) # {} => Min(Scores(form, c)) \in Scores(form, c)
  BY <1>2, <1>3, FirstOf
<1>6. \A i \in Scores(form, c) : i \in DOMAIN form
  BY DEF Scores
<1> QED
  BY <1>2, <1>4, <1>5, <1>6 DEF Rates

\* What a form adds to a count, in memory and in the table.
LEMMA CountedFacts ==
  ASSUME NEW form \in Forms, NEW c \in Categories, NEW tally \in Tally
  PROVE  /\ Counted(tally, form, c) \in Tally
         /\ Cardinality(Scores(form, c)) \in Nat
         /\ SumFunctionOnSet(Rates(form), Scores(form, c)) \in Int
         /\ Scores(form, c) = {} =>
              Counted(tally, form, c) = tally /\ Cardinality(Scores(form, c)) = 0
         /\ Scores(form, c) # {} =>
              /\ Counted(tally, form, c).totalFeedbacks = tally.totalFeedbacks + 1
              /\ Cardinality(Scores(form, c)) >= 1
<1> DEFINE S == Scores(form, c)
<1>1. /\ IsFiniteSet(S)
      /\ \A i \in S : form[i].rating \in Int /\ Rates(form)[i] = form[i].rating
      /\ S # {} => Min(S) \in S
  BY FormFacts
<1>2. Counted(tally, form, c) =
        IF S = {} THEN tally
        ELSE [rating |-> tally.rating + form[Min(S)].rating,
              totalFeedbacks |-> tally.totalFeedbacks + 1]
  BY DEF Counted
<1> HIDE DEF S
<1>3. SumFunctionOnSet(Rates(form), S) \in Int
  BY <1>1, SumFacts
<1>4. Cardinality(S) \in Nat /\ (Cardinality(S) = 0 <=> S = {})
  BY <1>1, FS_CardinalityType, FS_EmptySet
<1>5. Counted(tally, form, c) \in Tally
  BY <1>1, <1>2 DEF Tally
<1> QED
  BY <1>2, <1>3, <1>4, <1>5 DEF S

\* A form that scores each category once at most adds the same in both.
LEMMA WholeIsCounted ==
  ASSUME NEW form \in Forms, Whole(form), NEW c \in Categories, NEW tally \in Tally
  PROVE  Counted(tally, form, c) =
           [rating |-> tally.rating + SumFunctionOnSet(Rates(form), Scores(form, c)),
            totalFeedbacks |-> tally.totalFeedbacks + Cardinality(Scores(form, c))]
<1> DEFINE S == Scores(form, c)
<1>1. /\ IsFiniteSet(S)
      /\ \A i \in S : form[i].rating \in Int /\ Rates(form)[i] = form[i].rating
      /\ S # {} => Min(S) \in S
  BY FormFacts
<1>2. \A i, j \in S : i = j
  BY DEF Scores, Whole
<1>3. Counted(tally, form, c) =
        IF S = {} THEN tally
        ELSE [rating |-> tally.rating + form[Min(S)].rating,
              totalFeedbacks |-> tally.totalFeedbacks + 1]
  BY DEF Counted
<1> HIDE DEF S
<1>4. CASE S = {}
  <2>1. SumFunctionOnSet(Rates(form), S) = 0 /\ Cardinality(S) = 0
    BY <1>1, <1>4, SumFacts, FS_EmptySet
  <2> QED
    BY <1>3, <1>4, <2>1 DEF S, Tally
<1>5. CASE S # {}
  <2>1. S = {Min(S)} /\ Min(S) \in S
    BY <1>1, <1>2, <1>5
  <2>2. SumFunctionOnSet(Rates(form), S) = form[Min(S)].rating
    BY <1>1, <2>1, SumFacts
  <2>3. Cardinality(S) = 1
    BY <2>1, FS_Singleton
  <2> QED
    BY <1>3, <1>5, <2>2, <2>3 DEF S
<1> QED
  BY <1>4, <1>5
-----------------------------------------------------------------------------
(***************************************************************************)
(* The counts.                                                             *)
(***************************************************************************)
JobType ==
  [pc: {"idle"} \cup FeedbackPCs \cup MePCs, driver: Drivers \cup {None},
   form: Forms \cup {<<>>}, read: [Categories -> Tally] \cup {None},
   changed: SUBSET (Categories \X Columns)]

\* TypeOK but for the pool, the bound and the history.
DataTypeOK ==
  /\ registered \subseteq Drivers
  /\ ratings \in [Drivers -> [Categories -> Tally] \cup {None}]
  /\ given \in [Drivers -> [Categories -> [count: Nat, sum: Int]]]
  /\ job \in [Handlers -> JobType]

\* What CountsSound says of the tables and the requests.
DataSound == DataTypeOK /\ JobsWhole /\ RatedOnce /\ RoomToCount

\* A request whose rows are inserted and not yet counted.
Inserted(j) == j.pc \in {"find"} \cup CountingPCs

\* What is in the tables and in the requests is numbers.
LEMMA NumbersTyped ==
  ASSUME DataTypeOK, NEW d \in Drivers, NEW c \in Categories
  PROVE  /\ given[d][c].count \in Nat /\ given[d][c].sum \in Int
         /\ ratings[d] # None => ratings[d] \in [Categories -> Tally] /\ ratings[d][c] \in Tally
         /\ \A h \in Handlers : job[h].read # None =>
              job[h].read \in [Categories -> Tally] /\ job[h].read[c] \in Tally
         /\ \A t \in Tally : t.totalFeedbacks \in Nat /\ t.rating \in Int
<1>1. given[d] \in [Categories -> [count: Nat, sum: Int]]
  BY DEF DataTypeOK
<1>2. ratings[d] # None => ratings[d] \in [Categories -> Tally]
  BY DEF DataTypeOK
<1>3. \A h \in Handlers : job[h].read # None => job[h].read \in [Categories -> Tally]
  BY DEF DataTypeOK, JobType
<1>4. \A t \in Tally : t.totalFeedbacks \in Nat /\ t.rating \in Int
  BY DEF Tally
<1> QED
  BY <1>1, <1>2, <1>3, <1>4

\* Job makes requests of the type, and a step keeps them so.
LEMMA JobsTyped ==
  /\ Idle \in JobType
  /\ \A pc \in {"idle"} \cup FeedbackPCs \cup MePCs, d \in Drivers \cup {None},
        form \in Forms \cup {<<>>}, read \in [Categories -> Tally] \cup {None},
        changed \in SUBSET (Categories \X Columns) :
       LET j == Job(pc, d, form, read, changed) IN
       /\ j \in JobType /\ j.pc = pc /\ j.driver = d
       /\ j.form = form /\ j.read = read /\ j.changed = changed
  /\ \A j \in JobType, pc \in {"idle"} \cup FeedbackPCs \cup MePCs :
       LET k == [j EXCEPT !.pc = pc] IN
       /\ k \in JobType /\ k.pc = pc /\ k.driver = j.driver
       /\ k.form = j.form /\ k.read = j.read /\ k.changed = j.changed
<1>1. Idle \in JobType
  BY DEF Idle, Job, JobType
<1>2. \A pc \in {"idle"} \cup FeedbackPCs \cup MePCs, d \in Drivers \cup {None},
        form \in Forms \cup {<<>>}, read \in [Categories -> Tally] \cup {None},
        changed \in SUBSET (Categories \X Columns) :
       LET j == Job(pc, d, form, read, changed) IN
       /\ j \in JobType /\ j.pc = pc /\ j.driver = d
       /\ j.form = form /\ j.read = read /\ j.changed = changed
  BY DEF Job, JobType
<1>3. \A j \in JobType, pc \in {"idle"} \cup FeedbackPCs \cup MePCs :
       LET k == [j EXCEPT !.pc = pc] IN
       /\ k \in JobType /\ k.pc = pc /\ k.driver = j.driver
       /\ k.form = j.form /\ k.read = j.read /\ k.changed = j.changed
  BY DEF JobType
<1> QED
  BY <1>1, <1>2, <1>3

\* An idle request is at no step.
LEMMA IdleFields ==
  /\ Idle.pc = "idle" /\ Idle.driver = None /\ Idle.changed = {}
  /\ Idle.pc \notin FeedbackPCs /\ Idle.pc \notin MePCs /\ ~Inserted(Idle)
  BY DEF Idle, Job, FeedbackPCs, MePCs, Inserted, CountingPCs

\* Requests are finitely many, and so are the uncounted.
LEMMA Uncounting ==
  ASSUME IsFiniteSet(Handlers), NEW U, U \subseteq Handlers
  PROVE  /\ IsFiniteSet(U) /\ Cardinality(U) \in Nat
         /\ \A V \in SUBSET U : Cardinality(V) \in Nat /\ Cardinality(V) <= Cardinality(U)
         /\ \A h \in U : Cardinality(U \ {h}) = Cardinality(U) - 1
         /\ \A h : h \notin U => Cardinality(U \cup {h}) = Cardinality(U) + 1
<1>1. IsFiniteSet(U)
  BY FS_Subset
<1> QED
  BY <1>1, FS_Subset, FS_CardinalityType, FS_RemoveElement, FS_AddElement

\* Who is uncounted after a step of one request: the others as they were.
LEMMA UncountedAfter ==
  ASSUME NEW h \in Handlers, NEW d, NEW c, \A g \in Handlers \ {h} : job'[g] = job[g]
  PROVE  /\ Uncounted(d, c) \subseteq Handlers
         /\ h \in Uncounted(d, c) <=>
              Inserted(job[h]) /\ job[h].driver = d /\ Scores(job[h].form, c) # {}
         /\ Uncounted(d, c)' =
              IF Inserted(job'[h]) /\ job'[h].driver = d /\ Scores(job'[h].form, c) # {}
              THEN Uncounted(d, c) \cup {h} ELSE Uncounted(d, c) \ {h}
  BY DEF Uncounted, Inserted, Scores
-----------------------------------------------------------------------------
\* The room to count is kept if nobody joins the uncounted and nothing is read; ratings
\* that change have to leave it.
LEMMA RoomKept ==
  ASSUME IsFiniteSet(Handlers), DataTypeOK, NEW d \in Drivers, NEW c \in Categories,
         RoomToCountIn(d, c), given' = given,
         \/ ratings' = ratings
         \/ ratings'[d] # None =>
              ratings'[d][c].totalFeedbacks - 1 + Cardinality(Uncounted(d, c)') <= given[d][c].count,
         Uncounted(d, c)' \subseteq Uncounted(d, c),
         \A h \in Handlers :
           job'[h].pc \in CountingPCs /\ job'[h].driver = d /\ job'[h].read # None =>
             /\ job[h].pc \in CountingPCs /\ job[h].driver = d
             /\ job[h].read # None /\ job'[h].read = job[h].read
  PROVE  RoomToCountIn(d, c)'
<1> DEFINE U == Uncounted(d, c)
           V == Uncounted(d, c)'
<1>1. U \subseteq Handlers /\ V \subseteq U
  BY DEF Uncounted
<1> HIDE DEF U, V
<1>2. Cardinality(V) \in Nat /\ Cardinality(U) \in Nat /\ Cardinality(V) <= Cardinality(U)
  BY <1>1, Uncounting
<1>3. ASSUME NEW h \in Handlers
      PROVE  /\ Cardinality(V \ {h}) \in Nat /\ Cardinality(U \ {h}) \in Nat
             /\ Cardinality(V \ {h}) <= Cardinality(U \ {h})
  <2>1. U \ {h} \subseteq Handlers /\ V \ {h} \subseteq U \ {h}
    BY <1>1
  <2> QED
    BY <2>1, Uncounting
<1>4. /\ given[d][c].count \in Nat
      /\ ratings[d] # None => ratings[d][c].totalFeedbacks \in Nat
      /\ \A h \in Handlers : job[h].read # None => job[h].read[c].totalFeedbacks \in Nat
  BY NumbersTyped
<1>5. given'[d][c].count = given[d][c].count
  OBVIOUS
<1>6. Cardinality(V) <= given[d][c].count
  BY <1>2, <1>4 DEF RoomToCountIn, RowsFor, U
<1>7. ratings'[d] # None => ratings'[d][c].totalFeedbacks - 1 + Cardinality(V) <= given[d][c].count
  <2>1. CASE ratings' = ratings
    BY <1>2, <1>4, <2>1 DEF RoomToCountIn, RowsFor, U
  <2>2. CASE ratings' # ratings
    BY <2>2 DEF V
  <2> QED
    BY <2>1, <2>2
<1>8. ASSUME NEW h \in Handlers,
             job'[h].pc \in CountingPCs, job'[h].driver = d, job'[h].read # None
      PROVE  job'[h].read[c].totalFeedbacks - 1 + Cardinality(V \ {h}) <= given[d][c].count
  <2>1. /\ job'[h].read = job[h].read
        /\ job[h].read[c].totalFeedbacks - 1 + Cardinality(U \ {h}) <= given[d][c].count
    BY <1>8 DEF RoomToCountIn, RowsFor, U
  <2> DEFINE n == job[h].read[c].totalFeedbacks
             v == Cardinality(V \ {h})
             u == Cardinality(U \ {h})
  <2>2. n \in Nat /\ v \in Nat /\ u \in Nat /\ v <= u
    BY <1>3, <1>4, <1>8, <2>1
  <2>3. n - 1 + u <= given[d][c].count /\ given[d][c].count \in Nat
    BY <1>4, <2>1
  <2> HIDE DEF n, v, u
  <2>4. n - 1 + v <= given[d][c].count
    BY <2>2, <2>3
  <2> QED
    BY <2>1, <2>4 DEF n, v
<1> QED
  BY <1>5, <1>6, <1>7, <1>8 DEF RoomToCountIn, RowsFor, V

\* A request moves to a step where it has inserted and read no more than before.
LEMMA QuietMove ==
  ASSUME IsFiniteSet(Handlers), DataSound, NEW h \in Handlers, NEW new \in JobType,
         job' = [job EXCEPT ![h] = new], UNCHANGED <<given, ratings>>,
         registered \subseteq registered', registered' \subseteq Drivers,
         new.pc # "idle" => new.driver # None,
         new.pc \in FeedbackPCs => new.form \in Forms /\ new.driver \in registered',
         Inserted(new) => /\ Inserted(job[h]) /\ new.driver = job[h].driver
                          /\ new.form = job[h].form,
         new.pc \in CountingPCs /\ new.read # None =>
           job[h].pc \in CountingPCs /\ job[h].read = new.read,
         new.changed # {} => new.pc \in CountingPCs /\ new.read # None,
         new.pc = "me_rate" => new.driver \in registered' \ registered
  PROVE  DataSound'
<1>1. /\ job'[h] = new /\ (\A g \in Handlers \ {h} : job'[g] = job[g])
      /\ job' \in [Handlers -> JobType]
  BY DEF DataSound, DataTypeOK
<1>2. DataTypeOK'
  BY <1>1 DEF DataSound, DataTypeOK
<1>3. JobsWhole'
  <2>1. new.pc \in CountingPCs /\ new.read # None => ratings[new.driver] # None
    BY DEF DataSound, JobsWhole, Inserted
  <2> QED
    BY <1>1, <2>1 DEF DataSound, JobsWhole
<1>4. RatedOnce'
  BY <1>1 DEF DataSound, RatedOnce, DataTypeOK
<1>5. ASSUME NEW d \in Drivers, NEW c \in Categories
      PROVE  RoomToCountIn(d, c)'
  <2>1. Uncounted(d, c)' \subseteq Uncounted(d, c)
    BY <1>1, UncountedAfter
  <2>2. new.pc \in CountingPCs /\ new.driver = d /\ new.read # None =>
          /\ job[h].pc \in CountingPCs /\ job[h].driver = d
          /\ job[h].read # None /\ new.read = job[h].read
    BY DEF Inserted
  <2> QED
    BY <1>1, <2>1, <2>2, RoomKept DEF DataSound, RoomToCount
<1> QED
  BY <1>2, <1>3, <1>4, <1>5 DEF DataSound, RoomToCount
-----------------------------------------------------------------------------
\* Rows are committed, then counted in memory, then saved; what is saved may be one
\* column only.
LEMMA InsertRowsSound ==
  ASSUME IsFiniteSet(Handlers), DataSound, NEW h \in Handlers, InsertRows(h)
  PROVE  DataSound'
<1> DEFINE dr == job[h].driver
           fm == job[h].form
           new == [job[h] EXCEPT !.pc = "find"]
<1>1. /\ job[h].pc = "insert" /\ AddRows(dr, fm) /\ job' = [job EXCEPT ![h] = new]
      /\ UNCHANGED <<registered, ratings>>
  BY DEF InsertRows, Goto
<1>2. job[h] \in JobType /\ "find" \in {"idle"} \cup FeedbackPCs \cup MePCs
  BY DEF DataSound, DataTypeOK, FeedbackPCs
<1>3. /\ new \in JobType /\ new.pc = "find" /\ new.driver = dr
      /\ new.form = fm /\ new.read = job[h].read /\ new.changed = job[h].changed
  BY <1>2, JobsTyped
<1>4. fm \in Forms /\ dr \in Drivers /\ dr \in registered
  BY <1>1 DEF DataSound, DataTypeOK, JobsWhole, FeedbackPCs
<1>5. job[h].changed = {}
  BY <1>1 DEF DataSound, JobsWhole, CountingPCs
<1> HIDE DEF new, dr, fm
<1>6. /\ job'[h] = new /\ (\A g \in Handlers \ {h} : job'[g] = job[g])
      /\ job' \in [Handlers -> JobType]
  BY <1>1, <1>3 DEF DataSound, DataTypeOK
<1>7. \A c \in Categories :
        /\ Cardinality(Scores(fm, c)) \in Nat
        /\ SumFunctionOnSet(Rates(fm), Scores(fm, c)) \in Int
        /\ Scores(fm, c) # {} => Cardinality(Scores(fm, c)) >= 1
        /\ given[dr][c].count \in Nat /\ given[dr][c].sum \in Int
  <2> TAKE c \in Categories
  <2>1. [rating |-> 0, totalFeedbacks |-> 0] \in Tally
    BY DEF Tally
  <2> QED
    BY <1>4, <2>1, CountedFacts, NumbersTyped DEF DataSound
<1>8. given' = [given EXCEPT ![dr] = [c \in Categories |->
        [count |-> given[dr][c].count + Cardinality(Scores(fm, c)),
         sum |-> given[dr][c].sum + SumFunctionOnSet(Rates(fm), Scores(fm, c))]]]
  BY <1>1 DEF AddRows
<1>9. /\ given' \in [Drivers -> [Categories -> [count: Nat, sum: Int]]]
      /\ \A d \in Drivers, c \in Categories :
           given'[d][c].count = IF d = dr THEN given[d][c].count + Cardinality(Scores(fm, c))
                                ELSE given[d][c].count
  <2> DEFINE rows == [c \in Categories |->
               [count |-> given[dr][c].count + Cardinality(Scores(fm, c)),
                sum |-> given[dr][c].sum + SumFunctionOnSet(Rates(fm), Scores(fm, c))]]
  <2>1. rows \in [Categories -> [count: Nat, sum: Int]]
    BY <1>7
  <2>2. \A c \in Categories :
          rows[c].count = given[dr][c].count + Cardinality(Scores(fm, c))
    OBVIOUS
  <2> HIDE DEF rows
  <2>3. given' = [given EXCEPT ![dr] = rows]
    BY <1>8 DEF rows
  <2> QED
    BY <1>4, <2>1, <2>2, <2>3 DEF DataSound, DataTypeOK
<1>10. DataTypeOK'
  BY <1>1, <1>6, <1>9 DEF DataSound, DataTypeOK
<1>11. JobsWhole'
  BY <1>1, <1>3, <1>4, <1>5, <1>6, NoneIsNoDriver DEF DataSound, JobsWhole, CountingPCs
<1>12. RatedOnce'
  BY <1>1, <1>3, <1>6 DEF DataSound, RatedOnce
<1>13. ASSUME NEW d \in Drivers, NEW c \in Categories
       PROVE  RoomToCountIn(d, c)'
  <2> DEFINE U == Uncounted(d, c)
             V == Uncounted(d, c)'
             n == given[d][c].count
             k == IF d = dr /\ Scores(fm, c) # {} THEN 1 ELSE 0
  <2>1. U \subseteq Handlers /\ h \notin U
    BY <1>1, <1>6, UncountedAfter DEF Inserted, CountingPCs
  <2>2. (k = 1 => V = U \cup {h}) /\ (k = 0 => V = U) /\ k \in {0, 1}
    <3>1. /\ V = IF Inserted(new) /\ new.driver = d /\ Scores(new.form, c) # {}
                 THEN U \cup {h} ELSE U \ {h}
      BY <1>6, UncountedAfter
    <3>2. Inserted(new) /\ new.driver = dr /\ new.form = fm
      BY <1>3 DEF Inserted
    <3> HIDE DEF U, V
    <3> QED
      BY <2>1, <3>1, <3>2
  <2>3. Cardinality(U) \in Nat /\ Cardinality(V) = Cardinality(U) + k
    BY <2>1, <2>2, Uncounting
  <2>4. \A g \in Handlers \ {h} :
          Cardinality(U \ {g}) \in Nat /\ Cardinality(V \ {g}) = Cardinality(U \ {g}) + k
    <3> TAKE g \in Handlers \ {h}
    <3>1. /\ U \ {g} \subseteq Handlers /\ h \notin U \ {g}
          /\ k = 1 => V \ {g} = (U \ {g}) \cup {h}
          /\ k = 0 => V \ {g} = U \ {g}
      BY <2>1, <2>2
    <3>2. /\ Cardinality(U \ {g}) \in Nat
          /\ Cardinality((U \ {g}) \cup {h}) = Cardinality(U \ {g}) + 1
      BY <3>1, Uncounting
    <3> HIDE DEF U, V, k
    <3>3. CASE k = 1
      BY <3>1, <3>2, <3>3
    <3>4. CASE k = 0
      BY <3>1, <3>2, <3>4
    <3> QED
      BY <2>2, <3>3, <3>4
  <2>5. n \in Nat /\ given'[d][c].count \in Nat /\ given'[d][c].count >= n + k
    BY <1>4, <1>7, <1>9, NumbersTyped DEF DataSound
  <2>6. /\ ratings[d] # None => ratings[d][c].totalFeedbacks \in Nat
        /\ \A g \in Handlers : job[g].read # None => job[g].read[c].totalFeedbacks \in Nat
    BY NumbersTyped DEF DataSound
  <2> HIDE DEF U, V, n, k
  <2>7. k \in Nat
    BY DEF k
  <2>8. Cardinality(V) <= given'[d][c].count
    BY <2>3, <2>5, <2>7 DEF DataSound, RoomToCount, RoomToCountIn, RowsFor, U, n
  <2>9. ratings'[d] # None =>
          ratings'[d][c].totalFeedbacks - 1 + Cardinality(V) <= given'[d][c].count
    BY <1>1, <2>3, <2>5, <2>6, <2>7 DEF DataSound, RoomToCount, RoomToCountIn, RowsFor, U, n
  <2>10. ASSUME NEW g \in Handlers,
                job'[g].pc \in CountingPCs, job'[g].driver = d, job'[g].read # None
         PROVE  job'[g].read[c].totalFeedbacks - 1 + Cardinality(V \ {g}) <= given'[d][c].count
    <3>1. g \in Handlers \ {h} /\ job'[g] = job[g]
      BY <1>3, <1>6, <2>10 DEF CountingPCs
    <3> DEFINE t == job[g].read[c].totalFeedbacks
    <3>2. t \in Nat
      BY <2>6, <2>10, <3>1
    <3>3. t - 1 + Cardinality(U \ {g}) <= n
      BY <2>10, <3>1 DEF DataSound, RoomToCount, RoomToCountIn, RowsFor, U, n
    <3> HIDE DEF t
    <3>4. t - 1 + Cardinality(V \ {g}) <= given'[d][c].count
      BY <2>4, <2>5, <2>7, <3>1, <3>2, <3>3
    <3> QED
      BY <3>1, <3>4 DEF t
  <2> QED
    BY <2>8, <2>9, <2>10 DEF RoomToCountIn, RowsFor, V
<1> QED
  BY <1>10, <1>11, <1>12, <1>13 DEF DataSound, RoomToCount
\* What is read is what the ratings are with the form counted in.
LEMMA FindSound ==
  ASSUME IsFiniteSet(Handlers), DataSound, NEW h \in Handlers, Find(h)
  PROVE  DataSound'
<1> DEFINE dr == job[h].driver
           fm == job[h].form
           read == IF ratings[dr] = None THEN None
                   ELSE [c \in Categories |-> Counted(ratings[dr][c], fm, c)]
           new == Job("reload", dr, fm, read, {})
<1>1. /\ job[h].pc = "find" /\ job' = [job EXCEPT ![h] = new]
      /\ UNCHANGED <<registered, ratings, given>>
  BY DEF Find
<1>2. fm \in Forms /\ dr \in Drivers /\ dr \in registered
  BY <1>1 DEF DataSound, DataTypeOK, JobsWhole, FeedbackPCs
<1>3. ASSUME ratings[dr] # None
      PROVE  /\ read \in [Categories -> Tally]
             /\ \A c \in Categories :
                  /\ ratings[dr][c] \in Tally
                  /\ read[c] = Counted(ratings[dr][c], fm, c)
  <2>1. \A c \in Categories :
          ratings[dr][c] \in Tally /\ Counted(ratings[dr][c], fm, c) \in Tally
    BY <1>2, <1>3, NumbersTyped, CountedFacts DEF DataSound
  <2> QED
    BY <1>3, <2>1
<1>4. read \in [Categories -> Tally] \cup {None} /\ (read # None => ratings[dr] # None)
  BY <1>3
<1> HIDE DEF read, dr, fm
<1>5. /\ new \in JobType /\ new.pc = "reload" /\ new.driver = dr
      /\ new.form = fm /\ new.read = read /\ new.changed = {}
  <2>1. /\ "reload" \in {"idle"} \cup FeedbackPCs \cup MePCs
        /\ {} \in SUBSET (Categories \X Columns)
        /\ dr \in Drivers \cup {None} /\ fm \in Forms \cup {<<>>}
    BY <1>2 DEF FeedbackPCs
  <2> QED
    BY <1>4, <2>1 DEF Job, JobType
<1> HIDE DEF new
<1>6. /\ job'[h] = new /\ (\A g \in Handlers \ {h} : job'[g] = job[g])
      /\ job' \in [Handlers -> JobType]
  BY <1>1, <1>5 DEF DataSound, DataTypeOK
<1>7. DataTypeOK'
  BY <1>1, <1>6 DEF DataSound, DataTypeOK
<1>8. JobsWhole'
  BY <1>1, <1>2, <1>4, <1>5, <1>6, NoneIsNoDriver DEF DataSound, JobsWhole
<1>9. RatedOnce'
  BY <1>1, <1>5, <1>6 DEF DataSound, RatedOnce
<1>10. ASSUME NEW d \in Drivers, NEW c \in Categories
       PROVE  RoomToCountIn(d, c)'
  <2> DEFINE U == Uncounted(d, c)
             n == given[d][c].count
  <2>1. U \subseteq Handlers
    BY DEF Uncounted
  <2>2. Uncounted(d, c)' = U
    <3>1. Inserted(new) /\ Inserted(job[h]) /\ new.driver = job[h].driver /\ new.form = job[h].form
      BY <1>1, <1>5 DEF Inserted, CountingPCs, dr, fm
    <3>2. U = IF Inserted(new) /\ new.driver = d /\ Scores(new.form, c) # {}
              THEN U \cup {h} ELSE U \ {h}
      BY <3>1, <1>6, UncountedAfter
    <3>3. Uncounted(d, c)' = IF Inserted(new) /\ new.driver = d /\ Scores(new.form, c) # {}
                             THEN U \cup {h} ELSE U \ {h}
      BY <1>6, UncountedAfter
    <3> QED
      BY <3>2, <3>3
  <2>3. RoomToCountIn(d, c) /\ n \in Nat
    BY NumbersTyped DEF DataSound, RoomToCount
  <2>4. ASSUME d = dr, read # None
        PROVE  read[c].totalFeedbacks - 1 + Cardinality(U \ {h}) <= n
    <3> DEFINE t == ratings[d][c]
    <3>1. t \in Tally /\ t.totalFeedbacks \in Nat /\ read[c] = Counted(t, fm, c)
      BY <1>3, <1>4, <2>4, NumbersTyped DEF DataSound
    <3>2. t.totalFeedbacks - 1 + Cardinality(U) <= n
      BY <1>4, <2>3, <2>4 DEF RoomToCountIn, RowsFor
    <3>3. h \in U <=> Scores(fm, c) # {}
      BY <1>1, <2>4 DEF Uncounted, dr, fm
    <3> HIDE DEF t, U, n
    <3>4. CASE Scores(fm, c) = {}
      <4>1. U \ {h} = U /\ read[c] = t
        BY <1>2, <3>1, <3>3, <3>4, CountedFacts
      <4> QED
        BY <3>2, <4>1
    <3>5. CASE Scores(fm, c) # {}
      <4>1. read[c].totalFeedbacks = t.totalFeedbacks + 1
        BY <1>2, <3>1, <3>5, CountedFacts
      <4>2. Cardinality(U \ {h}) = Cardinality(U) - 1 /\ Cardinality(U) \in Nat
        BY <2>1, <3>3, <3>5, Uncounting
      <4> QED
        BY <2>3, <3>1, <3>2, <4>1, <4>2
    <3> QED
      BY <3>4, <3>5
  <2>5. ASSUME NEW g \in Handlers,
               job'[g].pc \in CountingPCs, job'[g].driver = d, job'[g].read # None
        PROVE  job'[g].read[c].totalFeedbacks - 1 + Cardinality(U \ {g}) <= n
    <3>1. CASE g = h
      BY <1>5, <1>6, <2>4, <2>5, <3>1
    <3>2. CASE g # h
      BY <1>6, <2>3, <2>5, <3>2 DEF RoomToCountIn, RowsFor
    <3> QED
      BY <3>1, <3>2
  <2> HIDE DEF U, n
  <2>6. n = given'[d][c].count
    BY <1>1 DEF n
  <2>7. Cardinality(U) <= n
    BY <2>3 DEF RoomToCountIn, RowsFor, U, n
  <2>8. ratings'[d] # None => ratings'[d][c].totalFeedbacks - 1 + Cardinality(U) <= n
    BY <1>1, <2>3 DEF RoomToCountIn, RowsFor, U, n
  <2> QED
    BY <2>2, <2>5, <2>6, <2>7, <2>8 DEF RoomToCountIn, RowsFor
<1> QED
  BY <1>7, <1>8, <1>9, <1>10 DEF DataSound, RoomToCount

\* What save() leaves in the ratings: of each column what was read or what was there.
LEMMA Written ==
  ASSUME DataSound, NEW h \in Handlers, job[h].pc = "commit", Write(job[h])
  PROVE  /\ ratings' \in [Drivers -> [Categories -> Tally] \cup {None}]
         /\ \A d \in Drivers : /\ ratings'[d] = None <=> ratings[d] = None
                               /\ d # job[h].driver => ratings'[d] = ratings[d]
         /\ job[h].changed = {} => ratings' = ratings
         /\ job[h].changed # {} =>
              /\ job[h].read # None /\ ratings[job[h].driver] # None
              /\ \A c \in Categories, k \in Columns :
                   ratings'[job[h].driver][c][k] =
                     IF <<c, k>> \in job[h].changed THEN job[h].read[c][k]
                     ELSE ratings[job[h].driver][c][k]
<1> DEFINE dr == job[h].driver
           read == job[h].read
           changed == job[h].changed
           saved == [c \in Categories |-> [k \in Columns |->
                       IF <<c, k>> \in changed THEN read[c][k] ELSE ratings[dr][c][k]]]
<1>1. CASE changed = {}
  BY <1>1 DEF Write, DataSound, DataTypeOK
<1>2. CASE changed # {}
  <2>1. read # None /\ ratings[dr] # None /\ dr \in Drivers
    BY <1>2 DEF DataSound, JobsWhole, CountingPCs, FeedbackPCs, DataTypeOK
  <2>2. /\ read \in [Categories -> Tally] /\ ratings[dr] \in [Categories -> Tally]
    BY <2>1 DEF DataSound, DataTypeOK, JobType
  <2>3. saved \in [Categories -> Tally]
    <3>1. ASSUME NEW c \in Categories
          PROVE  [k \in Columns |-> IF <<c, k>> \in changed THEN read[c][k]
                                    ELSE ratings[dr][c][k]] \in Tally
      <4>1. read[c] \in Tally /\ ratings[dr][c] \in Tally
        BY <2>2
      <4> QED
        BY <4>1 DEF Tally, Columns
    <3> QED
      BY <3>1
  <2>4. ratings \in [Drivers -> [Categories -> Tally] \cup {None}]
    BY DEF DataSound, DataTypeOK
  <2>5. ratings' = [ratings EXCEPT ![dr] = saved]
    BY <1>2 DEF Write
  <2>6. \A c \in Categories, k \in Columns :
          saved[c][k] = IF <<c, k>> \in changed THEN read[c][k] ELSE ratings[dr][c][k]
    OBVIOUS
  <2> HIDE DEF saved
  <2>7. saved # None
    BY <2>3, NoneIsNoTally
  <2> QED
    BY <1>2, <2>1, <2>3, <2>4, <2>5, <2>6, <2>7
<1> QED
  BY <1>1, <1>2
\* What save() writes leaves the room that its request kept.
LEMMA CommitSound ==
  ASSUME IsFiniteSet(Handlers), DataSound, NEW h \in Handlers, Commit(h)
  PROVE  DataSound'
<1>1. /\ job[h].pc = "commit" /\ Write(job[h]) /\ job' = [job EXCEPT ![h] = Idle]
      /\ UNCHANGED <<registered, given>>
  BY DEF Commit, Return
<1>2. /\ job'[h] = Idle /\ (\A g \in Handlers \ {h} : job'[g] = job[g])
      /\ job' \in [Handlers -> JobType]
  BY <1>1, JobsTyped DEF DataSound, DataTypeOK
<1>3. /\ ratings' \in [Drivers -> [Categories -> Tally] \cup {None}]
      /\ \A d \in Drivers : ratings'[d] = None <=> ratings[d] = None
  BY <1>1, Written
<1>4. DataTypeOK'
  BY <1>1, <1>2, <1>3 DEF DataSound, DataTypeOK
<1>5. JobsWhole'
  <2>1. \A g \in Handlers : job[g].pc # "idle" => job[g].driver \in Drivers
    BY DEF DataSound, JobsWhole, DataTypeOK, JobType
  <2> QED
    BY <1>1, <1>2, <1>3, <2>1, IdleFields DEF DataSound, JobsWhole, Inserted, CountingPCs
<1>6. RatedOnce'
  <2>1. \A g \in Handlers : job[g].pc = "me_rate" => job[g].driver \in Drivers
    BY DEF DataSound, JobsWhole, DataTypeOK, JobType
  <2> QED
    BY <1>1, <1>2, <1>3, <2>1, IdleFields, JobsTyped DEF DataSound, RatedOnce
<1>7. ASSUME NEW d \in Drivers, NEW c \in Categories
      PROVE  RoomToCountIn(d, c)'
  <2> DEFINE U == Uncounted(d, c)
             n == given[d][c].count
  <2>1. Uncounted(d, c)' = U \ {h} /\ U \subseteq Handlers
    BY <1>2, UncountedAfter, IdleFields
  <2>2. /\ Cardinality(U) \in Nat /\ Cardinality(U \ {h}) \in Nat
        /\ Cardinality(U \ {h}) <= Cardinality(U)
    BY <2>1, Uncounting
  <2>3. RoomToCountIn(d, c) /\ n \in Nat
    BY NumbersTyped DEF DataSound, RoomToCount
  <2>4. ratings'[d] # None => ratings'[d][c].totalFeedbacks - 1 + Cardinality(U \ {h}) <= n
    <3>1. SUFFICES ASSUME ratings'[d] # None
                   PROVE  ratings'[d][c].totalFeedbacks - 1 + Cardinality(U \ {h}) <= n
      OBVIOUS
    <3>2. /\ ratings[d] # None /\ ratings[d][c].totalFeedbacks \in Nat
          /\ ratings[d][c].totalFeedbacks - 1 + Cardinality(U) <= n
      BY <1>3, <2>3, <3>1, NumbersTyped DEF DataSound, RoomToCountIn, RowsFor
    <3>3. ratings[d][c].totalFeedbacks - 1 + Cardinality(U \ {h}) <= n
      <4> DEFINE t == ratings[d][c].totalFeedbacks
      <4> HIDE DEF t, U, n
      <4> QED
        BY <2>2, <2>3, <3>2 DEF t
    <3>4. CASE d = job[h].driver /\ job[h].changed # {}
      <4>1. /\ job[h].read # None
            /\ ratings'[d][c]["totalFeedbacks"] =
                 IF <<c, "totalFeedbacks">> \in job[h].changed
                 THEN job[h].read[c]["totalFeedbacks"] ELSE ratings[d][c]["totalFeedbacks"]
        BY <1>1, <3>4, Written DEF Columns
      <4>2. job[h].read[c].totalFeedbacks - 1 + Cardinality(U \ {h}) <= n
        BY <1>1, <2>3, <3>4, <4>1 DEF RoomToCountIn, RowsFor, CountingPCs
      <4> HIDE DEF U, n
      <4> QED
        BY <3>3, <4>1, <4>2
    <3>5. CASE ~(d = job[h].driver /\ job[h].changed # {})
      <4>1. ratings'[d] = ratings[d]
        BY <1>1, <3>5, Written
      <4> QED
        BY <3>3, <4>1
    <3> QED
      BY <3>4, <3>5
  <2>5. \A g \in Handlers : Inserted(job'[g]) => job'[g] = job[g]
    BY <1>2, IdleFields
  <2>6. \A g \in Handlers :
          job'[g].pc \in CountingPCs /\ job'[g].driver = d /\ job'[g].read # None =>
            /\ job[g].pc \in CountingPCs /\ job[g].driver = d
            /\ job[g].read # None /\ job'[g].read = job[g].read
    BY <2>5 DEF Inserted
  <2>7. \/ ratings' = ratings
        \/ ratings'[d] # None =>
             ratings'[d][c].totalFeedbacks - 1 + Cardinality(Uncounted(d, c)') <= given[d][c].count
    BY <2>1, <2>4
  <2>8. Uncounted(d, c)' \subseteq Uncounted(d, c)
    BY <2>1
  <2> QED
    BY <1>1, <2>3, <2>6, <2>7, <2>8, RoomKept DEF DataSound
<1> QED
  BY <1>4, <1>5, <1>6, <1>7 DEF DataSound, RoomToCount

\* The ratings begin as those of one feedback, which nobody gave.
LEMMA MeRateSound ==
  ASSUME IsFiniteSet(Handlers), DataSound, NEW h \in Handlers, MeRate(h)
  PROVE  DataSound'
<1> DEFINE dr == job[h].driver
           first == [c \in Categories |-> [rating |-> 5, totalFeedbacks |-> 1]]
<1>1. /\ job[h].pc = "me_rate" /\ ratings' = [ratings EXCEPT ![dr] = first]
      /\ job' = [job EXCEPT ![h] = Idle] /\ UNCHANGED <<registered, given>>
  BY DEF MeRate, Return
<1>2. /\ job'[h] = Idle /\ (\A g \in Handlers \ {h} : job'[g] = job[g])
      /\ job' \in [Handlers -> JobType]
  BY <1>1, JobsTyped DEF DataSound, DataTypeOK
<1>3. first \in [Categories -> Tally] /\ \A c \in Categories : first[c].totalFeedbacks = 1
  BY DEF Tally
<1> HIDE DEF first
<1>4. /\ dr \in Drivers /\ dr \in registered /\ ratings[dr] = None
      /\ \A g \in Handlers \ {h} : job[g].pc = "me_rate" => job[g].driver # dr
  BY <1>1 DEF DataSound, DataTypeOK, RatedOnce
<1>5. /\ ratings' \in [Drivers -> [Categories -> Tally] \cup {None}]
      /\ ratings'[dr] = first /\ first # None
      /\ \A d \in Drivers \ {dr} : ratings'[d] = ratings[d]
  BY <1>1, <1>3, <1>4, NoneIsNoTally DEF DataSound, DataTypeOK
<1>6. DataTypeOK'
  BY <1>1, <1>2, <1>5 DEF DataSound, DataTypeOK
<1>7. \A g \in Handlers : job[g].pc # "idle" => job[g].driver \in Drivers
  BY DEF DataSound, JobsWhole, DataTypeOK, JobType
<1> HIDE DEF dr
<1>8. JobsWhole'
  BY <1>1, <1>2, <1>5, <1>7, IdleFields DEF DataSound, JobsWhole, Inserted, CountingPCs
<1>9. RatedOnce'
  BY <1>1, <1>2, <1>4, <1>5, <1>7, IdleFields, JobsTyped DEF DataSound, RatedOnce
<1>10. ASSUME NEW d \in Drivers, NEW c \in Categories
       PROVE  RoomToCountIn(d, c)'
  <2>1. Uncounted(d, c)' = Uncounted(d, c) \ {h} /\ Uncounted(d, c) \subseteq Handlers
    BY <1>2, UncountedAfter, IdleFields
  <2>2. h \notin Uncounted(d, c)
    BY <1>1 DEF Uncounted, CountingPCs
  <2>3. Uncounted(d, c)' = Uncounted(d, c)
    BY <2>1, <2>2
  <2>4. RoomToCountIn(d, c)
    BY DEF DataSound, RoomToCount
  <2>5. /\ Cardinality(Uncounted(d, c)) \in Nat
        /\ Cardinality(Uncounted(d, c)) <= given[d][c].count
    BY <2>1, <2>4, Uncounting DEF RoomToCountIn, RowsFor
  <2>6. ratings'[d] # None =>
          ratings'[d][c].totalFeedbacks - 1 + Cardinality(Uncounted(d, c)') <= given[d][c].count
    <3>1. CASE d = dr
      <4>1. ratings'[d][c].totalFeedbacks = 1
        BY <1>3, <1>5, <3>1
      <4> QED
        BY <2>3, <2>5, <4>1
    <3>2. CASE d # dr
      BY <1>5, <2>3, <2>4, <3>2 DEF RoomToCountIn, RowsFor
    <3> QED
      BY <3>1, <3>2
  <2>7. \A g \in Handlers : Inserted(job'[g]) => job'[g] = job[g]
    BY <1>2, IdleFields
  <2>8. \A g \in Handlers :
          job'[g].pc \in CountingPCs /\ job'[g].driver = d /\ job'[g].read # None =>
            /\ job[g].pc \in CountingPCs /\ job[g].driver = d
            /\ job[g].read # None /\ job'[g].read = job[g].read
    BY <2>7 DEF Inserted
  <2> QED
    BY <1>1, <2>3, <2>4, <2>6, <2>8, RoomKept DEF DataSound
<1> QED
  BY <1>6, <1>8, <1>9, <1>10 DEF DataSound, RoomToCount
\* The steps of createFeedback that neither insert nor count.
LEMMA FeedbackQuiet ==
  ASSUME IsFiniteSet(Handlers), DataSound, NEW h \in Handlers,
         \/ \E d \in Drivers, form \in Forms : Give(h, d, form)
         \/ Begin(h)
         \/ Reload(h)
         \/ Update(h)
  PROVE  DataSound'
<1>1. CASE \E d \in Drivers, form \in Forms : Give(h, d, form)
  <2>1. PICK d \in Drivers, form \in Forms : Give(h, d, form)
    BY <1>1
  <2> DEFINE new == Job("connect", d, form, None, {})
  <2>2. /\ new \in JobType /\ new.pc = "connect" /\ new.driver = d
        /\ new.form = form /\ new.read = None /\ new.changed = {}
    BY DEF Job, JobType, FeedbackPCs
  <2> HIDE DEF new
  <2>3. /\ job' = [job EXCEPT ![h] = new] /\ d \in registered
        /\ UNCHANGED <<registered, ratings, given>>
    BY <2>1 DEF Give, new
  <2>4. ~Inserted(new) /\ d # None
    BY <2>2, NoneIsNoDriver DEF Inserted, CountingPCs
  <2>5. registered \subseteq Drivers
    BY DEF DataSound, DataTypeOK
  <2> QED
    BY <2>2, <2>3, <2>4, <2>5, QuietMove DEF Inserted
<1>2. CASE Begin(h) \/ Update(h)
  <2>1. PICK pc \in {"insert", "commit"} :
          /\ job' = [job EXCEPT ![h] = [job[h] EXCEPT !.pc = pc]]
          /\ job[h].pc = IF pc = "insert" THEN "connect" ELSE "update"
          /\ UNCHANGED <<registered, ratings, given>>
    BY <1>2 DEF Begin, Update, Goto
  <2> DEFINE new == [job[h] EXCEPT !.pc = pc]
  <2>2. job[h] \in JobType
    BY DEF DataSound, DataTypeOK
  <2>3. /\ new \in JobType /\ new.pc = pc /\ new.driver = job[h].driver
        /\ new.form = job[h].form /\ new.read = job[h].read /\ new.changed = job[h].changed
    BY <2>2 DEF JobType, FeedbackPCs
  <2> HIDE DEF new
  <2>4. job' = [job EXCEPT ![h] = new]
    BY <2>1 DEF new
  <2>5. /\ job[h].driver # None
        /\ job[h].form \in Forms /\ job[h].driver \in registered
        /\ job[h].changed # {} => job[h].pc \in CountingPCs /\ job[h].read # None
    BY <2>1 DEF DataSound, JobsWhole, FeedbackPCs
  <2>6. /\ Inserted(new) => Inserted(job[h])
        /\ new.pc \in CountingPCs => job[h].pc \in CountingPCs
        /\ job[h].pc \in CountingPCs => new.pc \in CountingPCs
    BY <2>1, <2>3 DEF Inserted, CountingPCs
  <2>7. registered \subseteq Drivers
    BY DEF DataSound, DataTypeOK
  <2>8. /\ new.pc # "idle" /\ new.pc # "me_rate"
        /\ new.driver # None /\ new.form \in Forms /\ new.driver \in registered'
        /\ UNCHANGED <<given, ratings>> /\ registered' = registered
    BY <2>1, <2>3, <2>5
  <2>9. new.changed # {} => new.pc \in CountingPCs /\ new.read # None
    BY <2>3, <2>5, <2>6
  <2> QED
    BY <2>3, <2>4, <2>6, <2>7, <2>8, <2>9, QuietMove
<1>3. CASE Reload(h)
  <2> DEFINE changed == IF job[h].read = None THEN {}
               ELSE {cell \in Categories \X Columns :
                       job[h].read[cell[1]][cell[2]] # ratings[job[h].driver][cell[1]][cell[2]]}
  <2>1. /\ job[h].pc = "reload" /\ UNCHANGED <<registered, ratings, given>>
        /\ job' = [job EXCEPT ![h] =
                     Job("update", job[h].driver, job[h].form, job[h].read, changed)]
    BY <1>3 DEF Reload
  <2>2. changed \in SUBSET (Categories \X Columns) /\ (changed # {} => job[h].read # None)
    OBVIOUS
  <2> HIDE DEF changed
  <2> DEFINE new == Job("update", job[h].driver, job[h].form, job[h].read, changed)
  <2>3. job[h] \in JobType
    BY DEF DataSound, DataTypeOK
  <2>4. /\ new \in JobType /\ new.pc = "update" /\ new.driver = job[h].driver
        /\ new.form = job[h].form /\ new.read = job[h].read /\ new.changed = changed
    BY <2>2, <2>3 DEF Job, JobType, FeedbackPCs
  <2> HIDE DEF new
  <2>5. job' = [job EXCEPT ![h] = new]
    BY <2>1 DEF new
  <2>6. /\ job[h].driver # None
        /\ job[h].form \in Forms /\ job[h].driver \in registered
    BY <2>1 DEF DataSound, JobsWhole, FeedbackPCs
  <2>7. Inserted(job[h]) /\ job[h].pc \in CountingPCs /\ new.pc \in CountingPCs
    BY <2>1, <2>4 DEF Inserted, CountingPCs
  <2>8. registered \subseteq Drivers
    BY DEF DataSound, DataTypeOK
  <2> QED
    BY <2>1, <2>2, <2>4, <2>5, <2>6, <2>7, <2>8, QuietMove
<1> QED
  BY <1>1, <1>2, <1>3

\* The steps of drivers/me before the ratings, and a request that fails.
LEMMA OtherQuiet ==
  ASSUME IsFiniteSet(Handlers), DataSound, NEW h \in Handlers,
         Fail(h) \/ MeInsert(h) \/ \E d \in Drivers : MeFind(h, d)
  PROVE  DataSound'
<1>1. registered \subseteq Drivers /\ job[h] \in JobType
  BY DEF DataSound, DataTypeOK
<1>2. CASE job' = [job EXCEPT ![h] = Idle] /\ UNCHANGED <<ratings, given>>
           /\ registered \subseteq registered' /\ registered' \subseteq Drivers
  BY <1>2, IdleFields, JobsTyped, QuietMove DEF Inserted, MePCs
<1>3. CASE \E d \in Drivers : MeFind(h, d)
  <2>1. PICK d \in Drivers : MeFind(h, d)
    BY <1>3
  <2> DEFINE new == Job("me_insert", d, <<>>, None, {})
  <2>2. /\ new \in JobType /\ new.pc = "me_insert" /\ new.driver = d
        /\ new.read = None /\ new.changed = {}
    BY DEF Job, JobType, MePCs
  <2> HIDE DEF new
  <2>3. job' = [job EXCEPT ![h] = new] /\ UNCHANGED <<registered, ratings, given>>
    BY <2>1 DEF MeFind, new
  <2>4. d # None /\ ~Inserted(new) /\ new.pc \notin FeedbackPCs
    BY <2>2, NoneIsNoDriver DEF Inserted, CountingPCs, FeedbackPCs
  <2> QED
    BY <1>1, <2>2, <2>3, <2>4, QuietMove
<1>4. CASE MeInsert(h) /\ job[h].driver \notin registered
  <2> DEFINE new == [job[h] EXCEPT !.pc = "me_rate"]
  <2>1. /\ new \in JobType /\ new.pc = "me_rate" /\ new.driver = job[h].driver
        /\ new.changed = job[h].changed
    BY <1>1 DEF JobType, MePCs
  <2> HIDE DEF new
  <2>2. /\ job[h].pc = "me_insert" /\ job' = [job EXCEPT ![h] = new]
        /\ registered' = registered \cup {job[h].driver} /\ UNCHANGED <<ratings, given>>
    BY <1>4 DEF MeInsert, Goto, new
  <2>3. job[h].driver \in Drivers /\ job[h].changed = {}
    BY <1>1, <2>2 DEF DataSound, JobsWhole, JobType, CountingPCs
  <2>4. ~Inserted(new) /\ new.pc \notin FeedbackPCs /\ job[h].driver # None
    BY <2>1, <2>3, NoneIsNoDriver DEF Inserted, CountingPCs, FeedbackPCs
  <2>5. registered \subseteq registered' /\ registered' \subseteq Drivers
        /\ new.driver \in registered' \ registered
    BY <1>1, <1>4, <2>1, <2>2, <2>3
  <2> QED
    BY <2>1, <2>2, <2>3, <2>4, <2>5, QuietMove DEF Inserted
<1>5. CASE MeInsert(h) /\ job[h].driver \in registered
  BY <1>1, <1>2, <1>5 DEF MeInsert, Return
<1>6. CASE Fail(h)
  BY <1>1, <1>2, <1>6 DEF Fail, Return
<1> QED
  BY <1>3, <1>4, <1>5, <1>6

\* The requests are gone, and with them what was uncounted.
LEMMA CrashSound ==
  ASSUME IsFiniteSet(Handlers), DataSound, job' = [h \in Handlers |-> Idle],
         UNCHANGED <<registered, ratings, given>>
  PROVE  DataSound'
<1>1. DataTypeOK'
  BY JobsTyped DEF DataSound, DataTypeOK
<1>2. JobsWhole'
  BY IdleFields DEF JobsWhole, Inserted, CountingPCs
<1>3. RatedOnce'
  BY IdleFields, JobsTyped DEF DataSound, RatedOnce
<1>4. ASSUME NEW d \in Drivers, NEW c \in Categories
      PROVE  RoomToCountIn(d, c)'
  <2>1. Uncounted(d, c)' = {}
    BY IdleFields DEF Uncounted, Inserted
  <2>2. \A h \in Handlers : job'[h].pc \notin CountingPCs
    BY IdleFields DEF Inserted
  <2> QED
    BY <2>1, <2>2, RoomKept DEF DataSound, RoomToCount
<1> QED
  BY <1>1, <1>2, <1>3, <1>4 DEF DataSound, RoomToCount

\* Every step keeps the tables and the requests sound.
LEMMA DataStep ==
  ASSUME IsFiniteSet(Handlers), DataSound, [Next]_vars
  PROVE  DataSound'
<1>1. CASE UNCHANGED <<registered, ratings, given, job>>
  BY <1>1
  DEF DataSound, DataTypeOK, JobsWhole, RatedOnce, RoomToCount, RoomToCountIn, RowsFor, Uncounted
<1>2. CASE \E h \in Handlers : Continue(h)
  BY <1>2, InsertRowsSound, FindSound, CommitSound, MeRateSound, FeedbackQuiet, OtherQuiet
  DEF Continue
<1>3. CASE \E h \in Handlers : \/ Fail(h)
                              \/ \E d \in Drivers : MeFind(h, d) \/ \E form \in Forms : Give(h, d, form)
  BY <1>3, FeedbackQuiet, OtherQuiet
<1>4. CASE Crash
  BY <1>4, CrashSound DEF Crash
<1>5. CASE GrantOne \/ UNCHANGED vars
  BY <1>1, <1>5 DEF GrantOne, vars
<1> QED
  BY <1>2, <1>3, <1>4, <1>5 DEF Next

\* The first states.
LEMMA DataInit ==
  ASSUME IsFiniteSet(Handlers), Init
  PROVE  DataSound
<1>1. DataTypeOK
  <2>1. \A c \in Categories : [count |-> 0, sum |-> 0] \in [count: Nat, sum: Int]
    OBVIOUS
  <2> QED
    BY <2>1, JobsTyped DEF Init, DataTypeOK
<1>2. JobsWhole /\ RatedOnce
  BY IdleFields, JobsTyped DEF Init, JobsWhole, RatedOnce, Inserted, CountingPCs
<1>3. ASSUME NEW d \in Drivers, NEW c \in Categories
      PROVE  RoomToCountIn(d, c)
  <2>1. Uncounted(d, c) = {}
    BY IdleFields DEF Init, Uncounted, Inserted
  <2>2. Cardinality(Uncounted(d, c)) = 0 /\ given[d][c].count = 0
    BY <2>1, FS_EmptySet DEF Init
  <2>3. ratings[d] = None /\ \A h \in Handlers : job[h].pc \notin CountingPCs
    BY IdleFields DEF Init, Inserted
  <2> QED
    BY <2>2, <2>3 DEF RoomToCountIn, RowsFor
<1> QED
  BY <1>1, <1>2, <1>3 DEF DataSound, RoomToCount
-----------------------------------------------------------------------------
\* The bound and the history keep their types.
BoundsOK == left \in 0..MaxForms /\ clean \subseteq Drivers

\* Each step takes one of the feedbacks to come at most, and forgets clean drivers.
LEMMA BoundsStep ==
  ASSUME BoundsOK, [Next]_vars
  PROVE  BoundsOK'
<1>1. CASE UNCHANGED <<left, clean>>
  BY <1>1 DEF BoundsOK
<1>2. CASE \E h \in Handlers, d \in Drivers, form \in Forms : Give(h, d, form)
  BY <1>2, MaxFormsIsNat DEF Give, BoundsOK
<1>3. CASE Crash \/ \E h \in Handlers : Fail(h)
  BY <1>3 DEF Crash, Fail, BoundsOK
<1> QED
  BY <1>1, <1>2, <1>3
  DEF Next, Continue, Begin, InsertRows, Find, Reload, Update, Commit, MeInsert, MeRate,
      MeFind, GrantOne, vars

\* The invariant of the counts, for any number of drivers, requests and connections.
THEOREM CountsSoundHolds ==
  ASSUME IsFiniteSet(Handlers)
  PROVE  Spec => []CountsSound
<1>1. Init => DataSound /\ BoundsOK
  BY DataInit, MaxFormsIsNat DEF Init, BoundsOK
<1>2. DataSound /\ BoundsOK /\ [Next]_vars => (DataSound /\ BoundsOK)'
  BY DataStep, BoundsStep
<1>3. FeedbackSound /\ DataSound /\ BoundsOK => CountsSound
  BY DEF FeedbackSound, PoolSound, DataSound, DataTypeOK, BoundsOK, CountsSound, TypeOK, JobType
<1> QED
  BY <1>1, <1>2, <1>3, FeedbackSoundHolds, PTL DEF Spec

\* TypeOK of the feedback.
THEOREM FeedbackTypeOKHolds ==
  ASSUME IsFiniteSet(Handlers)
  PROVE  Spec => []TypeOK
<1>1. CountsSound => TypeOK
  BY DEF CountsSound
<1> QED
  BY <1>1, CountsSoundHolds, PTL

\* No rating counts a feedback that is not in the table.
THEOREM CountsBackedHolds ==
  ASSUME IsFiniteSet(Handlers)
  PROVE  Spec => []CountsBacked
<1>1. CountsSound => CountsBacked
  <2> SUFFICES ASSUME CountsSound, NEW d \in Drivers, ratings[d] # None, NEW c \in Categories
               PROVE  ratings[d][c].totalFeedbacks - 1 <= given[d][c].count
    BY DEF CountsBacked
  <2>1. DataTypeOK
    BY DEF CountsSound, TypeOK, DataTypeOK, JobType
  <2>2. /\ ratings[d][c].totalFeedbacks - 1 + Cardinality(Uncounted(d, c)) <= given[d][c].count
        /\ Uncounted(d, c) \subseteq Handlers
    BY DEF CountsSound, RoomToCount, RoomToCountIn, RowsFor, Uncounted
  <2> DEFINE t == ratings[d][c].totalFeedbacks
             u == Cardinality(Uncounted(d, c))
  <2>3. u \in Nat /\ t \in Nat /\ given[d][c].count \in Nat /\ t - 1 + u <= given[d][c].count
    BY <2>1, <2>2, Uncounting, NumbersTyped
  <2> HIDE DEF t, u
  <2>4. t - 1 <= given[d][c].count
    BY <2>3
  <2> QED
    BY <2>4 DEF t
<1> QED
  BY <1>1, CountsSoundHolds, PTL
-----------------------------------------------------------------------------
(***************************************************************************)
(* The ratings of clean drivers.                                           *)
(***************************************************************************)
\* What a step leaves of a driver's tables.
TablesKept(d) == ratings'[d] = ratings[d] /\ given'[d] = given[d]

\* A step of a request that gives no feedback on the driver, before or after.
LEMMA Aside ==
  ASSUME NEW d \in Drivers, DriverSound(d), NEW h \in Handlers,
         \A g \in Handlers \ {h} : job'[g] = job[g],
         TablesKept(d), ~FeedbackOn(h, d), ~FeedbackOn(h, d)',
         job[h].pc = "me_rate" => job[h].driver # d,
         d \in registered' => \/ d \in registered
                              \/ job'[h].pc = "me_rate" /\ job'[h].driver = d
  PROVE  DriverSound(d)'
<1>1. \A g \in Handlers :
        /\ FeedbackOn(g, d)' <=> FeedbackOn(g, d)
        /\ FeedbackOn(g, d) => job'[g] = job[g]
  BY DEF FeedbackOn
<1>2. OneFeedback(d)'
  BY <1>1 DEF DriverSound, OneFeedback, TablesKept
<1>3. ratings'[d] = None => Unrated(d)'
  <2>1. SUFFICES ASSUME ratings'[d] = None
                 PROVE  Unrated(d)'
    OBVIOUS
  <2>2. Unrated(d)
    BY <2>1 DEF DriverSound, TablesKept
  <2> QED
    BY <2>2 DEF Unrated, TablesKept
<1>4. ratings'[d] # None /\ NothingInserted(d)' => Exact(d, ratings[d])'
  BY <1>1 DEF DriverSound, NothingInserted, TablesKept, Exact
<1>5. ASSUME NEW g \in Handlers, FeedbackOn(g, d)'
      PROVE  ExactInTheEnd(g, d)'
  <2>1. FeedbackOn(g, d) /\ job'[g] = job[g] /\ ExactInTheEnd(g, d)
    BY <1>1, <1>5 DEF DriverSound
  <2> QED
    BY <2>1 DEF ExactInTheEnd, Exact, TablesKept
<1> QED
  BY <1>2, <1>3, <1>4, <1>5 DEF DriverSound

\* A step of the only feedback on the driver: what is left to prove of it.
LEMMA Onward ==
  ASSUME NEW d \in Drivers, DriverSound(d), NEW h \in Handlers, FeedbackOn(h, d),
         \A g \in Handlers \ {h} : job'[g] = job[g],
         ratings'[d] = None <=> ratings[d] = None,
         FeedbackOn(h, d)' => /\ job'[h].form = job[h].form
                              /\ ExactInTheEnd(h, d)',
         \/ FeedbackOn(h, d)' /\ job'[h].pc \notin {"connect", "insert"}
         \/ Exact(d, ratings[d])'
  PROVE  DriverSound(d)'
<1>1. ratings[d] # None /\ Whole(job[h].form) /\ \A g \in Handlers \ {h} : ~FeedbackOn(g, d)
  BY DEF DriverSound, OneFeedback
<1>2. \A g \in Handlers \ {h} : ~FeedbackOn(g, d)'
  BY <1>1 DEF FeedbackOn
<1>3. OneFeedback(d)'
  BY <1>1, <1>2 DEF OneFeedback
<1>4. NothingInserted(d)' => Exact(d, ratings[d])'
  BY DEF NothingInserted
<1> QED
  BY <1>1, <1>2, <1>3, <1>4 DEF DriverSound

\* Before the rows are inserted the ratings are exact.
LEMMA ExactBefore ==
  ASSUME NEW d \in Drivers, DriverSound(d), NEW h \in Handlers, FeedbackOn(h, d),
         job[h].pc \in {"connect", "insert"}
  PROVE  Exact(d, ratings[d])
<1>1. ratings[d] # None /\ \A g \in Handlers \ {h} : ~FeedbackOn(g, d)
  BY DEF DriverSound, OneFeedback
<1>2. NothingInserted(d)
  BY <1>1 DEF NothingInserted
<1> QED
  BY <1>1, <1>2 DEF DriverSound
-----------------------------------------------------------------------------
\* A form that is counted once and inserted once keeps the balance.
LEMMA InsertedExact ==
  ASSUME DataSound, NEW d \in Drivers, NEW form \in Forms, Whole(form),
         ratings[d] # None, Exact(d, ratings[d]), AddRows(d, form), UNCHANGED ratings
  PROVE  Exact(d, [c \in Categories |-> Counted(ratings[d][c], form, c)])'
<1> SUFFICES ASSUME NEW c \in Categories
             PROVE  Counted(ratings[d][c], form, c) =
                      [rating |-> 5 + given'[d][c].sum, totalFeedbacks |-> 1 + given'[d][c].count]
  BY DEF Exact, Counted
<1> DEFINE n == Cardinality(Scores(form, c))
           s == SumFunctionOnSet(Rates(form), Scores(form, c))
           t == ratings[d][c]
<1>1. /\ t \in Tally /\ given[d][c].count \in Nat /\ given[d][c].sum \in Int
      /\ t = [rating |-> 5 + given[d][c].sum, totalFeedbacks |-> 1 + given[d][c].count]
  BY NumbersTyped DEF DataSound, Exact
<1>2. n \in Nat /\ s \in Int
  BY <1>1, CountedFacts
<1>3. Counted(t, form, c) = [rating |-> t.rating + s, totalFeedbacks |-> t.totalFeedbacks + n]
  BY <1>1, WholeIsCounted
<1>4. given'[d][c] = [count |-> given[d][c].count + n, sum |-> given[d][c].sum + s]
  BY DEF AddRows, DataSound, DataTypeOK
<1> HIDE DEF n, s, t
<1>5. given'[d][c].count = given[d][c].count + n /\ given'[d][c].sum = given[d][c].sum + s
  BY <1>4
<1>6. /\ t.rating + s = 5 + given'[d][c].sum
      /\ t.totalFeedbacks + n = 1 + given'[d][c].count
  BY <1>1, <1>2, <1>5
<1> QED
  BY <1>3, <1>6 DEF t

\* What is saved of exact tallies is exact: what is not written was right already.
LEMMA CommitExact ==
  ASSUME DataSound, NEW h \in Handlers, NEW d \in Drivers, FeedbackOn(h, d),
         job[h].pc = "commit", Write(job[h]), given' = given,
         ratings[d] # None, ExactInTheEnd(h, d)
  PROVE  Exact(d, ratings[d])'
<1>1. /\ job[h].read # None /\ Exact(d, job[h].read) /\ job[h].driver = d
      /\ \A c \in Categories, k \in Columns :
           <<c, k>> \notin job[h].changed => job[h].read[c][k] = ratings[d][c][k]
  BY DEF ExactInTheEnd, CountingPCs, FeedbackOn
<1>2. ratings'[d] \in [Categories -> Tally] /\ ratings[d] \in [Categories -> Tally]
  BY Written DEF DataSound, DataTypeOK
<1>3. job[h].read \in [Categories -> Tally]
  BY <1>1 DEF DataSound, DataTypeOK, JobType
<1>4. \A c \in Categories, k \in Columns : ratings'[d][c][k] = job[h].read[c][k]
  <2>1. CASE job[h].changed = {}
    BY <1>1, <2>1, Written
  <2>2. CASE job[h].changed # {}
    <3> TAKE c \in Categories, k \in Columns
    <3>1. ratings'[job[h].driver][c][k] =
            IF <<c, k>> \in job[h].changed THEN job[h].read[c][k]
            ELSE ratings[job[h].driver][c][k]
      BY <2>2, Written
    <3> QED
      BY <1>1, <3>1
  <2> QED
    BY <2>1, <2>2
<1>5. \A c \in Categories : ratings'[d][c] = job[h].read[c]
  <2> TAKE c \in Categories
  <2>1. ratings'[d][c] \in Tally /\ job[h].read[c] \in Tally
    BY <1>2, <1>3
  <2>2. /\ ratings'[d][c]["rating"] = job[h].read[c]["rating"]
        /\ ratings'[d][c]["totalFeedbacks"] = job[h].read[c]["totalFeedbacks"]
    BY <1>4 DEF Columns
  <2> QED
    BY <2>1, <2>2 DEF Tally
<1> QED
  BY <1>1, <1>5 DEF Exact
-----------------------------------------------------------------------------
\* Job changes for one request.
LEMMA OneJob ==
  ASSUME DataTypeOK, NEW h \in Handlers, NEW new, job' = [job EXCEPT ![h] = new]
  PROVE  job'[h] = new /\ \A g \in Handlers \ {h} : job'[g] = job[g]
  BY DEF DataTypeOK

\* A feedback begins; on the driver of another, or one that scores a category twice, it
\* leaves the driver clean no longer.
LEMMA GiveRight ==
  ASSUME DataSound, NEW d \in Drivers, DriverSound(d), d \in clean',
         NEW h \in Handlers, NEW e \in Drivers, NEW form \in Forms, Give(h, e, form)
  PROVE  DriverSound(d)'
<1> DEFINE new == Job("connect", e, form, None, {})
<1>1. /\ job[h] = Idle /\ job' = [job EXCEPT ![h] = new]
      /\ UNCHANGED <<registered, ratings, given>>
      /\ clean' = IF Busy(e) \/ ~Whole(form) \/ ratings[e] = None THEN clean \ {e} ELSE clean
  BY DEF Give
<1>2. new.pc = "connect" /\ new.driver = e /\ new.form = form
  BY DEF Job
<1> HIDE DEF new
<1>3. job'[h] = new /\ \A g \in Handlers \ {h} : job'[g] = job[g]
  BY <1>1, OneJob DEF DataSound
<1>4. CASE d # e
  <2>1. ~FeedbackOn(h, d) /\ ~FeedbackOn(h, d)' /\ job[h].pc # "me_rate"
    BY <1>1, <1>2, <1>3, <1>4, IdleFields DEF FeedbackOn, MePCs
  <2> QED
    BY <1>1, <1>3, <2>1, Aside DEF TablesKept
<1>5. CASE d = e
  <2>1. ~Busy(d) /\ Whole(form) /\ ratings[d] # None
    BY <1>1, <1>5
  <2>2. \A g \in Handlers : ~FeedbackOn(g, d)
    BY <2>1 DEF Busy, FeedbackOn
  <2>3. Exact(d, ratings[d])
    BY <2>1, <2>2 DEF DriverSound, NothingInserted
  <2>4. \A g \in Handlers : FeedbackOn(g, d)' => g = h
    BY <1>3, <2>2 DEF FeedbackOn
  <2>5. OneFeedback(d)'
    BY <1>1, <1>2, <1>3, <2>1, <2>4 DEF OneFeedback
  <2>6. ExactInTheEnd(h, d)'
    BY <1>2, <1>3 DEF ExactInTheEnd, CountingPCs
  <2>7. Exact(d, ratings[d])'
    BY <1>1, <2>3 DEF Exact
  <2> QED
    BY <1>1, <2>1, <2>4, <2>5, <2>6, <2>7 DEF DriverSound
<1> QED
  BY <1>4, <1>5

\* A request that works for another driver.
LEMMA Elsewhere ==
  ASSUME DataSound, NEW d \in Drivers, DriverSound(d), NEW h \in Handlers,
         job[h].driver # d, Continue(h) \/ Fail(h)
  PROVE  DriverSound(d)'
<1>1. /\ \A g \in Handlers \ {h} : job'[g] = job[g]
      /\ job'[h].driver = job[h].driver \/ job'[h].pc = "idle"
  <2>1. PICK new : /\ job' = [job EXCEPT ![h] = new]
                   /\ new.driver = job[h].driver \/ new.pc = "idle"
    <3>1. CASE Begin(h) \/ InsertRows(h) \/ Update(h) \/ (MeInsert(h) /\ job[h].driver \notin registered)
      <4>1. PICK pc : job' = [job EXCEPT ![h] = [job[h] EXCEPT !.pc = pc]]
        BY <3>1 DEF Begin, InsertRows, Update, MeInsert, Goto
      <4>2. job[h] \in JobType
        BY DEF DataSound, DataTypeOK
      <4>3. [job[h] EXCEPT !.pc = pc].driver = job[h].driver
        BY <4>2 DEF JobType
      <4> QED
        BY <4>1, <4>3
    <3>2. CASE Find(h) \/ Reload(h)
      <4>1. PICK pc, form, read, changed :
              job' = [job EXCEPT ![h] = Job(pc, job[h].driver, form, read, changed)]
        BY <3>2 DEF Find, Reload
      <4>2. Job(pc, job[h].driver, form, read, changed).driver = job[h].driver
        BY DEF Job
      <4> QED
        BY <4>1, <4>2
    <3>3. CASE Commit(h) \/ MeRate(h) \/ Fail(h) \/ (MeInsert(h) /\ job[h].driver \in registered)
      BY <3>3, IdleFields DEF Commit, MeRate, Fail, MeInsert, Return
    <3> QED
      BY <3>1, <3>2, <3>3 DEF Continue
  <2> QED
    BY <2>1, OneJob DEF DataSound
<1>2. TablesKept(d)
  <2>1. CASE InsertRows(h)
    BY <2>1 DEF InsertRows, AddRows, TablesKept, DataSound, DataTypeOK
  <2>2. CASE Commit(h)
    BY <2>2, Written DEF Commit, TablesKept
  <2>3. CASE MeRate(h)
    BY <2>3 DEF MeRate, TablesKept, DataSound, DataTypeOK
  <2> QED
    BY <2>1, <2>2, <2>3
    DEF Continue, Begin, Find, Reload, Update, MeInsert, Fail, TablesKept
<1>3. d \in registered' => d \in registered
  BY DEF Continue, Begin, InsertRows, Find, Reload, Update, Commit, MeInsert, MeRate, Fail
<1>4. ~FeedbackOn(h, d) /\ ~FeedbackOn(h, d)'
  BY <1>1 DEF FeedbackOn, FeedbackPCs
<1> QED
  BY <1>1, <1>2, <1>3, <1>4, Aside

\* drivers/me on a driver who is clean.
LEMMA MeRight ==
  ASSUME DataSound, NEW d \in Drivers, DriverSound(d), NEW h \in Handlers,
         \/ \E e \in Drivers : MeFind(h, e)
         \/ job[h].driver = d /\ (MeInsert(h) \/ MeRate(h))
  PROVE  DriverSound(d)'
<1>1. CASE \E e \in Drivers : MeFind(h, e)
  <2>1. PICK e \in Drivers : MeFind(h, e)
    BY <1>1
  <2> DEFINE new == Job("me_insert", e, <<>>, None, {})
  <2>2. /\ job[h] = Idle /\ job' = [job EXCEPT ![h] = new]
        /\ UNCHANGED <<registered, ratings, given>>
    BY <2>1 DEF MeFind
  <2>3. new.pc = "me_insert"
    BY DEF Job
  <2> HIDE DEF new
  <2>4. job'[h] = new /\ \A g \in Handlers \ {h} : job'[g] = job[g]
    BY <2>2, OneJob DEF DataSound
  <2>5. ~FeedbackOn(h, d) /\ ~FeedbackOn(h, d)' /\ job[h].pc # "me_rate"
    BY <2>2, <2>3, <2>4, IdleFields DEF FeedbackOn, FeedbackPCs, MePCs
  <2> QED
    BY <2>2, <2>4, <2>5, Aside DEF TablesKept
<1>2. CASE job[h].driver = d /\ MeInsert(h)
  <2>1. job[h].pc = "me_insert" /\ UNCHANGED <<ratings, given>>
    BY <1>2 DEF MeInsert
  <2>2. /\ \A g \in Handlers \ {h} : job'[g] = job[g]
        /\ \/ registered' = registered /\ job'[h].pc = "idle"
           \/ job'[h].pc = "me_rate" /\ job'[h].driver = d
    <3>1. CASE d \in registered
      <4>1. job' = [job EXCEPT ![h] = Idle] /\ registered' = registered
        BY <1>2, <3>1 DEF MeInsert, Return
      <4> QED
        BY <4>1, OneJob, IdleFields DEF DataSound
    <3>2. CASE d \notin registered
      <4>1. job' = [job EXCEPT ![h] = [job[h] EXCEPT !.pc = "me_rate"]]
        BY <1>2, <3>2 DEF MeInsert, Goto
      <4>2. job[h] \in JobType
        BY DEF DataSound, DataTypeOK
      <4>3. LET new == [job[h] EXCEPT !.pc = "me_rate"] IN new.pc = "me_rate" /\ new.driver = d
        BY <1>2, <4>2 DEF JobType
      <4> QED
        BY <4>1, <4>3, OneJob DEF DataSound
    <3> QED
      BY <3>1, <3>2
  <2>3. ~FeedbackOn(h, d) /\ ~FeedbackOn(h, d)'
    BY <2>1, <2>2 DEF FeedbackOn, FeedbackPCs
  <2> QED
    BY <2>1, <2>2, <2>3, Aside DEF TablesKept
<1>3. CASE job[h].driver = d /\ MeRate(h)
  <2> DEFINE first == [c \in Categories |-> [rating |-> 5, totalFeedbacks |-> 1]]
  <2>1. /\ job[h].pc = "me_rate" /\ ratings' = [ratings EXCEPT ![d] = first]
        /\ job' = [job EXCEPT ![h] = Idle] /\ UNCHANGED <<registered, given>>
    BY <1>3 DEF MeRate, Return
  <2>2. ratings[d] = None
    BY <1>3, <2>1 DEF DataSound, RatedOnce
  <2>3. /\ \A g \in Handlers : ~FeedbackOn(g, d)
        /\ \A c \in Categories : given[d][c] = [count |-> 0, sum |-> 0]
    BY <2>2 DEF DriverSound, OneFeedback, Unrated
  <2>4. \A c \in Categories :
          first[c] = [rating |-> 5 + given[d][c].sum, totalFeedbacks |-> 1 + given[d][c].count]
    BY <2>3
  <2>5. first \in [Categories -> Tally]
    BY DEF Tally
  <2> HIDE DEF first
  <2>6. ratings'[d] = first /\ first # None
    BY <2>1, <2>5, NoneIsNoTally DEF DataSound, DataTypeOK
  <2>7. job'[h] = Idle /\ \A g \in Handlers \ {h} : job'[g] = job[g]
    BY <2>1, OneJob DEF DataSound
  <2>8. \A g \in Handlers : ~FeedbackOn(g, d)'
    BY <2>3, <2>7, IdleFields DEF FeedbackOn
  <2>9. Exact(d, ratings[d])'
    BY <2>1, <2>4, <2>6 DEF Exact
  <2> QED
    BY <2>6, <2>8, <2>9 DEF DriverSound, OneFeedback
<1> QED
  BY <1>1, <1>2, <1>3
\* The feedback under way on a driver who is clean, step by step.
LEMMA FeedbackRight ==
  ASSUME DataSound, NEW d \in Drivers, DriverSound(d), NEW h \in Handlers,
         job[h].driver = d,
         Begin(h) \/ InsertRows(h) \/ Find(h) \/ Reload(h) \/ Update(h) \/ Commit(h)
  PROVE  DriverSound(d)'
<1>1. FeedbackOn(h, d)
  BY DEF Begin, InsertRows, Find, Reload, Update, Commit, FeedbackOn, FeedbackPCs
<1>2. /\ ratings[d] # None /\ Whole(job[h].form) /\ ExactInTheEnd(h, d)
      /\ job[h].form \in Forms /\ job[h] \in JobType
  BY <1>1 DEF DriverSound, OneFeedback, DataSound, JobsWhole, FeedbackOn, DataTypeOK
<1>3. \A new : job' = [job EXCEPT ![h] = new] =>
        job'[h] = new /\ \A g \in Handlers \ {h} : job'[g] = job[g]
  BY OneJob DEF DataSound
<1>4. \A pc : LET new == [job[h] EXCEPT !.pc = pc] IN
        /\ new.pc = pc /\ new.driver = d /\ new.form = job[h].form
        /\ new.read = job[h].read /\ new.changed = job[h].changed
  BY <1>2 DEF JobType
<1>5. CASE Begin(h)
  <2>1. /\ job' = [job EXCEPT ![h] = [job[h] EXCEPT !.pc = "insert"]]
        /\ job[h].pc = "connect" /\ UNCHANGED <<ratings, given>>
    BY <1>5 DEF Begin, Goto
  <2>2. /\ job'[h].pc = "insert" /\ job'[h].form = job[h].form
        /\ \A g \in Handlers \ {h} : job'[g] = job[g]
    BY <1>3, <1>4, <2>1
  <2>3. Exact(d, ratings[d])'
    BY <1>1, <2>1, ExactBefore DEF Exact
  <2>4. ExactInTheEnd(h, d)'
    BY <2>2 DEF ExactInTheEnd, CountingPCs
  <2> QED
    BY <1>1, <2>1, <2>2, <2>3, <2>4, Onward
<1>6. CASE InsertRows(h)
  <2>1. /\ job' = [job EXCEPT ![h] = [job[h] EXCEPT !.pc = "find"]]
        /\ job[h].pc = "insert" /\ UNCHANGED ratings /\ AddRows(d, job[h].form)
    BY <1>6 DEF InsertRows, Goto
  <2>2. /\ job'[h].pc = "find" /\ job'[h].form = job[h].form /\ job'[h].driver = d
        /\ \A g \in Handlers \ {h} : job'[g] = job[g]
    BY <1>3, <1>4, <2>1
  <2>3. PICK form \in Forms : form = job[h].form
    BY <1>2
  <2>4. Exact(d, ratings[d])
    BY <1>1, <2>1, ExactBefore
  <2>5. Exact(d, [c \in Categories |-> Counted(ratings[d][c], form, c)])'
    BY <1>2, <2>1, <2>3, <2>4, InsertedExact
  <2>6. ExactInTheEnd(h, d)'
    BY <2>2, <2>3, <2>5 DEF ExactInTheEnd, CountingPCs
  <2>7. FeedbackOn(h, d)'
    BY <2>2 DEF FeedbackOn, FeedbackPCs
  <2> QED
    BY <1>1, <2>1, <2>2, <2>6, <2>7, Onward
<1>7. CASE Find(h)
  <2> DEFINE read == [c \in Categories |-> Counted(ratings[d][c], job[h].form, c)]
             new == Job("reload", d, job[h].form, read, {})
  <2>1. /\ job' = [job EXCEPT ![h] = new] /\ job[h].pc = "find"
        /\ UNCHANGED <<ratings, given>>
    BY <1>2, <1>7 DEF Find
  <2>2. Exact(d, read)
    BY <1>2, <2>1 DEF ExactInTheEnd
  <2>3. read # None
    <3>1. \A c \in Categories : Counted(ratings[d][c], job[h].form, c) \in Tally
      BY <1>2, NumbersTyped, CountedFacts DEF DataSound
    <3> QED
      BY <3>1, NoneIsNoTally
  <2>4. new.pc = "reload" /\ new.driver = d /\ new.form = job[h].form /\ new.read = read
    BY DEF Job
  <2> HIDE DEF new
  <2>5. job'[h] = new /\ \A g \in Handlers \ {h} : job'[g] = job[g]
    BY <1>3, <2>1
  <2> HIDE DEF read
  <2>6. ExactInTheEnd(h, d)'
    BY <2>1, <2>2, <2>3, <2>4, <2>5 DEF ExactInTheEnd, Exact
  <2>7. FeedbackOn(h, d)' /\ job'[h].pc \notin {"connect", "insert"}
    BY <2>4, <2>5 DEF FeedbackOn, FeedbackPCs
  <2> QED
    BY <1>1, <2>1, <2>4, <2>5, <2>6, <2>7, Onward
<1>8. CASE Reload(h)
  <2> DEFINE read == job[h].read
             changed == {cell \in Categories \X Columns :
                           read[cell[1]][cell[2]] # ratings[d][cell[1]][cell[2]]}
             new == Job("update", d, job[h].form, read, changed)
  <2>1. job[h].pc = "reload" /\ UNCHANGED <<ratings, given>>
    BY <1>8 DEF Reload
  <2>2. read # None /\ Exact(d, read)
    BY <1>2, <2>1 DEF ExactInTheEnd, CountingPCs
  <2>3. job' = [job EXCEPT ![h] = new]
    BY <1>8, <2>2 DEF Reload
  <2>4. /\ new.pc = "update" /\ new.driver = d /\ new.form = job[h].form
        /\ new.read = read /\ new.changed = changed
    BY DEF Job
  <2> HIDE DEF new
  <2>5. job'[h] = new /\ \A g \in Handlers \ {h} : job'[g] = job[g]
    BY <1>3, <2>3
  <2>6. \A c \in Categories, k \in Columns :
          <<c, k>> \notin changed => read[c][k] = ratings[d][c][k]
    OBVIOUS
  <2> HIDE DEF changed, read
  <2>7. ExactInTheEnd(h, d)'
    BY <2>1, <2>2, <2>4, <2>5, <2>6 DEF ExactInTheEnd, Exact
  <2>8. FeedbackOn(h, d)' /\ job'[h].pc \notin {"connect", "insert"}
    BY <2>4, <2>5 DEF FeedbackOn, FeedbackPCs
  <2> QED
    BY <1>1, <2>1, <2>4, <2>5, <2>7, <2>8, Onward
<1>9. CASE Update(h)
  <2>1. /\ job' = [job EXCEPT ![h] = [job[h] EXCEPT !.pc = "commit"]]
        /\ job[h].pc = "update" /\ UNCHANGED <<ratings, given>>
    BY <1>9 DEF Update, Goto
  <2>2. /\ job'[h].pc = "commit" /\ job'[h].form = job[h].form /\ job'[h].driver = d
        /\ job'[h].read = job[h].read /\ job'[h].changed = job[h].changed
        /\ \A g \in Handlers \ {h} : job'[g] = job[g]
    BY <1>3, <1>4, <2>1
  <2>3. ExactInTheEnd(h, d)'
    BY <1>2, <2>1, <2>2 DEF ExactInTheEnd, CountingPCs, Exact
  <2>4. FeedbackOn(h, d)' /\ job'[h].pc \notin {"connect", "insert"}
    BY <2>2 DEF FeedbackOn, FeedbackPCs
  <2> QED
    BY <1>1, <2>1, <2>2, <2>3, <2>4, Onward
<1>10. CASE Commit(h)
  <2>1. /\ job' = [job EXCEPT ![h] = Idle] /\ job[h].pc = "commit"
        /\ Write(job[h]) /\ given' = given
    BY <1>10 DEF Commit, Return
  <2>2. job'[h] = Idle /\ \A g \in Handlers \ {h} : job'[g] = job[g]
    BY <1>3, <2>1
  <2>3. Exact(d, ratings[d])'
    BY <1>1, <1>2, <2>1, CommitExact
  <2>4. ~FeedbackOn(h, d)'
    BY <2>2, IdleFields DEF FeedbackOn
  <2>5. ratings'[d] = None <=> ratings[d] = None
    BY <2>1, Written
  <2> QED
    BY <1>1, <2>2, <2>3, <2>4, <2>5, Onward
<1> QED
  BY <1>5, <1>6, <1>7, <1>8, <1>9, <1>10

\* Requests that end before they have inserted, of a driver who stays clean.
LEMMA EndsRight ==
  ASSUME DataSound, NEW d \in Drivers, DriverSound(d), UNCHANGED <<registered, ratings, given>>,
         \A h \in Handlers : \/ job'[h] = job[h]
                             \/ job'[h] = Idle /\ (job[h].driver = d => ~Half(job[h]))
  PROVE  DriverSound(d)'
<1>1. \A h \in Handlers :
        /\ FeedbackOn(h, d)' => FeedbackOn(h, d) /\ job'[h] = job[h]
        /\ FeedbackOn(h, d) /\ ~FeedbackOn(h, d)' => job[h].pc \in {"connect", "insert"}
  BY IdleFields DEF FeedbackOn, FeedbackPCs, Half
<1>2. OneFeedback(d)'
  BY <1>1 DEF DriverSound, OneFeedback
<1>3. ratings'[d] = None => Unrated(d)'
  BY DEF DriverSound, Unrated, Half
<1>4. NothingInserted(d)' => NothingInserted(d)
  BY <1>1 DEF NothingInserted
<1>5. ratings'[d] # None /\ NothingInserted(d)' => Exact(d, ratings[d])'
  BY <1>4 DEF DriverSound, Exact
<1>6. ASSUME NEW h \in Handlers, FeedbackOn(h, d)'
      PROVE  ExactInTheEnd(h, d)'
  <2>1. job'[h] = job[h] /\ ExactInTheEnd(h, d)
    BY <1>1, <1>6 DEF DriverSound
  <2> QED
    BY <2>1 DEF ExactInTheEnd, Exact
<1> QED
  BY <1>2, <1>3, <1>5, <1>6 DEF DriverSound

\* Every step keeps the ratings of those who stay clean.
LEMMA RatingsStep ==
  ASSUME DataSound, BoundsOK, RatingsSound, [Next]_vars
  PROVE  RatingsSound'
<1>1. clean' \subseteq clean /\ clean \subseteq Drivers
  BY DEF BoundsOK, Next, Continue, Begin, InsertRows, Find, Reload, Update, Commit, MeInsert,
         MeRate, MeFind, Give, Fail, Crash, GrantOne, vars
<1>2. SUFFICES ASSUME NEW d \in clean', d \in Drivers, DriverSound(d)
               PROVE  DriverSound(d)'
  BY <1>1 DEF RatingsSound
<1>3. CASE \E h \in Handlers : Continue(h)
  <2>1. PICK h \in Handlers : Continue(h)
    BY <1>3
  <2>2. CASE job[h].driver = d
    BY <1>2, <2>1, <2>2, FeedbackRight, MeRight DEF Continue
  <2>3. CASE job[h].driver # d
    BY <1>2, <2>1, <2>3, Elsewhere
  <2> QED
    BY <2>2, <2>3
<1>4. CASE \E h \in Handlers, e \in Drivers : MeFind(h, e)
  BY <1>2, <1>4, MeRight
<1>5. CASE \E h \in Handlers, e \in Drivers, form \in Forms : Give(h, e, form)
  BY <1>2, <1>5, GiveRight
<1>6. CASE \E h \in Handlers : Fail(h)
  <2>1. PICK h \in Handlers : Fail(h)
    BY <1>6
  <2>2. /\ job' = [job EXCEPT ![h] = Idle] /\ UNCHANGED <<registered, ratings, given>>
        /\ clean' = IF Half(job[h]) THEN clean \ {job[h].driver} ELSE clean
    BY <2>1 DEF Fail, Return
  <2>3. /\ job'[h] = Idle /\ \A g \in Handlers \ {h} : job'[g] = job[g]
        /\ job[h].driver = d => ~Half(job[h])
    BY <1>2, <2>2, OneJob DEF DataSound
  <2> QED
    BY <1>2, <2>2, <2>3, EndsRight
<1>7. CASE Crash
  <2>1. /\ job' = [h \in Handlers |-> Idle] /\ UNCHANGED <<registered, ratings, given>>
        /\ clean' = clean \ {job[h].driver : h \in {g \in Handlers : Half(job[g])}}
    BY <1>7 DEF Crash
  <2>2. \A h \in Handlers : job'[h] = Idle /\ (job[h].driver = d => ~Half(job[h]))
    BY <1>2, <2>1
  <2> QED
    BY <1>2, <2>1, <2>2, EndsRight
<1>8. CASE GrantOne \/ UNCHANGED vars
  <2>1. UNCHANGED <<registered, ratings, given, job>>
    BY <1>8 DEF GrantOne, vars
  <2> QED
    BY <1>2, <2>1, EndsRight
<1> QED
  BY <1>3, <1>4, <1>5, <1>6, <1>7, <1>8 DEF Next

\* The invariant of the ratings.
THEOREM RatingsSoundHolds ==
  ASSUME IsFiniteSet(Handlers)
  PROVE  Spec => []RatingsSound
<1>1. Init => DataSound /\ BoundsOK
  BY DataInit, MaxFormsIsNat DEF Init, BoundsOK
<1>2. Init => RatingsSound
  <2> SUFFICES ASSUME Init, NEW d \in Drivers
               PROVE  DriverSound(d)
    BY DEF Init, RatingsSound
  <2>1. ratings[d] = None /\ d \notin registered
        /\ \A c \in Categories : given[d][c] = [count |-> 0, sum |-> 0]
    BY DEF Init
  <2>2. \A h \in Handlers : ~FeedbackOn(h, d)
    BY IdleFields DEF Init, FeedbackOn
  <2> QED
    BY <2>1, <2>2 DEF DriverSound, OneFeedback, Unrated
<1>3. /\ DataSound /\ BoundsOK /\ [Next]_vars => (DataSound /\ BoundsOK)'
      /\ DataSound /\ BoundsOK /\ RatingsSound /\ [Next]_vars => RatingsSound'
  BY DataStep, BoundsStep, RatingsStep
<1> QED
  BY <1>1, <1>2, <1>3, PTL DEF Spec

\* The ratings of a clean driver are exact when no request is under way.
THEOREM RatingsExactHolds ==
  ASSUME IsFiniteSet(Handlers)
  PROVE  Spec => []RatingsExact
<1>1. TypeOK /\ RatingsSound => RatingsExact
  <2> SUFFICES ASSUME TypeOK, RatingsSound, NEW d \in registered \cap clean, ~Busy(d)
               PROVE  ratings[d] # None /\ Exact(d, ratings[d])
    BY DEF RatingsExact, Exact
  <2>1. DriverSound(d) /\ d \in Drivers
    BY DEF RatingsSound, TypeOK
  <2>2. \A h \in Handlers : job[h].driver # d
    BY DEF Busy
  <2>3. ratings[d] # None
    BY <2>1, <2>2 DEF DriverSound, Unrated
  <2>4. NothingInserted(d)
    BY <2>2 DEF NothingInserted, FeedbackOn
  <2> QED
    BY <2>1, <2>3, <2>4 DEF DriverSound
<1> QED
  BY <1>1, FeedbackTypeOKHolds, RatingsSoundHolds, PTL
=============================================================================
