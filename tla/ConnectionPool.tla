---------------------------- MODULE ConnectionPool ----------------------------
(***************************************************************************)
(* The pool of database connections (pg-pool, external): a request asks,   *)
(* waits in a queue for as long as it takes, is granted a connection and   *)
(* releases it. Three services (DriveRequestsService.createFeedback,       *)
(* ServiceSpotsService.create and removeDriverFromServiceSpot) keep one for *)
(* a transaction and ask for a second to run a query outside of it.        *)
(***************************************************************************)
EXTENDS Naturals, Sequences, FiniteSets

CONSTANTS
  Handlers,  \* requests under way at one time
  Conns,     \* connections of the pool
  None       \* a connection that nobody holds

ASSUME NoneIsNoHandler == None \notin Handlers

VARIABLES
  conn,   \* who holds each connection
  queue   \* requests that wait for one

poolVars == <<conn, queue>>

PoolInit ==
  /\ conn = [x \in Conns |-> None]
  /\ queue = <<>>
-----------------------------------------------------------------------------
Held(h) == {x \in Conns : conn[x] = h}

Waiting(h) == \E i \in 1..Len(queue) : queue[i] = h

Ask(h) ==
  /\ queue' = Append(queue, h)
  /\ UNCHANGED conn

\* A free connection goes to the request that has waited longest.
Grant(x) ==
  /\ queue # <<>>
  /\ conn[x] = None
  /\ conn' = [conn EXCEPT ![x] = Head(queue)]
  /\ queue' = Tail(queue)

Release(held) ==
  /\ conn' = [x \in Conns |-> IF x \in held THEN None ELSE conn[x]]
  /\ UNCHANGED queue

\* The process dies: the next one has a pool of its own.
PoolCrash ==
  /\ conn' = [x \in Conns |-> None]
  /\ queue' = <<>>
-----------------------------------------------------------------------------
\* What these services do with the pool: no request waits for two connections at a
\* time, nor asks for one when it has two.
MayAsk(h) ==
  /\ ~Waiting(h)
  /\ \A x, y \in Held(h) : x = y

PoolNext ==
  \/ \E h \in Handlers : MayAsk(h) /\ Ask(h)
  \/ \E x \in Conns : Grant(x)
  \/ \E held \in SUBSET Conns : Release(held)
  \/ PoolCrash

PoolSpec == PoolInit /\ [][PoolNext]_poolVars
-----------------------------------------------------------------------------
\* The pool's variables keep their shape.
PoolTypeOK ==
  /\ conn \in [Conns -> Handlers \cup {None}]
  /\ queue \in Seq(Handlers)

\* Every connection is held by a request that waits for another: nobody will release
\* one, and pg-pool sets no limit to the wait.
Stalled == \A x \in Conns : conn[x] # None /\ Waiting(conn[x])

\* It takes as many requests as the pool has connections to stall it, each with one
\* connection and in the queue for its second: no request stalls the pool with what it
\* was granted twice, what it gave back or what one that failed, was refused or died
\* has left behind. (Ten creations of a spot at a time, with the ten connections of
\* pg-pool, do wait for each other for ever.)
StallTakesAll ==
  Stalled => Cardinality({h \in Handlers : Waiting(h) /\ Held(h) # {}}) = Cardinality(Conns)

\* Why: a request that waits holds one connection at most.
WaitersHoldOne ==
  /\ \A h \in Handlers : Waiting(h) => \A x, y \in Held(h) : x = y
  /\ \A i, j \in 1..Len(queue) : queue[i] = queue[j] => i = j
=============================================================================
