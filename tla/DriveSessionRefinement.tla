----------------------- MODULE DriveSessionRefinement -----------------------
(***************************************************************************)
(* The handlers of DriveSession implement RideLifecycle, as long as each   *)
(* offer is answered once, no two handlers work on a session at a time and *)
(* the random ids do not repeat. Faults need not be excluded: what a crash *)
(* or a failed query loses is a Drop.                                      *)
(***************************************************************************)
EXTENDS DriveSession

\* The handler of the completion holds all that is left of the ride: the hash is
\* removed, by the handler or by its TTL, and the row is not written.
Settling(h, s) ==
  /\ job[h].sid = s /\ job[h].id # None
  /\ job[h].pc \in SettlingPCs \/ (job[h].pc = "complete_remove" /\ ~Exists(s))

IsSettling(s) == \E h \in Handlers : Settling(h, s)

Billed(s) == rides[request[s].id] # NoRow

Phase(s) ==
  CASE request[s] = NoRequest -> "unused"
    [] request[s] # NoRequest /\ IsSettling(s) -> "settling"
    [] request[s] # NoRequest /\ ~IsSettling(s) /\ Billed(s) -> "billed"
    [] request[s] # NoRequest /\ ~IsSettling(s) /\ ~Billed(s) ->
         IF session[s].id # None THEN session[s].status ELSE "gone"

DriverOf(s) ==
  CASE Phase(s) = "settling" -> job[CHOOSE h \in Handlers : Settling(h, s)].driverId
    [] Phase(s) = "billed"   -> rides[request[s].id].driverId
    [] Phase(s) \in Statuses -> session[s].driverId
    [] OTHER                 -> None

Ride == [s \in Sids |-> [phase |-> Phase(s), user |-> request[s].userId,
                         driver |-> DriverOf(s)]]

\* What a completion is about to write, or to remove first, is not written.
Unbilled ==
  \A h \in Handlers :
    job[h].pc \in SettlingPCs \cup {"complete_remove"} /\ job[h].id # None
      => rides[job[h].id] = NoRow

Lifecycle == INSTANCE RideLifecycle WITH ride <- Ride

\* Every step of a handler, and every fault, is a step of the lifecycle of at most
\* one ride: a hash that comes back without its fields after a removal is not seen
\* again, a ride is billed once, to the driver who took it, and never after it was
\* cancelled or lost.
ImplementsLifecycle == Lifecycle!Spec
=============================================================================
