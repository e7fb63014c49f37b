---------------------------- MODULE RideLifecycle ----------------------------
(***************************************************************************)
(* What the drive request handlers promise of one request, without Redis,  *)
(* handlers or races: a request is taken by one driver, moves along the    *)
(* status machine, and is billed at most once and only after the passenger *)
(* was picked up. A request that is lost stays lost.                       *)
(***************************************************************************)
CONSTANTS Users, Drivers, Sids, None

VARIABLE ride

Unused == [phase |-> "unused", user |-> None, driver |-> None]

Underway == {"pending", "on_going", "arrived", "picked_up", "cancelled", "settling"}

Init == ride = [s \in Sids |-> Unused]

Ask(s, u) ==
  /\ ride[s] = Unused
  /\ ride' = [ride EXCEPT ![s] = [phase |-> "pending", user |-> u, driver |-> None]]

Take(s, d) ==
  /\ ride[s].phase = "pending"
  /\ d # ride[s].user
  /\ ride' = [ride EXCEPT ![s] = [phase |-> "on_going", user |-> @.user, driver |-> d]]

Move(s, from, to) ==
  /\ ride[s].phase = from
  /\ ride' = [ride EXCEPT ![s].phase = to]

Cancel(s) == \E from \in {"on_going", "arrived"} : Move(s, from, "cancelled")

\* The ride is over; its row is still to be written.
Complete(s) == Move(s, "picked_up", "settling")

Bill(s) == Move(s, "settling", "billed")

Advance(s) ==
  \/ \E u \in Users : Ask(s, u)
  \/ \E d \in Drivers : Take(s, d)
  \/ Move(s, "on_going", "arrived")
  \/ Move(s, "arrived", "picked_up")
  \/ Cancel(s)
  \/ Complete(s)
  \/ Bill(s)

\* Rejected by every driver, expired, or lost while they were settled: one crash
\* may lose several rides.
Drop(lost) ==
  /\ \A s \in lost : ride[s].phase \in Underway
  /\ ride' = [s \in Sids |->
       IF s \in lost THEN [phase |-> "gone", user |-> ride[s].user, driver |-> None]
                      ELSE ride[s]]

Next ==
  \/ \E s \in Sids : Advance(s)
  \/ \E lost \in SUBSET Sids : Drop(lost)

Spec == Init /\ [][Next]_ride
=============================================================================
