CONSTANTS
  None = None
  Users = {u1, both}
  Drivers = {d1, d2, both}
  Sids = {s1, s2, s3}
  Ids = {i1}
  Handlers = {h1, h2}
  AppStatuses = {"arrived", "picked_up", "completed", "cancelled"}
  Faults = {"database", "expiry", "network"}
  Assumed = {"genuine_answers", "answer_once", "one_at_a_time", "one_ride_each"}
SPECIFICATION Spec
INVARIANTS
  ActiveRideReachable
  Agreement
SYMMETRY DriverSymmetry
CHECK_DEADLOCK FALSE
