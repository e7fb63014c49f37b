CONSTANTS
  None = None
  Users = {u1, both}
  Drivers = {d1, both}
  Sids = {s1, s2}
  Ids = {i1, i2}
  Handlers = {h1, h2}
  AppStatuses = {"arrived", "picked_up", "completed", "cancelled"}
  Faults = {"crash", "database", "expiry", "network"}
  Assumed = {"genuine_answers", "answer_once", "fresh_ids"}
SPECIFICATION Spec
INVARIANTS
  PointerSound
  RideSound
  SettledStaysRemoved
  RejectedIsFinal
PROPERTIES
  RideNeverRewritten
SYMMETRY Symmetry
CHECK_DEADLOCK FALSE
