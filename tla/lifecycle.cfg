CONSTANTS
  None = None
  Users = {u1, both}
  Drivers = {d1, both}
  Sids = {s1, s2}
  Ids = {i1, i2}
  Handlers = {h1, h2}
  AppStatuses = {"arrived", "picked_up", "completed", "cancelled"}
  Faults = {"crash", "database", "expiry", "network"}
  Assumed = {"genuine_answers", "answer_once", "one_at_a_time", "fresh_ids"}
SPECIFICATION Spec
INVARIANTS
  Orderly
PROPERTIES
  StatusFollowsMachine
  ImplementsLifecycle
SYMMETRY Symmetry
CHECK_DEADLOCK FALSE
