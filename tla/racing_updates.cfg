CONSTANTS
  None = None
  Users = {u1}
  Drivers = {d1}
  Sids = {s1}
  Ids = {i1}
  Handlers = {h1, h2}
  AppStatuses = {"arrived", "picked_up", "completed", "cancelled"}
  Faults = {}
  Assumed = {"genuine_answers", "answer_once", "one_ride_each", "fresh_ids"}
SPECIFICATION Spec
PROPERTIES
  StatusFollowsMachine
CHECK_DEADLOCK FALSE
