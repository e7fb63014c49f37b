CONSTANTS
  None = None
  Users = {u1}
  Drivers = {d1}
  Sids = {s1}
  Ids = {i1}
  Handlers = {h1, h2}
  AppStatuses = {"on_going", "arrived", "picked_up", "completed", "cancelled"}
  Faults = {"expiry"}
  Assumed = {}
SPECIFICATION ChatSpec
INVARIANTS
  ChatGoesWithRide
PROPERTIES
  CompletedIsRecorded
CHECK_DEADLOCK FALSE
