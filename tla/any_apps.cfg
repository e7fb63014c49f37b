CONSTANTS
  None = None
  Users = {a1, a2, a3}
  Drivers = {a1, a2, a3}
  Sids = {s1}
  Ids = {i1}
  Handlers = {h1, h2}
  AppStatuses = {"pending", "on_going", "arrived", "picked_up", "completed", "cancelled"}
  Faults = {"crash", "database", "expiry", "network"}
  Assumed = {}
SPECIFICATION Spec
INVARIANTS
  TypeOK
  RowsSound
  FieldsAgree
SYMMETRY AccountSymmetry
CHECK_DEADLOCK FALSE
