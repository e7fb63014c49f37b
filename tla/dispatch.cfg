CONSTANTS
  None = None
  s1 = s1
  s2 = s2
  Users = {u1, both}
  Drivers = {d1, both}
  Sockets = {x1, x2}
  Spots = {s1, s2}
  Nearby <- OneOrder
  Handlers = {h1}
  Minute = 1
  Production = TRUE
  Faults = {"crash", "database"}
  Assumed = {"connects_rested"}
SPECIFICATION Spec
INVARIANTS
  TypeOK
  NobodyDrivesThemselves
  FreeDriverFound
SYMMETRY Symmetry
PROPERTIES
  RestingAreNotDrawn
CHECK_DEADLOCK FALSE
