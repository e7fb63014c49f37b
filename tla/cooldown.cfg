CONSTANTS
  None = None
  s1 = s1
  s2 = s2
  Users = {u1}
  Drivers = {d1}
  Sockets = {x1, x2}
  Spots = {s1, s2}
  Nearby <- EitherOrder
  Handlers = {h1}
  Minute = 1
  Production = TRUE
  Faults = {}
  Assumed = {"genuine_answers"}
SPECIFICATION Spec
PROPERTIES
  CooldownRespected
SYMMETRY Symmetry
CHECK_DEADLOCK FALSE
