CONSTANTS
  None = None
  Spots = {s1, s2}
  Codes = {c1, c2}
  Drivers = {d1, d2, d3}
  Handlers = {h1, h2}
  Ttl = 1
  Assumed = {"fresh_codes", "one_request_each"}
  Faults = {"failure", "crash"}
SPECIFICATION Spec
INVARIANTS
  TypeOK
  SpotKeepsOwner
  MembersWereInvited
  CodeLastsAsTold
PROPERTIES
  StaysUntilRemoved
SYMMETRY Symmetry
CHECK_DEADLOCK FALSE
