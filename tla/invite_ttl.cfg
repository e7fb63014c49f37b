CONSTANTS
  None = None
  Spots = {s1, s2}
  Codes = {c1, c2}
  Handlers = {h1, h2}
  Ttl = 1
  Assumed = {"fresh_codes"}
SPECIFICATION CodeSpec
INVARIANTS
  TtlToldIsTime
CHECK_DEADLOCK FALSE
