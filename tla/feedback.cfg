CONSTANTS
  None = None
  Handlers = {h1, h2, h3}
  Conns = {x1, x2}
  Drivers = {d1}
  Categories = {"manner", "driving"}
  Forms <- MCForms
  MaxForms = 3
  Faults = {"failure", "crash"}
SPECIFICATION FairSpec
INVARIANTS
  TypeOK
  CountsBacked
  RatingsExact
  StallTakesAll
PROPERTIES
  PoolSpec
  FeedbackEnds
CHECK_DEADLOCK FALSE
