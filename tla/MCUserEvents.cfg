SPECIFICATION Spec
CONSTANTS
  Handle = {h1, h2, h3, h4}
  Foreign = {}
  Data = {d1, d2}
  Uninit = Uninit
  Null = Null
  Thread = {t1, t2}
  Structure = {r1, r2}
  MaxQueue = 1
  Workflow = {"owned", "handle"}
  Modified = {"owned"}
CHECK_DEADLOCK FALSE
INVARIANTS StringsAccounted EventsIntact
PROPERTY CallsReturn
