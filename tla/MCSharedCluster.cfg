SPECIFICATION SharedSpec
CONSTANTS
  Code <- MCCode
  Text = {"in", "out"}
  Byte = {0, 1}
  Thread = {t1, t2}
  Via <- MCVia
INVARIANT OneError
