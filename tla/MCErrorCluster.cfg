SPECIFICATION Spec
CONSTANTS
  Code <- MCCode
  Text = {"in", "out"}
  Byte = {0, 1, 255}
INVARIANTS TypeOK FirstErrorWins FailureIsRecorded ManagerFailureVisible
PROPERTY UntouchedUnlessFailed
