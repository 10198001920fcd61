\* A resent write conflicts with itself.
SPECIFICATION Spec
CONSTANTS
  Names = {p}
  Bodies = {e, a}
  Empty = e
  None = None
  Ops = {o1}
  MaxVersion = 1
  MaxRetries = 1
  WriteReplies = {"empty"}
  Reports = {TRUE}
  OthersMeta = {"none"}
  AddressConfigured = TRUE
SYMMETRY Interchangeable
INVARIANTS
  ConflictMeansNotWritten
CHECK_DEADLOCK FALSE
