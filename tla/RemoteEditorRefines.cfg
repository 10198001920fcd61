\* Two policies, against the abstract specification.
SPECIFICATION Spec
CONSTANTS
  Names = {p, q}
  Bodies = {e, a}
  Empty = e
  None = None
  Ops = {o1}
  MaxVersion = 2
  MaxRetries = 1
  WriteReplies = {"empty"}
  Reports = {TRUE}
  OthersMeta = {"none"}
  AddressConfigured = FALSE
SYMMETRY Interchangeable
PROPERTIES
  AbstractSpec
CHECK_DEADLOCK FALSE
