\* One policy, three texts, a goroutine left behind beside the awaited one.
SPECIFICATION Spec
CONSTANTS
  Names = {p}
  Bodies = {e, a, b}
  Empty = e
  None = None
  Ops = {o1, o2}
  MaxVersion = 2
  MaxRetries = 0
  WriteReplies = {"empty", "versioned"}
  Reports = {TRUE}
  OthersMeta = {"none"}
  AddressConfigured = TRUE
SYMMETRY Interchangeable
INVARIANTS
  TypeOK
  OnlyShownContentIsOverwritten
  MatchingRevisionMeansMatchingText
  LicenceOnlyWhileShown
PROPERTIES
  EditsNeedConsent
CHECK_DEADLOCK FALSE
