\* Resent requests, versions and metadata that are or are not reported; no
\* symmetry, for liveness.
SPECIFICATION FairSpec
CONSTANTS
  Names = {p}
  Bodies = {e, a}
  Empty = e
  None = None
  Ops = {o1}
  MaxVersion = 3
  MaxRetries = 2
  WriteReplies = {"empty"}
  Reports = {TRUE, FALSE}
  OthersMeta = {"none", "set", "odd"}
  AddressConfigured = TRUE
INVARIANTS
  OnlyShownContentIsOverwritten
PROPERTIES
  MetadataSurvives
  BusyEnds
CHECK_DEADLOCK FALSE
