\* An error of a rule that OpenBao takes: deny stands before the unknown word.
SPECIFICATION Spec
CONSTANTS
  Known = {"create", "read", "update", "list", "sudo", "deny"}
  Foreign = {"teleport"}
  Segments = {"", "kv", "data", "x", "*", "sys", "x*", "+*", "+", "*x"}
  Blank = ""
  Kv2Components = {"data"}
  AnySegment = {"*", "+"}
  EndsInStar = {"*", "x*", "+*"}
  StarInside = {"*x"}
  PlusStar = {"+*"}
  Names = {"n", "*"}
  Wildcard = "*"
  Values = {"u", "v"}
  OtherValue = "w"
  None = None
  BoolFlags = {"remote", "skip-verify"}
  ValueFlags = {"token"}
  Texts = {"validate", "format", "test", "help", "", "f", "read", "true", "1", "0", "-"}
  ParseBool <- MCParseBool
  Dashed = "-"
  Tokens <- MCTokens
  Argvs <- MCArgvs
  Environments <- MCEnvironments
  Contents <- MCContents
  Starts <- MCStarts
  OthersContents <- MCOthersContents
  MaxOthers = 1
INVARIANTS
  UnknownIsRefused
CHECK_DEADLOCK FALSE
