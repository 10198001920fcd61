CONSTANTS
  Code <- MCCode
  Patterns <- MCPatterns
  Paths <- MCPaths
  Values <- MCValues
  PatternTexts = {"u/v", "u/*", "u/v/*", "u/+/*", "u/+/+", "+/+/a", "+/v/+", "+/vw/+",
              "u/{{x}}", "{{x}}/v/*", "u/+*"}
  PathTexts = {"u/v", "/u/v/", "u/v/a", "u/vw/a"}
  Grants <- MCGrants
  Asked = {"read", "list", "bogus"}
  Lives = {TRUE, FALSE}
  Sources = {p1, p2}
  ValueTexts = {"u", "v", "vw"}
  MaxRules = 3
  None = None
SPECIFICATION Spec
SYMMETRY Symmetry
INVARIANTS
  TypeOK
  MergedAsASet
  AnswerIsOfTheDecidingPattern
  LosersAccountedFor
  IndependentUnlessTextBeforeStar
CHECK_DEADLOCK FALSE
