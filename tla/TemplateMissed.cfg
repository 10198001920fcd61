CONSTANTS
  Code <- MCCode
  Patterns <- MCPatterns
  Paths <- MCPaths
  Values <- MCValues
  PatternTexts = {"u/*", "u/{{x}}-a*", "u/+/+"}
  PathTexts = {"u/v", "u/v-ab", "u/v-a/b"}
  Grants <- MCGrants
  Asked = {"read", "list", "bogus"}
  Lives = {TRUE, FALSE}
  Sources = {p1, p2}
  ValueTexts = {"u", "v", "vw"}
  MaxRules = 2
  None = None
SPECIFICATION Spec
SYMMETRY Symmetry
INVARIANTS
  IndependentOfTemplates
CHECK_DEADLOCK FALSE
