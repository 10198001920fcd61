\* A click on a rule picks another.
SPECIFICATION Spec
CONSTANTS
  Texts = {"a", "b"}
  Documents <- MCDocuments
  Heights = {4, 6, 7, 9}
  MaxBlocks = 5
  None = None
INVARIANTS
  ClickPicksTheRuleShown
