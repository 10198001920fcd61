\* A form whose edit asks for an empty list.
SPECIFICATION Spec
CONSTANTS
  Capabilities <- MCCapabilities
  ByDefault = {"read"}
  Foreign = {"teleport"}
  Blank = ""
  Comments = {"c"}
  Paths = {"", " ", "p", " p"}
  Trim <- MCTrim
  Dates = {"12:00:00", "12:00:00.5"}
  Seconds <- MCSeconds
  Words = {"", "x", "x, x"}
  Parts <- MCParts
  Lists <- MCLists
  Rules <- MCRules
  None = None
  MaxTouched = 1
  MaxEntries = 1
  MaxApplied = 1
INVARIANTS
  EveryEditRenders
CHECK_DEADLOCK FALSE
