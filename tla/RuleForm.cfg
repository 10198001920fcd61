\* Every rule of up to two attributes, through every form of up to two rows.
SPECIFICATION Spec
CONSTANTS
  Capabilities <- MCCapabilities
  ByDefault = {"read"}
  Foreign = {"teleport"}
  Blank = ""
  Comments = {"c"}
  Paths = {"", " ", "p", " p"}
  Trim <- MCTrim
  Dates = {"12:00:00", "12:00:00.5"}
  Seconds <- MCSeconds
  Words = {"", "x", "x, x"}
  Parts <- MCParts
  Lists <- MCLists
  Rules <- MCRules
  None = None
  MaxTouched = 2
  MaxEntries = 1
  MaxApplied = 1
INVARIANTS
  TypeOK
PROPERTIES
  LockedKept
  UntouchedKept
  RestoredKept
  ShownIsWritten
  ForeignKept
CHECK_DEADLOCK FALSE
