\* An editor and a format run, one inside the other, and other programs.
SPECIFICATION Spec
CONSTANTS
  Editors = {e1}
  Formatters = {f1}
  Texts = {e, a}
  Empty = e
  Tidy = {a}
  Modes = {private}
  Private = private
  Ids = {i1, i2, i3, i4}
  Faults = {"rename", "kill"}
  None = None
SYMMETRY Interchangeable
INVARIANTS
  TempsRemoved
PROPERTIES
  LostOnlyInBlindWindows
