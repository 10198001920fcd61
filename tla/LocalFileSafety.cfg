\* One editor, other programs, and every failure.
SPECIFICATION Spec
CONSTANTS
  Editors = {e1}
  Formatters = {}
  Texts = {e, a, b}
  Empty = e
  Tidy = {}
  Modes = {private, shared}
  Private = private
  Ids = {i1, i2, i3}
  Faults = {"read", "write", "rename", "dirsync", "kill", "power"}
  None = None
SYMMETRY Interchangeable
INVARIANTS
  TypeOK
  BaselineIsOnDisk
  OnlySaveAsTears
PROPERTIES
  LostOnlyInBlindWindows
  ReportedSavesSurvive
  ConflictIsReal
