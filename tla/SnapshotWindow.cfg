\* Another program's change, adopted by the snapshot taken after a save.
SPECIFICATION Spec
CONSTANTS
  Editors = {e1}
  Formatters = {}
  Texts = {e, a, b}
  Empty = e
  Tidy = {}
  Modes = {private}
  Private = private
  Ids = {i1, i2, i3}
  Faults = {}
  None = None
PROPERTIES
  LostOnlyInTheWindow
