\* Documents of up to five blocks, in terminals too small for their rules, just
\* large enough, and larger.
SPECIFICATION Spec
CONSTANTS
  Texts = {"a", "b"}
  Documents <- MCDocuments
  Heights = {4, 6, 7, 9}
  MaxBlocks = 5
  None = None
INVARIANTS
  TypeOK
  SelectedIsDrawn
PROPERTIES
  WhatIsNamedIsChanged
