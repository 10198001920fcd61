\* Three policies, other clients, and a cancelled request still under way.
SPECIFICATION Spec
CONSTANTS
  Order <- MCOrder
  Filters = {"", "a", "b"}
  Matches <- MCMatches
  Blank = ""
  None = None
  MaxLate = 1
INVARIANTS
  TypeOK
  ListingIsWhatWasTold
PROPERTIES
  HighlightStays
