SPECIFICATION EditorSpec
CONSTANTS
  e1 = e1
  e2 = e2
  None = None
  Editors = {e1, e2}
  Fields = {"title", "series"}
  Values = {"", "old", "new", "harbour", "found", "typed"}
  Typed = {"typed"}
  Blank = ""
  Files = 2
  Epub <- Replaced
  Offer <- Found
  MaxActs = 4
SYMMETRY Interchangeable
CHECK_DEADLOCK FALSE
INVARIANTS
  OriginsTrue
PROPERTIES
  RefreshIsCurrent
