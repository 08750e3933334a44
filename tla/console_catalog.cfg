SPECIFICATION CatalogSpec
CONSTANTS
  main = main
  attic = attic
  i1 = i1
  None = None
  MaxBooks = 3
  PageSize = 1
  Libraries = {main, attic}
  Main = main
  Items = {i1}
CONSTRAINT SecondLibraryApart
CHECK_DEADLOCK FALSE
INVARIANTS
  EveryBookShelved
  PagesComplete
  ListFollows
