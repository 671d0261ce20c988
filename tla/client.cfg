SPECIFICATION Spec
CONSTANTS
  ann = ann
  bob = bob
  None = None
  Bare = Bare
  Users <- Two
  Menu = {"dashboard"}
  Items = {"tea", "milk"}
  Terms = {"", "t", "tea", "teapot"}
  Long = {"tea", "teapot"}
  CanStore = TRUE
  Starts <- MCStarts
INVARIANTS
  TypeOK
  SearchShowsTerm
  PagesAgree
PROPERTIES
  ShownIsSender
  BusyEnds
CHECK_DEADLOCK FALSE
