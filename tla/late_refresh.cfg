SPECIFICATION Spec
CONSTANTS
  ann = ann
  bob = bob
  None = None
  Bare = Bare
  Users <- Two
  Menu = {"dashboard"}
  Items = {"tea", "milk"}
  Terms = {"", "t", "tea", "teapot"}
  Long = {"tea", "teapot"}
  CanStore = TRUE
  Starts <- OnRefused
PROPERTIES
  OldRefreshIgnored
CHECK_DEADLOCK FALSE
