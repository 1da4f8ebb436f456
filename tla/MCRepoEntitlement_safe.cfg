SPECIFICATION Spec
CONSTANTS
  u1 = u1
  u2 = u2
  NoUrl = NoUrl
  Stock = u1
  Urls <- MCUrls
  Pins <- MCPins
  Faults <- MCFaults
INVARIANTS TypeOK  PinnedUnlessBreached UnentitledInactive
PROPERTIES RefreshNeverEnables EnableConfigures
CONSTRAINT MCBreachBound
CHECK_DEADLOCK FALSE
