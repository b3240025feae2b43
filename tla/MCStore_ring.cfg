SPECIFICATION Spec
CONSTANTS
  b1 = b1
  b2 = b2
  Buckets = {b1, b2}
  EventLogs = {0, 1, 2}
  Held = {0, 5}
  PageSize = 1
  MaxPasses = 2
  MaxFaults = 1
INVARIANTS TypeOK CountersAgree
PROPERTIES KeepsNewest OverfullShrinks
