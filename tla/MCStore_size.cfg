SPECIFICATION Spec
CONSTANTS
  b1 = b1
  b2 = b2
  Buckets = {b1, b2}
  EventLogs = {2}
  Held = {0}
  PageSize = 1
  MaxPasses = 3
  MaxFaults = 1
PROPERTIES RingFits
