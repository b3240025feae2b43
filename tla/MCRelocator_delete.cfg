SPECIFICATION FairSpec
CONSTANTS
  b1 = b1
  b2 = b2
  k1 = k1
  k2 = k2
  v1 = v1
  v2 = v2
  bad = bad
  big = big
  None = None
  Partial = Partial
  Mixed = Mixed
  Buckets = {b1}
  Keys = {k1}
  Versions = {v1, v2}
  TooLarge = {}
  FileCount <- MCFileCount
  Readable <- MCReadable
  Matching <- MCMatching
  DeleteAfter <- MCDeleteAfter
  WorkPath <- MCWorkPath
  Quarantine = TRUE
  Overwrites = FALSE
  Retries = 1
  MaxFaults = 1
PROPERTY EventuallyDeleted
