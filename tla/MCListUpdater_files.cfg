SPECIFICATION FairSpec
CONSTANTS
  h1 = h1
  h2 = h2
  None = None
  Partial = Partial
  Mixed = Mixed
  Raw = Raw
  Handlers = {h1, h2}
  LastVersion = 3
  IsDat <- MCIsDat
  HasCategory <- MCHasCategory
  MaxFaults = 1
INVARIANTS TypeOK NotAheadOfOriginal
PROPERTIES OriginalOnlyImproves DerivedSettle
