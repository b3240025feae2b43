SPECIFICATION FairSpec
CONSTANTS
  s1 = s1
  s2 = s2
  old = old
  new = new
  html = html
  None = None
  Labels = {"com", "org", "ads", "x"}
  Names <- MCNames
  Patterns = {"ads", "o.g", "("}
  Hits <- MCHits
  Uncompiled = {"("}
  Sets = {s1, s2}
  Timed = {s1}
  Tags <- MCTags
  Contents = {old, new}
  Site <- MCSite
  First <- MCFirst
  Garbage = {}
  MaxPublished = 1
  MaxFaults = 1
INVARIANTS TypeOK RulesCurrent
PROPERTIES OldDataKept ImplementsRuleBook ReloadServed RulesSettle RunReturns
