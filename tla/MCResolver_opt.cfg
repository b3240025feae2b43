SPECIFICATION Spec
CONSTANTS
  h1 = h1
  h2 = h2
  k1 = k1
  k2 = k2
  k3 = k3
  u1 = u1
  u2 = u2
  None = None
  Handlers = {h1}
  Keys = {k1, k2}
  Upstreams = {u1}
  Answers <- MCBareAnswers
  Matchers <- MCMatchers
  MaxTTL = 3
  Enabled = TRUE
  Size = 2
  TTLOverride = FALSE
  DefaultTTL = 1
  Type <- MCType
  Hash <- MCHash
  V4 <- MCV4
  V6 = None
  MaxTime = 2
PROPERTIES HitsFresh
