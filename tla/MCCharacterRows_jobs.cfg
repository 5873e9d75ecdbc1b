CONSTANTS
  s1 = s1
  s2 = s2
  k1 = k1
  k2 = k2
  k3 = k3
  d1 = d1
  d3 = d3
  a1 = a1
  n1 = n1
  n2 = n2
  Sessions = {s1, s2}
  Creates = {k1, k2, k3}
  Deletes = {d1, d3}
  By <- MCBy
  Account <- MCAccount
  Name <- MCName
  Target <- MCTarget
  Typed <- MCTyped
  Limit = 1
  Depth = 2
SPECIFICATION FairSpec
INVARIANTS
  OverrunBounded
  AnswersTrue
PROPERTIES
  JobsEnd
CHECK_DEADLOCK FALSE
