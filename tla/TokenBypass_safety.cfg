SPECIFICATION FairSpec
CONSTANTS
  Workers = {w1}
  Requests = {r1}
  Values = {t1, t2}
  EnvTokens = {t2}
  NoHeader = NoHeader  BadHeader = BadHeader
  MaxRows = 2
INVARIANTS TypeOK WithinOneRefresh
PROPERTIES RevokedForGood VerdictIsCurrent ChangesTakeEffect
