SPECIFICATION Spec
CONSTANTS
  Workers = {w1}
  Requests = {r1}
  Values = {t1, t2}
  EnvTokens = {}
  NoHeader = NoHeader  BadHeader = BadHeader
  MaxRows = 2
INVARIANTS RevokedIsRefused
