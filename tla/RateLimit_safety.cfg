SPECIFICATION Spec
CONSTANTS
  Workers = {w1, w2}
  Requests = {r1, r2}
  Tokens = {t1, t2}
  Limit = 2
  MaxHits = 3
  MaxLosses = 2
  None = None
SYMMETRY Symmetric
INVARIANTS TypeOK Cap ExemptIfTrusted
PROPERTIES NoEarlyRefusal
