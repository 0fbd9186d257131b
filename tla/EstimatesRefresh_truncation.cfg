SPECIFICATION Spec
CONSTANTS
  k1 = k1  k2 = k2  k3 = k3  x1 = x1  x2 = x2
  n1 = n1  n2 = n2
  full = full  other = other  few = few  cut = cut  none = none  bad = bad  torn = torn
  NoEst = NoEst  NoBody = NoBody

  Admins = {a1}
  Loop = Loop  Boot = Boot
  Keys <- MCKeys
  ExactKeys <- MCExact
  Estimates <- MCEstimates
  Bundled <- MCBundled
  Bodies <- MCBodies
  Malformed = {bad}
  ShortRow = {torn}
  Rows <- MCRows
  MaxVersions = 2
PROPERTIES TruncationNeverWipes
