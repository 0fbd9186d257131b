SPECIFICATION Spec
CONSTANTS
  Workers = {w1, w2}
  Inodes = {i1, i2, i3}
  NoFile = NoFile
  TTL = 0
  MaxNow = 1
SYMMETRY Symmetry
INVARIANTS TypeOK OneWriter FastPathIsRecent LaterIsNewer NeverBlocked
PROPERTIES LoneSaveIsAtomic
