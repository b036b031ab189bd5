SPECIFICATION FairSpec
CONSTANTS
  c1 = c1  c2 = c2  s1 = s1  s2 = s2
  Calls = {c1, c2}
  Sessions = {s1}
  SessionOf <- Shared
  NoCall = NoCall
  NoSnapshot = NoSnapshot
PROPERTIES CommitsAreSerial CancelWins CallsEnd
INVARIANTS SessionExclusive BaseIsCurrent CacheIsCurrent ResultMatchesStore
