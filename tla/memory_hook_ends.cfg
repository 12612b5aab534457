SPECIFICATION FairSpec
CONSTANTS
  a1 = a1  a2 = a2  k1 = k1  k2 = k2  c1 = c1  c2 = c2  None = None
  Scopes = {c1}
  Articles = {a1, a2}
  Runes <- RunesOfBoth
  Records = {}
  HomeOf <- InFirst
  QuietPeriod = 1
  MaxAge = 2
  MaxArticles = 2
  MaxRunes = 3
  MaxTime = 2
  MaxActions = 1
  HookCancels = TRUE
  Consolidation = TRUE
PROPERTY FlushesReady
CHECK_DEADLOCK FALSE
