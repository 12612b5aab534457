SPECIFICATION Spec
CONSTANTS
  c1 = c1  p1 = p1  p2 = p2  p3 = p3  bot = bot  None = None
  Convs = {c1}
  Players = {p1, p2, p3, bot}
  Bots = {bot}
  Decks <- ShortDecks
  JoinTimeout = 1
  GameTimeout = 1
  DefaultMax = 2
  MaxLimit = 3
  Asked = {1, 3, 4}
  HookCancels = TRUE
  MaxTime = 2
INVARIANT FairDuel
PROPERTY LateMovesDoNotCount
SYMMETRY Alike
CHECK_DEADLOCK FALSE
