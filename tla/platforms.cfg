SPECIFICATION MCSpec
CONSTANTS
  s1 = s1 s2 = s2 u1 = u1 h1 = h1 h2 = h2 c1 = c1 Absent = Absent Nobody = Nobody
  a1 = a1 e1 = e1 e2 = e2 t1 = t1 t2 = t2 None = None
  Senders = {s1, s2}
  Parts <- Split
  MaxEdits <- Edits
  MaxEntries = 1
  Users = {u1}
  Chats = {c1}
  Handlers = {h1, h2}
  Durations = {1, 3}
  Minute = 2
  Second = 1
  Soon = 1
  Clamp = 2
  Horizon = 6
  Forever = Forever
  Articles = {a1}
  Emojis = {e1, e2}
  Texts = {t1, t2}
  MaxCount = 2
  MaxChanges = 4
  MaxInbox = 2
  Limit = 1
SYMMETRY Alike
INVARIANTS TagsAreKept CacheCatchesUp AlwaysAWayBack ReactionsAddUp
PROPERTY EditsChain
CHECK_DEADLOCK FALSE
