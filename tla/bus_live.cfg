SPECIFICATION FairSpec
CONSTANTS
  s1 = s1  s2 = s2  w1 = w1  w2 = w2  v1 = v1  d1 = d1  d2 = d2  c1 = c1  c2 = c2
  e1 = e1  e2 = e2  e3 = e3  h1 = h1  h2 = h2  None = None
  Subs = {s1, s2}
  Early = {s1, s2}
  Workers = {w1, v1}
  Drivers = {d1}
  Closers = {}
  DriverEvents = {e1, e2}
  HandlerEvents = {h1, h2}
  SubOf <- SubOfOneOne
  Interest <- InterestCross
  Buffer <- Buffer1
  Endless = {h2}
  Policy <- AllBlock
PROPERTIES PublishReturns QueuedIsTaken
CHECK_DEADLOCK FALSE
