SPECIFICATION CacheSpec
CONSTANTS
  a1 = a1  b1 = b1  c1 = c1  main = main  side = side  heart = heart  None = None
  Articles = {a1, b1, c1}
  Threads = {main, side}
  Emojis = {heart}
  Main = main
  Workers = {w1, w2}
  Readers = {r1}
  Pools <- OneOrBoth
  Feeds <- AllFeeds
  Batches <- AllBatches
  Queries <- AllQueries
  MaxEntries = 2
  TTL = 2
  Lag = 1
  MaxTime = 3
INVARIANTS OneCache ContextIsRight ProjectionFollows
PROPERTY ReadersSpareLive
CHECK_DEADLOCK FALSE
