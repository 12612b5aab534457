SPECIFICATION MCSpec
CONSTANTS
  p1 = p1  p2 = p2  a = a  b = b  c = c  d = d
  Kinds = {"telegram", "discord"}
  Producers = {p1, p2}
  Script <- MCScript
  Yields <- MCYields
  MapFails = MapFails
  Polls <- MCPolls
  MaxPolls = 1
  Buffer = 2
INVARIANTS UpdatesArriveInOrder QuietEndHasACause
PROPERTIES IngestEnds HttpEnds
CHECK_DEADLOCK FALSE
