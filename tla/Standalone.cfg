SPECIFICATION Spec
CONSTANTS
  MaxNow = 4
  Calls = {c1, c2, c3}
  Threshold = 2
  CoolDown = 2
  Requests = {r1, r2, r3}
  Window = 2
  Limit = 1
  Rate = 2
  Period = 4
  MaxRequests = 8
  Streams = {s1, s2}
  MaxEvents = 2
  MaxRow = 3
  MaxKey = 2
  PageLimit = 1
  NotionPages <- MCNotionPages
  PageSize = 1
  MaxMinute = 3
  MaxEdits = 4
  MaxTokens = 3
  Overlap = 2
  Seam = 1
  MaxLength = 6
CHECK_DEADLOCK FALSE
INVARIANTS
  TypeOK OneProbe LimitKept PaceAtMostDoubled ToldTheTruth ListedRight NothingSkipped
  ChunkedRight
PROPERTIES
  KeepsPromise StreamEnds HalfOpenEnds
