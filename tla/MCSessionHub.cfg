SPECIFICATION FairSpec
CONSTANTS
  Watchers = {w1}
  NoCursor = NoCursor
  RingFrames = 2
  RingBytes = 4
  QueueFrames = 2
  QueueBytes = 9
  MaxLive = 6
  Envelope = 1
  NoticeSize = 3
  Sizes = {1, 5, 7}
  Sources = {0, 1}
  MaxFrames = 5
  MaxEpochs = 1
  MaxStreams = 2
  MaxDrops = 1
INVARIANTS TypeOK LagIsTold MemoryBounded
PROPERTIES ReplayIsExact WatchPromise CatchesUp
CHECK_DEADLOCK FALSE
