SPECIFICATION FairSpec
CONSTANTS
  Tasks = {t1, t2}
  Messages <- SomeMessages
  ReplyLengths = {9, 13}
  MaxBatch = 3
  MaxResponse = 24
INVARIANTS BatchFits EveryCallAnswered StatsExact
PROPERTY EveryMessageEnds
CHECK_DEADLOCK FALSE
