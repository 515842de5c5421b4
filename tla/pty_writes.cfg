CONSTANTS
  Capacity = 2
  MaxReply = 2
  MaxDirect = 1
  MaxInsert = 1
  MaxInject = 1
  MaxModal = 1
SPECIFICATION FairSpec
INVARIANTS TypeOK RepliesInOrder AckedMeansWritten
PROPERTIES WritesSettle
CHECK_DEADLOCK FALSE
