SPECIFICATION TiesSpec
INVARIANTS
  NoRecordIsLost
CHECK_DEADLOCK FALSE
