CONSTANTS
  MaxLength = 5
  Stream <- MCStream
  MsgSize = 3
  FetchLimit = 2
  Window = 1
SPECIFICATION FairSpec
INVARIANTS
  RoomToRead
  BytesConserved
  CutAsWhole
PROPERTY LineNotStuck
CHECK_DEADLOCK FALSE
