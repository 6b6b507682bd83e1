SPECIFICATION FairSpec
CONSTANTS
  EVENT_Q_SIZE = 4
  MousePushes <- MCMousePushes
  MaxBytes = 2
  MaxTicks = 1
INVARIANTS
  TypeOK
  NothingLost
  SourceOrder
  HandlersExclusive
  EoiEndsOwn
PROPERTIES
  FifoSpec
  BytesAreRead
  AcceptedIsDelivered
