CONSTANTS
  HdrCap = 5
  W = 16
  Replies <- MCReplies
SPECIFICATION FairSpec
INVARIANTS
  TypeOK
  BodyIntact
  OverrunOnlyMisframed
  CompleteReplyAccepted
PROPERTY Returns
CHECK_DEADLOCK FALSE
