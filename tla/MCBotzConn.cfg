CONSTANTS
  NL = NL
  OtherMethod = OtherMethod
  CloseLine = CloseLine
  ExpectLine = ExpectLine
  NoTarget = NoTarget
  get = get
  put = put
  Targets = {get, put}
  Answer <- MCAnswer
  Streams <- MCStreams
  BufSize = 4
SPECIFICATION FairSpec
INVARIANT TypeOK
INVARIANT Watched
INVARIANT ContinueInPlace
PROPERTY TimeoutSparesAnswers
PROPERTY NeverDropsComplete
PROPERTY ImplementsSession
PROPERTY EveryoneAnswered
CHECK_DEADLOCK FALSE
