CONSTANTS
  MaxLength = 3
  Sizes = {2, 4, 5}
  Header = 2
  Far = 20
  MaxEvents = 3
SPECIFICATION FairSpec
INVARIANT RowsLive
INVARIANT ScreenCurrent
INVARIANT WindowFull
PROPERTY BarSettles
CHECK_DEADLOCK FALSE
