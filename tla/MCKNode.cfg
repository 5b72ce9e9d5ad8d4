CONSTANTS
  Tick = 2
  Amounts <- MCAmounts
  Start = 3
  MaxNow = 15
  MaxSum = 16
SPECIFICATION RateSpec
INVARIANT RateIsAverage
PROPERTY ImplementsTicker
