SPECIFICATION Spec
CONSTANTS
  a = a
  b = b
  None = None
  Inputs <- MCInputs
  Period = 2
CHECK_DEADLOCK FALSE
INVARIANT EventsMatch
INVARIANT CleanRunsAggregate
INVARIANT AllAccounted
INVARIANT BackpressureByWindow
INVARIANT PercentilesDivide
INVARIANT GoodRunsSaved
