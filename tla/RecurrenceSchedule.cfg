SPECIFICATION Spec
CONSTANTS
  StartDates <- MonthEnds
  Intervals = {1, 4}
  Pauses <- Delays
  MaxSteps = 3
INVARIANTS
  CursorOccurs
PROPERTIES
  NothingSkipped
  ResumesAtFirstFuture
CHECK_DEADLOCK FALSE
