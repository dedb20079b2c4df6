SPECIFICATION Spec
INVARIANTS
  DatesAreCalendar
  RecodeKeepsTheRest
CHECK_DEADLOCK FALSE
