SPECIFICATION Spec
CONSTANTS
  c1 = c1  c2 = c2  c3 = c3
  Clients = {c1, c2, c3}
  MAX_CLIENTS = 2
  MaxLines = 2
  MaxRuns = 3
  MaxMishaps = 1
SYMMETRY Swaps
INVARIANTS
    AnswersMatch
    SlotsReturned
    AnswerUnderWay
PROPERTIES
    CountersSpec
CHECK_DEADLOCK FALSE
