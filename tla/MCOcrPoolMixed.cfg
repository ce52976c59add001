\* AnswersOwn fails: one worker whose start fails.
CONSTANTS
  Request = {r1, r2, r3}
  Size = 1
  Clients = 2
  Children = 5
  StartsMayFail = TRUE
  SpawnsMayFail = FALSE
SPECIFICATION Spec
SYMMETRY Symmetry
INVARIANTS AnswersOwn
CHECK_DEADLOCK FALSE
