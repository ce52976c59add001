\* Two callers; one authentication may fail; an authentication takes less than
\* half the margin.
CONSTANTS
  Caller = {c1, c2}
  Timer = Timer
  Lifetime = 5
  Margin = 3
  Delay = 1
  MaxFailures = 1
  MaxTime = 7
SPECIFICATION Spec
SYMMETRY Symmetry
INVARIANTS FreshOnUse RetryIsFresh HeldIsValid
