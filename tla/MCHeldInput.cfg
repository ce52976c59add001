\* A timeline, two scripts and a tool on one VM; a key, a button; two sessions.
CONSTANTS
  Timelines = {t1}
  Scripts = {s1, s2}
  Tools = {u1}
  Typists = {t1}
  Key = {k}
  Button = {left}
  Left = left
  MaxSessions = 2
SPECIFICATION Spec
SYMMETRY Symmetry
INVARIANTS HeldIsKnown TextOnce
CHECK_DEADLOCK FALSE
