\* OneLivePerVm fails.
CONSTANTS
  VM = {v1}
  Session = {s1, s2}
  Caller = {c1, c2}
  NoVm = NoVm
  NoSession = NoSession
SPECIFICATION Spec
SYMMETRY Symmetry
INVARIANTS OneLivePerVm
CHECK_DEADLOCK FALSE
