\* Two calls that overlap, or not; no symmetry, for the liveness property.
CONSTANTS
  VM = {v1}
  Session = {s1, s2}
  Caller = {c1, c2}
  NoVm = NoVm
  NoSession = NoSession
SPECIFICATION FairSpec
INVARIANTS ConnectedHasSocket
PROPERTIES ImplementsRegistry SuccessIsAccepted ConnectSettles
CHECK_DEADLOCK FALSE
