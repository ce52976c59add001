\* Two VMs, two session objects (so that a VM's old session can still be
\* closing while its new one connects), two concurrent callers; no symmetry,
\* for the liveness properties.
CONSTANTS
  VM = {v1, v2}
  Session = {s1, s2}
  Caller = {c1, c2}
  NoVm = NoVm
  NoSession = NoSession
SPECIFICATION FairSpec
INVARIANTS RegistryExact PendingIsRunning OpenIsAttached
PROPERTIES ResolvedIsUsable ImplementsRegistry ConnectSettles FailedIsClosed
