-------------------------- MODULE OneSessionPerVm --------------------------
(***************************************************************************)
(* What a session manager promises: "multiple sessions, one per VM".  A    *)
(* session is live from the moment it can carry input to the guest until   *)
(* it is closed.  Connecting, and all that can go wrong in it, is          *)
(* invisible here.                                                         *)
(***************************************************************************)
CONSTANTS VM, Session

VARIABLE live     \* VM -> its live sessions

TypeOK == live \in [VM -> SUBSET Session]

Init == live = [v \in VM |-> {}]

\* A connect succeeds: s, live nowhere, becomes the only session of v.
Open(v, s) ==
  /\ live[v] = {}
  /\ \A w \in VM : s \notin live[w]
  /\ live' = [live EXCEPT ![v] = {s}]

\* Sessions end: closed by the program, or lost.
Close(D) == live' = [v \in VM |-> live[v] \ D]

Next ==
  \/ \E v \in VM, s \in Session : Open(v, s)
  \/ \E D \in SUBSET Session : Close(D)

Spec == Init /\ [][Next]_live

\* No VM has two live sessions.
AtMostOne == \A v \in VM : \A s, t \in live[v] : s = t
=============================================================================
