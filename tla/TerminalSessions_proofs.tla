---------------------- MODULE TerminalSessions_proofs ----------------------
(***************************************************************************)
(* Theorems about TerminalSessions, for every set of VMs, sessions and     *)
(* callers and however tool calls overlap; the last section shows that one *)
(* session per VM is kept for a VM until calls for it overlap.             *)
(*                                                                         *)
(* The manager registers a session before it connects and keeps it after   *)
(* its death.  What can be relied on is about one session at a time: a     *)
(* session that still waits for the API has no socket, so nothing can      *)
(* connect it, and every way to lose the socket takes _connected along.    *)
(***************************************************************************)
EXTENDS TerminalSessions, TLAPS

\* Facts about one session.
SocketOK(s) ==
  /\ phase[s] \in ApiPhase \cup {"free"} => ws[s] = "none"
  /\ conn[s] => /\ attached[s] /\ ws[s] \in {"open", "closing"}
                /\ phase[s] \notin ApiPhase

\* Facts about the map: its entries are of the VM, and objects never used are
\* not in it.
MapOK ==
  /\ \A v \in VM : sessions[v] # NoSession => vm[sessions[v]] = v
  /\ \A v \in VM, s \in Session : phase[s] = "free" => sessions[v] # s

IInv == TypeOK /\ MapOK /\ \A s \in Session : SocketOK(s)

-----------------------------------------------------------------------------
(* Type correctness *)

LEMMA FailTypes ==
  ASSUME TypeOK, NEW s \in Session, Fail(s)
  PROVE  /\ phase' \in [Session -> Phase]
         /\ waits' \in [Caller -> Session \cup {NoSession}]
         /\ outcome' \in [Caller -> {"none", "ok", "error"}]
BY DEF Fail, TypeOK, Phase, Running, ApiPhase

LEMMA DisconnectedTypes ==
  ASSUME TypeOK, NEW D, Disconnected(D)
  PROVE  /\ conn' \in [Session -> BOOLEAN]
         /\ attached' \in [Session -> BOOLEAN]
         /\ disposed' \in [Session -> BOOLEAN]
         /\ ws' \in [Session -> WsState]
BY DEF Disconnected, TypeOK, WsState

LEMMA CreatedTypes ==
  ASSUME TypeOK, NEW c \in Caller, NEW v \in VM, NEW s \in Session, Created(c, v, s)
  PROVE  /\ sessions' \in [VM -> Session \cup {NoSession}]
         /\ vm' \in [Session -> VM \cup {NoVm}]
         /\ phase' \in [Session -> Phase]
         /\ auth' \in [Session -> {"no", "settling", "yes"}]
         /\ wire' \in [Session -> {"none", "ok", "bad"}]
         /\ waits' \in [Caller -> Session \cup {NoSession}]
BY DEF Created, TypeOK, Phase, Running, ApiPhase

LEMMA BeginsTypes ==
  ASSUME TypeOK, NEW W \in SUBSET VM, Begins(W)
  PROVE  overlapped' \subseteq VM
BY DEF Begins, TypeOK

LEMMA CallerTypes ==
  ASSUME TypeOK, NEW c \in Caller, CallerStep(c)
  PROVE  TypeOK'
<1>1. ASSUME NEW v \in VM, ReturnExisting(c, v) PROVE TypeOK'
  BY <1>1 DEF ReturnExisting, Up, TypeOK, sessVars
<1>2. ASSUME NEW v \in VM, StartLookup(c, v) PROVE TypeOK'
  <2>1. Disconnected({sessions[v]})
    BY <1>2 DEF StartLookup
  <2>2. overlapped' \subseteq VM
    BY <1>2, BeginsTypes DEF StartLookup
  <2>3. QED BY <1>2, <2>1, <2>2, DisconnectedTypes DEF StartLookup, Up, TypeOK
<1>3. ASSUME NEW v \in VM, NEW s \in Session, StartConnect(c, v, s) PROVE TypeOK'
  <2>1. Created(c, v, s)
    BY <1>3 DEF StartConnect
  <2>2. /\ conn' \in [Session -> BOOLEAN] /\ attached' \in [Session -> BOOLEAN]
        /\ disposed' \in [Session -> BOOLEAN] /\ ws' \in [Session -> WsState]
    BY <1>3 DEF StartConnect, TypeOK, WsState
  <2>3. overlapped' \subseteq VM
    BY <1>3, BeginsTypes DEF StartConnect
  <2>4. QED BY <1>3, <2>1, <2>2, <2>3, CreatedTypes DEF StartConnect, Up, TypeOK
<1>4. ASSUME NEW s \in Session, NodeAnswers(c, s) PROVE TypeOK'
  <2>1. looking[c] \in VM /\ Created(c, looking[c], s)
    BY <1>4 DEF NodeAnswers, TypeOK
  <2>2. /\ conn' \in [Session -> BOOLEAN] /\ attached' \in [Session -> BOOLEAN]
        /\ disposed' \in [Session -> BOOLEAN] /\ ws' \in [Session -> WsState]
    BY <1>4 DEF NodeAnswers, TypeOK, WsState
  <2>3. QED BY <1>4, <2>1, <2>2, CreatedTypes DEF NodeAnswers, Up, TypeOK
<1>5. CASE NodeFails(c)
  BY <1>5 DEF NodeFails, Up, TypeOK, sessVars
<1>6. QED BY <1>1, <1>2, <1>3, <1>4, <1>5 DEF CallerStep

LEMMA SessionTypes ==
  ASSUME TypeOK, NEW s \in Session, SessionStep(s)
  PROVE  TypeOK'
<1>1. CASE ApiFails(s)
  BY <1>1, FailTypes DEF ApiFails, Up, TypeOK
<1>2. CASE ApiAnswers(s)
  BY <1>2 DEF ApiAnswers, Up, TypeOK, callerVars, Phase, Running, ApiPhase, WsState
<1>3. CASE TimesOut(s)
  <2>1. ws' \in [Session -> WsState]
    BY <1>3 DEF TimesOut, TypeOK, WsState
  <2>2. QED BY <1>3, <2>1, FailTypes DEF TimesOut, Up, TypeOK
<1>4. CASE WsOpens(s) \/ PeerCloses(s)
  BY <1>4 DEF WsOpens, PeerCloses, Up, TypeOK, callerVars, WsState
<1>5. CASE WsErrors(s)
  <2>1. ws' \in [Session -> WsState] /\ wire' \in [Session -> {"none", "ok", "bad"}]
    BY <1>5 DEF WsErrors, TypeOK, WsState
  <2>2. QED BY <1>5, <2>1, FailTypes DEF WsErrors, Up, TypeOK
<1>6. CASE WsCloses(s)
  <2>1. /\ ws' \in [Session -> WsState] /\ wire' \in [Session -> {"none", "ok", "bad"}]
        /\ conn' \in [Session -> BOOLEAN]
    BY <1>6 DEF WsCloses, TypeOK, WsState
  <2>2. CASE conn[s]
    BY <1>6, <2>1, <2>2 DEF WsCloses, Up, TypeOK
  <2>3. CASE ~conn[s]
    BY <1>6, <2>1, <2>3, FailTypes DEF WsCloses, Up, TypeOK
  <2>4. QED BY <2>2, <2>3
<1>7. CASE Accepted(s) \/ AcceptedDetached(s)
  BY <1>7 DEF Accepted, AcceptedDetached, Up, TypeOK, callerVars
<1>8. CASE Refused(s)
  <2>1. wire' \in [Session -> {"none", "ok", "bad"}]
    BY <1>8 DEF Refused, TypeOK
  <2>2. QED BY <1>8, <2>1, FailTypes DEF Refused, Up, TypeOK
<1>9. CASE Settles(s)
  <2>1. auth' \in [Session -> {"no", "settling", "yes"}]
    BY <1>9 DEF Settles, TypeOK
  <2>2. CASE phase[s] = "handshake"
    <3>1. /\ phase' \in [Session -> Phase]
          /\ waits' \in [Caller -> Session \cup {NoSession}]
          /\ outcome' \in [Caller -> {"none", "ok", "error"}]
          /\ activeTermVmid' \in VM \cup {NoVm}
      BY <1>9, <2>2 DEF Settles, TypeOK, Phase, Running, ApiPhase
    <3>2. QED BY <1>9, <2>1, <3>1 DEF Settles, Up, TypeOK
  <2>3. CASE phase[s] # "handshake"
    BY <1>9, <2>1, <2>3 DEF Settles, Up, TypeOK
  <2>4. QED BY <2>2, <2>3
<1>10. QED
  BY <1>1, <1>2, <1>3, <1>4, <1>5, <1>6, <1>7, <1>8, <1>9 DEF SessionStep

LEMMA StepTypes == TypeOK /\ [Next]_vars => TypeOK'
<1> SUFFICES ASSUME TypeOK, [Next]_vars PROVE TypeOK'
  OBVIOUS
<1>1. ASSUME NEW v \in VM, Disconnect(v) PROVE TypeOK'
  <2>1. Disconnected({sessions[v]})
    BY <1>1 DEF Disconnect
  <2>2. sessions' \in [VM -> Session \cup {NoSession}] /\ activeTermVmid' \in VM \cup {NoVm}
    BY <1>1 DEF Disconnect, Deleted, TypeOK
  <2>3. overlapped' \subseteq VM
    BY <1>1, BeginsTypes DEF Disconnect
  <2>4. QED BY <1>1, <2>1, <2>2, <2>3, DisconnectedTypes DEF Disconnect, Up, TypeOK, callerVars
<1>2. CASE DisconnectAll
  <2>1. Disconnected({sessions[v] : v \in VM})
    BY <1>2 DEF DisconnectAll
  <2>2. sessions' \in [VM -> Session \cup {NoSession}]
    BY <1>2 DEF DisconnectAll
  <2>3. overlapped' \subseteq VM
    BY <1>2, BeginsTypes DEF DisconnectAll
  <2>4. QED BY <1>2, <2>1, <2>2, <2>3, DisconnectedTypes DEF DisconnectAll, Up, TypeOK, callerVars
<1>3. CASE UNCHANGED vars
  BY <1>3 DEF TypeOK, vars, sessVars, callerVars
<1>4. QED BY <1>1, <1>2, <1>3, CallerTypes, SessionTypes DEF Next

LEMMA InitTypes == Init => TypeOK
<1> SUFFICES ASSUME Init PROVE TypeOK
  OBVIOUS
<1>1. crashed \in BOOLEAN
  BY DEF Init
<1>2. QED BY <1>1 DEF Init, TypeOK, Phase, Running, ApiPhase, WsState

\* Every variable keeps the shape the module declares for it.
THEOREM TypeCorrect == Spec => []TypeOK
BY InitTypes, StepTypes, PTL DEF Spec

-----------------------------------------------------------------------------
(* The map and the sockets *)

\* disconnect() takes the socket and _connected together.
LEMMA SocketDisconnected ==
  ASSUME TypeOK, NEW D, Disconnected(D), NEW t \in Session, SocketOK(t),
         phase'[t] = phase[t]
  PROVE  SocketOK(t)'
BY DEF SocketOK, Disconnected, TypeOK, ApiPhase

\* fail() only moves a phase to "failed".
LEMMA SocketFailed ==
  ASSUME TypeOK, NEW s \in Session, Fail(s), NEW t \in Session, SocketOK(t),
         attached'[t] = attached[t], conn'[t] => conn[t],
         ws'[t] = ws[t] \/ (ws[t] # "none" /\ (ws'[t] = "closing" \/ ~conn'[t]))
  PROVE  SocketOK(t)'
BY DEF SocketOK, Fail, TypeOK, ApiPhase, Running

LEMMA MapFailed ==
  ASSUME TypeOK, MapOK, NEW s \in Session, Fail(s), UNCHANGED <<sessions, vm>>
  PROVE  MapOK'
BY DEF MapOK, Fail, TypeOK, Running, ApiPhase

\* The session created is in no entry, so that only the one of v changes.
LEMMA MapCreated ==
  ASSUME TypeOK, MapOK, NEW c \in Caller, NEW v \in VM, NEW s \in Session, Created(c, v, s)
  PROVE  MapOK'
<1>1. \A w \in VM : sessions[w] # s
  BY NoSessionAssumption DEF Created, Fresh, MapOK
<1>2. QED BY <1>1, NoSessionAssumption DEF Created, MapOK, TypeOK

LEMMA SocketCreated ==
  ASSUME TypeOK, NEW c \in Caller, NEW v \in VM, NEW s \in Session, Created(c, v, s),
         NEW t \in Session, SocketOK(t),
         t = s => ws'[t] = "none" /\ ~conn'[t],
         t # s => /\ conn'[t] => conn[t] /\ attached'[t]
                  /\ ws'[t] = ws[t] \/ (ws[t] \in {"connecting", "open"} /\ ws'[t] = "closing")
  PROVE  SocketOK(t)'
<1>1. CASE t = s
  BY <1>1 DEF SocketOK
<1>2. CASE t # s
  BY <1>2 DEF SocketOK, Created, TypeOK, ApiPhase
<1>3. QED BY <1>1, <1>2

LEMMA CallerSockets ==
  ASSUME IInv, NEW c \in Caller, CallerStep(c)
  PROVE  MapOK' /\ \A t \in Session : SocketOK(t)'
<1> USE DEF IInv
<1>1. ASSUME NEW v \in VM, ReturnExisting(c, v) PROVE MapOK' /\ \A t \in Session : SocketOK(t)'
  BY <1>1 DEF ReturnExisting, sessVars, MapOK, SocketOK
<1>2. ASSUME NEW v \in VM, StartLookup(c, v) PROVE MapOK' /\ \A t \in Session : SocketOK(t)'
  <2>1. Disconnected({sessions[v]}) /\ UNCHANGED <<sessions, vm, phase>>
    BY <1>2 DEF StartLookup
  <2>2. QED BY <2>1, SocketDisconnected DEF MapOK
<1>3. ASSUME NEW v \in VM, NEW s \in Session, StartConnect(c, v, s)
      PROVE  MapOK' /\ \A t \in Session : SocketOK(t)'
  <2>1. Created(c, v, s)
    BY <1>3 DEF StartConnect
  <2>2. ASSUME NEW t \in Session PROVE SocketOK(t)'
    <3>1. t = s => ws'[t] = "none" /\ ~conn'[t]
      BY <1>3, <2>2 DEF StartConnect
    <3>2. t # s => (conn'[t] => conn[t] /\ attached'[t])
      BY <1>3, <2>2 DEF StartConnect, SocketOK
    <3>3. t # s => ws'[t] = ws[t] \/ (ws[t] \in {"connecting", "open"} /\ ws'[t] = "closing")
      BY <1>3, <2>2 DEF StartConnect
    <3>4. QED BY <2>1, <2>2, <3>1, <3>2, <3>3, SocketCreated
  <2>3. QED BY <2>1, <2>2, MapCreated
<1>4. ASSUME NEW s \in Session, NodeAnswers(c, s)
      PROVE  MapOK' /\ \A t \in Session : SocketOK(t)'
  <2>1. looking[c] \in VM /\ Created(c, looking[c], s)
    BY <1>4 DEF NodeAnswers, TypeOK
  <2>2. ASSUME NEW t \in Session PROVE SocketOK(t)'
    <3>1. t = s => ws'[t] = "none" /\ ~conn'[t]
      BY <1>4, <2>2 DEF NodeAnswers, TypeOK
    <3>2. t # s => /\ conn'[t] => conn[t] /\ attached'[t]
                   /\ ws'[t] = ws[t]
      BY <1>4, <2>2 DEF NodeAnswers, TypeOK, SocketOK
    <3>3. QED BY <2>1, <2>2, <3>1, <3>2, SocketCreated
  <2>3. QED BY <2>1, <2>2, MapCreated
<1>5. CASE NodeFails(c)
  BY <1>5 DEF NodeFails, sessVars, MapOK, SocketOK
<1>6. QED BY <1>1, <1>2, <1>3, <1>4, <1>5 DEF CallerStep

LEMMA SessionSockets ==
  ASSUME IInv, NEW s \in Session, SessionStep(s)
  PROVE  MapOK' /\ \A t \in Session : SocketOK(t)'
<1> USE DEF IInv
<1>1. CASE ApiFails(s)
  <2>1. Fail(s) /\ UNCHANGED <<sessions, vm, ws, attached, conn>>
    BY <1>1 DEF ApiFails
  <2>2. QED BY <2>1, MapFailed, SocketFailed
<1>2. CASE ApiAnswers(s)
  <2>1. MapOK'
    BY <1>2 DEF ApiAnswers, MapOK, TypeOK, ApiPhase
  <2>2. ASSUME NEW t \in Session PROVE SocketOK(t)'
    BY <1>2, <2>2 DEF ApiAnswers, SocketOK, TypeOK, ApiPhase
  <2>3. QED BY <2>1, <2>2
<1>3. CASE TimesOut(s)
  <2>1. Fail(s) /\ UNCHANGED <<sessions, vm, attached, conn>>
    BY <1>3 DEF TimesOut
  <2>2. \A t \in Session : ws'[t] = ws[t] \/ (ws[t] # "none" /\ ws'[t] = "closing")
    BY <1>3 DEF TimesOut, TypeOK
  <2>3. QED BY <2>1, <2>2, MapFailed, SocketFailed
<1>4. CASE WsOpens(s) \/ PeerCloses(s)
  BY <1>4 DEF WsOpens, PeerCloses, MapOK, SocketOK, TypeOK, callerVars
<1>5. CASE WsErrors(s)
  <2>1. Fail(s) /\ UNCHANGED <<sessions, vm, attached, conn>>
    BY <1>5 DEF WsErrors
  <2>2. \A t \in Session : ws'[t] = ws[t] \/ (ws[t] # "none" /\ ws'[t] = "closing")
    BY <1>5 DEF WsErrors, TypeOK
  <2>3. QED BY <2>1, <2>2, MapFailed, SocketFailed
<1>6. CASE WsCloses(s)
  <2>1. UNCHANGED <<sessions, vm, attached>>
    BY <1>6 DEF WsCloses
  <2>2. ASSUME NEW t \in Session
        PROVE  /\ conn'[t] => conn[t]
               /\ ws'[t] = ws[t] \/ (ws[t] # "none" /\ (ws'[t] = "closing" \/ ~conn'[t]))
    BY <1>6, <2>2 DEF WsCloses, TypeOK
  <2>3. CASE conn[s]
    <3>1. phase' = phase
      BY <1>6, <2>3 DEF WsCloses
    <3>2. MapOK'
      BY <2>1, <3>1 DEF MapOK
    <3>3. ASSUME NEW t \in Session PROVE SocketOK(t)'
      <4>1. SocketOK(t)
        OBVIOUS
      <4>2. phase[t] \in ApiPhase \cup {"free"} => ws'[t] = "none"
        BY <2>2, <4>1 DEF SocketOK
      <4>3. conn'[t] => attached[t] /\ ws'[t] \in {"open", "closing"} /\ phase[t] \notin ApiPhase
        BY <2>2, <4>1 DEF SocketOK
      <4>4. QED BY <2>1, <3>1, <4>2, <4>3 DEF SocketOK
    <3>4. QED BY <3>2, <3>3
  <2>4. CASE ~conn[s]
    <3>1. Fail(s)
      BY <1>6, <2>4 DEF WsCloses
    <3>2. MapOK'
      BY <2>1, <3>1, MapFailed
    <3>3. ASSUME NEW t \in Session PROVE SocketOK(t)'
      BY <2>1, <2>2, <3>1, SocketFailed
    <3>4. QED BY <3>2, <3>3
  <2>5. QED BY <2>3, <2>4
<1>7. CASE Accepted(s)
  BY <1>7 DEF Accepted, MapOK, SocketOK, TypeOK, callerVars, ApiPhase
<1>8. CASE AcceptedDetached(s)
  BY <1>8 DEF AcceptedDetached, MapOK, SocketOK, sessVars
<1>9. CASE Refused(s)
  <2>1. Fail(s) /\ UNCHANGED <<sessions, vm, ws, attached, conn>>
    BY <1>9 DEF Refused
  <2>2. QED BY <2>1, MapFailed, SocketFailed
<1>10. CASE Settles(s)
  <2>1. UNCHANGED <<sessions, vm, ws, attached, conn>>
    BY <1>10 DEF Settles
  <2>2. \A t \in Session : phase'[t] = phase[t] \/ (phase[t] = "handshake" /\ phase'[t] = "done")
    BY <1>10 DEF Settles, TypeOK
  <2>3. QED BY <2>1, <2>2 DEF MapOK, SocketOK, ApiPhase
<1>11. QED
  BY <1>1, <1>2, <1>3, <1>4, <1>5, <1>6, <1>7, <1>8, <1>9, <1>10 DEF SessionStep

LEMMA StepSockets == IInv /\ [Next]_vars => IInv'
<1> SUFFICES ASSUME IInv, [Next]_vars PROVE IInv'
  OBVIOUS
<1>1. TypeOK'
  BY StepTypes DEF IInv
<1>2. ASSUME NEW v \in VM, Disconnect(v) PROVE MapOK' /\ \A t \in Session : SocketOK(t)'
  <2>1. Disconnected({sessions[v]}) /\ UNCHANGED <<vm, phase>>
    BY <1>2 DEF Disconnect
  <2>2. MapOK'
    BY <1>2, <2>1, NoSessionAssumption DEF Disconnect, Deleted, MapOK, IInv, TypeOK
  <2>3. QED BY <2>1, <2>2, SocketDisconnected DEF IInv
<1>3. ASSUME DisconnectAll PROVE MapOK' /\ \A t \in Session : SocketOK(t)'
  <2>1. Disconnected({sessions[v] : v \in VM}) /\ UNCHANGED <<vm, phase>>
    BY <1>3 DEF DisconnectAll
  <2>2. MapOK'
    BY <1>3, <2>1, NoSessionAssumption DEF DisconnectAll, MapOK
  <2>3. ASSUME NEW t \in Session PROVE SocketOK(t)'
    <3>1. PICK D : Disconnected(D)
      BY <2>1
    <3>2. QED BY <2>1, <3>1, SocketDisconnected DEF IInv
  <2>4. QED BY <2>2, <2>3
<1>4. ASSUME UNCHANGED vars PROVE MapOK' /\ \A t \in Session : SocketOK(t)'
  BY <1>4 DEF IInv, MapOK, SocketOK, vars, sessVars, callerVars
<1>5. MapOK' /\ \A t \in Session : SocketOK(t)'
  BY <1>2, <1>3, <1>4, CallerSockets, SessionSockets DEF Next, IInv
<1>6. QED BY <1>1, <1>5 DEF IInv

LEMMA InitSockets == Init => IInv
<1> SUFFICES ASSUME Init PROVE IInv
  OBVIOUS
<1>1. TypeOK
  BY InitTypes
<1>2. MapOK
  BY NoSessionAssumption DEF Init, MapOK
<1>3. \A s \in Session : SocketOK(s)
  BY DEF Init, SocketOK
<1>4. QED BY <1>1, <1>2, <1>3 DEF IInv

\* What the manager calls connected has a socket that is not closed, and what
\* its map holds for a VM is a session of that VM, however calls overlap.
THEOREM ConnectedSessionsHaveSockets == Spec => []ConnectedHasSocket
<1>1. IInv => ConnectedHasSocket
  BY DEF IInv, MapOK, SocketOK, ConnectedHasSocket
<1>2. QED BY <1>1, InitSockets, StepSockets, PTL DEF Spec

-----------------------------------------------------------------------------
(* Success *)

\* A step at which no call returns "ok".
SilentStep == \A c \in Caller : waits[c] # NoSession /\ waits'[c] = NoSession => outcome'[c] # "ok"

LEMMA SilentFail ==
  ASSUME NEW s \in Session, TypeOK, Fail(s)
  PROVE  SilentStep
BY DEF Fail, SilentStep, TypeOK

LEMMA SuccessStep ==
  ASSUME TypeOK, [Next]_vars
  PROVE  SilentStep \/ \E s \in Session : Settles(s)
<1>1. ASSUME NEW c \in Caller, CallerStep(c) PROVE SilentStep
  <2>1. ASSUME NEW v \in VM, ReturnExisting(c, v) \/ StartLookup(c, v) PROVE SilentStep
    BY <2>1 DEF ReturnExisting, StartLookup, SilentStep
  <2>2. ASSUME NEW v \in VM, NEW s \in Session, StartConnect(c, v, s) PROVE SilentStep
    BY <2>2, NoSessionAssumption DEF StartConnect, Created, SilentStep, TypeOK
  <2>3. ASSUME NEW s \in Session, NodeAnswers(c, s) PROVE SilentStep
    BY <2>3, NoSessionAssumption DEF NodeAnswers, Created, SilentStep, TypeOK
  <2>4. CASE NodeFails(c)
    BY <2>4 DEF NodeFails, SilentStep
  <2>5. QED BY <1>1, <2>1, <2>2, <2>3, <2>4 DEF CallerStep
<1>2. ASSUME NEW v \in VM, Disconnect(v) PROVE SilentStep
  BY <1>2 DEF Disconnect, callerVars, SilentStep
<1>3. CASE DisconnectAll
  BY <1>3 DEF DisconnectAll, callerVars, SilentStep
<1>4. ASSUME NEW s \in Session, SessionStep(s), ~Settles(s) PROVE SilentStep
  <2>1. CASE ApiFails(s) \/ TimesOut(s) \/ WsErrors(s) \/ Refused(s)
    BY <2>1, SilentFail DEF ApiFails, TimesOut, WsErrors, Refused
  <2>2. CASE WsCloses(s)
    <3>1. CASE conn[s]
      BY <2>2, <3>1 DEF WsCloses, SilentStep
    <3>2. CASE ~conn[s]
      BY <2>2, <3>2, SilentFail DEF WsCloses
    <3>3. QED BY <3>1, <3>2
  <2>3. CASE ApiAnswers(s) \/ WsOpens(s) \/ PeerCloses(s) \/ Accepted(s) \/ AcceptedDetached(s)
    BY <2>3 DEF ApiAnswers, WsOpens, PeerCloses, Accepted, AcceptedDetached, callerVars, SilentStep
  <2>4. QED BY <1>4, <2>1, <2>2, <2>3 DEF SessionStep
<1>5. CASE UNCHANGED vars
  BY <1>5 DEF vars, callerVars, SilentStep
<1>6. QED BY <1>1, <1>2, <1>3, <1>4, <1>5 DEF Next

AcceptedStep ==
  \A c \in Caller : waits[c] # NoSession /\ waits'[c] = NoSession /\ outcome'[c] = "ok"
                      => auth[waits[c]] # "no"

LEMMA StepAccepted == TypeOK /\ [Next]_vars => AcceptedStep
<1> SUFFICES ASSUME TypeOK, [Next]_vars PROVE AcceptedStep
  OBVIOUS
<1>1. CASE SilentStep
  BY <1>1 DEF SilentStep, AcceptedStep
<1>2. ASSUME NEW s \in Session, Settles(s) PROVE AcceptedStep
  <2>1. auth[s] = "settling"
    BY <1>2 DEF Settles
  <2>2. \A c \in Caller : waits[c] # s => waits'[c] = waits[c]
    BY <1>2 DEF Settles, TypeOK
  <2>3. QED BY <2>1, <2>2 DEF AcceptedStep
<1>3. QED BY <1>1, <1>2, SuccessStep

\* serial_connect reports success only for a session termproxy has accepted.
THEOREM SuccessOnlyIfAccepted == Spec => SuccessIsAccepted
<1>1. TypeOK /\ [Next]_vars => [AcceptedStep]_vars
  BY StepAccepted
<1>2. Spec => [][AcceptedStep]_vars
  BY <1>1, TypeCorrect, PTL DEF Spec
<1>3. QED BY <1>2 DEF AcceptedStep, SuccessIsAccepted

-----------------------------------------------------------------------------
(* One session per VM, for the VMs whose calls have not overlapped *)

\* One call connects to the VM.
OneConnect ==
  \A v \in VM \ overlapped, c, d \in Caller : Connecting(c, v) /\ Connecting(d, v) => c = d

\* A call looks up a node or awaits a connect that is under way; while it looks
\* up, the entry it will replace has no socket.
CallerOK(c) ==
  /\ looking[c] # NoVm => waits[c] = NoSession
  /\ looking[c] \in VM \ overlapped => \A s \in Session : vm[s] = looking[c] => ~attached[s]
  /\ waits[c] # NoSession => phase[waits[c]] \in Running

\* A session that is being connected has its caller; it is its VM's entry, as is
\* every session with a socket, so that the next call for the VM finds it.
EntryOK(s) ==
  /\ phase[s] \in Running => \E c \in Caller : waits[c] = s
  /\ vm[s] \in VM \ overlapped /\ (attached[s] \/ phase[s] \in Running)
       => sessions[vm[s]] = s

Alone ==
  /\ OneConnect
  /\ \A c \in Caller : CallerOK(c)
  /\ \A s \in Session : EntryOK(s)

AloneInv == IInv /\ Alone

LEMMA InitAlone == Init => Alone
<1> SUFFICES ASSUME Init PROVE Alone
  OBVIOUS
<1>1. OneConnect
  BY NoVmAssumption DEF Init, OneConnect, Connecting
<1>2. \A c \in Caller : CallerOK(c)
  BY NoVmAssumption DEF Init, CallerOK
<1>3. \A s \in Session : EntryOK(s)
  BY NoVmAssumption DEF Init, EntryOK, Running, ApiPhase
<1>4. QED
  BY <1>1, <1>2, <1>3 DEF Alone

\* No session of a VM is being connected while no call connects to it.
LEMMA NoneRuns ==
  ASSUME TypeOK, Alone, NEW v \in VM, \A c \in Caller : ~Connecting(c, v),
         NEW s \in Session, vm[s] = v
  PROVE  phase[s] \notin Running
BY NoSessionAssumption DEF Alone, EntryOK, Connecting

\* disconnect() of the sessions in D, those of the VMs in W, to which no call
\* connects unless it is overlapped.
LEMMA AloneDisconnected ==
  ASSUME TypeOK, Alone, NEW D, Disconnected(D), NEW W \in SUBSET VM,
         UNCHANGED <<looking, waits, vm, phase>>, overlapped \subseteq overlapped',
         \A v \in W : sessions[v] \in D,
         \A v \in VM \ W : sessions'[v] = sessions[v],
         \A v \in W \ overlapped', c \in Caller : ~Connecting(c, v)
  PROVE  Alone'
<1>1. \A t \in Session : attached'[t] => attached[t] /\ t \notin D
  BY DEF Disconnected
<1>2. OneConnect'
  BY DEF Alone, OneConnect, Connecting
<1>3. \A c \in Caller : CallerOK(c)'
  BY <1>1 DEF Alone, CallerOK
<1>4. ASSUME NEW s \in Session PROVE EntryOK(s)'
  <2>1. EntryOK(s)
    BY DEF Alone
  <2>2. ASSUME vm[s] \in VM \ overlapped', attached'[s] \/ phase[s] \in Running
        PROVE  sessions'[vm[s]] = s
    <3>1. sessions[vm[s]] = s
      BY <1>1, <2>1, <2>2 DEF EntryOK
    <3>2. CASE vm[s] \in W
      BY <1>1, <2>2, <3>1, <3>2, NoneRuns
    <3>3. QED
      BY <2>2, <3>1, <3>2
  <2>3. QED
    BY <2>1, <2>2 DEF EntryOK
<1>5. QED
  BY <1>2, <1>3, <1>4 DEF Alone

\* A new session takes the place of one without a socket, for the one call that
\* connects to its VM.
LEMMA AloneCreated ==
  ASSUME TypeOK, Alone, NEW c \in Caller, NEW v \in VM, NEW s \in Session,
         Created(c, v, s),
         overlapped \subseteq overlapped',
         waits[c] = NoSession, looking' = [looking EXCEPT ![c] = NoVm],
         v \notin overlapped' => /\ \A d \in Caller : d # c => ~Connecting(d, v)
                                 /\ \A t \in Session : vm[t] = v /\ t # s => ~attached'[t],
         \A t \in Session : attached'[t] => attached[t] /\ t # s
  PROVE  Alone'
<1>1. /\ waits'[c] = s /\ phase'[s] = "proxy" /\ sessions'[v] = s /\ vm'[s] = v
      /\ looking'[c] = NoVm
      /\ \A d \in Caller : d # c => waits'[d] = waits[d] /\ looking'[d] = looking[d]
      /\ \A t \in Session : t # s => phase'[t] = phase[t] /\ vm'[t] = vm[t]
      /\ \A w \in VM : w # v => sessions'[w] = sessions[w]
  BY DEF Created, TypeOK
<1>2. phase[s] \notin Running
  BY DEF Created, Fresh, Running, ApiPhase
<1>3. \A d \in Caller : waits[d] \in Session \cup {NoSession} /\ waits[d] # s
  BY <1>2, NoSessionAssumption DEF Alone, CallerOK, TypeOK
<1>4. \A d \in Caller, w \in VM : d # c => (Connecting(d, w)' <=> Connecting(d, w))
  BY <1>1, <1>3 DEF Connecting
<1>5. \A w \in VM : Connecting(c, w)' => w = v
  BY <1>1, NoVmAssumption DEF Connecting
<1>6. OneConnect'
  <2> SUFFICES ASSUME NEW w \in VM \ overlapped', NEW d \in Caller, NEW e \in Caller,
                      Connecting(d, w)', Connecting(e, w)'
               PROVE  d = e
    BY DEF OneConnect
  <2>1. CASE d # c /\ e # c
    BY <1>4, <2>1 DEF Alone, OneConnect
  <2>2. CASE d = c \/ e = c
    BY <1>4, <1>5, <2>2
  <2>3. QED
    BY <2>1, <2>2
<1>7. ASSUME NEW d \in Caller PROVE CallerOK(d)'
  <2>1. CASE d = c
    BY <1>1, <2>1, NoVmAssumption DEF CallerOK, Running, ApiPhase
  <2>2. CASE d # c
    <3>1. CallerOK(d) /\ looking'[d] = looking[d] /\ waits'[d] = waits[d]
      BY <1>1, <2>2 DEF Alone
    <3>2. ASSUME looking[d] \in VM \ overlapped', NEW t \in Session, vm'[t] = looking[d]
          PROVE  ~attached'[t]
      BY <1>1, <3>1, <3>2 DEF CallerOK
    <3>3. waits[d] # NoSession => phase'[waits[d]] \in Running
      BY <1>1, <1>3, <3>1 DEF CallerOK
    <3>4. QED
      BY <3>1, <3>2, <3>3 DEF CallerOK
  <2>3. QED
    BY <2>1, <2>2
<1>8. ASSUME NEW t \in Session PROVE EntryOK(t)'
  <2>1. CASE t = s
    BY <1>1, <2>1 DEF EntryOK
  <2>2. CASE t # s
    <3>1. EntryOK(t) /\ phase'[t] = phase[t] /\ vm'[t] = vm[t]
      BY <1>1, <2>2 DEF Alone
    <3>2. phase[t] \in Running => \E d \in Caller : waits'[d] = t
      BY <1>1, <3>1, NoSessionAssumption DEF EntryOK
    <3>3. ASSUME vm[t] \in VM \ overlapped', attached'[t] \/ phase[t] \in Running
          PROVE  vm[t] # v /\ sessions[vm[t]] = t
      <4>1. CASE attached'[t]
        BY <2>2, <3>1, <3>3, <4>1 DEF EntryOK
      <4>2. CASE phase[t] \in Running
        <5>1. PICK d \in Caller : waits[d] = t
          BY <3>1, <4>2 DEF EntryOK
        <5>2. d # c /\ Connecting(d, vm[t])
          BY <5>1, NoSessionAssumption DEF Connecting
        <5>3. QED
          BY <3>1, <3>3, <4>2, <5>2 DEF EntryOK
      <4>3. QED
        BY <3>3, <4>1, <4>2
    <3>4. QED
      BY <1>1, <3>1, <3>2, <3>3 DEF EntryOK
  <2>3. QED
    BY <2>1, <2>2
<1>9. QED
  BY <1>6, <1>7, <1>8 DEF Alone

\* A connect ends, for its caller as for its session.
LEMMA AloneEnded ==
  ASSUME TypeOK, Alone, NEW s \in Session, phase[s] \in Running,
         waits' = [c \in Caller |-> IF waits[c] = s THEN NoSession ELSE waits[c]],
         \E p \in {"done", "failed"} : phase' = [phase EXCEPT ![s] = p],
         UNCHANGED <<sessions, looking, vm, attached, overlapped>>
  PROVE  Alone'
<1>1. /\ \A t \in Session : t # s => phase'[t] = phase[t]
      /\ phase'[s] \notin Running
      /\ \A c \in Caller : waits'[c] = IF waits[c] = s THEN NoSession ELSE waits[c]
  BY DEF TypeOK, Running, ApiPhase
<1>2. OneConnect'
  BY <1>1 DEF Alone, OneConnect, Connecting
<1>3. \A c \in Caller : CallerOK(c)'
  BY <1>1 DEF Alone, CallerOK, TypeOK
<1>4. \A t \in Session : EntryOK(t)'
  BY <1>1 DEF Alone, EntryOK
<1>5. QED
  BY <1>2, <1>3, <1>4 DEF Alone

LEMMA AloneUnchanged ==
  ASSUME Alone, UNCHANGED <<sessions, looking, waits, vm, phase, attached, overlapped>>
  PROVE  Alone'
<1>1. OneConnect'
  BY DEF Alone, OneConnect, Connecting
<1>2. \A c \in Caller : CallerOK(c)'
  BY DEF Alone, CallerOK
<1>3. \A s \in Session : EntryOK(s)'
  BY DEF Alone, EntryOK
<1>4. QED
  BY <1>1, <1>2, <1>3 DEF Alone

LEMMA AloneFailed ==
  ASSUME TypeOK, Alone, NEW s \in Session, Fail(s),
         UNCHANGED <<sessions, looking, vm, attached, overlapped>>
  PROVE  Alone'
BY AloneEnded, AloneUnchanged DEF Fail

LEMMA LookupAlone ==
  ASSUME TypeOK, Alone, NEW c \in Caller, NEW v \in VM, StartLookup(c, v)
  PROVE  Alone'
<1>1. /\ Idle(c) /\ Begins({v}) /\ Disconnected({sessions[v]})
      /\ UNCHANGED <<sessions, waits, vm, phase>>
      /\ \A d \in Caller : looking'[d] = IF d = c THEN v ELSE looking[d]
  BY DEF StartLookup, TypeOK
<1>2. /\ overlapped \subseteq overlapped'
      /\ v \notin overlapped' => \A d \in Caller : ~Connecting(d, v)
  BY <1>1 DEF Begins
<1>3. \A t \in Session : attached'[t] => attached[t] /\ t # sessions[v]
  BY <1>1 DEF Disconnected
<1>4. OneConnect'
  BY <1>1, <1>2 DEF Alone, OneConnect, Connecting, Idle
<1>5. ASSUME NEW d \in Caller PROVE CallerOK(d)'
  <2>1. CASE d = c
    <3>1. waits[d] = NoSession
      BY <1>1, <2>1 DEF Idle
    <3>2. ASSUME v \notin overlapped', NEW t \in Session, vm[t] = v PROVE ~attached'[t]
      BY <1>2, <1>3, <3>2 DEF Alone, EntryOK
    <3>3. QED
      BY <1>1, <2>1, <3>1, <3>2 DEF CallerOK
  <2>2. CASE d # c
    BY <1>1, <1>2, <1>3, <2>2 DEF Alone, CallerOK
  <2>3. QED
    BY <2>1, <2>2
<1>6. \A t \in Session : EntryOK(t)'
  BY <1>1, <1>2, <1>3 DEF Alone, EntryOK
<1>7. QED
  BY <1>4, <1>5, <1>6 DEF Alone

LEMMA CallerAlone ==
  ASSUME AloneInv, NEW c \in Caller, CallerStep(c)
  PROVE  Alone'
<1>1. TypeOK /\ Alone
  BY DEF AloneInv, IInv
<1>2. ASSUME NEW v \in VM, ReturnExisting(c, v) PROVE Alone'
  BY <1>1, <1>2, AloneUnchanged DEF ReturnExisting, sessVars
<1>3. ASSUME NEW v \in VM, StartLookup(c, v) PROVE Alone'
  BY <1>1, <1>3, LookupAlone
<1>4. ASSUME NEW v \in VM, NEW s \in Session, StartConnect(c, v, s) PROVE Alone'
  <2>1. Idle(c) /\ Begins({v}) /\ Created(c, v, s) /\ UNCHANGED looking
    BY <1>4 DEF StartConnect
  <2>2. \A t \in Session : attached'[t] => attached[t] /\ t # s /\ t # sessions[v]
    BY <1>4 DEF StartConnect
  <2>3. waits[c] = NoSession /\ looking' = [looking EXCEPT ![c] = NoVm]
    BY <1>1, <2>1 DEF Idle, TypeOK
  <2>4. overlapped \subseteq overlapped'
    BY <2>1 DEF Begins
  <2>5. v \notin overlapped' => /\ \A d \in Caller : ~Connecting(d, v)
                                /\ \A t \in Session : vm[t] = v => ~attached'[t]
    BY <1>1, <2>1, <2>2 DEF Begins, Alone, EntryOK
  <2>6. QED
    BY <1>1, <2>1, <2>2, <2>3, <2>4, <2>5, AloneCreated
<1>5. ASSUME NEW s \in Session, NodeAnswers(c, s) PROVE Alone'
  <2>1. /\ looking[c] \in VM /\ Created(c, looking[c], s) /\ UNCHANGED overlapped
        /\ looking' = [looking EXCEPT ![c] = NoVm] /\ attached' = [attached EXCEPT ![s] = FALSE]
    BY <1>1, <1>5 DEF NodeAnswers, TypeOK
  <2>2. CallerOK(c) /\ Connecting(c, looking[c])
    BY <1>1 DEF Alone, Connecting
  <2>3. waits[c] = NoSession
    BY <2>1, <2>2, NoVmAssumption DEF CallerOK
  <2>4. \A t \in Session : attached'[t] => attached[t] /\ t # s
    BY <1>1, <2>1 DEF TypeOK
  <2>5. looking[c] \notin overlapped =>
          /\ \A d \in Caller : d # c => ~Connecting(d, looking[c])
          /\ \A t \in Session : vm[t] = looking[c] => ~attached'[t]
    BY <1>1, <2>1, <2>2, <2>4 DEF Alone, OneConnect, CallerOK
  <2>6. QED
    BY <1>1, <2>1, <2>3, <2>4, <2>5, AloneCreated
<1>6. ASSUME NodeFails(c) PROVE Alone'
  <2>1. /\ UNCHANGED <<sessions, waits, vm, phase, attached, overlapped>>
        /\ \A d \in Caller : looking'[d] = looking[d] \/ looking'[d] = NoVm
    BY <1>1, <1>6 DEF NodeFails, sessVars, TypeOK
  <2>2. OneConnect'
    BY <1>1, <2>1, NoVmAssumption DEF Alone, OneConnect, Connecting
  <2>3. \A d \in Caller : CallerOK(d)'
    BY <1>1, <2>1, NoVmAssumption DEF Alone, CallerOK
  <2>4. \A t \in Session : EntryOK(t)'
    BY <1>1, <2>1 DEF Alone, EntryOK
  <2>5. QED
    BY <2>2, <2>3, <2>4 DEF Alone
<1>7. QED
  BY <1>2, <1>3, <1>4, <1>5, <1>6 DEF CallerStep

LEMMA SessionAlone ==
  ASSUME AloneInv, NEW s \in Session, SessionStep(s)
  PROVE  Alone'
<1>1. TypeOK /\ Alone
  BY DEF AloneInv, IInv
<1>2. CASE ApiFails(s) \/ TimesOut(s) \/ WsErrors(s) \/ Refused(s)
  <2>1. Fail(s) /\ UNCHANGED <<sessions, looking, vm, attached, overlapped>>
    BY <1>2 DEF ApiFails, TimesOut, WsErrors, Refused
  <2>2. QED
    BY <1>1, <2>1, AloneFailed
<1>3. CASE ApiAnswers(s)
  <2>1. phase[s] \in Running /\ UNCHANGED <<sessions, looking, waits, vm, overlapped>>
    BY <1>3 DEF ApiAnswers, callerVars, Running, ApiPhase
  <2>2. \A t \in Session : phase'[t] \in Running <=> phase[t] \in Running
    BY <1>1, <1>3 DEF ApiAnswers, TypeOK, Running, ApiPhase
  <2>3. \A t \in Session : attached'[t] => attached[t] \/ t = s
    BY <1>1, <1>3 DEF ApiAnswers, TypeOK
  <2>4. OneConnect'
    BY <1>1, <2>1 DEF Alone, OneConnect, Connecting
  <2>5. PICK c \in Caller : waits[c] = s
    BY <1>1, <2>1 DEF Alone, EntryOK
  <2>6. \A d \in Caller : looking[d] \in VM \ overlapped => looking[d] # vm[s]
    <3>1. ASSUME NEW d \in Caller, looking[d] \in VM \ overlapped, looking[d] = vm[s]
          PROVE  FALSE
      <4>1. Connecting(c, vm[s]) /\ Connecting(d, vm[s])
        BY <2>5, <3>1, NoSessionAssumption DEF Connecting
      <4>2. c = d
        BY <1>1, <3>1, <4>1 DEF Alone, OneConnect
      <4>3. QED
        BY <1>1, <2>5, <3>1, <4>2, NoSessionAssumption, NoVmAssumption DEF Alone, CallerOK
    <3>2. QED
      BY <3>1
  <2>7. \A d \in Caller : CallerOK(d)'
    BY <1>1, <2>1, <2>2, <2>3, <2>6 DEF Alone, CallerOK, TypeOK
  <2>8. \A t \in Session : EntryOK(t)'
    BY <1>1, <2>1, <2>2, <2>3 DEF Alone, EntryOK
  <2>9. QED
    BY <2>4, <2>7, <2>8 DEF Alone
<1>4. CASE WsOpens(s) \/ PeerCloses(s) \/ Accepted(s) \/ AcceptedDetached(s)
  <2>1. UNCHANGED <<sessions, looking, waits, vm, phase, attached, overlapped>>
    BY <1>4 DEF WsOpens, PeerCloses, Accepted, AcceptedDetached, callerVars, sessVars
  <2>2. QED
    BY <1>1, <2>1, AloneUnchanged
<1>5. CASE WsCloses(s)
  <2>1. UNCHANGED <<sessions, looking, vm, attached, overlapped>>
    BY <1>5 DEF WsCloses
  <2>2. Fail(s) \/ UNCHANGED <<phase, waits>>
    BY <1>5 DEF WsCloses
  <2>3. QED
    BY <1>1, <2>1, <2>2, AloneFailed, AloneUnchanged
<1>6. CASE Settles(s)
  <2>1. UNCHANGED <<sessions, looking, vm, attached, overlapped>>
    BY <1>6 DEF Settles
  <2>2. CASE phase[s] = "handshake"
    <3>1. /\ phase[s] \in Running
          /\ waits' = [c \in Caller |-> IF waits[c] = s THEN NoSession ELSE waits[c]]
          /\ phase' = [phase EXCEPT ![s] = "done"]
      BY <1>6, <2>2 DEF Settles, Running
    <3>2. QED
      BY <1>1, <2>1, <3>1, AloneEnded
  <2>3. CASE phase[s] # "handshake"
    BY <1>1, <1>6, <2>1, <2>3, AloneUnchanged DEF Settles
  <2>4. QED
    BY <2>2, <2>3
<1>7. QED
  BY <1>2, <1>3, <1>4, <1>5, <1>6 DEF SessionStep

LEMMA StepAlone ==
  ASSUME AloneInv, [Next]_vars
  PROVE  AloneInv'
<1>1. TypeOK /\ Alone /\ IInv'
  BY StepSockets DEF AloneInv, IInv
<1> SUFFICES Alone'
  BY <1>1 DEF AloneInv
<1>2. ASSUME NEW v \in VM, Disconnect(v) PROVE Alone'
  <2>1. /\ Begins({v}) /\ Disconnected({sessions[v]}) /\ UNCHANGED <<looking, waits, vm, phase>>
        /\ sessions' = [sessions EXCEPT ![v] = NoSession]
    BY <1>2 DEF Disconnect, Deleted, callerVars
  <2>2. \A w \in VM \ {v} : sessions'[w] = sessions[w]
    BY <1>1, <2>1 DEF TypeOK
  <2>3. /\ overlapped \subseteq overlapped'
        /\ \A w \in {v} \ overlapped', c \in Caller : ~Connecting(c, w)
    BY <2>1 DEF Begins
  <2>4. QED
    BY <1>1, <2>1, <2>2, <2>3, AloneDisconnected
<1>3. CASE DisconnectAll
  <2>1. /\ Begins(VM) /\ Disconnected({sessions[v] : v \in VM})
        /\ UNCHANGED <<looking, waits, vm, phase>>
    BY <1>3 DEF DisconnectAll, callerVars
  <2>2. /\ overlapped \subseteq overlapped'
        /\ \A w \in VM \ overlapped', c \in Caller : ~Connecting(c, w)
    BY <2>1 DEF Begins
  <2>3. \A v \in VM : sessions[v] \in {sessions[w] : w \in VM}
    OBVIOUS
  <2>4. QED
    BY <1>1, <2>1, <2>2, <2>3, AloneDisconnected
<1>4. CASE UNCHANGED vars
  BY <1>1, <1>4, AloneUnchanged DEF vars, sessVars, callerVars
<1>5. QED
  BY <1>2, <1>3, <1>4, CallerAlone, SessionAlone DEF Next

\* A step at which nothing becomes live, and at which no live session changes its VM.
NoneOpens ==
  /\ \A s \in Session : conn'[s] => conn[s] /\ vm'[s] = vm[s]
  /\ overlapped \subseteq overlapped'

LEMMA NoneOpensCloses ==
  ASSUME NoneOpens
  PROVE  Registry!Next
<1> DEFINE D == {s \in Session : ~conn'[s] \/ vm'[s] \in overlapped'}
<1>1. live' = [v \in VM |-> live[v] \ D]
  <2>1. ASSUME NEW v \in VM PROVE live'[v] = live[v] \ D
    <3>1. live[v] = {s \in Session : conn[s] /\ vm[s] = v /\ v \notin overlapped}
      BY DEF live
    <3>2. live'[v] = {s \in Session : conn'[s] /\ vm'[s] = v /\ v \notin overlapped'}
      BY DEF live
    <3>3. QED
      BY <3>1, <3>2 DEF NoneOpens
  <2>2. QED
    BY <2>1 DEF live
<1>2. Registry!Close(D)
  BY <1>1 DEF Registry!Close
<1>3. QED
  BY <1>2 DEF Registry!Next

\* In the VMs that are not overlapped what is live is the entry.
LEMMA LiveIsEntry ==
  ASSUME AloneInv, NEW v \in VM \ overlapped, NEW s \in Session, conn[s], vm[s] = v
  PROVE  sessions[v] = s
BY DEF AloneInv, IInv, SocketOK, Alone, EntryOK

LEMMA AcceptedOpens ==
  ASSUME AloneInv, NEW s \in Session, Accepted(s)
  PROVE  [Registry!Next]_live
<1>1. TypeOK /\ EntryOK(s)
  BY DEF AloneInv, IInv, Alone
<1>2. /\ attached[s] /\ UNCHANGED <<vm, overlapped>>
      /\ \A t \in Session : conn'[t] <=> conn[t] \/ t = s
  BY <1>1 DEF Accepted, TypeOK
<1>3. CASE conn[s] \/ vm[s] \notin VM \ overlapped
  <2>1. ASSUME NEW v \in VM
        PROVE  {t \in Session : conn'[t] /\ vm'[t] = v /\ v \notin overlapped'} =
               {t \in Session : conn[t] /\ vm[t] = v /\ v \notin overlapped}
    BY <1>2, <1>3
  <2>2. QED
    BY <2>1 DEF live
<1>4. CASE ~conn[s] /\ vm[s] \in VM \ overlapped
  <2>1. \A t \in Session : vm[t] = vm[s] => ~conn[t]
    BY <1>1, <1>2, <1>4, LiveIsEntry DEF EntryOK
  <2>2. live[vm[s]] = {}
    BY <1>4, <2>1 DEF live
  <2>3. \A w \in VM : s \notin live[w]
    BY <1>4 DEF live
  <2>4. live' = [live EXCEPT ![vm[s]] = {s}]
    <3>1. ASSUME NEW w \in VM
          PROVE  {t \in Session : conn'[t] /\ vm'[t] = w /\ w \notin overlapped'} =
                 IF w = vm[s] THEN {s}
                 ELSE {t \in Session : conn[t] /\ vm[t] = w /\ w \notin overlapped}
      BY <1>2, <1>4, <2>1
    <3>2. QED
      BY <3>1 DEF live
  <2>5. Registry!Open(vm[s], s)
    BY <2>2, <2>3, <2>4 DEF Registry!Open
  <2>6. QED
    BY <1>4, <2>5 DEF Registry!Next
<1>5. QED
  BY <1>3, <1>4

LEMMA OthersOpenNone ==
  ASSUME AloneInv, [Next]_vars, ~ \E s \in Session : Accepted(s)
  PROVE  NoneOpens
<1>1. TypeOK
  BY DEF AloneInv, IInv
<1> USE DEF NoneOpens
<1>2. ASSUME NEW D, Disconnected(D), NEW W, Begins(W), UNCHANGED vm PROVE NoneOpens
  BY <1>2 DEF Disconnected, Begins
<1>3. ASSUME NEW c \in Caller, CallerStep(c) PROVE NoneOpens
  <2>1. ASSUME NEW v \in VM, ReturnExisting(c, v) PROVE NoneOpens
    BY <2>1 DEF ReturnExisting, sessVars
  <2>2. ASSUME NEW v \in VM, StartLookup(c, v) PROVE NoneOpens
    BY <1>2, <2>2 DEF StartLookup
  <2>3. ASSUME NEW v \in VM, NEW s \in Session, StartConnect(c, v, s) PROVE NoneOpens
    BY <1>1, <2>3 DEF StartConnect, Begins, Created, TypeOK
  <2>4. ASSUME NEW s \in Session, NodeAnswers(c, s) PROVE NoneOpens
    BY <1>1, <2>4 DEF NodeAnswers, Created, TypeOK
  <2>5. CASE NodeFails(c)
    BY <2>5 DEF NodeFails, sessVars
  <2>6. QED
    BY <1>3, <2>1, <2>2, <2>3, <2>4, <2>5 DEF CallerStep
<1>4. ASSUME NEW s \in Session, SessionStep(s) PROVE NoneOpens
  <2>1. /\ UNCHANGED <<vm, overlapped>>
        /\ \/ conn' = conn \/ conn' = [conn EXCEPT ![s] = FALSE]
           \/ conn' = [t \in Session |-> FALSE]
    BY <1>4 DEF SessionStep, ApiFails, ApiAnswers, TimesOut, WsOpens, WsErrors, PeerCloses,
                WsCloses, Refused, Settles, AcceptedDetached, sessVars
  <2>2. QED
    BY <1>1, <2>1 DEF TypeOK
<1>5. ASSUME NEW v \in VM, Disconnect(v) PROVE NoneOpens
  BY <1>2, <1>5 DEF Disconnect
<1>6. CASE DisconnectAll
  BY <1>2, <1>6 DEF DisconnectAll
<1>7. CASE UNCHANGED vars
  BY <1>7 DEF vars, sessVars
<1>8. QED
  BY <1>3, <1>4, <1>5, <1>6, <1>7 DEF Next

LEMMA StepRegistry ==
  ASSUME AloneInv, [Next]_vars
  PROVE  [Registry!Next]_live
<1>1. CASE \E s \in Session : Accepted(s)
  BY <1>1, AcceptedOpens
<1>2. CASE ~ \E s \in Session : Accepted(s)
  BY <1>2, OthersOpenNone, NoneOpensCloses
<1>3. QED
  BY <1>1, <1>2

\* For each VM, until a call for it overlaps a connect of it, the manager implements
\* the registry: a session becomes live only where its VM has no live one, though
\* entries are replaced before they are connected, the dead ones stay in the map, and
\* other VMs' calls interleave at will.
THEOREM ManagerImplementsRegistry == Spec => ImplementsRegistry
<1>1. Init => Registry!Init
  BY DEF Init, live, Registry!Init
<1>2. Init => AloneInv
  BY InitSockets, InitAlone DEF AloneInv
<1>3. AloneInv /\ [Next]_vars => AloneInv'
  BY StepAlone
<1>4. AloneInv /\ [Next]_vars => [Registry!Next]_live
  BY StepRegistry
<1>5. QED
  BY <1>1, <1>2, <1>3, <1>4, PTL DEF Spec, ImplementsRegistry, Registry!Spec

\* Two live sessions of one VM need overlapping calls: a VM that has them is one for
\* which a tool call came while a connect of it was under way.
TwoLiveOverlapped ==
  \A s, t \in Session : conn[s] /\ conn[t] /\ vm[s] = vm[t] /\ vm[s] \in VM /\ s # t
                          => vm[s] \in overlapped

\* The violation of OneLivePerVm has that one cause.
THEOREM TwoLiveOnlyIfOverlapped == Spec => []TwoLiveOverlapped
<1>1. AloneInv => TwoLiveOverlapped
  BY LiveIsEntry DEF TwoLiveOverlapped
<1>2. Init => AloneInv
  BY InitSockets, InitAlone DEF AloneInv
<1>3. AloneInv /\ [Next]_vars => AloneInv'
  BY StepAlone
<1>4. QED
  BY <1>1, <1>2, <1>3, PTL DEF Spec
=============================================================================
