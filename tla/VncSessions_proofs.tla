------------------------- MODULE VncSessions_proofs -------------------------
(***************************************************************************)
(* Theorems about VncSessions, for every set of VMs, sessions and callers. *)
(*                                                                         *)
(* The argument has two layers.  HandshakeInv is about one session at a    *)
(* time: only a session whose connect is still running can get as far as   *)
(* ServerInit, because everything disconnect() leaves behind finds send()  *)
(* without a socket.  RegistryInv relates sessions to the manager: while a *)
(* connect is pending its VM has no registered session, so the one that    *)
(* registers displaces nothing.                                            *)
(***************************************************************************)
EXTENDS VncSessions, TLAPS

\* Facts about one session's progress.
ProgressOK(s) ==
  /\ phase[s] # "free" => vm[s] \in VM
  /\ conn[s] => phase[s] = "done"
  /\ attached[s] => phase[s] = "handshake" \/ hs[s] = "connected"
  /\ ws[s] = "connecting" => phase[s] = "handshake"
  /\ ws[s] \in {"connecting", "open"} => attached[s]
  /\ hs[s] \in {"awaiting_vnc_challenge", "awaiting_security_result",
                "awaiting_server_init"} => phase[s] = "handshake"
  /\ hs[s] = "awaiting_security_types" /\ wire[s] \in {"types_vnc", "types_none"}
       => phase[s] = "handshake"

HandshakeInv == \A s \in Session : ProgressOK(s)

\* Facts about the manager's two maps.
PendingUnregistered == \A v \in VM : pending[v] # NoSession => sessions[v] = NoSession

RegistryInv ==
  /\ RegisteredIsLive
  /\ LiveIsRegistered
  /\ PendingIsRunning
  /\ PendingUnregistered

IInv == TypeOK /\ HandshakeInv /\ RegistryInv

-----------------------------------------------------------------------------
(* Type correctness *)

\* Rejecting a connect is most of what can happen to a session, so its effect
\* on types is stated once.
LEMMA RejectTypes ==
  ASSUME TypeOK, NEW s \in Session, Reject(s), wire' \in [Session -> Message]
  PROVE  TypeOK'
BY NoVmAssumption, NoSessionAssumption
   DEF TypeOK, Reject, Disconnected, PendingDeleted, Resume, Phase, Running, ApiPhase, WsState,
       Handshake

LEMMA StepTypes == TypeOK /\ [Next]_vars => TypeOK'
<1> SUFFICES ASSUME TypeOK, [Next]_vars PROVE TypeOK'
  OBVIOUS
<1> USE NoVmAssumption, NoSessionAssumption
        DEF Phase, Running, ApiPhase, WsState, Handshake, Message
<1>1. ASSUME NEW c \in Caller, CallerStep(c) PROVE TypeOK'
  <2>1. PICK v \in VM : \/ ReturnExisting(c, v)
                       \/ Coalesce(c, v)
                       \/ \E s \in Session : StartConnect(c, v, s)
    BY <1>1 DEF CallerStep
  <2>2. CASE ReturnExisting(c, v)
    BY <2>2 DEF TypeOK, ReturnExisting, sessVars
  <2>3. CASE Coalesce(c, v)
    BY <2>3 DEF TypeOK, Coalesce, sessVars
  <2>4. ASSUME NEW s \in Session, StartConnect(c, v, s) PROVE TypeOK'
    BY <2>4 DEF TypeOK, StartConnect
  <2>5. QED BY <2>1, <2>2, <2>3, <2>4
<1>2. ASSUME NEW v \in VM, Disconnect(v) PROVE TypeOK'
  BY <1>2 DEF TypeOK, Disconnect, Disconnected, callerVars
<1>3. CASE DisconnectAll
  BY <1>3 DEF TypeOK, DisconnectAll, Disconnected, callerVars
<1>4. ASSUME NEW s \in Session, ApiFails(s) \/ TimesOut(s) \/ ServerInitThrows(s) PROVE TypeOK'
  <2>1. Reject(s) /\ wire' \in [Session -> Message]
    BY <1>4 DEF TypeOK, ApiFails, TimesOut, ServerInitThrows
  <2>2. QED BY <2>1, RejectTypes
<1>5. ASSUME NEW s \in Session, ApiAnswers(s) PROVE TypeOK'
  BY <1>5 DEF TypeOK, ApiAnswers, callerVars
<1>6. ASSUME NEW s \in Session, SocketStep(s) PROVE TypeOK'
  <2>1. CASE WsErrors(s)
    <3>1. wire' \in [Session -> Message]
      BY <2>1 DEF TypeOK, WsErrors
    <3>2. CASE phase[s] = "handshake"
      BY <2>1, <3>1, <3>2, RejectTypes DEF WsErrors
    <3>3. CASE phase[s] # "handshake"
      BY <2>1, <3>3 DEF TypeOK, WsErrors, callerVars
    <3>4. QED BY <3>2, <3>3
  <2>2. CASE WsCloses(s)
    <3>1. /\ ws' \in [Session -> WsState]
          /\ wire' \in [Session -> Message]
          /\ conn' \in [Session -> BOOLEAN]
          /\ UNCHANGED <<vm, activeVmid>>
      BY <2>2 DEF TypeOK, WsCloses
    <3>2. CASE phase[s] = "handshake"
      <4>1. /\ phase' = [phase EXCEPT ![s] = "failed"]
            /\ pending' = [pending EXCEPT ![vm[s]] = NoSession]
            /\ attached' = [attached EXCEPT ![s] = FALSE]
            /\ hs' = [hs EXCEPT ![s] = "awaiting_version"]
            /\ sessions' = sessions
            /\ Resume(s, "error")
        BY <2>2, <3>2 DEF WsCloses, PendingDeleted
      <4>2. waits' \in [Caller -> Session \cup {NoSession}]
            /\ outcome' \in [Caller -> {"none", "ok", "error"}]
        BY <4>1 DEF TypeOK, Resume
      <4>3. QED BY <3>1, <4>1, <4>2 DEF TypeOK
    <3>3. CASE phase[s] # "handshake"
      <4>1. sessions' \in [VM -> Session \cup {NoSession}]
        BY <2>2, <3>3 DEF TypeOK, WsCloses, Unregistered
      <4>2. UNCHANGED <<phase, pending, attached, hs, waits, outcome>>
        BY <2>2, <3>3 DEF WsCloses, callerVars
      <4>3. QED BY <3>1, <4>1, <4>2 DEF TypeOK
    <3>4. QED BY <3>2, <3>3
  <2>3. CASE WsOpens(s) \/ PeerCloses(s)
    BY <2>3 DEF TypeOK, WsOpens, PeerCloses, callerVars
  <2>4. QED BY <1>6, <2>1, <2>2, <2>3 DEF SocketStep
<1>7. ASSUME NEW s \in Session, HandshakeStep(s) PROVE TypeOK'
  <2>1. CASE HandleServerInit(s)
    <3>1. vm[s] \in VM \cup {NoVm} /\ activeVmid' = vm[s]
      BY <2>1 DEF TypeOK, HandleServerInit
    <3>2. QED BY <2>1, <3>1 DEF TypeOK, HandleServerInit, PendingDeleted, Resume
  <2>2. CASE ServerInitThrows(s)
    BY <2>2, <1>4
  <2>3. CASE HandleUnusable(s)
    BY <2>3 DEF TypeOK, HandleUnusable, callerVars
  <2>4. CASE HandleVersion(s) \/ HandleSecurityTypes(s) \/ HandleVncChallenge(s)
              \/ HandleSecurityResult(s)
    BY <2>4 DEF TypeOK, HandleVersion, HandleSecurityTypes, HandleVncChallenge,
                HandleSecurityResult, Advance, Answered, callerVars
  <2>5. QED BY <1>7, <2>1, <2>2, <2>3, <2>4 DEF HandshakeStep
<1>8. CASE UNCHANGED vars
  BY <1>8 DEF TypeOK, vars, sessVars, callerVars
<1>9. QED
  BY <1>1, <1>2, <1>3, <1>4, <1>5, <1>6, <1>7, <1>8 DEF Next

LEMMA InitTypes == Init => TypeOK
BY DEF Init, TypeOK, Phase, Running, ApiPhase, WsState, Handshake, Message

\* Every variable keeps the shape the module declares for it.
THEOREM TypeCorrect == Spec => []TypeOK
BY InitTypes, StepTypes, PTL DEF Spec

-----------------------------------------------------------------------------
(* One session at a time: the handshake *)

\* disconnect() preserves them, in any phase but a running handshake.
LEMMA ProgressDisconnected ==
  ASSUME TypeOK, NEW t \in Session, ProgressOK(t), NEW D, Disconnected(D),
         vm'[t] = vm[t], wire'[t] = wire[t], phase'[t] = phase[t],
         phase[t] = "handshake" => t \notin D
  PROVE  ProgressOK(t)'
BY DEF ProgressOK, Disconnected, TypeOK

\* So does a rejection, which ends the handshake and disconnects at once.
LEMMA ProgressReject ==
  ASSUME TypeOK, NEW t \in Session, ProgressOK(t), NEW s \in Session, Reject(s),
         phase[s] \in Running, wire'[t] = wire[t] \/ t = s
  PROVE  ProgressOK(t)'
<1>1. CASE t = s
  BY <1>1 DEF ProgressOK, Reject, Disconnected, TypeOK, Running, ApiPhase
<1>2. CASE t # s
  BY <1>2 DEF ProgressOK, Reject, Disconnected, TypeOK
<1>3. QED BY <1>1, <1>2

LEMMA InitHandshake == Init => HandshakeInv
BY DEF Init, HandshakeInv, ProgressOK

LEMMA StepHandshake ==
  TypeOK /\ HandshakeInv /\ LiveIsRegistered /\ RegisteredIsLive /\ [Next]_vars => HandshakeInv'
<1> SUFFICES ASSUME TypeOK, HandshakeInv, LiveIsRegistered, RegisteredIsLive, [Next]_vars,
                    NEW t \in Session
             PROVE  ProgressOK(t)'
  BY DEF HandshakeInv
<1>t. ProgressOK(t)
  BY DEF HandshakeInv
<1> USE NoVmAssumption, NoSessionAssumption
<1>1. ASSUME NEW c \in Caller, CallerStep(c) PROVE ProgressOK(t)'
  <2>1. PICK v \in VM : \/ ReturnExisting(c, v)
                       \/ Coalesce(c, v)
                       \/ \E s \in Session : StartConnect(c, v, s)
    BY <1>1 DEF CallerStep
  <2>2. CASE ReturnExisting(c, v)
    BY <1>t, <2>2 DEF ProgressOK, ReturnExisting, sessVars
  <2>3. CASE Coalesce(c, v)
    BY <1>t, <2>3 DEF ProgressOK, Coalesce, sessVars
  <2>4. ASSUME NEW s \in Session, StartConnect(c, v, s) PROVE ProgressOK(t)'
    <3>1. sessions[v] = NoSession
      BY <2>4 DEF StartConnect, Connected, RegisteredIsLive
    <3>2. CASE t = s
      BY <2>4, <3>1, <3>2 DEF ProgressOK, StartConnect, TypeOK
    <3>3. CASE t # s
      BY <1>t, <2>4, <3>1, <3>3 DEF ProgressOK, StartConnect, TypeOK
    <3>4. QED BY <3>2, <3>3
  <2>5. QED BY <2>1, <2>2, <2>3, <2>4
\* What is registered has finished its handshake.
<1>r. ASSUME NEW v \in VM, phase[t] = "handshake" PROVE t # sessions[v]
  BY <1>r, <1>t DEF RegisteredIsLive, ProgressOK
<1>2. ASSUME NEW v \in VM, Disconnect(v) PROVE ProgressOK(t)'
  <2>1. phase[t] = "handshake" => t \notin {sessions[v]}
    BY <1>r
  <2>2. Disconnected({sessions[v]}) /\ UNCHANGED <<vm, phase, wire>>
    BY <1>2 DEF Disconnect
  <2>3. QED BY <1>t, <2>1, <2>2, ProgressDisconnected
<1>3. CASE DisconnectAll
  <2>1. phase[t] = "handshake" => t \notin {sessions[v] : v \in VM}
    BY <1>r
  <2>2. Disconnected({sessions[v] : v \in VM}) /\ UNCHANGED <<vm, phase, wire>>
    BY <1>3 DEF DisconnectAll
  <2>3. QED BY <1>t, <2>1, <2>2, ProgressDisconnected
<1>4. ASSUME NEW s \in Session, ApiFails(s) \/ TimesOut(s) \/ ServerInitThrows(s)
      PROVE  ProgressOK(t)'
  <2>1. phase[s] \in Running
    BY <1>4 DEF ApiFails, TimesOut, ServerInitThrows, Running, HandshakeInv, ProgressOK
  <2>2. Reject(s) /\ (wire'[t] = wire[t] \/ t = s)
    BY <1>4 DEF ApiFails, TimesOut, ServerInitThrows, TypeOK
  <2>3. QED BY <1>t, <2>1, <2>2, ProgressReject
<1>5. ASSUME NEW s \in Session, ApiAnswers(s) PROVE ProgressOK(t)'
  BY <1>t, <1>5 DEF ProgressOK, ApiAnswers, TypeOK
<1>6. ASSUME NEW s \in Session, SocketStep(s) PROVE ProgressOK(t)'
  <2>1. CASE WsErrors(s)
    <3>1. CASE phase[s] = "handshake"
      BY <1>t, <2>1, <3>1, ProgressReject DEF WsErrors, Running, TypeOK
    <3>2. CASE phase[s] # "handshake"
      BY <1>t, <2>1, <3>2 DEF ProgressOK, WsErrors, TypeOK
    <3>3. QED BY <3>1, <3>2
  <2>2. CASE WsCloses(s)
    <3>1. /\ vm' = vm
          /\ ws' = [ws EXCEPT ![s] = "closed"]
          /\ conn' = [conn EXCEPT ![s] = FALSE]
          /\ wire' = [wire EXCEPT ![s] = "none"]
      BY <2>2 DEF WsCloses
    <3>2. CASE phase[s] = "handshake"
      <4>1. /\ phase' = [phase EXCEPT ![s] = "failed"]
            /\ attached' = [attached EXCEPT ![s] = FALSE]
            /\ hs' = [hs EXCEPT ![s] = "awaiting_version"]
        BY <2>2, <3>2 DEF WsCloses
      <4>2. QED BY <1>t, <3>1, <3>2, <4>1 DEF ProgressOK, TypeOK
    <3>3. CASE phase[s] # "handshake"
      <4>1. UNCHANGED <<phase, attached, hs>>
        BY <2>2, <3>3 DEF WsCloses
      <4>2. QED BY <1>t, <3>1, <4>1 DEF ProgressOK, TypeOK
    <3>4. QED BY <3>2, <3>3
  <2>3. CASE WsOpens(s)
    BY <1>t, <2>3 DEF ProgressOK, WsOpens, TypeOK
  <2>4. CASE PeerCloses(s)
    BY <1>t, <2>4 DEF ProgressOK, PeerCloses, TypeOK
  <2>5. QED BY <1>6, <2>1, <2>2, <2>3, <2>4 DEF SocketStep
<1>7. ASSUME NEW s \in Session, HandshakeStep(s) PROVE ProgressOK(t)'
  <2>1. CASE HandleVersion(s)
    <3>1. PICK r \in {"types_vnc", "types_none", "bad", "none"} :
            /\ wire' = [wire EXCEPT ![s] = r]
            /\ r # "none" => attached[s]
      BY <2>1 DEF HandleVersion, Advance, Answered
    <3>2. /\ hs[s] = "awaiting_version"
          /\ hs' = [hs EXCEPT ![s] = "awaiting_security_types"]
          /\ UNCHANGED <<vm, phase, ws, attached, conn>>
      BY <2>1 DEF HandleVersion, Advance
    <3>3. QED BY <1>t, <3>1, <3>2 DEF ProgressOK, TypeOK
  <2>2. CASE HandleSecurityTypes(s)
    <3>1. /\ hs[s] = "awaiting_security_types"
          /\ wire[s] \in {"types_vnc", "types_none"}
          /\ \/ hs' = [hs EXCEPT ![s] = "awaiting_vnc_challenge"]
             \/ hs' = [hs EXCEPT ![s] = "awaiting_security_result"]
          /\ UNCHANGED <<vm, phase, ws, attached, conn>>
          /\ t # s => wire'[t] = wire[t]
      BY <2>2 DEF HandleSecurityTypes, Advance, Answered, Deliverable, TypeOK
    <3>2. QED BY <1>t, <3>1 DEF ProgressOK, TypeOK
  <2>3. CASE HandleVncChallenge(s) \/ HandleSecurityResult(s)
    <3>1. /\ hs[s] \in {"awaiting_vnc_challenge", "awaiting_security_result"}
          /\ \/ hs' = [hs EXCEPT ![s] = "awaiting_security_result"]
             \/ hs' = [hs EXCEPT ![s] = "awaiting_server_init"]
          /\ UNCHANGED <<vm, phase, ws, attached, conn>>
          /\ t # s => wire'[t] = wire[t]
      BY <2>3 DEF HandleVncChallenge, HandleSecurityResult, Advance, Answered, TypeOK
    <3>2. QED BY <1>t, <3>1 DEF ProgressOK, TypeOK
  <2>4. CASE HandleServerInit(s)
    <3>1. /\ UNCHANGED <<vm, ws, attached>>
          /\ hs' = [hs EXCEPT ![s] = "connected"]
          /\ conn' = [conn EXCEPT ![s] = TRUE]
          /\ wire' = [wire EXCEPT ![s] = "none"]
          /\ phase' = [phase EXCEPT ![s] = "done"]
          /\ hs[s] = "awaiting_server_init"
          /\ ws[s] \in {"open", "closing"}
      BY <2>4 DEF HandleServerInit, Deliverable
    <3>2. phase[s] = "handshake"
      BY <3>1 DEF HandshakeInv, ProgressOK
    <3>3. QED BY <1>t, <3>1, <3>2 DEF ProgressOK, TypeOK
  <2>5. CASE ServerInitThrows(s)
    BY <2>5, <1>4
  <2>6. CASE HandleUnusable(s)
    BY <1>t, <2>6 DEF ProgressOK, HandleUnusable, TypeOK
  <2>7. QED BY <1>7, <2>1, <2>2, <2>3, <2>4, <2>5, <2>6 DEF HandshakeStep
<1>8. CASE UNCHANGED vars
  BY <1>t, <1>8 DEF ProgressOK, vars, sessVars
<1>9. QED
  BY <1>1, <1>2, <1>3, <1>4, <1>5, <1>6, <1>7, <1>8 DEF Next

-----------------------------------------------------------------------------
(* The manager's maps *)

LEMMA InitRegistry == Init => RegistryInv
BY NoSessionAssumption
   DEF Init, RegistryInv, RegisteredIsLive, LiveIsRegistered, PendingIsRunning,
       PendingUnregistered, Running, ApiPhase

\* The invariant speaks of these five variables only, and of phase only as far
\* as a connect is running.
LEMMA RegistryFrame ==
  ASSUME TypeOK, RegistryInv, UNCHANGED <<sessions, pending, vm, conn>>,
         \A s \in Session : phase'[s] \in Running <=> phase[s] \in Running
  PROVE  RegistryInv'
BY DEF RegistryInv, RegisteredIsLive, LiveIsRegistered, PendingIsRunning, PendingUnregistered

\* A connect that fails frees the pending entry of its VM and nothing else:
\* it was not live.
LEMMA RegistryFailed ==
  ASSUME TypeOK, HandshakeInv, RegistryInv, NEW s \in Session, phase[s] \in Running,
         phase' = [phase EXCEPT ![s] = "failed"],
         pending' = [pending EXCEPT ![vm[s]] = NoSession],
         UNCHANGED <<sessions, vm>>,
         \A t \in Session : conn'[t] = (conn[t] /\ t # s)
  PROVE  RegistryInv'
<1> USE NoVmAssumption, NoSessionAssumption
<1>1. vm[s] \in VM /\ ~conn[s] /\ pending[vm[s]] = s
  BY DEF HandshakeInv, ProgressOK, RegistryInv, PendingIsRunning, Running, ApiPhase
<1>2. \A t \in Session : conn'[t] <=> conn[t]
  BY <1>1
<1>3. RegisteredIsLive' /\ LiveIsRegistered'
  BY <1>2 DEF RegistryInv, RegisteredIsLive, LiveIsRegistered, TypeOK
<1>4. PendingIsRunning'
  <2> SUFFICES ASSUME NEW v \in VM, NEW t \in Session
               PROVE  pending'[v] = t <=> vm[t] = v /\ phase'[t] \in Running
    BY DEF PendingIsRunning
  <2>1. pending[v] = t <=> vm[t] = v /\ phase[t] \in Running
    BY DEF RegistryInv, PendingIsRunning
  <2>2. pending[v] = s <=> vm[s] = v
    BY DEF RegistryInv, PendingIsRunning
  <2>3. "failed" \notin Running
    BY DEF Running, ApiPhase
  <2>4. CASE v = vm[s]
    BY <1>1, <2>1, <2>3, <2>4 DEF TypeOK
  <2>5. CASE v # vm[s]
    BY <1>1, <2>1, <2>2, <2>3, <2>5 DEF TypeOK
  <2>6. QED BY <2>4, <2>5
<1>5. PendingUnregistered'
  BY <1>1 DEF RegistryInv, PendingUnregistered, TypeOK
<1>6. QED BY <1>3, <1>4, <1>5 DEF RegistryInv

\* The registry loses the sessions in D, which are closed in the same step.
LEMMA RegistryDisconnected ==
  ASSUME TypeOK, RegistryInv, NEW W \in SUBSET VM,
         sessions' \in [VM -> Session \cup {NoSession}],
         \A v \in VM : sessions'[v] = IF v \in W THEN NoSession ELSE sessions[v],
         Disconnected({sessions[v] : v \in W}),
         UNCHANGED <<pending, vm, phase>>
  PROVE  RegistryInv'
<1> USE NoSessionAssumption
<1>1. \A s \in Session : conn'[s] <=> conn[s] /\ \A v \in W : sessions[v] # s
  BY DEF Disconnected
<1>2. RegisteredIsLive'
  BY <1>1 DEF RegistryInv, RegisteredIsLive, TypeOK
<1>3. LiveIsRegistered'
  BY <1>1 DEF RegistryInv, LiveIsRegistered
<1>4. PendingIsRunning' /\ PendingUnregistered'
  BY DEF RegistryInv, PendingIsRunning, PendingUnregistered
<1>5. QED BY <1>2, <1>3, <1>4 DEF RegistryInv

\* The step the whole argument is about: the session that registers finds the
\* entry of its VM empty, and no other session of that VM live.
LEMMA RegistryServerInit ==
  ASSUME TypeOK, HandshakeInv, RegistryInv, NEW s \in Session, HandleServerInit(s)
  PROVE  /\ vm[s] \in VM
         /\ sessions[vm[s]] = NoSession
         /\ \A t \in Session : conn[t] => vm[t] # vm[s]
         /\ RegistryInv'
<1> USE NoVmAssumption, NoSessionAssumption
<1>1. /\ hs[s] = "awaiting_server_init"
      /\ conn' = [conn EXCEPT ![s] = TRUE]
      /\ phase' = [phase EXCEPT ![s] = "done"]
      /\ sessions' = [sessions EXCEPT ![vm[s]] = s]
      /\ pending' = [pending EXCEPT ![vm[s]] = NoSession]
      /\ vm' = vm
  BY DEF HandleServerInit, PendingDeleted
<1>2. phase[s] = "handshake" /\ vm[s] \in VM
  BY <1>1 DEF HandshakeInv, ProgressOK
<1>3. pending[vm[s]] = s /\ sessions[vm[s]] = NoSession
  BY <1>2 DEF RegistryInv, PendingIsRunning, PendingUnregistered, Running
<1>4. \A t \in Session : conn[t] => vm[t] # vm[s]
  BY <1>3 DEF RegistryInv, LiveIsRegistered
<1>5. RegisteredIsLive'
  BY <1>1, <1>2 DEF RegistryInv, RegisteredIsLive, TypeOK
<1>6. LiveIsRegistered'
  BY <1>1, <1>2, <1>4 DEF RegistryInv, LiveIsRegistered, TypeOK
<1>7. PendingIsRunning'
  <2> SUFFICES ASSUME NEW v \in VM, NEW t \in Session
               PROVE  pending'[v] = t <=> vm[t] = v /\ phase'[t] \in Running
    BY <1>1 DEF PendingIsRunning
  <2>1. pending[v] = t <=> vm[t] = v /\ phase[t] \in Running
    BY DEF RegistryInv, PendingIsRunning
  <2>2. pending[v] = s <=> vm[s] = v
    BY <1>2, <1>3 DEF RegistryInv, PendingIsRunning, Running
  <2>3. "done" \notin Running
    BY DEF Running, ApiPhase
  <2>4. CASE v = vm[s]
    BY <1>1, <1>3, <2>1, <2>3, <2>4 DEF TypeOK
  <2>5. CASE v # vm[s]
    BY <1>1, <2>1, <2>2, <2>3, <2>5 DEF TypeOK
  <2>6. QED BY <2>4, <2>5
<1>8. PendingUnregistered'
  BY <1>1, <1>2 DEF RegistryInv, PendingUnregistered, TypeOK
<1>9. QED BY <1>2, <1>3, <1>4, <1>5, <1>6, <1>7, <1>8 DEF RegistryInv

\* A connect starts only for a VM with no live session and none pending, on an
\* object that is neither.
LEMMA RegistryStart ==
  ASSUME TypeOK, HandshakeInv, RegistryInv,
         NEW c \in Caller, NEW v \in VM, NEW s \in Session, StartConnect(c, v, s)
  PROVE  /\ \A t \in Session : conn'[t] <=> conn[t]
         /\ ~conn[s]
         /\ RegistryInv'
<1> USE NoVmAssumption, NoSessionAssumption
<1>1. sessions[v] = NoSession
  BY DEF StartConnect, Connected, RegistryInv, RegisteredIsLive
<1>2. /\ vm' = [vm EXCEPT ![s] = v]
      /\ pending[v] = NoSession
      /\ pending' = [pending EXCEPT ![v] = s]
      /\ sessions' = sessions
      /\ \A t \in Session : conn'[t] = (conn[t] /\ t # s)
  BY <1>1 DEF StartConnect, InFlight
<1>3. phase[s] \notin Running /\ \A w \in VM : sessions[w] # s
  BY DEF StartConnect, Fresh, Running, ApiPhase, RegistryInv, RegisteredIsLive, HandshakeInv,
         ProgressOK
<1>4. PICK first \in {"node", "proxy"} : phase' = [phase EXCEPT ![s] = first]
  BY DEF StartConnect
<1>5. ~conn[s]
  BY <1>3 DEF RegistryInv, LiveIsRegistered
<1>6. \A t \in Session : conn'[t] <=> conn[t]
  BY <1>2, <1>5
<1>7. RegisteredIsLive' /\ LiveIsRegistered'
  BY <1>2, <1>3, <1>5, <1>6 DEF RegistryInv, RegisteredIsLive, LiveIsRegistered, TypeOK
<1>8. PendingIsRunning'
  <2> SUFFICES ASSUME NEW w \in VM, NEW t \in Session
               PROVE  pending'[w] = t <=> vm'[t] = w /\ phase'[t] \in Running
    BY DEF PendingIsRunning
  <2>1. pending[w] = t <=> vm[t] = w /\ phase[t] \in Running
    BY DEF RegistryInv, PendingIsRunning
  <2>2. first \in Running
    BY DEF Running, ApiPhase
  <2>3. \A u \in Session : vm[u] = v => phase[u] \notin Running
    BY <1>2 DEF RegistryInv, PendingIsRunning
  <2>4. CASE t = s
    BY <1>2, <1>3, <1>4, <2>1, <2>2, <2>4 DEF TypeOK
  <2>5. CASE t # s
    BY <1>2, <1>4, <2>1, <2>3, <2>5 DEF TypeOK
  <2>6. QED BY <2>4, <2>5
<1>9. PendingUnregistered'
  BY <1>1, <1>2 DEF RegistryInv, PendingUnregistered, TypeOK
<1>10. QED BY <1>5, <1>6, <1>7, <1>8, <1>9 DEF RegistryInv

\* The 'close' of a session takes its own entry from the map, no other.
LEMMA RegistryCloses ==
  ASSUME TypeOK, HandshakeInv, RegistryInv, NEW s \in Session, WsCloses(s)
  PROVE  RegistryInv'
<1> USE NoVmAssumption, NoSessionAssumption
<1>1. UNCHANGED vm /\ \A t \in Session : conn'[t] = (conn[t] /\ t # s)
  BY DEF WsCloses, TypeOK
<1>2. CASE phase[s] = "handshake"
  BY <1>1, <1>2, RegistryFailed DEF WsCloses, PendingDeleted, Running
<1>3. CASE phase[s] # "handshake"
  <2>1. UNCHANGED <<phase, pending>>
    BY <1>3 DEF WsCloses
  <2>2. \A v \in VM : sessions'[v] = IF sessions[v] = s THEN NoSession ELSE sessions[v]
    <3>1. CASE phase[s] = "done"
      <4>1. sessions' = Unregistered(s)
        BY <1>3, <3>1 DEF WsCloses
      <4>2. vm[s] \in VM /\ \A v \in VM : sessions[v] = s => v = vm[s]
        BY <3>1 DEF HandshakeInv, ProgressOK, RegistryInv, RegisteredIsLive
      <4>3. CASE sessions[vm[s]] = s
        BY <4>1, <4>2, <4>3 DEF Unregistered, TypeOK
      <4>4. CASE sessions[vm[s]] # s
        BY <4>1, <4>2, <4>4 DEF Unregistered
      <4>5. QED BY <4>3, <4>4
    <3>2. CASE phase[s] # "done"
      <4>1. sessions' = sessions
        BY <1>3, <3>2 DEF WsCloses
      <4>2. ~conn[s]
        BY <3>2 DEF HandshakeInv, ProgressOK
      <4>3. \A v \in VM : sessions[v] # s
        BY <4>2 DEF RegistryInv, RegisteredIsLive
      <4>4. QED BY <4>1, <4>3
    <3>3. QED BY <3>1, <3>2
  <2>3. RegisteredIsLive'
    BY <1>1, <2>2 DEF RegistryInv, RegisteredIsLive, TypeOK
  <2>4. LiveIsRegistered'
    <3> SUFFICES ASSUME NEW t \in Session, conn'[t] PROVE vm'[t] \in VM /\ sessions'[vm'[t]] = t
      BY DEF LiveIsRegistered
    <3>1. conn[t] /\ t # s /\ vm[t] \in VM /\ sessions[vm[t]] = t
      BY <1>1 DEF RegistryInv, LiveIsRegistered
    <3>2. QED BY <1>1, <2>2, <3>1
  <2>5. PendingIsRunning' /\ PendingUnregistered'
    BY <1>1, <2>1, <2>2 DEF RegistryInv, PendingIsRunning, PendingUnregistered
  <2>6. QED BY <2>3, <2>4, <2>5 DEF RegistryInv
<1>4. QED BY <1>2, <1>3

LEMMA StepRegistry == IInv /\ [Next]_vars => RegistryInv'
<1> SUFFICES ASSUME TypeOK, HandshakeInv, RegistryInv, [Next]_vars PROVE RegistryInv'
  BY DEF IInv
<1>1. ASSUME NEW c \in Caller, CallerStep(c) PROVE RegistryInv'
  <2>1. PICK v \in VM : \/ ReturnExisting(c, v)
                       \/ Coalesce(c, v)
                       \/ \E s \in Session : StartConnect(c, v, s)
    BY <1>1 DEF CallerStep
  <2>2. CASE ReturnExisting(c, v) \/ Coalesce(c, v)
    BY <2>2, RegistryFrame DEF ReturnExisting, Coalesce, sessVars
  <2>3. ASSUME NEW s \in Session, StartConnect(c, v, s) PROVE RegistryInv'
    BY <2>3, RegistryStart
  <2>4. QED BY <2>1, <2>2, <2>3
<1>2. ASSUME NEW v \in VM, Disconnect(v) PROVE RegistryInv'
  <2>1. /\ sessions' = [sessions EXCEPT ![v] = NoSession]
        /\ Disconnected({sessions[v]})
        /\ UNCHANGED <<pending, vm, phase>>
    BY <1>2 DEF Disconnect
  <2>2. /\ sessions' \in [VM -> Session \cup {NoSession}]
        /\ \A w \in VM : sessions'[w] = IF w \in {v} THEN NoSession ELSE sessions[w]
    BY <2>1 DEF TypeOK
  <2>3. {sessions[w] : w \in {v}} = {sessions[v]}
    OBVIOUS
  <2>4. QED BY <2>1, <2>2, <2>3, RegistryDisconnected
<1>3. CASE DisconnectAll
  <2>1. /\ sessions' = [v \in VM |-> NoSession]
        /\ Disconnected({sessions[v] : v \in VM})
        /\ UNCHANGED <<pending, vm, phase>>
    BY <1>3 DEF DisconnectAll
  <2>2. QED BY <2>1, RegistryDisconnected
<1>4. ASSUME NEW s \in Session, phase[s] \in Running, Reject(s) PROVE RegistryInv'
  BY <1>4, RegistryFailed DEF Reject, PendingDeleted, Disconnected
<1>5. ASSUME NEW s \in Session, ApiFails(s) \/ TimesOut(s) \/ ServerInitThrows(s)
      PROVE  RegistryInv'
  <2>1. phase[s] \in Running
    BY <1>5 DEF ApiFails, TimesOut, ServerInitThrows, Running, HandshakeInv, ProgressOK
  <2>2. QED BY <1>4, <1>5, <2>1 DEF ApiFails, TimesOut, ServerInitThrows
<1>6. ASSUME NEW s \in Session, ApiAnswers(s) PROVE RegistryInv'
  <2>1. \A t \in Session : phase'[t] \in Running <=> phase[t] \in Running
    BY <1>6 DEF ApiAnswers, Running, ApiPhase, TypeOK
  <2>2. QED BY <1>6, <2>1, RegistryFrame DEF ApiAnswers
<1>7. ASSUME NEW s \in Session, SocketStep(s) PROVE RegistryInv'
  <2>1. CASE WsErrors(s)
    <3>1. CASE phase[s] = "handshake"
      BY <1>4, <2>1, <3>1 DEF WsErrors, Running
    <3>2. CASE phase[s] # "handshake"
      BY <2>1, <3>2, RegistryFrame DEF WsErrors
    <3>3. QED BY <3>1, <3>2
  <2>2. CASE WsCloses(s)
    BY <2>2, RegistryCloses
  <2>3. CASE WsOpens(s) \/ PeerCloses(s)
    BY <2>3, RegistryFrame DEF WsOpens, PeerCloses
  <2>4. QED BY <1>7, <2>1, <2>2, <2>3 DEF SocketStep
<1>8. ASSUME NEW s \in Session, HandshakeStep(s) PROVE RegistryInv'
  <2>1. CASE HandleServerInit(s)
    BY <2>1, RegistryServerInit
  <2>2. CASE ServerInitThrows(s)
    BY <1>5, <2>2
  <2>3. CASE \/ HandleVersion(s) \/ HandleSecurityTypes(s) \/ HandleVncChallenge(s)
             \/ HandleSecurityResult(s) \/ HandleUnusable(s)
    BY <2>3, RegistryFrame DEF HandleVersion, HandleSecurityTypes, HandleVncChallenge,
                               HandleSecurityResult, Advance, HandleUnusable
  <2>4. QED BY <1>8, <2>1, <2>2, <2>3 DEF HandshakeStep
<1>9. CASE UNCHANGED vars
  BY <1>9, RegistryFrame DEF vars, sessVars
<1>10. QED
  BY <1>1, <1>2, <1>3, <1>5, <1>6, <1>7, <1>8, <1>9 DEF Next

-----------------------------------------------------------------------------
(* The theorems *)

LEMMA InductiveInvariant == Spec => []IInv
<1>1. Init => IInv
  BY InitTypes, InitHandshake, InitRegistry DEF IInv
<1>2. IInv /\ [Next]_vars => IInv'
  BY StepTypes, StepHandshake, StepRegistry DEF IInv, RegistryInv
<1>3. QED BY <1>1, <1>2, PTL DEF Spec

\* What the map holds for a VM is a live session of that VM, and every live
\* session is what the map holds for its VM.
THEOREM RegistryIsExact == Spec => []RegistryExact
<1>1. IInv => RegistryExact
  BY DEF IInv, RegistryInv, RegistryExact
<1>2. QED BY <1>1, InductiveInvariant, PTL

\* The connect that callers of a VM share is running: none waits on a settled one.
THEOREM SharedConnectIsRunning == Spec => []PendingIsRunning
<1>1. IInv => PendingIsRunning
  BY DEF IInv, RegistryInv
<1>2. QED BY <1>1, InductiveInvariant, PTL

\* No socket stays open behind a session object that has let go of it.
THEOREM NoForgottenSocket == Spec => []OpenIsAttached
<1>1. IInv => OpenIsAttached
  BY DEF IInv, HandshakeInv, ProgressOK, OpenIsAttached
<1>2. QED BY <1>1, InductiveInvariant, PTL

\* A step that makes no session live ends the sessions that are not live any
\* more; where there are none it is a stutter of the registry.
LEMMA ClosesMap ==
  ASSUME \A t \in Session : conn'[t] => conn[t],
         \A t \in Session : conn[t] => vm'[t] = vm[t]
  PROVE  Registry!Next
<1> DEFINE D == {t \in Session : conn[t] /\ ~conn'[t]}
<1>1. live' = [v \in VM |-> live[v] \ D]
  BY DEF live
<1>2. D \in SUBSET Session
  OBVIOUS
<1>3. QED BY <1>1, <1>2 DEF Registry!Next, Registry!Close

LEMMA ServerInitMaps ==
  ASSUME IInv, NEW s \in Session, HandleServerInit(s)
  PROVE  Registry!Next
<1>1. /\ vm[s] \in VM
      /\ \A t \in Session : conn[t] => vm[t] # vm[s]
  BY RegistryServerInit DEF IInv
<1>2. /\ vm' = vm
      /\ conn \in [Session -> BOOLEAN]
      /\ conn' = [conn EXCEPT ![s] = TRUE]
      /\ ~conn[s]
  BY <1>1 DEF HandleServerInit, IInv, TypeOK
<1>3. \A t \in Session : conn'[t] <=> conn[t] \/ t = s
  BY <1>2
<1>4. live[vm[s]] = {} /\ \A w \in VM : s \notin live[w]
  BY <1>1, <1>2 DEF live
<1>5. live' = [live EXCEPT ![vm[s]] = {s}]
  <2>1. \A w \in VM : live'[w] = IF w = vm[s] THEN {s} ELSE live[w]
    BY <1>1, <1>2, <1>3 DEF live
  <2>2. QED BY <2>1 DEF live
<1>6. Registry!Open(vm[s], s)
  BY <1>4, <1>5 DEF Registry!Open
<1>7. QED BY <1>1, <1>6 DEF Registry!Next

LEMMA StepMaps == IInv /\ [Next]_vars => [Registry!Next]_live
<1> SUFFICES ASSUME IInv, [Next]_vars PROVE Registry!Next \/ UNCHANGED live
  OBVIOUS
<1>i. TypeOK /\ HandshakeInv /\ RegistryInv
  BY DEF IInv
<1>1. ASSUME NEW c \in Caller, CallerStep(c) PROVE Registry!Next
  <2>1. PICK v \in VM : \/ ReturnExisting(c, v)
                       \/ Coalesce(c, v)
                       \/ \E s \in Session : StartConnect(c, v, s)
    BY <1>1 DEF CallerStep
  <2>2. CASE ReturnExisting(c, v) \/ Coalesce(c, v)
    BY <2>2, ClosesMap DEF ReturnExisting, Coalesce, sessVars
  <2>3. ASSUME NEW s \in Session, StartConnect(c, v, s) PROVE Registry!Next
    <3>1. /\ \A t \in Session : conn'[t] <=> conn[t]
          /\ ~conn[s]
      BY <1>i, <2>3, RegistryStart
    <3>2. \A t \in Session : conn[t] => vm'[t] = vm[t]
      BY <2>3, <3>1 DEF StartConnect
    <3>3. QED BY <3>1, <3>2, ClosesMap
  <2>4. QED BY <2>1, <2>2, <2>3
<1>2. ASSUME NEW v \in VM, Disconnect(v) PROVE Registry!Next
  BY <1>2, ClosesMap DEF Disconnect, Disconnected
<1>3. CASE DisconnectAll
  BY <1>3, ClosesMap DEF DisconnectAll, Disconnected
<1>4. ASSUME NEW s \in Session, Reject(s) PROVE Registry!Next
  BY <1>4, ClosesMap DEF Reject, Disconnected
<1>5. ASSUME NEW s \in Session, ApiFails(s) \/ TimesOut(s) \/ ServerInitThrows(s)
      PROVE  Registry!Next
  BY <1>4, <1>5 DEF ApiFails, TimesOut, ServerInitThrows
<1>6. ASSUME NEW s \in Session, ApiAnswers(s) PROVE Registry!Next
  BY <1>6, ClosesMap DEF ApiAnswers
<1>7. ASSUME NEW s \in Session, SocketStep(s) PROVE Registry!Next
  <2>1. CASE WsErrors(s)
    BY <1>4, <2>1, ClosesMap DEF WsErrors
  <2>2. CASE WsCloses(s)
    <3>1. UNCHANGED vm /\ \A t \in Session : conn'[t] => conn[t]
      BY <1>i, <2>2 DEF WsCloses, TypeOK
    <3>2. QED BY <3>1, ClosesMap
  <2>3. CASE WsOpens(s) \/ PeerCloses(s)
    BY <2>3, ClosesMap DEF WsOpens, PeerCloses
  <2>4. QED BY <1>7, <2>1, <2>2, <2>3 DEF SocketStep
<1>8. ASSUME NEW s \in Session, HandshakeStep(s) PROVE Registry!Next
  <2>1. CASE HandleServerInit(s)
    BY <2>1, ServerInitMaps
  <2>2. CASE ServerInitThrows(s)
    BY <1>5, <2>2
  <2>3. CASE \/ HandleVersion(s) \/ HandleSecurityTypes(s) \/ HandleVncChallenge(s)
             \/ HandleSecurityResult(s) \/ HandleUnusable(s)
    BY <2>3, ClosesMap DEF HandleVersion, HandleSecurityTypes, HandleVncChallenge,
                           HandleSecurityResult, Advance, HandleUnusable
  <2>4. QED BY <1>8, <2>1, <2>2, <2>3 DEF HandshakeStep
<1>9. CASE UNCHANGED vars
  BY <1>9 DEF vars, sessVars, live
<1>10. QED
  BY <1>1, <1>2, <1>3, <1>5, <1>6, <1>7, <1>8, <1>9 DEF Next

\* VncSessionManager implements the registry that holds one session per VM.
THEOREM ManagerImplementsRegistry == Spec => ImplementsRegistry
<1>1. Init => Registry!Init
  BY DEF Init, Registry!Init, live
<1>2. QED
  BY <1>1, StepMaps, InductiveInvariant, PTL DEF Spec, ImplementsRegistry, Registry!Spec

\* The step formula of ResolvedIsUsable.
UsableStep ==
  /\ \A c \in Caller : waits[c] # NoSession /\ waits'[c] = NoSession /\ outcome'[c] = "ok"
                         => /\ sessions'[vm[waits[c]]] = waits[c]
                            /\ conn'[waits[c]]
  /\ activeVmid' \notin {activeVmid, NoVm} => sessions'[activeVmid'] # NoSession

\* A step in which no call ends well and no VM becomes active.
LEMMA QuietStep ==
  ASSUME \A c \in Caller : waits[c] # NoSession /\ waits'[c] = NoSession => outcome'[c] # "ok",
         activeVmid' \in {activeVmid, NoVm}
  PROVE  UsableStep
BY DEF UsableStep

LEMMA StepUsable == IInv /\ [Next]_vars => UsableStep
<1> SUFFICES ASSUME IInv, [Next]_vars PROVE UsableStep
  OBVIOUS
<1>i. TypeOK /\ HandshakeInv /\ RegistryInv
  BY DEF IInv
<1> USE NoVmAssumption, NoSessionAssumption
<1>1. ASSUME NEW c \in Caller, CallerStep(c) PROVE UsableStep
  <2>1. PICK v \in VM : \/ ReturnExisting(c, v)
                       \/ Coalesce(c, v)
                       \/ \E s \in Session : StartConnect(c, v, s)
    BY <1>1 DEF CallerStep
  <2>2. CASE ReturnExisting(c, v)
    BY <2>2 DEF ReturnExisting, Connected, UsableStep
  <2>3. CASE Coalesce(c, v)
    BY <1>i, <2>3, QuietStep DEF Coalesce, InFlight, TypeOK
  <2>4. ASSUME NEW s \in Session, StartConnect(c, v, s) PROVE UsableStep
    BY <1>i, <2>4, QuietStep DEF StartConnect, TypeOK
  <2>5. QED BY <2>1, <2>2, <2>3, <2>4
<1>2. ASSUME NEW v \in VM, Disconnect(v) PROVE UsableStep
  BY <1>2, QuietStep DEF Disconnect, callerVars
<1>3. CASE DisconnectAll
  BY <1>3, QuietStep DEF DisconnectAll, callerVars
<1>4. ASSUME NEW s \in Session, Resume(s, "error"), UNCHANGED activeVmid PROVE UsableStep
  BY <1>4, QuietStep DEF Resume
<1>5. ASSUME NEW s \in Session, ApiFails(s) \/ TimesOut(s) \/ ServerInitThrows(s)
      PROVE  UsableStep
  BY <1>4, <1>5 DEF ApiFails, TimesOut, ServerInitThrows, Reject
<1>6. ASSUME NEW s \in Session, ApiAnswers(s) PROVE UsableStep
  BY <1>6, QuietStep DEF ApiAnswers, callerVars
<1>7. ASSUME NEW s \in Session, SocketStep(s) PROVE UsableStep
  <2>1. CASE phase[s] = "handshake" /\ (WsErrors(s) \/ WsCloses(s))
    BY <1>4, <2>1 DEF WsErrors, WsCloses, Reject
  <2>2. CASE phase[s] # "handshake" /\ (WsErrors(s) \/ WsCloses(s))
    BY <2>2, QuietStep DEF WsErrors, WsCloses, callerVars
  <2>3. CASE WsOpens(s) \/ PeerCloses(s)
    BY <2>3, QuietStep DEF WsOpens, PeerCloses, callerVars
  <2>4. QED BY <1>7, <2>1, <2>2, <2>3 DEF SocketStep
<1>8. ASSUME NEW s \in Session, HandshakeStep(s) PROVE UsableStep
  <2>1. CASE HandleServerInit(s)
    <3>1. /\ vm[s] \in VM
          /\ sessions' = [sessions EXCEPT ![vm[s]] = s]
          /\ conn' = [conn EXCEPT ![s] = TRUE]
          /\ activeVmid' = vm[s]
          /\ \A c \in Caller : waits[c] # s => waits'[c] = waits[c]
      BY <1>i, <2>1, RegistryServerInit DEF HandleServerInit, Resume
    <3>2. sessions'[vm[s]] = s /\ conn'[s]
      BY <1>i, <3>1 DEF TypeOK
    <3>3. QED BY <3>1, <3>2 DEF UsableStep
  <2>2. CASE ServerInitThrows(s)
    BY <1>5, <2>2
  <2>3. CASE \/ HandleVersion(s) \/ HandleSecurityTypes(s) \/ HandleVncChallenge(s)
             \/ HandleSecurityResult(s) \/ HandleUnusable(s)
    BY <2>3, QuietStep DEF HandleVersion, HandleSecurityTypes, HandleVncChallenge,
                           HandleSecurityResult, Advance, HandleUnusable, callerVars
  <2>4. QED BY <1>8, <2>1, <2>2, <2>3 DEF HandshakeStep
<1>9. CASE UNCHANGED vars
  BY <1>9, QuietStep DEF vars, callerVars
<1>10. QED
  BY <1>1, <1>2, <1>3, <1>5, <1>6, <1>7, <1>8, <1>9 DEF Next

\* A connect that reports success hands out a registered, live session.
THEOREM ConnectReturnsLiveSession == Spec => ResolvedIsUsable
<1>1. IInv /\ [Next]_vars => [UsableStep]_vars
  BY StepUsable
<1>2. Spec => [][UsableStep]_vars
  BY <1>1, InductiveInvariant, PTL DEF Spec
<1>3. QED BY <1>2 DEF UsableStep, ResolvedIsUsable
=============================================================================
