---------------------------- MODULE VncSessions ----------------------------
(***************************************************************************)
(* The life of VNC sessions: VncSessionManager (the registry of sessions   *)
(* and the coalescing of concurrent connects), the connection part of      *)
(* VncSession (three API calls, the WebSocket, the RFB handshake, the ten  *)
(* second timer), and the tools that call them and keep activeVmid.        *)
(*                                                                         *)
(* The program is single threaded, so an action is one turn of the event   *)
(* loop: one callback together with the promise continuations it releases, *)
(* which all run before the next callback.  Between two turns anything     *)
(* else may happen, and that is where the interleavings are.               *)
(*                                                                         *)
(* A handshake message stands for the bytes a handler waits for: every     *)
(* handler returns without effect until its message is complete.  What a   *)
(* connected session does with its byte stream is module RfbStream.        *)
(***************************************************************************)
EXTENDS Naturals

CONSTANTS VM,         \* ids of virtual machines
          Session,    \* VncSession objects; a dead one is reused as a new one
          Caller,     \* concurrent tool calls
          NoVm, NoSession

ASSUME NoVmAssumption == NoVm \notin VM
ASSUME NoSessionAssumption == NoSession \notin Session

VARIABLES
  sessions,    \* manager: VM -> the registered session
  pending,     \* manager: VM -> the session whose connect is in flight
  vm,          \* session: the VM it belongs to
  phase,       \* session: where the asynchronous connect of it stands
  ws,          \* session: readyState of the WebSocket it opened
  attached,    \* session: this.ws # null
  hs,          \* session: HandshakeState
  conn,        \* session: _connected
  wire,        \* session: the handshake message on its way to the client
  waits,       \* caller: the session whose connect it awaits
  outcome,     \* caller: how its last connect ended
  activeVmid

sessVars   == <<vm, phase, ws, attached, hs, conn, wire>>
callerVars == <<waits, outcome>>
vars == <<sessions, pending, sessVars, callerVars, activeVmid>>

\* "node", "proxy", "cookie": awaiting findVmNode, vncProxy, getAuthCookie;
\* "handshake": the promise that the WebSocket callbacks settle.
ApiPhase  == {"node", "proxy", "cookie"}
Running   == ApiPhase \cup {"handshake"}
Phase     == Running \cup {"free", "done", "failed"}
WsState   == {"none", "connecting", "open", "closing", "closed"}
Handshake == {"awaiting_version", "awaiting_security_types", "awaiting_vnc_challenge",
              "awaiting_security_result", "awaiting_server_init", "connected"}
Message   == {"none", "version", "types_vnc", "types_none", "challenge",
              "result", "serverInit", "bad"}

TypeOK ==
  /\ sessions   \in [VM -> Session \cup {NoSession}]
  /\ pending    \in [VM -> Session \cup {NoSession}]
  /\ vm         \in [Session -> VM \cup {NoVm}]
  /\ phase      \in [Session -> Phase]
  /\ ws         \in [Session -> WsState]
  /\ attached   \in [Session -> BOOLEAN]
  /\ hs         \in [Session -> Handshake]
  /\ conn       \in [Session -> BOOLEAN]
  /\ wire       \in [Session -> Message]
  /\ waits      \in [Caller -> Session \cup {NoSession}]
  /\ outcome    \in [Caller -> {"none", "ok", "error"}]
  /\ activeVmid \in VM \cup {NoVm}

Init ==
  /\ sessions   = [v \in VM |-> NoSession]
  /\ pending    = [v \in VM |-> NoSession]
  /\ vm         = [s \in Session |-> NoVm]
  /\ phase      = [s \in Session |-> "free"]
  /\ ws         = [s \in Session |-> "none"]
  /\ attached   = [s \in Session |-> FALSE]
  /\ hs         = [s \in Session |-> "awaiting_version"]
  /\ conn       = [s \in Session |-> FALSE]
  /\ wire       = [s \in Session |-> "none"]
  /\ waits      = [c \in Caller |-> NoSession]
  /\ outcome    = [c \in Caller |-> "none"]
  /\ activeVmid = NoVm

-----------------------------------------------------------------------------
(* Helpers *)

\* getSession(v)?.connected
Connected(v) == sessions[v] # NoSession /\ conn[sessions[v]]

\* Mutant: concurrent connects are not coalesced.
NeverInFlight(v) == FALSE

\* pending.get(vmid)
InFlight(v) == pending[v] # NoSession

\* Objects a new VncSession may be: unused, or dead and referenced by nobody.
Fresh == {s \in Session : \/ phase[s] = "free"
                          \/ /\ phase[s] \in {"done", "failed"}
                             /\ ws[s] \in {"none", "closed"}
                             /\ \A v \in VM : sessions[v] # s}

\* Mutant: the socket reference is dropped but the socket is not closed.
DisconnectedOpen(D) ==
  /\ conn'     = [s \in Session |-> conn[s] /\ s \notin D]
  /\ attached' = [s \in Session |-> attached[s] /\ s \notin D]
  /\ hs'       = [s \in Session |-> IF s \in D THEN "awaiting_version" ELSE hs[s]]
  /\ UNCHANGED ws

\* VncSession.disconnect() of every session in D.  Messages under way still
\* reach the old WebSocket's handlers, which stay installed.
Disconnected(D) ==
  /\ conn'     = [s \in Session |-> conn[s] /\ s \notin D]
  /\ attached' = [s \in Session |-> attached[s] /\ s \notin D]
  /\ hs'       = [s \in Session |-> IF s \in D THEN "awaiting_version" ELSE hs[s]]
  /\ ws'       = [s \in Session |->
                    IF s \in D /\ attached[s] /\ ws[s] \in {"connecting", "open"}
                    THEN "closing" ELSE ws[s]]

\* Mutant: a failed connect resolves its callers all the same.
ResumeOk(s, r) ==
  /\ waits'   = [c \in Caller |-> IF waits[c] = s THEN NoSession ELSE waits[c]]
  /\ outcome' = [c \in Caller |-> IF waits[c] = s THEN "ok" ELSE outcome[c]]

\* The promise of s settles: its callers resume, each with result r.
Resume(s, r) ==
  /\ waits'   = [c \in Caller |-> IF waits[c] = s THEN NoSession ELSE waits[c]]
  /\ outcome' = [c \in Caller |-> IF waits[c] = s THEN r ELSE outcome[c]]

\* Mutant: pending.delete is not in a finally.
PendingDeletedOnSuccess(s) ==
  pending' = IF phase'[s] = "done" THEN [pending EXCEPT ![vm[s]] = NoSession] ELSE pending

\* finally { pending.delete(vmid) }
PendingDeleted(s) == pending' = [pending EXCEPT ![vm[s]] = NoSession]

\* Mutant: the listener does not compare the session.
AnyUnregistered(s) == [sessions EXCEPT ![vm[s]] = NoSession]

\* if (this.sessions.get(vmid) === session) this.sessions.delete(vmid)
Unregistered(s) ==
  IF sessions[vm[s]] = s THEN [sessions EXCEPT ![vm[s]] = NoSession] ELSE sessions

\* Mutant: the catch block does not disconnect the session.
RejectedOnly(s) ==
  /\ phase' = [phase EXCEPT ![s] = "failed"]
  /\ PendingDeleted(s)
  /\ Resume(s, "error")
  /\ UNCHANGED <<sessions, vm, activeVmid, ws, attached, hs, conn>>

\* The promise of s rejects: catch { session.disconnect() }, then finally.
\* A session that failed in findVmNode was never constructed; disconnecting it
\* changes nothing.
Reject(s) ==
  /\ phase' = [phase EXCEPT ![s] = "failed"]
  /\ PendingDeleted(s)
  /\ Disconnected({s})
  /\ Resume(s, "error")
  /\ UNCHANGED <<sessions, vm, activeVmid>>

-----------------------------------------------------------------------------
(* Tool calls.  A caller is the connect tool or getOrConnectVncSession. *)

Idle(c) == waits[c] = NoSession

\* A live session is returned at once; only the connect tool then makes its
\* VM the active one, getOrConnectVncSession does not.
ReturnExisting(c, v) ==
  /\ Idle(c)
  /\ Connected(v)
  /\ outcome' = [outcome EXCEPT ![c] = "ok"]
  /\ activeVmid' \in {v, activeVmid}
  /\ UNCHANGED <<sessions, pending, sessVars, waits>>

\* A connect in flight is shared.
Coalesce(c, v) ==
  /\ Idle(c)
  /\ ~Connected(v)
  /\ InFlight(v)
  /\ waits'   = [waits EXCEPT ![c] = pending[v]]
  /\ outcome' = [outcome EXCEPT ![c] = "none"]
  /\ UNCHANGED <<sessions, pending, sessVars, activeVmid>>

\* Otherwise a new session is created and its connect started, with or
\* without a node lookup first.
StartConnect(c, v, s) ==
  /\ Idle(c)
  /\ ~Connected(v)
  /\ ~InFlight(v)
  /\ s \in Fresh
  /\ pending' = [pending EXCEPT ![v] = s]
  /\ vm'      = [vm EXCEPT ![s] = v]
  /\ \E first \in {"node", "proxy"} : phase' = [phase EXCEPT ![s] = first]
  /\ wire'    = [wire EXCEPT ![s] = "none"]
  /\ LET old == sessions[v]     \* existing.disconnect(); it stays in the map
     IN  /\ conn'     = [t \in Session |-> conn[t] /\ t \notin {old, s}]
         /\ attached' = [t \in Session |-> attached[t] /\ t \notin {old, s}]
         /\ hs'       = [t \in Session |-> IF t \in {old, s} THEN "awaiting_version"
                                           ELSE hs[t]]
         /\ ws'       = [t \in Session |->
                           IF t = s THEN "none"
                           ELSE IF t = old /\ attached[t] /\ ws[t] \in {"connecting", "open"}
                                THEN "closing" ELSE ws[t]]
  /\ waits'   = [waits EXCEPT ![c] = s]
  /\ outcome' = [outcome EXCEPT ![c] = "none"]
  /\ UNCHANGED <<sessions, activeVmid>>

\* The disconnect tool: closes the registered session, if there is one, and
\* leaves a connect in flight alone.
Disconnect(v) ==
  /\ Disconnected({sessions[v]})
  /\ sessions'   = [sessions EXCEPT ![v] = NoSession]
  /\ activeVmid' = IF activeVmid = v THEN NoVm ELSE activeVmid
  /\ UNCHANGED <<pending, vm, phase, wire, callerVars>>

DisconnectAll ==
  /\ Disconnected({sessions[v] : v \in VM})
  /\ sessions' = [v \in VM |-> NoSession]
  /\ UNCHANGED <<pending, vm, phase, wire, callerVars, activeVmid>>

-----------------------------------------------------------------------------
(* VncSession.connect *)

ApiFails(s) ==
  /\ phase[s] \in ApiPhase
  /\ Reject(s)
  /\ UNCHANGED wire

\* Each answer leads to the next request, the last to the WebSocket.
ApiAnswers(s) ==
  /\ \/ /\ phase[s] = "node"
        /\ phase' = [phase EXCEPT ![s] = "proxy"]
        /\ UNCHANGED <<ws, attached>>
     \/ /\ phase[s] = "proxy"
        /\ phase' = [phase EXCEPT ![s] = "cookie"]
        /\ UNCHANGED <<ws, attached>>
     \/ /\ phase[s] = "cookie"
        /\ phase'    = [phase EXCEPT ![s] = "handshake"]
        /\ ws'       = [ws EXCEPT ![s] = "connecting"]
        /\ attached' = [attached EXCEPT ![s] = TRUE]
  /\ UNCHANGED <<sessions, pending, vm, hs, conn, wire, callerVars, activeVmid>>

\* Mutant: the timer is cleared as soon as the WebSocket opens.
TimesOutBeforeOpen(s) ==
  /\ phase[s] = "handshake"
  /\ ws[s] = "connecting"
  /\ Reject(s)
  /\ UNCHANGED wire

\* The ten second timer; it is cleared when the promise settles.
TimesOut(s) ==
  /\ phase[s] = "handshake"
  /\ Reject(s)
  /\ UNCHANGED wire

WsOpens(s) ==
  /\ ws[s] = "connecting"
  /\ ws' = [ws EXCEPT ![s] = "open"]
  /\ hs' = [hs EXCEPT ![s] = "awaiting_version"]
  /\ wire' = [wire EXCEPT ![s] = "version"]
  /\ UNCHANGED <<sessions, pending, vm, phase, attached, conn, callerVars, activeVmid>>

\* 'error' of the WebSocket: rejects a connect in flight, is only logged
\* afterwards.  A 'close' follows.
WsErrors(s) ==
  /\ ws[s] \in {"connecting", "open"}
  /\ wire' = [wire EXCEPT ![s] = "none"]
  /\ IF phase[s] = "handshake"
     THEN Reject(s)
     ELSE /\ ws' = [ws EXCEPT ![s] = "closing"]
          /\ UNCHANGED <<sessions, pending, vm, phase, attached, hs, conn,
                         callerVars, activeVmid>>

\* The peer starts closing; the library answers and 'close' follows.
PeerCloses(s) ==
  /\ ws[s] = "open"
  /\ ws'   = [ws EXCEPT ![s] = "closing"]
  /\ wire' = [wire EXCEPT ![s] = "none"]
  /\ UNCHANGED <<sessions, pending, vm, phase, attached, hs, conn, callerVars, activeVmid>>

\* 'close': rejects a connect in flight; the listener that the manager put on
\* a session once it was connected removes it from the map.
WsCloses(s) ==
  /\ ws[s] = "closing"
  /\ ws'   = [ws EXCEPT ![s] = "closed"]
  /\ wire' = [wire EXCEPT ![s] = "none"]
  /\ conn' = [conn EXCEPT ![s] = FALSE]
  /\ IF phase[s] = "handshake"
     THEN /\ phase'    = [phase EXCEPT ![s] = "failed"]
          /\ PendingDeleted(s)
          /\ attached' = [attached EXCEPT ![s] = FALSE]
          /\ hs'       = [hs EXCEPT ![s] = "awaiting_version"]
          /\ Resume(s, "error")
          /\ UNCHANGED sessions
     ELSE /\ sessions' = IF phase[s] = "done" THEN Unregistered(s) ELSE sessions
          /\ UNCHANGED <<phase, pending, attached, hs, callerVars>>
  /\ UNCHANGED <<vm, activeVmid>>

-----------------------------------------------------------------------------
(* The RFB handshake: handleVersion ... handleServerInit *)

Deliverable(s, m) == ws[s] \in {"open", "closing"} /\ wire[s] = m

\* send() drops what it is given unless this.ws is an open socket; the server
\* answers what it does receive with one of replies, or with an unusable one.
Answered(s, replies) ==
  \E r \in (IF attached[s] /\ ws[s] = "open" THEN replies \cup {"bad"} ELSE {"none"}) :
    wire' = [wire EXCEPT ![s] = r]

\* A handler that finds the message it waits for moves the handshake on.
Advance(s, m, from, to, replies) ==
  /\ Deliverable(s, m)
  /\ hs[s] = from
  /\ hs' = [hs EXCEPT ![s] = to]
  /\ Answered(s, replies)
  /\ UNCHANGED <<sessions, pending, vm, phase, ws, attached, conn, callerVars, activeVmid>>

HandleVersion(s) ==
  Advance(s, "version", "awaiting_version", "awaiting_security_types",
          {"types_vnc", "types_none"})

HandleSecurityTypes(s) ==
  \/ Advance(s, "types_vnc", "awaiting_security_types", "awaiting_vnc_challenge", {"challenge"})
  \/ Advance(s, "types_none", "awaiting_security_types", "awaiting_security_result", {"result"})

HandleVncChallenge(s) ==
  Advance(s, "challenge", "awaiting_vnc_challenge", "awaiting_security_result", {"result"})

HandleSecurityResult(s) ==
  Advance(s, "result", "awaiting_security_result", "awaiting_server_init", {"serverInit"})

\* The session is connected; connect() resolves; the manager registers the
\* session and clears pending; every caller resumes and makes v active.
HandleServerInit(s) ==
  /\ Deliverable(s, "serverInit")
  /\ hs[s] = "awaiting_server_init"
  /\ hs'   = [hs EXCEPT ![s] = "connected"]
  /\ conn' = [conn EXCEPT ![s] = TRUE]
  /\ wire' = [wire EXCEPT ![s] = "none"]
  /\ phase'      = [phase EXCEPT ![s] = "done"]
  /\ sessions'   = [sessions EXCEPT ![vm[s]] = s]
  /\ PendingDeleted(s)
  /\ activeVmid' = vm[s]
  /\ Resume(s, "ok")
  /\ UNCHANGED <<vm, ws, attached>>

\* The handler throws (a framebuffer too large to allocate): the message
\* callback turns the exception into a rejection.
ServerInitThrows(s) ==
  /\ Deliverable(s, "serverInit")
  /\ hs[s] = "awaiting_server_init"
  /\ wire' = [wire EXCEPT ![s] = "none"]
  /\ Reject(s)

\* The message a handler expects, in the form that reports a failure: it is
\* consumed and an error event is emitted, which is logged and nothing else.
\* So is a message that reaches a session which disconnect() has reset.
HandleUnusable(s) ==
  /\ wire[s] # "none"
  /\ ws[s] \in {"open", "closing"}
  /\ wire[s] = "bad" \/ (~attached[s] /\ hs[s] = "awaiting_version" /\ wire[s] # "version")
  /\ wire' = [wire EXCEPT ![s] = "none"]
  /\ UNCHANGED <<sessions, pending, vm, phase, ws, attached, hs, conn, callerVars, activeVmid>>

-----------------------------------------------------------------------------
HandshakeStep(s) ==
  \/ HandleVersion(s)
  \/ HandleSecurityTypes(s)
  \/ HandleVncChallenge(s)
  \/ HandleSecurityResult(s)
  \/ HandleServerInit(s)
  \/ ServerInitThrows(s)
  \/ HandleUnusable(s)

SocketStep(s) ==
  \/ WsOpens(s)
  \/ WsErrors(s)
  \/ PeerCloses(s)
  \/ WsCloses(s)

CallerStep(c) ==
  \E v \in VM :
    \/ ReturnExisting(c, v)
    \/ Coalesce(c, v)
    \/ \E s \in Session : StartConnect(c, v, s)

Next ==
  \/ \E c \in Caller : CallerStep(c)
  \/ \E v \in VM : Disconnect(v)
  \/ DisconnectAll
  \/ \E s \in Session :
       \/ ApiFails(s)
       \/ ApiAnswers(s)
       \/ TimesOut(s)
       \/ SocketStep(s)
       \/ HandshakeStep(s)

Spec == Init /\ [][Next]_vars

\* Timers fire, HTTP requests settle, a closing WebSocket closes (the library
\* destroys it after thirty seconds).  Nothing is assumed of callers, of the
\* handshake messages, or of the order of any of these.
Fairness ==
  \A s \in Session :
    /\ WF_vars(ApiFails(s) \/ ApiAnswers(s))
    /\ WF_vars(TimesOut(s))
    /\ WF_vars(WsCloses(s))

FairSpec == Spec /\ Fairness

-----------------------------------------------------------------------------
(* What the registry promises: OneSessionPerVm, with the live sessions of a *)
(* VM being the session objects that are connected.                        *)

live == [v \in VM |-> {s \in Session : conn[s] /\ vm[s] = v}]

Registry == INSTANCE OneSessionPerVm WITH live <- live

-----------------------------------------------------------------------------
(* Properties *)

\* VncSessionManager implements "one per VM" step by step: a session becomes
\* live only while its VM has no other, and then stays until it is closed.
ImplementsRegistry == Registry!Spec

\* getSession() never hands out a dead session: what the map holds for a VM is
\* a session of that VM that completed its handshake and has not been closed.
RegisteredIsLive ==
  \A v \in VM : sessions[v] # NoSession =>
    /\ vm[sessions[v]] = v
    /\ conn[sessions[v]]

\* Every connected session is the registered one of its VM: no session lives
\* on outside the map, where nothing could reach it to close it, and no VM has
\* two.  The late 'close' of a replaced session, a reply to an abandoned
\* handshake and a concurrent connect could each break it.
LiveIsRegistered ==
  \A s \in Session : conn[s] => vm[s] \in VM /\ sessions[vm[s]] = s

\* The map holds exactly the live sessions, each under its VM (the 'close' handler
\* that connect() installs, disconnect, disconnectAll).
RegistryExact == RegisteredIsLive /\ LiveIsRegistered

\* The connect that later callers of a VM share is one that is still running:
\* after it settles, in whatever way, the next caller starts anew.
PendingIsRunning ==
  \A v \in VM, s \in Session :
    pending[v] = s <=> vm[s] = v /\ phase[s] \in Running

\* A session given up by a failed connect or by disconnect() keeps no socket:
\* each open WebSocket is the one its session object still holds.
OpenIsAttached ==
  \A s \in Session : ws[s] \in {"connecting", "open"} => attached[s]

\* A connect that reports success returns with its session registered and
\* live, and a VM becomes the active one only when it has such a session.
ResolvedIsUsable ==
  [][/\ \A c \in Caller : waits[c] # NoSession /\ waits'[c] = NoSession /\ outcome'[c] = "ok"
                            => /\ sessions'[vm[waits[c]]] = waits[c]
                               /\ conn'[waits[c]]
     /\ activeVmid' \notin {activeVmid, NoVm} => sessions'[activeVmid'] # NoSession]_vars

\* Every connect call returns: the server may stop answering at any point of
\* the handshake, and handshake errors are only logged.
ConnectSettles == \A c \in Caller : waits[c] # NoSession ~> waits[c] = NoSession

\* The WebSocket of a connect that failed is closed in the end.
FailedIsClosed ==
  \A s \in Session : phase[s] = "failed" ~> (phase[s] # "failed" \/ ws[s] \in {"none", "closed"})
=============================================================================
