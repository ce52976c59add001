-------------------------- MODULE TerminalSessions --------------------------
(***************************************************************************)
(* Serial console sessions: TerminalSessionManager, the connection part of *)
(* TerminalSession, and the serial_connect and serial_disconnect tools.    *)
(*                                                                         *)
(* An action is one turn of the event loop, as in VncSessions.  Unlike the *)
(* VNC manager this one registers a session before it is connected, shares *)
(* no connect between callers, and never takes a dead session out of its   *)
(* map.                                                                    *)
(***************************************************************************)
EXTENDS Naturals

CONSTANTS VM, Session, Caller, NoVm, NoSession

ASSUME NoVmAssumption == NoVm \notin VM
ASSUME NoSessionAssumption == NoSession \notin Session

VARIABLES
  sessions,    \* manager: VM -> its entry
  looking,     \* caller: the VM whose node it looks up, before a session exists
  waits,       \* caller: the session whose connect it awaits
  outcome,     \* caller: how its last connect ended
  vm, phase, ws, attached, conn,   \* session, as in VncSessions
  auth,        \* session: has termproxy said OK, and is the 500 ms delay over
  disposed,    \* session: disconnect() was called
  wire,        \* session: termproxy's answer on its way
  activeTermVmid,
  crashed,     \* a callback threw outside any try: the process is gone
  overlapped   \* history variable: the VMs for which a tool call came while a
               \* connect of theirs was under way

sessVars   == <<vm, phase, ws, attached, conn, auth, disposed, wire>>
callerVars == <<looking, waits, outcome>>
vars == <<sessions, callerVars, sessVars, activeTermVmid, crashed, overlapped>>

\* "proxy", "cookie": awaiting termProxy, getAuthCookie; "handshake": the
\* promise that the WebSocket callbacks and the two timers settle.
ApiPhase == {"proxy", "cookie"}
Running  == ApiPhase \cup {"handshake"}
Phase    == Running \cup {"free", "done", "failed"}
WsState  == {"none", "connecting", "open", "closing", "closed"}

TypeOK ==
  /\ sessions \in [VM -> Session \cup {NoSession}]
  /\ looking  \in [Caller -> VM \cup {NoVm}]
  /\ waits    \in [Caller -> Session \cup {NoSession}]
  /\ outcome  \in [Caller -> {"none", "ok", "error"}]
  /\ vm       \in [Session -> VM \cup {NoVm}]
  /\ phase    \in [Session -> Phase]
  /\ ws       \in [Session -> WsState]
  /\ attached \in [Session -> BOOLEAN]
  /\ conn     \in [Session -> BOOLEAN]
  /\ auth     \in [Session -> {"no", "settling", "yes"}]
  /\ disposed \in [Session -> BOOLEAN]
  /\ wire     \in [Session -> {"none", "ok", "bad"}]
  /\ activeTermVmid \in VM \cup {NoVm}
  /\ crashed  \in BOOLEAN
  /\ overlapped \subseteq VM

Init ==
  /\ sessions = [v \in VM |-> NoSession]
  /\ looking  = [c \in Caller |-> NoVm]
  /\ waits    = [c \in Caller |-> NoSession]
  /\ outcome  = [c \in Caller |-> "none"]
  /\ vm       = [s \in Session |-> NoVm]
  /\ phase    = [s \in Session |-> "free"]
  /\ ws       = [s \in Session |-> "none"]
  /\ attached = [s \in Session |-> FALSE]
  /\ conn     = [s \in Session |-> FALSE]
  /\ auth     = [s \in Session |-> "no"]
  /\ disposed = [s \in Session |-> FALSE]
  /\ wire     = [s \in Session |-> "none"]
  /\ activeTermVmid = NoVm
  /\ crashed  = FALSE
  /\ overlapped = {}

-----------------------------------------------------------------------------
(* Helpers *)

Connected(v) == sessions[v] # NoSession /\ conn[sessions[v]]

Idle(c) == looking[c] = NoVm /\ waits[c] = NoSession

\* The process runs, and still does after the step.
Up == ~crashed /\ UNCHANGED crashed

\* A connect of v is under way for caller c.
Connecting(c, v) == looking[c] = v \/ (waits[c] # NoSession /\ vm[waits[c]] = v)

\* A call that disposes of sessions of the VMs in W begins.
Begins(W) == overlapped' = overlapped \cup {v \in W : \E c \in Caller : Connecting(c, v)}

\* Objects a new TerminalSession may be: unused, or dead and out of reach.
Fresh == {s \in Session : \/ phase[s] = "free"
                          \/ /\ phase[s] \in {"done", "failed"}
                             /\ ws[s] \in {"none", "closed"}
                             /\ auth[s] # "settling"
                             /\ \A v \in VM : sessions[v] # s}

\* TerminalSession.disconnect() of every session in D.
Disconnected(D) ==
  /\ conn'     = [s \in Session |-> conn[s] /\ s \notin D]
  /\ attached' = [s \in Session |-> attached[s] /\ s \notin D]
  /\ disposed' = [s \in Session |-> disposed[s] \/ s \in D]
  /\ ws'       = [s \in Session |->
                    IF s \in D /\ attached[s] /\ ws[s] \in {"connecting", "open"}
                    THEN "closing" ELSE ws[s]]

\* fail() of the promise of s, of no effect once it is settled.
Fail(s) ==
  IF phase[s] \in Running
  THEN /\ phase'   = [phase EXCEPT ![s] = "failed"]
       /\ waits'   = [c \in Caller |-> IF waits[c] = s THEN NoSession ELSE waits[c]]
       /\ outcome' = [c \in Caller |-> IF waits[c] = s THEN "error" ELSE outcome[c]]
  ELSE UNCHANGED <<phase, waits, outcome>>

\* Mutant: the new session is not put in the map.
CreatedUnregistered(c, v, s) ==
  /\ s \in Fresh
  /\ vm'    = [vm EXCEPT ![s] = v]
  /\ phase' = [phase EXCEPT ![s] = "proxy"]
  /\ auth'  = [auth EXCEPT ![s] = "no"]
  /\ wire'  = [wire EXCEPT ![s] = "none"]
  /\ waits' = [waits EXCEPT ![c] = s]
  /\ UNCHANGED sessions

\* new TerminalSession, put in the map over whatever is there.
Created(c, v, s) ==
  /\ s \in Fresh
  /\ sessions' = [sessions EXCEPT ![v] = s]
  /\ vm'    = [vm EXCEPT ![s] = v]
  /\ phase' = [phase EXCEPT ![s] = "proxy"]
  /\ auth'  = [auth EXCEPT ![s] = "no"]
  /\ wire'  = [wire EXCEPT ![s] = "none"]
  /\ waits' = [waits EXCEPT ![c] = s]

-----------------------------------------------------------------------------
(* Tool calls *)

ReturnExisting(c, v) ==
  /\ Up
  /\ Idle(c)
  /\ Connected(v)
  /\ outcome' = [outcome EXCEPT ![c] = "ok"]
  /\ activeTermVmid' = v
  /\ UNCHANGED <<sessions, looking, waits, sessVars, overlapped>>

\* An entry that is not connected is disconnected (and stays in the map);
\* then the node is looked up, unless the call names it.
StartLookup(c, v) ==
  /\ Up
  /\ Idle(c)
  /\ Begins({v})
  /\ ~Connected(v)
  /\ Disconnected({sessions[v]})
  /\ looking' = [looking EXCEPT ![c] = v]
  /\ outcome' = [outcome EXCEPT ![c] = "none"]
  /\ UNCHANGED <<sessions, waits, vm, phase, auth, wire, activeTermVmid>>

StartConnect(c, v, s) ==
  /\ Up
  /\ Idle(c)
  /\ Begins({v})
  /\ ~Connected(v)
  /\ LET old == sessions[v]
     IN  /\ conn'     = [t \in Session |-> conn[t] /\ t \notin {old, s}]
         /\ attached' = [t \in Session |-> attached[t] /\ t \notin {old, s}]
         /\ disposed' = [t \in Session |-> t # s /\ (disposed[t] \/ t = old)]
         /\ ws'       = [t \in Session |->
                           IF t = s THEN "none"
                           ELSE IF t = old /\ attached[t] /\ ws[t] \in {"connecting", "open"}
                                THEN "closing" ELSE ws[t]]
  /\ Created(c, v, s)
  /\ outcome' = [outcome EXCEPT ![c] = "none"]
  /\ UNCHANGED <<looking, activeTermVmid>>

NodeAnswers(c, s) ==
  /\ Up
  /\ looking[c] # NoVm
  /\ Created(c, looking[c], s)
  /\ looking'  = [looking EXCEPT ![c] = NoVm]
  /\ conn'     = [conn EXCEPT ![s] = FALSE]
  /\ attached' = [attached EXCEPT ![s] = FALSE]
  /\ disposed' = [disposed EXCEPT ![s] = FALSE]
  /\ ws'       = [ws EXCEPT ![s] = "none"]
  /\ UNCHANGED <<outcome, activeTermVmid, overlapped>>

NodeFails(c) ==
  /\ Up
  /\ looking[c] # NoVm
  /\ looking' = [looking EXCEPT ![c] = NoVm]
  /\ outcome' = [outcome EXCEPT ![c] = "error"]
  /\ UNCHANGED <<sessions, waits, sessVars, activeTermVmid, overlapped>>

\* The map without the entry of v.
Deleted(v) == [sessions EXCEPT ![v] = NoSession]

Disconnect(v) ==
  /\ Up
  /\ Begins({v})
  /\ Disconnected({sessions[v]})
  /\ sessions' = Deleted(v)
  /\ activeTermVmid' = IF activeTermVmid = v THEN NoVm ELSE activeTermVmid
  /\ UNCHANGED <<callerVars, vm, phase, auth, wire>>

DisconnectAll ==
  /\ Up
  /\ Begins(VM)
  /\ Disconnected({sessions[v] : v \in VM})
  /\ sessions' = [v \in VM |-> NoSession]
  /\ UNCHANGED <<callerVars, vm, phase, auth, wire, activeTermVmid>>

-----------------------------------------------------------------------------
(* TerminalSession.connect *)

ApiFails(s) ==
  /\ Up
  /\ phase[s] \in ApiPhase
  /\ Fail(s)
  /\ UNCHANGED <<sessions, looking, vm, ws, attached, conn, auth, disposed, wire, activeTermVmid, overlapped>>

\* The last answer opens the WebSocket, whether or not disconnect() has been
\* called in the meantime.
ApiAnswers(s) ==
  /\ Up
  /\ \/ /\ phase[s] = "proxy"
        /\ phase' = [phase EXCEPT ![s] = "cookie"]
        /\ UNCHANGED <<ws, attached>>
     \/ /\ phase[s] = "cookie"
        /\ phase'    = [phase EXCEPT ![s] = "handshake"]
        /\ ws'       = [ws EXCEPT ![s] = "connecting"]
        /\ attached' = [attached EXCEPT ![s] = TRUE]
  /\ UNCHANGED <<sessions, callerVars, vm, conn, auth, disposed, wire, activeTermVmid, overlapped>>

\* Mutant: the timer is cleared as soon as the WebSocket opens.
TimesOutBeforeOpen(s) ==
  /\ Up
  /\ phase[s] = "handshake"
  /\ ws[s] = "connecting"
  /\ Fail(s)
  /\ ws' = [ws EXCEPT ![s] = "closing"]
  /\ UNCHANGED <<sessions, looking, vm, attached, conn, auth, disposed, wire, activeTermVmid, overlapped>>

\* The ten second timer rejects and closes; the object keeps its socket and
\* _connected as they are.
TimesOut(s) ==
  /\ Up
  /\ phase[s] = "handshake"
  /\ Fail(s)
  /\ ws' = IF attached[s] /\ ws[s] \in {"connecting", "open"}
           THEN [ws EXCEPT ![s] = "closing"] ELSE ws
  /\ UNCHANGED <<sessions, looking, vm, attached, conn, auth, disposed, wire, activeTermVmid, overlapped>>

\* 'open': user and ticket are sent; termproxy will accept them or not.
WsOpens(s) ==
  /\ Up
  /\ ws[s] = "connecting"
  /\ ws' = [ws EXCEPT ![s] = "open"]
  /\ \E answer \in {"ok", "bad"} : wire' = [wire EXCEPT ![s] = answer]
  /\ UNCHANGED <<sessions, callerVars, vm, phase, attached, conn, auth, disposed, activeTermVmid, overlapped>>

WsErrors(s) ==
  /\ Up
  /\ ws[s] \in {"connecting", "open"}
  /\ ws'   = [ws EXCEPT ![s] = "closing"]
  /\ wire' = [wire EXCEPT ![s] = "none"]
  /\ Fail(s)
  /\ UNCHANGED <<sessions, looking, vm, attached, conn, auth, disposed, activeTermVmid, overlapped>>

PeerCloses(s) ==
  /\ Up
  /\ ws[s] = "open"
  /\ ws'   = [ws EXCEPT ![s] = "closing"]
  /\ wire' = [wire EXCEPT ![s] = "none"]
  /\ UNCHANGED <<sessions, callerVars, vm, phase, attached, conn, auth, disposed, activeTermVmid, overlapped>>

\* Mutant: 'close' leaves _connected alone.
WsClosesConnected(s) ==
  /\ Up
  /\ ws[s] = "closing"
  /\ ws'   = [ws EXCEPT ![s] = "closed"]
  /\ wire' = [wire EXCEPT ![s] = "none"]
  /\ IF conn[s] THEN UNCHANGED <<phase, waits, outcome>> ELSE Fail(s)
  /\ UNCHANGED <<sessions, looking, vm, attached, conn, auth, disposed, activeTermVmid, overlapped>>

\* 'close': rejects unless the session had been connected, even when connect()
\* has not resolved yet.
WsCloses(s) ==
  /\ Up
  /\ ws[s] = "closing"
  /\ ws'   = [ws EXCEPT ![s] = "closed"]
  /\ wire' = [wire EXCEPT ![s] = "none"]
  /\ conn' = [conn EXCEPT ![s] = FALSE]
  /\ IF conn[s] THEN UNCHANGED <<phase, waits, outcome>> ELSE Fail(s)
  /\ UNCHANGED <<sessions, looking, vm, attached, auth, disposed, activeTermVmid, overlapped>>

\* termproxy says OK: the session is connected, the size is sent, and the
\* promise resolves 500 ms later.
Accepted(s) ==
  /\ Up
  /\ ws[s] \in {"open", "closing"}
  /\ wire[s] = "ok"
  /\ attached[s]
  /\ wire' = [wire EXCEPT ![s] = "none"]
  /\ conn' = [conn EXCEPT ![s] = TRUE]
  /\ auth' = [auth EXCEPT ![s] = "settling"]
  /\ UNCHANGED <<sessions, callerVars, vm, phase, ws, attached, disposed, activeTermVmid, overlapped>>

\* Mutant: any first message counts as OK.
RefusedUnnoticed(s) ==
  /\ Up
  /\ ws[s] \in {"open", "closing"}
  /\ wire[s] = "bad"
  /\ wire'  = [wire EXCEPT ![s] = "none"]
  /\ phase' = [phase EXCEPT ![s] = "done"]
  /\ waits'   = [c \in Caller |-> IF waits[c] = s THEN NoSession ELSE waits[c]]
  /\ outcome' = [c \in Caller |-> IF waits[c] = s THEN "ok" ELSE outcome[c]]
  /\ UNCHANGED <<sessions, looking, vm, ws, attached, conn, auth, disposed, activeTermVmid, overlapped>>

\* Anything else rejects the connect; the socket stays as it is.
Refused(s) ==
  /\ Up
  /\ ws[s] \in {"open", "closing"}
  /\ wire[s] = "bad"
  /\ wire' = [wire EXCEPT ![s] = "none"]
  /\ Fail(s)
  /\ UNCHANGED <<sessions, looking, vm, ws, attached, conn, auth, disposed, activeTermVmid, overlapped>>

\* The 500 ms are over.
Settles(s) ==
  /\ Up
  /\ auth[s] = "settling"
  /\ auth' = [auth EXCEPT ![s] = "yes"]
  /\ IF phase[s] = "handshake"
     THEN /\ phase'   = [phase EXCEPT ![s] = "done"]
          /\ waits'   = [c \in Caller |-> IF waits[c] = s THEN NoSession ELSE waits[c]]
          /\ outcome' = [c \in Caller |-> IF waits[c] = s THEN "ok" ELSE outcome[c]]
          /\ activeTermVmid' = vm[s]
     ELSE UNCHANGED <<phase, waits, outcome, activeTermVmid>>
  /\ UNCHANGED <<sessions, looking, vm, ws, attached, conn, disposed, wire, overlapped>>

\* OK reaches a session that disconnect() has taken the socket from: _connected
\* is set, this.ws!.send throws in the callback, and nothing catches it.  The
\* process ends, and with it every session, this one included.
AcceptedDetached(s) ==
  /\ ws[s] \in {"open", "closing"}
  /\ wire[s] = "ok"
  /\ ~attached[s]
  /\ ~crashed
  /\ crashed' = TRUE
  /\ conn' = [t \in Session |-> FALSE]
  /\ UNCHANGED <<sessions, callerVars, vm, phase, ws, attached, auth, disposed, wire, activeTermVmid, overlapped>>

-----------------------------------------------------------------------------
CallerStep(c) ==
  \/ \E v \in VM : ReturnExisting(c, v) \/ StartLookup(c, v)
  \/ \E v \in VM, s \in Session : StartConnect(c, v, s)
  \/ \E s \in Session : NodeAnswers(c, s)
  \/ NodeFails(c)

SessionStep(s) ==
  \/ ApiFails(s)
  \/ ApiAnswers(s)
  \/ TimesOut(s)
  \/ WsOpens(s)
  \/ WsErrors(s)
  \/ PeerCloses(s)
  \/ WsCloses(s)
  \/ Accepted(s)
  \/ Refused(s)
  \/ Settles(s)
  \/ AcceptedDetached(s)

Next ==
  \/ \E c \in Caller : CallerStep(c)
  \/ \E v \in VM : Disconnect(v)
  \/ DisconnectAll
  \/ \E s \in Session : SessionStep(s)

Spec == Init /\ [][Next]_vars

\* As in VncSessions: HTTP requests settle, timers fire, a closing WebSocket
\* closes.
Fairness ==
  /\ \A c \in Caller : WF_vars(NodeFails(c) \/ \E s \in Session : NodeAnswers(c, s))
  /\ \A s \in Session :
       /\ WF_vars(ApiFails(s) \/ ApiAnswers(s))
       /\ WF_vars(TimesOut(s))
       /\ WF_vars(Settles(s))
       /\ WF_vars(WsCloses(s))

FairSpec == Spec /\ Fairness

-----------------------------------------------------------------------------
\* The live sessions of the VMs whose calls have come one after the other.
live == [v \in VM |-> {s \in Session : conn[s] /\ vm[s] = v /\ v \notin overlapped}]

Registry == INSTANCE OneSessionPerVm WITH live <- live

-----------------------------------------------------------------------------
(* Properties *)

\* "one per VM": holds step by step for each VM until a call for it overlaps a
\* connect of it, whatever calls do for other VMs.
ImplementsRegistry == Registry!Spec

\* No VM has two live sessions (the comment on TerminalSessionManager).  Of two
\* overlapping serial_connect calls the second disposes of the first one's
\* session while that awaits the API; its connect() opens the socket all the same.
OneLivePerVm ==
  \A s, t \in Session : conn[s] /\ conn[t] /\ vm[s] = vm[t] => s = t

\* The handler of the first message takes it that the session has a socket
\* (this.ws!.send).  It has none when disconnect() came before the message.
NeverCrashes == ~crashed

\* What the map holds for a VM belongs to it, and a connected session has a
\* socket that has not closed: the manager keeps dead entries, so `connected`
\* is all that tells them from live ones.
ConnectedHasSocket ==
  /\ \A v \in VM : sessions[v] # NoSession => vm[sessions[v]] = v
  /\ \A s \in Session : conn[s] => attached[s] /\ ws[s] \in {"open", "closing"}

\* serial_connect reports success only for a session termproxy accepted.
SuccessIsAccepted ==
  [][\A c \in Caller : waits[c] # NoSession /\ waits'[c] = NoSession /\ outcome'[c] = "ok"
                         => auth[waits[c]] # "no"]_vars

\* Every serial_connect returns, unless the process is gone.
ConnectSettles == \A c \in Caller : ~Idle(c) ~> Idle(c) \/ crashed
=============================================================================
