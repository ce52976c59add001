------------------------------ MODULE PveAuth ------------------------------
(***************************************************************************)
(* Tickets of the Proxmox VE API: PveAuthManager (pve-auth.ts) and the way *)
(* PveApiClient.request uses it (pve-api.ts).                              *)
(*                                                                         *)
(* Every caller that finds no usable ticket authenticates for itself, and  *)
(* so does the refresh timer; the replies come in any order.  A ticket is  *)
(* known by the time at which the server issued it.  The server forgets it *)
(* Lifetime later; the client, which counts from the arrival of the reply, *)
(* believes in it a little longer.                                         *)
(***************************************************************************)
EXTENDS Integers

CONSTANTS Caller,       \* concurrent API requests
          Timer,        \* the refresh timer, as one who authenticates
          Lifetime,     \* TICKET_LIFETIME_MS
          Margin,       \* REFRESH_MARGIN_MS
          Delay,        \* an authentication is answered within this time
          MaxFailures,  \* bound: authentications that fail on the network
          MaxTime       \* bound: time

ASSUME TimerAssumption == Timer \notin Caller
ASSUME TimesAssumption == /\ Lifetime \in Nat /\ Margin \in Nat /\ Delay \in Nat
                          /\ Margin < Lifetime /\ Delay < Lifetime
                          /\ Delay <= Margin
ASSUME BoundsAssumption == MaxFailures \in Nat /\ MaxTime \in Nat

VARIABLES
  now,
  ticket,     \* currentTicket: issued, expires (issued = -1: null)
  timer,      \* when refreshTimer fires, or -1
  auth,       \* authentications: state, password, sent, issued
  phase,      \* caller: what it awaits
  used,       \* caller: the ticket its request carries
  usedAt,     \* caller: when it sent the request
  forcedAt,   \* caller: when it was told 403
  failures

vars == <<now, ticket, timer, auth, phase, used, usedAt, forcedAt, failures>>

Who == Caller \cup {Timer}

NoTicket == [issued |-> -1, expires |-> -1]
NoAuth   == [state |-> "none", password |-> -1, sent |-> 0, issued |-> 0]

TypeOK ==
  /\ now \in Nat
  /\ ticket \in [issued : Nat, expires : Nat] \cup {NoTicket}
  /\ timer \in Nat \cup {-1}
  /\ auth \in [Who -> [state : {"none", "sent", "granted", "refused", "failed"},
                       password : Nat \cup {-1}, sent : Nat, issued : Nat]]
  /\ phase \in [Caller -> {"idle", "auth", "call", "force", "retry"}]
  /\ used \in [Caller -> Nat] /\ usedAt \in [Caller -> Nat] /\ forcedAt \in [Caller -> Nat]
  /\ failures \in Nat

Init ==
  /\ now = 0 /\ ticket = NoTicket /\ timer = -1
  /\ auth = [w \in Who |-> NoAuth]
  /\ phase = [c \in Caller |-> "idle"]
  /\ used = [c \in Caller |-> 0] /\ usedAt = [c \in Caller |-> 0]
  /\ forcedAt = [c \in Caller |-> 0]
  /\ failures = 0

-----------------------------------------------------------------------------
\* Mutant: the margin is forgotten.
UsableToTheEnd == ticket # NoTicket /\ now < ticket.expires

\* getTicket returns the cached ticket.
Usable == ticket # NoTicket /\ now < ticket.expires - Margin

\* authenticate: the password is the ticket held (-1: the real one).
Authenticate(w, held) ==
  auth' = [auth EXCEPT ![w] = [state |-> "sent", password |-> held.issued, sent |-> now, issued |-> 0]]

\* doRequest sends with ticket t.
Send(c, t, ph) ==
  /\ phase'  = [phase EXCEPT ![c] = ph]
  /\ used'   = [used EXCEPT ![c] = t]
  /\ usedAt' = [usedAt EXCEPT ![c] = now]

-----------------------------------------------------------------------------
(* Requests *)

RequestCached(c) ==
  /\ phase[c] = "idle"
  /\ Usable
  /\ Send(c, ticket.issued, "call")
  /\ UNCHANGED <<now, ticket, timer, auth, forcedAt, failures>>

RequestAuthenticates(c) ==
  /\ phase[c] = "idle"
  /\ ~Usable
  /\ Authenticate(c, ticket)
  /\ phase' = [phase EXCEPT ![c] = "auth"]
  /\ UNCHANGED <<now, ticket, timer, used, usedAt, forcedAt, failures>>

\* Mutant: the retry takes the cached ticket.
ForbiddenCached(c) ==
  /\ phase[c] = "call"
  /\ ticket # NoTicket
  /\ forcedAt' = [forcedAt EXCEPT ![c] = now]
  /\ Send(c, ticket.issued, "retry")
  /\ UNCHANGED <<now, ticket, timer, auth, failures>>

\* 403: the cached ticket is dropped, for every caller, and a new one asked for.
Forbidden(c) ==
  /\ phase[c] = "call"
  /\ forcedAt' = [forcedAt EXCEPT ![c] = now]
  /\ ticket' = NoTicket
  /\ Authenticate(c, NoTicket)
  /\ phase' = [phase EXCEPT ![c] = "force"]
  /\ UNCHANGED <<now, timer, used, usedAt, failures>>

\* c's request is over.
Over(c) ==
  /\ phase'    = [phase EXCEPT ![c] = "idle"]
  /\ used'     = [used EXCEPT ![c] = 0]
  /\ usedAt'   = [usedAt EXCEPT ![c] = 0]
  /\ forcedAt' = [forcedAt EXCEPT ![c] = 0]

\* Any other answer, or any answer to a retry.
Answered(c) ==
  /\ phase[c] \in {"call", "retry"}
  /\ Over(c)
  /\ UNCHANGED <<now, ticket, timer, auth, failures>>

-----------------------------------------------------------------------------
(* Authentications *)

\* The server takes the real password, and a ticket it has not forgotten.
ServerAnswers(w) ==
  /\ auth[w].state = "sent"
  /\ IF auth[w].password = -1 \/ now < auth[w].password + Lifetime
     THEN auth' = [auth EXCEPT ![w].state = "granted", ![w].issued = now]
     ELSE auth' = [auth EXCEPT ![w].state = "refused"]
  /\ UNCHANGED <<now, ticket, timer, phase, used, usedAt, forcedAt, failures>>

NetworkFails(w) ==
  /\ auth[w].state = "sent"
  /\ failures < MaxFailures
  /\ failures' = failures + 1
  /\ auth' = [auth EXCEPT ![w].state = "failed"]
  /\ UNCHANGED <<now, ticket, timer, phase, used, usedAt, forcedAt>>

\* Mutant: the timer is set to the end of the ticket.
RefreshAtTheEnd == now + Lifetime

\* scheduleRefresh
RefreshAt == now + Lifetime - Margin

\* expiresAt
ExpiresAt == now + Lifetime

\* The new ticket replaces whichever is held; the caller goes on with its
\* request in the same turn, the retry through getTicket.
Granted(w) ==
  /\ auth[w].state = "granted"
  /\ ticket' = [issued |-> auth[w].issued, expires |-> ExpiresAt]
  /\ timer'  = RefreshAt
  /\ auth'   = [auth EXCEPT ![w] = NoAuth]
  /\ IF w = Timer
     THEN UNCHANGED <<phase, used, usedAt>>
     ELSE Send(w, auth[w].issued, IF phase[w] = "force" THEN "retry" ELSE "call")
  /\ UNCHANGED <<now, forcedAt, failures>>

\* The caller's request throws.  The timer logs, and is not set again.
Denied(w) ==
  /\ auth[w].state \in {"refused", "failed"}
  /\ auth'  = [auth EXCEPT ![w] = NoAuth]
  /\ IF w = Timer THEN UNCHANGED <<phase, used, usedAt, forcedAt>> ELSE Over(w)
  /\ UNCHANGED <<now, ticket, timer, failures>>

TimerFires ==
  /\ timer # -1
  /\ now >= timer
  /\ timer' = -1
  /\ Authenticate(Timer, ticket)
  /\ UNCHANGED <<now, ticket, phase, used, usedAt, forcedAt, failures>>

\* destroy() stops the timer, not what is under way.
Destroy ==
  /\ timer'  = -1
  /\ ticket' = NoTicket
  /\ UNCHANGED <<now, auth, phase, used, usedAt, forcedAt, failures>>

-----------------------------------------------------------------------------
\* Timers are punctual, and authentications are answered within Delay.
Tick ==
  /\ now < MaxTime
  /\ timer # -1 => now < timer
  /\ \A w \in Who : auth[w].state # "none" => now < auth[w].sent + Delay
  /\ now' = now + 1
  /\ UNCHANGED <<ticket, timer, auth, phase, used, usedAt, forcedAt, failures>>

Next ==
  \/ \E c \in Caller : \/ RequestCached(c) \/ RequestAuthenticates(c)
                       \/ Forbidden(c) \/ Answered(c)
  \/ \E w \in Who : ServerAnswers(w) \/ NetworkFails(w) \/ Granted(w) \/ Denied(w)
  \/ TimerFires
  \/ Destroy
  \/ Tick

Spec == Init /\ [][Next]_vars

-----------------------------------------------------------------------------
(* Properties *)

\* No API request is sent with a ticket the server has forgotten, although the
\* client counts its lifetime from the arrival of the reply.
FreshOnUse == \A c \in Caller : phase[c] \in {"call", "retry"} => usedAt[c] < used[c] + Lifetime

\* "403s trigger a retry with a fresh ticket": one issued after the 403, though
\* replies to earlier authentications may still arrive.
RetryIsFresh == \A c \in Caller : phase[c] = "retry" => used[c] >= forcedAt[c]

\* The strengthening of FreshOnUse that is inductive: how far issue, arrival
\* and use of a ticket can be apart.
Timing ==
  /\ \A w \in Who : /\ auth[w].state # "none" =>
                         auth[w].sent <= now /\ now <= auth[w].sent + Delay
                    /\ auth[w].state = "granted" => auth[w].sent <= auth[w].issued
  /\ ticket # NoTicket => ticket.expires <= ticket.issued + Delay + Lifetime
  /\ \A c \in Caller : phase[c] = "force" =>
       auth[c].state # "none" /\ auth[c].sent = forcedAt[c]

\* "Auth tickets refresh before their 2h expiry": the ticket held is one that
\* the server still knows.  As long as no refresh fails, that is.
HeldIsValid == failures = 0 /\ ticket # NoTicket => now < ticket.issued + Lifetime

\* Whoever knows the password can log in.  Once the ticket held has expired it
\* is sent as the password, refused, and kept.
NeverLockedOut == \A w \in Who : auth[w].state # "refused"
=============================================================================
