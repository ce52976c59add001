--------------------------- MODULE PveAuth_proofs ---------------------------
(***************************************************************************)
(* Proofs about PveAuth, for any callers, times and bounds.                *)
(***************************************************************************)
EXTENDS PveAuth, TLAPS

IInv == TypeOK /\ Timing /\ FreshOnUse /\ RetryIsFresh

-----------------------------------------------------------------------------
(* Type correctness *)

LEMMA InitTypeOK == Init => TypeOK
BY DEF Init, TypeOK, NoTicket, NoAuth, Who

\* An authentication that starts keeps the type of auth.
LEMMA AuthenticateType ==
  ASSUME TypeOK, NEW w \in Who, Authenticate(w, ticket) \/ Authenticate(w, NoTicket)
  PROVE  auth' \in [Who -> [state : {"none", "sent", "granted", "refused", "failed"},
                            password : Nat \cup {-1}, sent : Nat, issued : Nat]]
<1>1. ticket.issued \in Nat \cup {-1} /\ NoTicket.issued \in Nat \cup {-1}
  BY DEF TypeOK, NoTicket
<1> QED
  BY <1>1 DEF Authenticate, TypeOK

LEMMA NextTypeOK == TypeOK /\ [Next]_vars => TypeOK'
<1> SUFFICES ASSUME TypeOK, [Next]_vars PROVE TypeOK'
  OBVIOUS
<1> USE TimesAssumption
<1>c. Caller \subseteq Who /\ Timer \in Who
  BY DEF Who
<1>1. ASSUME NEW c \in Caller, RequestCached(c) PROVE TypeOK'
  <2>1. ticket.issued \in Nat
    BY <1>1 DEF RequestCached, Usable, TypeOK
  <2> QED
    BY <1>1, <2>1 DEF RequestCached, Send, TypeOK
<1>2. ASSUME NEW c \in Caller, RequestAuthenticates(c) PROVE TypeOK'
  <2>1. Authenticate(c, ticket) /\ c \in Who
    BY <1>2, <1>c DEF RequestAuthenticates
  <2> QED
    BY <1>2, <2>1, AuthenticateType DEF RequestAuthenticates, TypeOK
<1>3. ASSUME NEW c \in Caller, Forbidden(c) PROVE TypeOK'
  <2>1. Authenticate(c, NoTicket) /\ c \in Who
    BY <1>3, <1>c DEF Forbidden
  <2> QED
    BY <1>3, <2>1, AuthenticateType DEF Forbidden, TypeOK
<1>4. ASSUME NEW c \in Caller, Answered(c) PROVE TypeOK'
  BY <1>4 DEF Answered, Over, TypeOK
<1>5. ASSUME NEW w \in Who, ServerAnswers(w) PROVE TypeOK'
  BY <1>5 DEF ServerAnswers, TypeOK
<1>6. ASSUME NEW w \in Who, NetworkFails(w) PROVE TypeOK'
  BY <1>6 DEF NetworkFails, TypeOK
<1>7. ASSUME NEW w \in Who, Granted(w) PROVE TypeOK'
  <2>1. auth[w].issued \in Nat /\ now \in Nat
    BY DEF TypeOK
  <2>2. RefreshAt \in Nat /\ ExpiresAt \in Nat
    BY <2>1 DEF RefreshAt, ExpiresAt
  <2>3. auth' \in [Who -> [state : {"none", "sent", "granted", "refused", "failed"},
                           password : Nat \cup {-1}, sent : Nat, issued : Nat]]
    BY <1>7 DEF Granted, NoAuth, TypeOK
  <2>4. /\ phase' \in [Caller -> {"idle", "auth", "call", "force", "retry"}]
        /\ used' \in [Caller -> Nat] /\ usedAt' \in [Caller -> Nat]
    BY <1>7, <2>1 DEF Granted, Send, TypeOK, Who
  <2> QED
    BY <1>7, <2>1, <2>2, <2>3, <2>4 DEF Granted, TypeOK
<1>8. ASSUME NEW w \in Who, Denied(w) PROVE TypeOK'
  <2>1. auth' \in [Who -> [state : {"none", "sent", "granted", "refused", "failed"},
                           password : Nat \cup {-1}, sent : Nat, issued : Nat]]
    BY <1>8 DEF Denied, NoAuth, TypeOK
  <2>2. /\ phase' \in [Caller -> {"idle", "auth", "call", "force", "retry"}]
        /\ used' \in [Caller -> Nat] /\ usedAt' \in [Caller -> Nat]
        /\ forcedAt' \in [Caller -> Nat]
    <3>1. CASE w = Timer
      BY <1>8, <3>1 DEF Denied, TypeOK
    <3>2. CASE w # Timer
      BY <1>8, <3>2 DEF Denied, Over, TypeOK
    <3> QED
      BY <3>1, <3>2
  <2> QED
    BY <1>8, <2>1, <2>2 DEF Denied, TypeOK
<1>9. CASE TimerFires
  BY <1>9, <1>c, AuthenticateType DEF TimerFires, TypeOK
<1>10. CASE Destroy
  BY <1>10 DEF Destroy, TypeOK
<1>11. CASE Tick
  BY <1>11 DEF Tick, TypeOK
<1>12. CASE UNCHANGED vars
  BY <1>12 DEF vars, TypeOK
<1> QED
  BY <1>1, <1>2, <1>3, <1>4, <1>5, <1>6, <1>7, <1>8, <1>9, <1>10, <1>11, <1>12 DEF Next

\* Every variable keeps its type; times stay natural numbers because the margin
\* is below the lifetime.
THEOREM TypeCorrect == Spec => []TypeOK
BY InitTypeOK, NextTypeOK, PTL DEF Spec

-----------------------------------------------------------------------------
(* Freshness *)

LEMMA InitIInv == Init => IInv
BY InitTypeOK DEF Init, IInv, Timing, FreshOnUse, RetryIsFresh, NoAuth, Who

\* An authentication that starts now is in time.
LEMMA AuthenticateInTime ==
  ASSUME TypeOK, Timing, NEW w \in Who, NEW t, Authenticate(w, t), now' = now
  PROVE  /\ \A x \in Who : /\ auth'[x].state # "none" =>
                                auth'[x].sent <= now' /\ now' <= auth'[x].sent + Delay
                           /\ auth'[x].state = "granted" => auth'[x].sent <= auth'[x].issued
         /\ auth'[w].state # "none" /\ auth'[w].sent = now
BY TimesAssumption DEF TypeOK, Timing, Authenticate

LEMMA NextIInv == IInv /\ [Next]_vars => IInv'
<1> SUFFICES ASSUME IInv, [Next]_vars PROVE Timing' /\ FreshOnUse' /\ RetryIsFresh'
  BY NextTypeOK DEF IInv
<1> USE TimerAssumption, TimesAssumption
<1>t. TypeOK /\ Timing /\ FreshOnUse /\ RetryIsFresh
  BY DEF IInv
<1>c. Caller \subseteq Who /\ Timer \in Who
  BY DEF Who
<1>1. ASSUME NEW c \in Caller, RequestCached(c) PROVE Timing' /\ FreshOnUse' /\ RetryIsFresh'
  <2>1. /\ ticket # NoTicket /\ ticket.issued \in Nat /\ ticket.expires \in Nat
        /\ now < ticket.expires - Margin
    BY <1>1, <1>t DEF RequestCached, Usable, TypeOK
  <2>2. ticket.expires <= ticket.issued + Delay + Lifetime
    BY <2>1, <1>t DEF Timing
  <2>3. now < ticket.issued + Lifetime
    BY <2>1, <2>2, <1>t DEF TypeOK
  <2>4. Timing'
    BY <1>1, <1>t DEF RequestCached, Send, Timing, TypeOK
  <2>5. FreshOnUse'
    BY <1>1, <1>t, <2>3 DEF RequestCached, Send, FreshOnUse, TypeOK
  <2>6. RetryIsFresh'
    BY <1>1, <1>t DEF RequestCached, Send, RetryIsFresh, TypeOK
  <2> QED
    BY <2>4, <2>5, <2>6
<1>2. ASSUME NEW c \in Caller, RequestAuthenticates(c) PROVE Timing' /\ FreshOnUse' /\ RetryIsFresh'
  <2>1. Authenticate(c, ticket) /\ c \in Who /\ now' = now
    BY <1>2, <1>c DEF RequestAuthenticates
  <2>2. Timing'
    <3>1. \A d \in Caller : phase'[d] = "force" => phase[d] = "force" /\ d # c
      BY <1>2, <1>t DEF RequestAuthenticates, TypeOK
    <3>2. \A d \in Caller \ {c} : auth'[d] = auth[d]
      BY <2>1, <1>t, <1>c DEF Authenticate, TypeOK
    <3> QED
      BY <1>2, <1>t, <2>1, <3>1, <3>2, AuthenticateInTime DEF RequestAuthenticates, Timing
  <2>3. FreshOnUse' /\ RetryIsFresh'
    BY <1>2, <1>t DEF RequestAuthenticates, FreshOnUse, RetryIsFresh, TypeOK
  <2> QED
    BY <2>2, <2>3
<1>3. ASSUME NEW c \in Caller, Forbidden(c) PROVE Timing' /\ FreshOnUse' /\ RetryIsFresh'
  <2>1. Authenticate(c, NoTicket) /\ c \in Who /\ now' = now /\ forcedAt'[c] = now
    BY <1>3, <1>c, <1>t DEF Forbidden, TypeOK
  <2>2. Timing'
    <3>1. \A d \in Caller \ {c} : /\ phase'[d] = "force" => phase[d] = "force"
                                  /\ auth'[d] = auth[d] /\ forcedAt'[d] = forcedAt[d]
      BY <1>3, <2>1, <1>t, <1>c DEF Forbidden, Authenticate, TypeOK
    <3> QED
      BY <1>3, <1>t, <2>1, <3>1, AuthenticateInTime DEF Forbidden, Timing
  <2>3. FreshOnUse' /\ RetryIsFresh'
    BY <1>3, <1>t DEF Forbidden, FreshOnUse, RetryIsFresh, TypeOK
  <2> QED
    BY <2>2, <2>3
<1>4. ASSUME NEW c \in Caller, Answered(c) PROVE Timing' /\ FreshOnUse' /\ RetryIsFresh'
  <2>1. \A d \in Caller : phase'[d] # "idle" => /\ phase'[d] = phase[d] /\ used'[d] = used[d]
                                                /\ usedAt'[d] = usedAt[d]
                                                /\ forcedAt'[d] = forcedAt[d]
    BY <1>4, <1>t DEF Answered, Over, TypeOK
  <2>2. Timing'
    BY <1>4, <1>t, <2>1 DEF Answered, Timing
  <2>3. FreshOnUse' /\ RetryIsFresh'
    BY <1>t, <2>1 DEF FreshOnUse, RetryIsFresh
  <2> QED
    BY <2>2, <2>3
<1>5. ASSUME NEW w \in Who, ServerAnswers(w) PROVE Timing' /\ FreshOnUse' /\ RetryIsFresh'
  <2>a. /\ now' = now /\ now \in Nat
        /\ auth'[w].sent = auth[w].sent /\ auth[w].sent \in Nat
        /\ auth'[w].state = "granted" => auth'[w].issued = now
        /\ auth'[w].state # "none" /\ auth[w].state = "sent"
        /\ \A x \in Who \ {w} : auth'[x] = auth[x]
    BY <1>5, <1>t DEF ServerAnswers, TypeOK
  <2>b. auth[w].sent <= now
    BY <2>a, <1>t DEF Timing
  <2>1. Timing'
    <3>1. \A x \in Who :
            /\ auth'[x].state # "none" =>
                 auth'[x].sent <= now' /\ now' <= auth'[x].sent + Delay
            /\ auth'[x].state = "granted" => auth'[x].sent <= auth'[x].issued
      BY <2>a, <2>b, <1>t DEF Timing
    <3>2. \A c \in Caller : phase'[c] = "force" =>
            auth'[c].state # "none" /\ auth'[c].sent = forcedAt'[c]
      <4> SUFFICES ASSUME NEW c \in Caller, phase'[c] = "force"
                   PROVE  auth'[c].state # "none" /\ auth'[c].sent = forcedAt'[c]
        OBVIOUS
      <4>1. auth[c].state # "none" /\ auth[c].sent = forcedAt[c] /\ forcedAt' = forcedAt
        BY <1>5, <1>t DEF ServerAnswers, Timing
      <4> QED
        BY <4>1, <2>a, <1>c
    <3>3. ticket' # NoTicket => ticket'.expires <= ticket'.issued + Delay + Lifetime
      BY <1>5, <1>t DEF ServerAnswers, Timing
    <3> QED
      BY <3>1, <3>2, <3>3 DEF Timing
  <2>2. FreshOnUse' /\ RetryIsFresh'
    BY <1>5, <1>t DEF ServerAnswers, FreshOnUse, RetryIsFresh
  <2> QED
    BY <2>1, <2>2
<1>6. ASSUME NEW w \in Who, NetworkFails(w) PROVE Timing' /\ FreshOnUse' /\ RetryIsFresh'
  <2>1. Timing'
    BY <1>6, <1>t, <1>c DEF NetworkFails, Timing, TypeOK
  <2>2. FreshOnUse' /\ RetryIsFresh'
    BY <1>6, <1>t DEF NetworkFails, FreshOnUse, RetryIsFresh
  <2> QED
    BY <2>1, <2>2
<1>7. ASSUME NEW w \in Who, Granted(w) PROVE Timing' /\ FreshOnUse' /\ RetryIsFresh'
  <2>1. /\ auth[w].issued \in Nat /\ auth[w].sent \in Nat /\ now \in Nat
        /\ auth[w].sent <= auth[w].issued /\ now <= auth[w].sent + Delay
    BY <1>7, <1>t DEF Granted, Timing, TypeOK
  <2>2. ticket'.expires <= ticket'.issued + Delay + Lifetime
    BY <1>7, <2>1 DEF Granted, ExpiresAt
  <2>3. \A d \in Caller : phase'[d] = "force" => phase[d] = "force" /\ d # w
    BY <1>7, <1>t DEF Granted, Send, TypeOK
  <2>4. Timing'
    BY <1>7, <1>t, <1>c, <2>2, <2>3 DEF Granted, Timing, TypeOK, NoAuth
  <2>5. CASE w = Timer
    BY <2>4, <2>5, <1>7, <1>t DEF Granted, FreshOnUse, RetryIsFresh
  <2>6. CASE w # Timer
    <3>1. w \in Caller
      BY <2>6 DEF Who
    <3>2. FreshOnUse'
      BY <1>7, <1>t, <2>1, <2>6, <3>1 DEF Granted, Send, FreshOnUse, TypeOK
    <3>3. phase[w] = "force" => forcedAt[w] <= auth[w].issued
      BY <1>t, <2>1, <3>1 DEF Timing
    <3>4. RetryIsFresh'
      BY <1>7, <1>t, <2>1, <2>6, <3>1, <3>3 DEF Granted, Send, RetryIsFresh, TypeOK
    <3> QED
      BY <2>4, <3>2, <3>4
  <2> QED
    BY <2>5, <2>6
<1>8. ASSUME NEW w \in Who, Denied(w) PROVE Timing' /\ FreshOnUse' /\ RetryIsFresh'
  <2>1. \A d \in Caller : phase'[d] # "idle" => /\ phase'[d] = phase[d] /\ used'[d] = used[d]
                                                /\ usedAt'[d] = usedAt[d]
                                                /\ forcedAt'[d] = forcedAt[d] /\ d # w
    BY <1>8, <1>t DEF Denied, Over, TypeOK
  <2>2. Timing'
    BY <1>8, <1>t, <1>c, <2>1 DEF Denied, Timing, TypeOK, NoAuth
  <2>3. FreshOnUse' /\ RetryIsFresh'
    BY <1>t, <2>1 DEF FreshOnUse, RetryIsFresh
  <2> QED
    BY <2>2, <2>3
<1>9. CASE TimerFires
  <2>1. Authenticate(Timer, ticket) /\ now' = now
    BY <1>9 DEF TimerFires
  <2>2. \A d \in Caller : auth'[d] = auth[d]
    BY <2>1, <1>t, <1>c DEF Authenticate, TypeOK
  <2>3. Timing'
    BY <1>9, <1>t, <1>c, <2>1, <2>2, AuthenticateInTime DEF TimerFires, Timing
  <2>4. FreshOnUse' /\ RetryIsFresh'
    BY <1>9, <1>t DEF TimerFires, FreshOnUse, RetryIsFresh
  <2> QED
    BY <2>3, <2>4
<1>10. CASE Destroy
  BY <1>10, <1>t DEF Destroy, Timing, FreshOnUse, RetryIsFresh
<1>11. CASE Tick
  <2>1. Timing'
    BY <1>11, <1>t DEF Tick, Timing, TypeOK
  <2>2. FreshOnUse' /\ RetryIsFresh'
    BY <1>11, <1>t DEF Tick, FreshOnUse, RetryIsFresh
  <2> QED
    BY <2>1, <2>2
<1>12. CASE UNCHANGED vars
  BY <1>12, <1>t DEF vars, Timing, FreshOnUse, RetryIsFresh
<1> QED
  BY <1>1, <1>2, <1>3, <1>4, <1>5, <1>6, <1>7, <1>8, <1>9, <1>10, <1>11, <1>12 DEF Next

LEMMA Inductive == Spec => []IInv
BY InitIInv, NextIInv, PTL DEF Spec

\* An API request never carries a ticket that the server has forgotten, for
\* every lifetime, margin and delay with Delay <= Margin: the margin makes up
\* for counting from the arrival of the reply.
THEOREM RequestsCarryFreshTickets == Spec => []FreshOnUse
<1>1. IInv => FreshOnUse
  BY DEF IInv
<1> QED
  BY Inductive, <1>1, PTL

\* The retry after a 403 carries a ticket issued after the 403, however the
\* replies to other authentications arrive.
THEOREM RetryCarriesNewTicket == Spec => []RetryIsFresh
<1>1. IInv => RetryIsFresh
  BY DEF IInv
<1> QED
  BY Inductive, <1>1, PTL
-----------------------------------------------------------------------------
(* The ticket held *)

\* How the refresh keeps the ticket held valid: the timer is set so early that two
\* answers, to the authentication before and to the refresh, come within the lifetime;
\* and what the refresh sends as its password, the server still knows.
RefreshBy == ticket.issued + Delay + Lifetime - Margin
Refreshed ==
  /\ timer # -1 => now <= timer
  /\ ticket # NoTicket /\ timer # -1 => timer <= RefreshBy
  /\ auth[Timer].state = "sent" /\ auth[Timer].password # -1 =>
       auth[Timer].sent + Delay < auth[Timer].password + Lifetime
  /\ auth[Timer].state # "refused"
  /\ failures = 0 => auth[Timer].state # "failed"
  /\ failures = 0 /\ ticket # NoTicket /\ timer = -1 =>
       auth[Timer].state # "none" /\ auth[Timer].sent <= RefreshBy

LEMMA InitRefreshed == Init => Refreshed
BY DEF Init, Refreshed, NoAuth, Who

LEMMA RefreshedHolds ==
  ASSUME IInv, Refreshed, 2 * Delay < Margin
  PROVE  HeldIsValid
<1> SUFFICES ASSUME failures = 0, ticket # NoTicket
             PROVE  now < ticket.issued + Lifetime
  BY DEF HeldIsValid
<1>1. now \in Nat /\ ticket.issued \in Nat /\ timer \in Nat \cup {-1} /\ auth[Timer].sent \in Nat
  BY DEF IInv, TypeOK, Who
<1>2. CASE timer # -1
  BY <1>1, <1>2, TimesAssumption DEF Refreshed, RefreshBy
<1>3. CASE timer = -1
  <2>1. now <= auth[Timer].sent + Delay
    BY <1>3 DEF IInv, Timing, Refreshed, Who
  <2>2. auth[Timer].sent <= RefreshBy
    BY <1>3 DEF Refreshed
  <2>3. QED
    BY <1>1, <2>1, <2>2, TimesAssumption DEF RefreshBy
<1>4. QED
  BY <1>2, <1>3

LEMMA NextRefreshed ==
  ASSUME IInv, Refreshed, 2 * Delay < Margin, [Next]_vars
  PROVE  Refreshed'
<1> USE TimerAssumption, TimesAssumption
<1>1. /\ TypeOK /\ now \in Nat /\ timer \in Nat \cup {-1} /\ failures \in Nat
      /\ Timer \in Who /\ Caller \subseteq Who
      /\ auth[Timer].sent \in Nat /\ auth[Timer].password \in Nat \cup {-1}
      /\ ticket # NoTicket => ticket.issued \in Nat
  BY DEF IInv, TypeOK, Who
\* A step that leaves the timer, the ticket and the refresh alone.
<1>2. ASSUME UNCHANGED <<now, timer, failures>>, ticket' = ticket \/ ticket' = NoTicket,
             auth'[Timer] = auth[Timer]
      PROVE  Refreshed'
  BY <1>2 DEF Refreshed, RefreshBy
\* An authentication of somebody else.
<1>3. ASSUME NEW c \in Caller, NEW t, Authenticate(c, t)
      PROVE  auth'[Timer] = auth[Timer]
  BY <1>1, <1>3 DEF Authenticate, TypeOK
<1>4. ASSUME NEW c \in Caller,
             RequestCached(c) \/ RequestAuthenticates(c) \/ Forbidden(c) \/ Answered(c)
      PROVE  Refreshed'
  BY <1>2, <1>3, <1>4 DEF RequestCached, RequestAuthenticates, Forbidden, Answered
<1>5. ASSUME NEW w \in Who, ServerAnswers(w)
      PROVE  Refreshed'
  <2>1. UNCHANGED <<now, ticket, timer, failures>>
    BY <1>5 DEF ServerAnswers
  <2>2. CASE w # Timer
    <3>1. auth'[Timer] = auth[Timer]
      BY <1>1, <1>5, <2>2 DEF ServerAnswers, TypeOK
    <3>2. QED
      BY <1>2, <2>1, <3>1
  <2>3. CASE w = Timer
    <3>1. auth[Timer].state = "sent" /\ now <= auth[Timer].sent + Delay
      BY <1>5, <2>3 DEF ServerAnswers, IInv, Timing
    <3>2. auth[Timer].password = -1 \/ now < auth[Timer].password + Lifetime
      BY <1>1, <3>1 DEF Refreshed
    <3>3. auth'[Timer].state = "granted" /\ auth'[Timer].sent = auth[Timer].sent
      BY <1>1, <1>5, <2>3, <3>2 DEF ServerAnswers, TypeOK
    <3>4. QED
      BY <2>1, <3>1, <3>3 DEF Refreshed, RefreshBy
  <2>4. QED
    BY <2>2, <2>3
<1>6. ASSUME NEW w \in Who, NetworkFails(w)
      PROVE  Refreshed'
  <2>1. UNCHANGED <<now, ticket, timer>> /\ failures' # 0
    BY <1>1, <1>6 DEF NetworkFails
  <2>2. auth'[Timer].state \in {auth[Timer].state, "failed"} \ {"sent"}
        \/ auth'[Timer] = auth[Timer]
    BY <1>1, <1>6 DEF NetworkFails, TypeOK
  <2>3. QED
    BY <2>1, <2>2 DEF Refreshed, RefreshBy
<1>7. ASSUME NEW w \in Who, Granted(w)
      PROVE  Refreshed'
  <2>1. /\ auth[w].issued \in Nat /\ auth[w].sent \in Nat
        /\ auth[w].sent <= auth[w].issued /\ now <= auth[w].sent + Delay
    BY <1>1, <1>7 DEF Granted, IInv, Timing, TypeOK
  <2>2. /\ now' = now /\ timer' = now + Lifetime - Margin /\ ticket'.issued = auth[w].issued
        /\ failures' = failures
    BY <1>7 DEF Granted, RefreshAt
  <2>3. timer' # -1 /\ now' <= timer' /\ timer' <= RefreshBy'
    BY <1>1, <2>1, <2>2 DEF RefreshBy
  <2>4. auth'[Timer] = auth[Timer] \/ auth'[Timer].state = "none"
    BY <1>1, <1>7 DEF Granted, NoAuth, TypeOK
  <2>5. QED
    BY <2>2, <2>3, <2>4 DEF Refreshed
<1>8. ASSUME NEW w \in Who, Denied(w)
      PROVE  Refreshed'
  <2>1. UNCHANGED <<now, ticket, timer, failures>>
    BY <1>8 DEF Denied
  <2>2. CASE w # Timer
    <3>1. auth'[Timer] = auth[Timer]
      BY <1>1, <1>8, <2>2 DEF Denied, TypeOK
    <3>2. QED
      BY <1>2, <2>1, <3>1
  <2>3. CASE w = Timer
    <3>1. failures # 0 /\ auth'[Timer].state = "none"
      BY <1>1, <1>8, <2>3 DEF Denied, Refreshed, NoAuth, TypeOK
    <3>2. QED
      BY <2>1, <3>1 DEF Refreshed, RefreshBy
  <2>4. QED
    BY <2>2, <2>3
<1>9. CASE TimerFires
  <2>1. UNCHANGED <<now, ticket, failures>> /\ timer # -1 /\ timer' = -1
    BY <1>9 DEF TimerFires
  <2>2. /\ auth'[Timer].state = "sent" /\ auth'[Timer].sent = now
        /\ auth'[Timer].password = ticket.issued
    BY <1>1, <1>9 DEF TimerFires, Authenticate, TypeOK
  <2>3. ticket # NoTicket => now <= RefreshBy
    BY <1>1, <2>1 DEF Refreshed, RefreshBy
  <2>4. ticket # NoTicket => now + Delay < ticket.issued + Lifetime
    BY <1>1, <2>3 DEF RefreshBy
  <2>5. ticket = NoTicket => ticket.issued = -1
    BY DEF NoTicket
  <2>6. QED
    BY <2>1, <2>2, <2>3, <2>4, <2>5 DEF Refreshed, RefreshBy
<1>10. CASE Destroy
  BY <1>10 DEF Destroy, Refreshed
<1>11. CASE Tick
  <2>1. /\ UNCHANGED <<ticket, timer, auth, failures>> /\ now' = now + 1
        /\ timer # -1 => now < timer
    BY <1>11 DEF Tick
  <2>2. QED
    BY <1>1, <2>1 DEF Refreshed, RefreshBy
<1>12. CASE UNCHANGED vars
  BY <1>2, <1>12 DEF vars
<1> QED
  BY <1>4, <1>5, <1>6, <1>7, <1>8, <1>9, <1>10, <1>11, <1>12 DEF Next

\* As long as no authentication has failed, the ticket held is one that the server still
\* knows: for any callers, and any margin of more than two answers' time.
THEOREM HeldTicketIsValid ==
  ASSUME 2 * Delay < Margin
  PROVE  Spec => []HeldIsValid
<1>1. IInv /\ Refreshed /\ [Next]_vars => Refreshed'
  BY NextRefreshed
<1>2. IInv /\ Refreshed => HeldIsValid
  BY RefreshedHolds
<1> QED
  BY Inductive, InitRefreshed, <1>1, <1>2, PTL DEF Spec
=============================================================================
