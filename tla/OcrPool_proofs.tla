--------------------------- MODULE OcrPool_proofs ---------------------------
(***************************************************************************)
(* Proofs about OcrPool, for any numbers of requests, workers, clients and *)
(* children, whatever the children do.                                     *)
(***************************************************************************)
EXTENDS OcrPool, Integers, FiniteSetTheorems, SequenceTheorems, WellFoundedInduction, TLAPS

-----------------------------------------------------------------------------
(* What every state of a turn is like *)

Stage == {"idle", "waiting", "starting", "sent"} \cup Settled
Life  == Pending \cup {"none", "running", "failed", "killed"}

ClientRec == [proc : 0 .. Children, ready : 0 .. Children, queue : Seq(SUBSET Request), robbed : BOOLEAN]
ChildRec  == [owner : 0 .. Clients, st : Life, inq : Seq(Request), ended : BOOLEAN]
ReqRec    == [st : Stage, client : 0 .. Clients, start : 0 .. Children]

Shape(s) ==
  /\ s = [req |-> s.req, waiters |-> s.waiters, workers |-> s.workers, bg |-> s.bg,
          bgStart |-> s.bgStart, client |-> s.client, child |-> s.child]
  /\ s.req \in [Request -> ReqRec]
  /\ s.waiters \in Seq(Request)
  /\ s.workers \in Seq(1 .. Clients) /\ Len(s.workers) <= Size
  /\ s.bg \in BOOLEAN /\ s.bgStart \in 0 .. Children
  /\ s.client \in [1 .. Clients -> ClientRec]
  /\ s.child \in [1 .. Children -> ChildRec]

Hired(s, c) == \E i \in 1 .. Len(s.workers) : s.workers[i] = c

\* Unless its client was robbed, a child is what the client's ready names, or was
\* given up: it failed to start, or the pool was shut down.
Kids(s) ==
  \A k \in 1 .. Children :
    /\ s.child[k].st = "none" <=> s.child[k].owner = 0
    /\ s.child[k].owner # 0 =>
         \/ s.client[s.child[k].owner].robbed
         \/ s.child[k].st = "failed"
         \/ s.client[s.child[k].owner].ready = k
         \/ /\ s.client[s.child[k].owner].ready = 0 /\ ~Hired(s, s.child[k].owner)
            /\ s.child[k].st \in {"killed", "hung"}

\* What client c, whose record is cl, knows of its children.
Knows(kids, c, cl) ==
  /\ cl.proc # 0 => kids[cl.proc].owner = c /\ kids[cl.proc].st # "locating"
  /\ cl.ready # 0 => /\ kids[cl.ready].owner = c
                     /\ kids[cl.ready].st \notin {"failed", "killed"}
                     /\ kids[cl.ready].st \in {"booting", "running"} => cl.robbed \/ cl.proc = cl.ready

Owners(s) == \A c \in 1 .. Clients : Knows(s.child, c, s.client[c])

\* The queue of a client is what its child owes.
Matches(queue, kid) ==
  /\ Len(queue) = Len(kid.inq)
  /\ \A i \in 1 .. Len(kid.inq) : queue[i] \subseteq {kid.inq[i]}
  /\ kid.st \in Pending => kid.inq = <<>>

Owed(s) ==
  \A c \in 1 .. Clients :
    \/ s.client[c].robbed
    \/ /\ s.client[c].ready = 0 /\ Hired(s, c) => s.client[c].queue = <<>>
       /\ s.client[c].ready # 0 => Matches(s.client[c].queue, s.child[s.client[c].ready])

\* Who is in a queue was sent, to that client, and is there once.
SentTo(c, queue, reqs) ==
  \A i \in 1 .. Len(queue) : \A r \in queue[i] :
    /\ reqs[r].st = "sent" /\ reqs[r].client = c
    /\ \A j \in 1 .. Len(queue) : r \in queue[j] => i = j

Sent(s) == \A c \in 1 .. Clients : SentTo(c, s.client[c].queue, s.req)

\* Requests: one for each busy client, and the ones that wait.
Reqs(s) ==
  /\ \A r \in Request :
       LET q == s.req[r]
       IN  /\ q.st # "wrong"
           /\ q.st \in {"starting", "sent"} <=> q.client # 0
           /\ q.st = "starting" <=> q.start # 0
           /\ q.start # 0 => /\ s.child[q.start].owner = q.client
                             /\ s.child[q.start].st \in Pending \cup {"killed"}
  /\ \A q, r \in Request : s.req[q].client # 0 /\ s.req[q].client = s.req[r].client => q = r

\* The lists of the pool.
Lists(s) ==
  /\ \A i \in 1 .. Len(s.waiters) : s.req[s.waiters[i]].st = "waiting"
  /\ \A i, j \in 1 .. Len(s.waiters) : s.waiters[i] = s.waiters[j] => i = j
  /\ \A i, j \in 1 .. Len(s.workers) : s.workers[i] = s.workers[j] => i = j
  /\ s.bgStart # 0 => s.bg \/ s.workers = <<>>

\* Who waits is in the pool's queue.
Listed(s) ==
  \A r \in Request : s.req[r].st = "waiting" => \E i \in 1 .. Len(s.waiters) : s.waiters[i] = r

Good(s) ==
  Shape(s) /\ Kids(s) /\ Owners(s) /\ Owed(s) /\ Sent(s) /\ Reqs(s) /\ Lists(s)

\* Between two turns: a background start is awaited in bg or after shutdown, and
\* what shutdown awaits the end of is none of the pool's children.
Over(s, stopped, ends) ==
  /\ s.bgStart # 0 => s.bg \/ stopped
  /\ \A k \in ends : /\ s.child[k].owner # 0 /\ ~Hired(s, s.child[k].owner)
                    /\ s.child[k].st # "locating"

Ending ==
  /\ aborted \subseteq Request /\ down \in BOOLEAN /\ closing \subseteq 1 .. Children
  /\ Over(Now, down, closing)

IInv == Good(Now) /\ Listed(Now) /\ Ending

-----------------------------------------------------------------------------
(* Numbers *)

Before == {ij \in Nat \X Nat : ij[1] < ij[2]}

LEMMA BeforeIsWellFounded == IsWellFoundedOn(Before, Nat)
<1>1. Before = OpToRel(<, Nat)
  BY Zenon DEF Before, OpToRel
<1>2. QED
  BY <1>1, NatLessThanWellFounded, Zenon

LEMMA HasLeast ==
  ASSUME NEW S, S \subseteq Nat, S # {}
  PROVE  Least(S) \in S
<1>1. PICK i \in S : \A j \in S : ~ (<<j, i>> \in Before)
  BY BeforeIsWellFounded, WFMin
<1>2. \A j \in S : i <= j
  <2>1. \A j \in S : i \in Nat /\ j \in Nat
    OBVIOUS
  <2>2. ASSUME NEW j \in S, ~(i <= j) PROVE <<j, i>> \in Before
    BY <2>1, <2>2 DEF Before
  <2>3. QED
    BY <1>1, <2>2
<1>3. QED
  BY <1>2 DEF Least

\* A set that has 0 and, with each i below n, i + 1, has all of 0 .. n.
LEMMA UpTo ==
  ASSUME NEW n \in Nat, NEW S,
         0 \in S,
         \A i \in 1 .. n : i - 1 \in S => i \in S
  PROVE  0 .. n \subseteq S
<1> DEFINE T == (0 .. n) \ S
<1>1. SUFFICES ASSUME T # {} PROVE FALSE
  OBVIOUS
<1>2. T \subseteq Nat
  OBVIOUS
<1>3. Least(T) \in T
  <2> HIDE DEF T
  <2>1. QED
    BY <1>1, <1>2, HasLeast
<1>4. PICK i \in T : \A j \in T : ~ (<<j, i>> \in Before)
  <2> HIDE DEF T
  <2>1. QED
    BY <1>1, <1>2, BeforeIsWellFounded, WFMin
<1>5. i \in 1 .. n /\ i - 1 \in 0 .. n
  OBVIOUS
<1>6. <<i - 1, i>> \in Before
  BY <1>5 DEF Before
<1>7. i - 1 \in S
  BY <1>4, <1>5, <1>6
<1>8. QED
  BY <1>5, <1>7

LEMMA SeqElement ==
  ASSUME NEW S, NEW q \in Seq(S), NEW i \in 1 .. Len(q)
  PROVE  q[i] \in S
OBVIOUS

LEMMA SeqHead ==
  ASSUME NEW S, NEW q \in Seq(S), q # <<>>
  PROVE  Head(q) \in S /\ 1 \in 1 .. Len(q) /\ q[1] = Head(q)
OBVIOUS

-----------------------------------------------------------------------------
(* Numbers that are free *)

FC(s) == Cardinality(FreeChildren(s))
FL(s) == Cardinality(FreeClients(s))

LEMMA FreeIsFinite ==
  ASSUME NEW s
  PROVE  /\ FreeChildren(s) \subseteq 1 .. Children /\ IsFiniteSet(FreeChildren(s)) /\ FC(s) \in Nat
         /\ FreeClients(s) \subseteq 1 .. Clients /\ IsFiniteSet(FreeClients(s)) /\ FL(s) \in Nat
<1>1. IsFiniteSet(1 .. Children) /\ IsFiniteSet(1 .. Clients)
  BY FS_Interval, SizeAssumption
<1>2. FreeChildren(s) \subseteq 1 .. Children /\ FreeClients(s) \subseteq 1 .. Clients
  BY DEF FreeChildren, FreeClients
<1>3. IsFiniteSet(FreeChildren(s)) /\ IsFiniteSet(FreeClients(s))
  BY <1>1, <1>2, FS_Subset
<1>4. QED
  BY <1>2, <1>3, FS_CardinalityType DEF FC, FL

\* As many, or one less.
LEMMA FreeChildrenLeft ==
  ASSUME NEW s, NEW t, NEW k, FreeChildren(s) \ {k} \subseteq FreeChildren(t)
  PROVE  FC(t) >= FC(s) - 1
<1>1. /\ IsFiniteSet(FreeChildren(s) \ {k})
      /\ Cardinality(FreeChildren(s) \ {k}) \in {FC(s), FC(s) - 1}
  BY FreeIsFinite, FS_RemoveElement DEF FC
<1>2. Cardinality(FreeChildren(s) \ {k}) <= FC(t)
  BY <1>1, FreeIsFinite, FS_Subset DEF FC
<1>3. QED
  BY <1>1, <1>2, FreeIsFinite

LEMMA FreeClientsLeft ==
  ASSUME NEW s, NEW t, NEW c, FreeClients(s) \ {c} \subseteq FreeClients(t)
  PROVE  FL(t) >= FL(s) - 1
<1>1. /\ IsFiniteSet(FreeClients(s) \ {c})
      /\ Cardinality(FreeClients(s) \ {c}) \in {FL(s), FL(s) - 1}
  BY FreeIsFinite, FS_RemoveElement DEF FL
<1>2. Cardinality(FreeClients(s) \ {c}) <= FL(t)
  BY <1>1, FreeIsFinite, FS_Subset DEF FL
<1>3. QED
  BY <1>1, <1>2, FreeIsFinite

LEMMA FreeMore ==
  ASSUME NEW s, NEW t
  PROVE  /\ FreeChildren(s) \subseteq FreeChildren(t) => FC(t) >= FC(s)
         /\ FreeClients(s) \subseteq FreeClients(t) => FL(t) >= FL(s)
  BY FreeIsFinite, FS_Subset DEF FC, FL

\* Who is hired by none, has no request and no child stays so.
LEMMA FreeClientsStay ==
  ASSUME NEW s, NEW t, t.workers = s.workers,
         \A r \in Request : t.req[r].client \in {0, s.req[r].client},
         \A k \in 1 .. Children : t.child[k].owner \in {0, s.child[k].owner}
  PROVE  FreeClients(s) \subseteq FreeClients(t)
<1>1. ASSUME NEW c \in FreeClients(s)
      PROVE  c \in FreeClients(t)
  <2>1. /\ c \in 1 .. Clients /\ c # 0
        /\ \A i \in 1 .. Len(s.workers) : s.workers[i] # c
        /\ \A r \in Request : s.req[r].client # c
        /\ \A k \in 1 .. Children : s.child[k].owner # c
    BY <1>1, SizeAssumption DEF FreeClients
  <2>2. \A r \in Request : t.req[r].client # c
    BY <2>1
  <2>3. \A k \in 1 .. Children : t.child[k].owner # c
    BY <2>1
  <2>4. QED
    BY <2>1, <2>2, <2>3 DEF FreeClients
<1>2. QED
  BY <1>1

LEMMA SomeFree ==
  ASSUME NEW s
  PROVE  /\ FC(s) > 0 => FreeChildren(s) # {}
         /\ FL(s) > 0 => FreeClients(s) # {}
  BY FS_EmptySet DEF FC, FL

-----------------------------------------------------------------------------
(* What drain does not touch *)

\* From s to t no child ends and none changes hands, new workers are new clients,
\* and a start is awaited only in bg.
Keeps(s, t) ==
  /\ \A k \in 1 .. Children :
       s.child[k].owner # 0 => /\ t.child[k].owner = s.child[k].owner
                              /\ t.child[k].st = s.child[k].st
  /\ \A c \in 1 .. Clients :
       Hired(t, c) => Hired(s, c) \/ \A k \in 1 .. Children : s.child[k].owner # c
  /\ s.bg => t.bg
  /\ t.bgStart # 0 => t.bg \/ t.bgStart = s.bgStart

LEMMA KeepsOn ==
  ASSUME NEW s, NEW t, NEW u, Shape(s), Keeps(s, t), Keeps(t, u)
  PROVE  Keeps(s, u)
<1>1. \A k \in 1 .. Children :
        s.child[k].owner # 0 => /\ u.child[k].owner = s.child[k].owner
                               /\ u.child[k].st = s.child[k].st
  BY DEF Keeps
<1>2. ASSUME NEW c \in 1 .. Clients, Hired(u, c), ~Hired(s, c), NEW k \in 1 .. Children, s.child[k].owner = c
      PROVE  FALSE
  <2>1. s.child[k].owner # 0 /\ t.child[k].owner = c
    BY <1>2 DEF Keeps
  <2>2. Hired(t, c)
    BY <1>2, <2>1 DEF Keeps
  <2>3. QED
    BY <1>2, <2>2 DEF Keeps
<1>3. (s.bg => u.bg) /\ (u.bgStart # 0 => u.bg \/ u.bgStart = s.bgStart)
  BY DEF Keeps
<1>4. QED
  BY <1>1, <1>2, <1>3 DEF Keeps

LEMMA StaysOver ==
  ASSUME NEW s, NEW t, Shape(s), Keeps(s, t), NEW stopped \in BOOLEAN, NEW ends, ends \subseteq 1 .. Children,
         Over(s, stopped, ends)
  PROVE  Over(t, stopped, ends)
<1>1. ASSUME NEW k \in ends
      PROVE  /\ t.child[k].owner # 0 /\ ~Hired(t, t.child[k].owner)
             /\ t.child[k].st # "locating"
  <2>1. /\ k \in 1 .. Children /\ s.child[k].owner # 0 /\ ~Hired(s, s.child[k].owner)
        /\ s.child[k].st # "locating"
    BY <1>1 DEF Over
  <2>2. s.child[k].owner \in 1 .. Clients
    BY <2>1, SizeAssumption DEF Shape, ChildRec
  <2>3. QED
    BY <2>1, <2>2 DEF Keeps
<1>2. t.bgStart # 0 => t.bg \/ stopped
  BY DEF Keeps, Over
<1>3. QED
  BY <1>1, <1>2 DEF Over

-----------------------------------------------------------------------------
(* Steps of a turn: a request *)

\* r is in no queue.
Idle(s, r) ==
  /\ \A i \in 1 .. Len(s.waiters) : s.waiters[i] # r
  /\ \A c \in 1 .. Clients : \A i \in 1 .. Len(s.client[c].queue) : r \notin s.client[c].queue[i]

\* What Reqs says of a request, of one record.
ReqFits(s, q) ==
  /\ q \in ReqRec
  /\ q.st # "wrong"
  /\ q.st \in {"starting", "sent"} <=> q.client # 0
  /\ q.st = "starting" <=> q.start # 0
  /\ q.start # 0 => /\ s.child[q.start].owner = q.client
                    /\ s.child[q.start].st \in Pending \cup {"killed"}

LEMMA NewReq ==
  ASSUME NEW s, Good(s), NEW r \in Request, Idle(s, r), NEW q, ReqFits(s, q),
         \A p \in Request : p # r /\ q.client # 0 => s.req[p].client # q.client
  PROVE  LET t == [s EXCEPT !.req[r] = q]
         IN  /\ Good(t)
             /\ t.req = [s.req EXCEPT ![r] = q]
             /\ t.waiters = s.waiters /\ t.workers = s.workers /\ t.bg = s.bg
             /\ t.bgStart = s.bgStart /\ t.client = s.client /\ t.child = s.child
<1> DEFINE t == [s EXCEPT !.req[r] = q]
<1>1. Shape(s) /\ s.req \in [Request -> ReqRec] /\ q \in ReqRec
  BY DEF Good, Shape, ReqFits
<1>2. /\ t.req = [s.req EXCEPT ![r] = q]
      /\ t.waiters = s.waiters /\ t.workers = s.workers /\ t.bg = s.bg
      /\ t.bgStart = s.bgStart /\ t.client = s.client /\ t.child = s.child
      /\ t = [req |-> t.req, waiters |-> t.waiters, workers |-> t.workers, bg |-> t.bg,
              bgStart |-> t.bgStart, client |-> t.client, child |-> t.child]
  <2>1. \A u : u = t => u.req = [s.req EXCEPT ![r] = q]
    BY <1>1 DEF Shape
  <2>2. \A u : u = t => /\ u.waiters = s.waiters /\ u.workers = s.workers /\ u.bg = s.bg
                        /\ u.bgStart = s.bgStart /\ u.client = s.client /\ u.child = s.child
    BY <1>1 DEF Shape
  <2>3. \A u : u = t =>
          u = [req |-> u.req, waiters |-> u.waiters, workers |-> u.workers, bg |-> u.bg,
               bgStart |-> u.bgStart, client |-> u.client, child |-> u.child]
    BY <1>1 DEF Shape
  <2> HIDE DEF t
  <2>4. QED
    BY <2>1, <2>2, <2>3
<1>3. t.req \in [Request -> ReqRec] /\ t.req[r] = q /\ \A p \in Request : p # r => t.req[p] = s.req[p]
  BY <1>1, <1>2
<1> HIDE DEF t
<1>4. Shape(t)
  BY <1>1, <1>2, <1>3 DEF Shape
<1>5. Kids(t) /\ Owners(t) /\ Owed(t)
  BY <1>2 DEF Good, Kids, Hired, Owners, Owed
<1>6. Reqs(t)
  BY <1>2, <1>3 DEF Good, Reqs, ReqFits
<1>7. Lists(t)
  <2>1. \A i \in 1 .. Len(s.waiters) : s.waiters[i] \in Request /\ s.waiters[i] # r
    BY <1>1 DEF Shape, Idle
  <2>2. QED
    BY <2>1, <1>2, <1>3 DEF Good, Lists
<1>8. Sent(t)
  <2>1. ASSUME NEW c \in 1 .. Clients, NEW i \in 1 .. Len(s.client[c].queue), NEW p \in s.client[c].queue[i]
        PROVE  p # r /\ p \in Request
    <3>1. s.client[c].queue \in Seq(SUBSET Request)
      BY <1>1 DEF Shape, ClientRec
    <3>2. s.client[c].queue[i] \in SUBSET Request
      BY <3>1, SeqElement
    <3>3. QED
      BY <2>1, <3>2 DEF Idle
  <2>2. QED
    BY <2>1, <1>2, <1>3 DEF Good, Sent, SentTo
<1>9. QED
  BY <1>2, <1>4, <1>5, <1>6, <1>7, <1>8 DEF Good, t

\* Settling one that does not wait.
LEMMA SettleGood ==
  ASSUME NEW s, Good(s), NEW r \in Request, Idle(s, r), NEW how \in Settled, how # "wrong"
  PROVE  LET t == Settle(s, r, how)
         IN  /\ Good(t)
             /\ t.req = [s.req EXCEPT ![r] = [st |-> how, client |-> 0, start |-> 0]]
             /\ t.waiters = s.waiters /\ t.workers = s.workers /\ t.bg = s.bg
             /\ t.bgStart = s.bgStart /\ t.client = s.client /\ t.child = s.child
<1> DEFINE q == [st |-> how, client |-> 0, start |-> 0]
<1>1. ReqFits(s, q)
  BY SizeAssumption DEF ReqFits, ReqRec, Stage, Settled
<1>2. q.client = 0
  OBVIOUS
<1>3. Settle(s, r, how) = [s EXCEPT !.req[r] = q]
  BY DEF Settle
<1> HIDE DEF q
<1>4. QED
  BY <1>1, <1>2, <1>3, NewReq DEF q

-----------------------------------------------------------------------------
(* Steps of a turn: the start of a child *)

Starting(c) == [owner |-> c, st |-> "locating", inq |-> <<>>, ended |-> FALSE]

LEMMA StartingIs ==
  ASSUME NEW c, NEW n, n = [NoChild EXCEPT !.owner = c, !.st = "locating"]
  PROVE  n = Starting(c)
<1>1. n.owner = c /\ n.st = "locating" /\ n.inq = <<>> /\ n.ended = FALSE
  BY DEF NoChild
<1>2. n = [owner |-> n.owner, st |-> n.st, inq |-> n.inq, ended |-> n.ended]
  BY DEF NoChild
<1>3. QED
  BY <1>1, <1>2 DEF Starting

LEMMA StartFields ==
  ASSUME NEW s, Shape(s), NEW c \in 1 .. Clients
  PROVE  LET t == Start(s, c)
             k == Least(FreeChildren(s))
         IN  /\ t = [req |-> t.req, waiters |-> t.waiters, workers |-> t.workers, bg |-> t.bg,
                     bgStart |-> t.bgStart, client |-> t.client, child |-> t.child]
             /\ t.child = [s.child EXCEPT ![k] = Starting(c)]
             /\ t.client = [s.client EXCEPT ![c] = [@ EXCEPT !.ready = k]]
             /\ t.req = s.req /\ t.waiters = s.waiters /\ t.workers = s.workers
             /\ t.bg = s.bg /\ t.bgStart = s.bgStart
<1> DEFINE k == Least(FreeChildren(s))
<1> HIDE DEF k
<1>1. [NoChild EXCEPT !.owner = c, !.st = "locating"] = Starting(c)
  BY StartingIs
<1> DEFINE n == Starting(c)
<1> HIDE DEF n
<1>2. Start(s, c) = [s EXCEPT !.child[k] = n, !.client[c].ready = k]
  BY <1>1 DEF Start, k, n
<1>3. QED
  BY <1>2 DEF Shape, k, n

LEMMA StartGood ==
  ASSUME NEW s, Good(s), NEW c \in 1 .. Clients, s.client[c].ready = 0, FreeChildren(s) # {},
         ~s.client[c].robbed =>
           /\ \A j \in 1 .. Children : s.child[j].owner = c => s.child[j].st = "failed"
           /\ s.client[c].queue = <<>>
  PROVE  LET t == Start(s, c)
             k == t.client[c].ready
         IN  /\ Good(t)
             /\ k \in 1 .. Children /\ t.child[k].st = "locating"
             /\ t.req = s.req /\ t.waiters = s.waiters /\ t.workers = s.workers
             /\ t.bg = s.bg /\ t.bgStart = s.bgStart
             /\ FC(t) >= FC(s) - 1
             /\ FreeClients(s) \ {c} \subseteq FreeClients(t)
             /\ Keeps(s, t)
             /\ \A d \in 1 .. Clients : t.client[d].queue = s.client[d].queue
<1> DEFINE t == Start(s, c)
           k == Least(FreeChildren(s))
<1>1. k \in FreeChildren(s)
  <2>1. FreeChildren(s) \subseteq Nat
    BY DEF FreeChildren
  <2>2. QED
    BY <2>1, HasLeast
<1>2. k \in 1 .. Children /\ k # 0 /\ s.child[k].st = "none"
  BY <1>1 DEF FreeChildren
<1>3. Shape(s) /\ Kids(s) /\ Owners(s) /\ Owed(s) /\ Reqs(s) /\ Lists(s)
  BY DEF Good
<1>4. s.child[k].owner = 0
  BY <1>2, <1>3 DEF Kids
<1>5. /\ t = [req |-> t.req, waiters |-> t.waiters, workers |-> t.workers, bg |-> t.bg,
              bgStart |-> t.bgStart, client |-> t.client, child |-> t.child]
      /\ t.child = [s.child EXCEPT ![k] = Starting(c)]
      /\ t.client = [s.client EXCEPT ![c] = [@ EXCEPT !.ready = k]]
      /\ t.req = s.req /\ t.waiters = s.waiters /\ t.workers = s.workers
      /\ t.bg = s.bg /\ t.bgStart = s.bgStart
  BY <1>3, StartFields
<1> HIDE DEF t, k
<1>6. /\ t.child \in [1 .. Children -> ChildRec]
      /\ t.child[k].owner = c /\ t.child[k].st = "locating" /\ t.child[k].inq = <<>>
      /\ \A j \in 1 .. Children : j # k => t.child[j] = s.child[j]
  <2>1. Starting(c) \in ChildRec
    BY SizeAssumption DEF Starting, ChildRec, Life, Pending
  <2>2. Starting(c).owner = c /\ Starting(c).st = "locating" /\ Starting(c).inq = <<>>
    BY DEF Starting
  <2>3. s.child \in [1 .. Children -> ChildRec] /\ k \in 1 .. Children
    BY <1>2, <1>3 DEF Shape
  <2>4. t.child = [s.child EXCEPT ![k] = Starting(c)]
    BY <1>5
  <2> HIDE DEF Starting
  <2>5. QED
    BY <2>1, <2>2, <2>3, <2>4
<1>7. /\ t.client \in [1 .. Clients -> ClientRec]
      /\ t.client[c].ready = k /\ t.client[c].proc = s.client[c].proc
      /\ t.client[c].queue = s.client[c].queue /\ t.client[c].robbed = s.client[c].robbed
      /\ \A d \in 1 .. Clients : d # c => t.client[d] = s.client[d]
  <2>1. s.client[c] \in ClientRec /\ k \in 0 .. Children
    <3>1. s.client[c] \in ClientRec
      BY <1>3 DEF Shape
    <3>2. k \in 0 .. Children
      BY <1>2
    <3>3. QED
      BY <3>1, <3>2
  <2>2. t.client[c] = [s.client[c] EXCEPT !.ready = k]
    BY <1>3, <1>5 DEF Shape
  <2> DEFINE z == s.client[c]
  <2>3. t.client[c] \in ClientRec /\ t.client[c].ready = k /\ t.client[c].proc = z.proc
        /\ t.client[c].queue = z.queue /\ t.client[c].robbed = z.robbed
    <3> HIDE DEF z
    <3>1. z \in ClientRec /\ t.client[c] = [z EXCEPT !.ready = k]
      BY <2>1, <2>2 DEF z
    <3>2. QED
      BY <2>1, <3>1 DEF ClientRec
  <2>4. QED
    BY <2>1, <2>3, <1>3, <1>5 DEF Shape
<1>8. Shape(t)
  BY <1>3, <1>5, <1>6, <1>7 DEF Shape
<1>9. \A d \in 1 .. Clients : Hired(t, d) <=> Hired(s, d)
  BY <1>5 DEF Hired
<1>10. \A j \in 1 .. Children : s.child[j].owner \in 0 .. Clients
  BY <1>3 DEF Shape, ChildRec
<1>11. Kids(t)
  <2>1. ASSUME NEW j \in 1 .. Children, j # k
        PROVE  /\ t.child[j].st = "none" <=> t.child[j].owner = 0
               /\ t.child[j].owner # 0 =>
                    \/ t.client[t.child[j].owner].robbed
                    \/ t.child[j].st = "failed"
                    \/ t.client[t.child[j].owner].ready = j
                    \/ /\ t.client[t.child[j].owner].ready = 0 /\ ~Hired(t, t.child[j].owner)
                       /\ t.child[j].st \in {"killed", "hung"}
    <3> DEFINE o == s.child[j].owner
    <3>1. t.child[j] = s.child[j]
      BY <2>1, <1>6
    <3>2. /\ s.child[j].st = "none" <=> o = 0
          /\ o # 0 => \/ s.client[o].robbed
                     \/ s.child[j].st = "failed"
                     \/ s.client[o].ready = j
                     \/ /\ s.client[o].ready = 0 /\ ~Hired(s, o)
                        /\ s.child[j].st \in {"killed", "hung"}
      BY <1>3 DEF Kids
    <3>3. CASE o = 0
      BY <3>1, <3>2, <3>3
    <3>4. CASE o # 0 /\ o # c
      <4>1. o \in 1 .. Clients
        BY <1>10, <3>4, SizeAssumption
      <4>2. t.client[o] = s.client[o] /\ (Hired(t, o) <=> Hired(s, o))
        BY <3>4, <4>1, <1>7, <1>9
      <4>3. QED
        BY <3>1, <3>2, <3>4, <4>2
    <3>5. CASE o = c
      <4>1. t.client[c].robbed \/ t.child[j].st = "failed"
        BY <3>1, <3>5, <1>7
      <4>2. o # 0
        BY <3>5, SizeAssumption
      <4>3. QED
        BY <3>1, <3>2, <3>5, <4>1, <4>2
    <3>6. QED
      BY <3>3, <3>4, <3>5
  <2>2. t.child[k].st # "none" /\ t.child[k].owner # 0 /\ t.client[t.child[k].owner].ready = k
    BY <1>6, <1>7, SizeAssumption
  <2>3. QED
    BY <2>1, <2>2 DEF Kids
<1>12. Owners(t)
  <2>1. \A d \in 1 .. Clients : s.client[d].proc \in 0 .. Children /\ s.client[d].ready \in 0 .. Children
    BY <1>3 DEF Shape, ClientRec
  <2>2. ASSUME NEW d \in 1 .. Clients
        PROVE  /\ s.client[d].proc # 0 => t.child[s.client[d].proc] = s.child[s.client[d].proc]
               /\ s.client[d].ready # 0 => t.child[s.client[d].ready] = s.child[s.client[d].ready]
    <3>1. Knows(s.child, d, s.client[d]) /\ d # 0
      BY <1>3 DEF Owners
    <3>2. s.client[d].proc # 0 => s.client[d].proc \in 1 .. Children /\ s.client[d].proc # k
      BY <2>1, <3>1, <1>4, SizeAssumption DEF Knows
    <3>3. s.client[d].ready # 0 => s.client[d].ready \in 1 .. Children /\ s.client[d].ready # k
      BY <2>1, <3>1, <1>4, SizeAssumption DEF Knows
    <3>4. QED
      BY <3>2, <3>3, <1>6
  <2>3. ASSUME NEW d \in 1 .. Clients, d # c
        PROVE  Knows(t.child, d, t.client[d])
    <3>1. Knows(s.child, d, s.client[d]) /\ t.client[d] = s.client[d]
      BY <2>3, <1>3, <1>7 DEF Owners
    <3>2. QED
      BY <2>2, <3>1 DEF Knows
  <2>4. Knows(t.child, c, t.client[c])
    <3>1. Knows(s.child, c, s.client[c])
      BY <1>3 DEF Owners
    <3>2. t.client[c].proc = s.client[c].proc /\ t.client[c].ready = k
          /\ t.child[k].owner = c /\ t.child[k].st = "locating"
      BY <1>6, <1>7
    <3>3. t.client[c].proc # 0 => /\ t.child[t.client[c].proc].owner = c
                                 /\ t.child[t.client[c].proc].st # "locating"
      BY <2>2, <3>1, <3>2 DEF Knows
    <3>4. QED
      BY <3>2, <3>3 DEF Knows
  <2>5. QED
    BY <2>3, <2>4 DEF Owners
<1>13. Owed(t)
  <2>1. ASSUME NEW d \in 1 .. Clients, d # c, ~t.client[d].robbed
        PROVE  /\ t.client[d].ready = 0 /\ Hired(t, d) => t.client[d].queue = <<>>
               /\ t.client[d].ready # 0 => Matches(t.client[d].queue, t.child[t.client[d].ready])
    <3>1. t.client[d] = s.client[d] /\ (Hired(t, d) <=> Hired(s, d))
      BY <2>1, <1>7, <1>9
    <3>2. s.client[d].ready # 0 => t.child[s.client[d].ready] = s.child[s.client[d].ready]
      <4>1. s.client[d].ready # 0 => s.client[d].ready \in 1 .. Children /\ s.child[s.client[d].ready].owner = d
        BY <1>3, SizeAssumption DEF Owners, Knows, Shape, ClientRec
      <4>2. s.client[d].ready # 0 => s.client[d].ready # k
        BY <4>1, <1>4
      <4>3. QED
        BY <4>1, <4>2, <1>6
    <3>3. /\ s.client[d].ready = 0 /\ Hired(s, d) => s.client[d].queue = <<>>
          /\ s.client[d].ready # 0 => Matches(s.client[d].queue, s.child[s.client[d].ready])
      BY <2>1, <3>1, <1>3 DEF Owed
    <3>4. QED
      BY <3>1, <3>2, <3>3
  <2>2. ASSUME ~t.client[c].robbed
        PROVE  t.client[c].ready # 0 /\ Matches(t.client[c].queue, t.child[t.client[c].ready])
    <3>1. t.client[c].queue = <<>> /\ t.child[k].inq = <<>> /\ t.client[c].ready = k
      BY <2>2, <1>6, <1>7
    <3>2. Len(<<>>) = 0
      OBVIOUS
    <3>3. QED
      BY <3>1, <3>2, <1>2 DEF Matches
  <2>3. QED
    BY <2>1, <2>2 DEF Owed
<1>14. Reqs(t)
  <2>1. ASSUME NEW r \in Request, s.req[r].start # 0
        PROVE  s.req[r].start \in 1 .. Children /\ s.req[r].start # k
    <3>1. s.req[r].start \in 1 .. Children
      BY <2>1, <1>3, SizeAssumption DEF Shape, ReqRec
    <3>2. s.child[s.req[r].start].owner # 0
      BY <2>1, <1>3 DEF Reqs
    <3>3. QED
      BY <3>1, <3>2, <1>4
  <2>2. QED
    BY <2>1, <1>3, <1>5, <1>6 DEF Reqs
<1>15. Lists(t)
  BY <1>3, <1>5 DEF Lists
<1>16. FC(t) >= FC(s) - 1
  <2>1. FreeChildren(s) \ {k} \subseteq FreeChildren(t)
    BY <1>6 DEF FreeChildren
  <2>2. QED
    BY <2>1, FreeChildrenLeft
<1>17. FreeClients(s) \ {c} \subseteq FreeClients(t)
  BY <1>5, <1>6 DEF FreeClients
<1>18. Keeps(s, t)
  BY <1>4, <1>5, <1>6, <1>9 DEF Keeps
<1>19. Sent(t) /\ \A d \in 1 .. Clients : t.client[d].queue = s.client[d].queue
  <2>1. \A d \in 1 .. Clients : t.client[d].queue = s.client[d].queue
    BY <1>7
  <2>2. QED
    BY <2>1, <1>5 DEF Good, Sent
<1>20. QED
  BY <1>2, <1>5, <1>6, <1>7, <1>8, <1>11, <1>12, <1>13, <1>14, <1>15, <1>16, <1>17, <1>18, <1>19 DEF Good, t

\* A worker of the pool that has a start has the child of it; one that has none
\* and was not robbed has only children that failed to start.
LEMMA HiredChild ==
  ASSUME NEW s, Good(s), NEW c \in 1 .. Clients, Hired(s, c)
  PROVE  /\ s.client[c].ready # 0 =>
               /\ s.client[c].ready \in 1 .. Children
               /\ s.child[s.client[c].ready].owner = c
               /\ s.child[s.client[c].ready].st \in Pending \cup {"running"}
         /\ s.client[c].ready = 0 /\ ~s.client[c].robbed =>
               /\ \A j \in 1 .. Children : s.child[j].owner = c => s.child[j].st = "failed"
               /\ s.client[c].queue = <<>>
<1>1. Shape(s) /\ Kids(s) /\ Owners(s) /\ Owed(s)
  BY DEF Good
<1>2. s.client[c].ready \in 0 .. Children
  BY <1>1 DEF Shape, ClientRec
<1>3. c # 0
  OBVIOUS
<1>4. ASSUME s.client[c].ready # 0
      PROVE  /\ s.client[c].ready \in 1 .. Children
             /\ s.child[s.client[c].ready].owner = c
             /\ s.child[s.client[c].ready].st \in Pending \cup {"running"}
  <2> DEFINE k == s.client[c].ready
  <2>1. k \in 1 .. Children
    BY <1>2, <1>4, SizeAssumption
  <2>2. s.child[k].owner = c /\ s.child[k].st \notin {"failed", "killed"}
    BY <1>1, <1>4 DEF Owners, Knows
  <2>3. s.child[k].st # "none" /\ s.child[k].st \in Life
    BY <1>1, <1>3, <2>1, <2>2 DEF Kids, Shape, ChildRec
  <2>4. QED
    BY <2>1, <2>2, <2>3 DEF Life
<1>5. ASSUME s.client[c].ready = 0, ~s.client[c].robbed
      PROVE  /\ \A j \in 1 .. Children : s.child[j].owner = c => s.child[j].st = "failed"
             /\ s.client[c].queue = <<>>
  <2>1. ASSUME NEW j \in 1 .. Children, s.child[j].owner = c PROVE s.child[j].st = "failed"
    <3>1. s.client[c].ready # j
      BY <1>5
    <3>2. QED
      BY <1>1, <1>3, <1>5, <2>1, <3>1 DEF Kids
  <2>2. s.client[c].queue = <<>>
    BY <1>1, <1>5 DEF Owed
  <2>3. QED
    BY <2>1, <2>2
<1>6. QED
  BY <1>4, <1>5

LEMMA EnsuredGood ==
  ASSUME NEW s, Good(s), NEW c \in 1 .. Clients, Hired(s, c), FreeChildren(s) # {}
  PROVE  LET t == EnsureStarted(s, c)
         IN  /\ Good(t)
             /\ t.client[c].ready # 0
             /\ t.req = s.req /\ t.waiters = s.waiters /\ t.workers = s.workers
             /\ t.bg = s.bg /\ t.bgStart = s.bgStart
             /\ FC(t) >= FC(s) - 1
             /\ FreeClients(s) \subseteq FreeClients(t)
             /\ Keeps(s, t)
             /\ \A d \in 1 .. Clients : t.client[d].queue = s.client[d].queue
<1> DEFINE t == EnsureStarted(s, c)
<1>1. CASE s.client[c].ready # 0
  <2>1. t = s
    BY <1>1 DEF EnsureStarted
  <2>2. FC(s) >= FC(s) - 1
    BY FreeIsFinite
  <2> HIDE DEF t
  <2>3. Keeps(s, s)
    BY DEF Keeps
  <2>4. QED
    BY <1>1, <2>1, <2>2, <2>3 DEF t
<1>2. CASE s.client[c].ready = 0
  <2>1. t = Start(s, c)
    BY <1>2 DEF EnsureStarted
  <2>2. ~s.client[c].robbed =>
          /\ \A j \in 1 .. Children : s.child[j].owner = c => s.child[j].st = "failed"
          /\ s.client[c].queue = <<>>
    BY <1>2, HiredChild
  <2>3. c \notin FreeClients(s)
    BY DEF FreeClients, Hired
  <2> HIDE DEF t
  <2>4. /\ Good(t)
        /\ t.client[c].ready \in 1 .. Children
        /\ t.req = s.req /\ t.waiters = s.waiters /\ t.workers = s.workers
        /\ t.bg = s.bg /\ t.bgStart = s.bgStart
        /\ FC(t) >= FC(s) - 1
        /\ FreeClients(s) \ {c} \subseteq FreeClients(t)
        /\ Keeps(s, t) /\ \A d \in 1 .. Clients : t.client[d].queue = s.client[d].queue
    BY <1>2, <2>1, <2>2, StartGood
  <2>5. t.client[c].ready # 0 /\ FreeClients(s) \subseteq FreeClients(t)
    BY <2>3, <2>4
  <2>6. QED
    BY <2>4, <2>5 DEF t
<1>3. QED
  BY <1>1, <1>2

-----------------------------------------------------------------------------
(* Steps of a turn: a client and one of its children change *)

IsTurn(t) ==
  t = [req |-> t.req, waiters |-> t.waiters, workers |-> t.workers, bg |-> t.bg,
       bgStart |-> t.bgStart, client |-> t.client, child |-> t.child]

SameLists(s, t) ==
  t.waiters = s.waiters /\ t.workers = s.workers /\ t.bg = s.bg /\ t.bgStart = s.bgStart

\* The requests once the ones in L have failed.
Fault == [st |-> "error", client |-> 0, start |-> 0]
Lost(s, L) == [r \in Request |-> IF r \in L THEN Fault ELSE s.req[r]]

\* What may be of a client that was not robbed and its child.
Whole(s, c, k, nc, nk) ==
  /\ s.client[c].ready \in {0, k}
  /\ \/ nk.st \in {"none", "failed"}
     \/ nc.ready = k
     \/ nc.ready = 0 /\ ~Hired(s, c) /\ nk.st \in {"killed", "hung"}
  /\ nc.ready = k => /\ nk.st \in {"booting", "running"} => nc.proc = k
                     /\ Matches(nc.queue, nk)
  /\ nc.ready = 0 /\ Hired(s, c) => nc.queue = <<>>

\* What may be of any client and a child of it when the requests in L fail.
Pair(s, c, k, nc, nk, L) ==
  /\ nc \in ClientRec /\ nk \in ChildRec
  /\ \/ nk.owner = c /\ nk.st # "none"
     \/ nk.owner = 0 /\ nk.st = "none"
  /\ s.client[c].robbed => nc.robbed
  /\ nc.ready \in {0, s.client[c].ready}
  /\ nc.ready = k => nk.owner = c /\ nk.st \notin {"failed", "killed"}
  /\ nc.proc \in {0, k, s.client[c].proc}
  /\ nc.proc = k => nk.owner = c /\ nk.st # "locating"
  /\ nc.robbed \/ Whole(s, c, k, nc, nk)
  /\ SentTo(c, nc.queue, Lost(s, L))
  /\ \A r \in Request : r \notin L /\ s.req[r].start = k => nk.owner = c /\ nk.st \in Pending \cup {"killed"}

\* From s to t, client c and its child k become nc and nk, and requests L of c fail.
PairStep(s, c, k, nc, nk, L, t) ==
  /\ c \in 1 .. Clients /\ k \in 1 .. Children /\ s.child[k].owner = c
  /\ L \subseteq Request /\ \A r \in L : s.req[r].client = c
  /\ Pair(s, c, k, nc, nk, L) /\ IsTurn(t) /\ t.req = Lost(s, L)
  /\ t.waiters = s.waiters /\ t.workers = s.workers
  /\ t.bg \in BOOLEAN /\ t.bgStart \in 0 .. Children
  /\ t.bgStart # 0 => t.bg \/ t.workers = <<>>
  /\ t.client = [s.client EXCEPT ![c] = nc] /\ t.child = [s.child EXCEPT ![k] = nk]

LEMMA PairGood ==
  ASSUME NEW s, Good(s), NEW c, NEW k, NEW nc, NEW nk, NEW L, NEW t, PairStep(s, c, k, nc, nk, L, t)
  PROVE  /\ Good(t) /\ (Listed(s) => Listed(t))
         /\ FreeChildren(s) \subseteq FreeChildren(t)
         /\ FreeClients(s) \subseteq FreeClients(t)
         /\ \A d \in 1 .. Clients : Hired(t, d) <=> Hired(s, d)
         /\ nk.owner = c /\ nk.st = s.child[k].st /\ SameLists(s, t) => Keeps(s, t)
<1> USE DEF PairStep
<1>1. Shape(s) /\ Kids(s) /\ Owners(s) /\ Owed(s) /\ Sent(s) /\ Reqs(s) /\ Lists(s)
  BY DEF Good
<1>2. /\ t.client \in [1 .. Clients -> ClientRec] /\ t.client[c] = nc
      /\ \A d \in 1 .. Clients : d # c => t.client[d] = s.client[d]
  BY <1>1 DEF Shape, Pair
<1>3. /\ t.child \in [1 .. Children -> ChildRec] /\ t.child[k] = nk
      /\ \A j \in 1 .. Children : j # k => t.child[j] = s.child[j]
  BY <1>1 DEF Shape, Pair
<1>4. c # 0 /\ k # 0
  BY SizeAssumption
<1>5. /\ \A d \in 1 .. Clients : Hired(t, d) <=> Hired(s, d)
      /\ \A j \in 1 .. Children : s.child[j].owner \in 0 .. Clients
      /\ \A d \in 1 .. Clients : s.client[d].ready \in 0 .. Children /\ s.client[d].proc \in 0 .. Children
      /\ \A q \in Request : s.req[q].start \in 0 .. Children
  BY <1>1 DEF Hired, Shape, ChildRec, ClientRec, ReqRec
<1>6. /\ \A r \in Request : r \in L => t.req[r] = Fault
      /\ \A r \in Request : r \notin L => t.req[r] = s.req[r]
      /\ t.req \in [Request -> ReqRec]
  <2>1. Fault \in ReqRec
    BY SizeAssumption DEF Fault, ReqRec, Stage, Settled
  <2>2. \A r \in Request : s.req[r] \in ReqRec
    BY <1>1 DEF Shape
  <2>3. QED
    BY <2>1, <2>2 DEF Lost
<1>7. Shape(t)
  BY <1>1, <1>2, <1>3, <1>6 DEF Shape, IsTurn
\* What a client other than c names is not k.
<1>8. ASSUME NEW d \in 1 .. Clients, d # c
      PROVE  /\ t.client[d] = s.client[d]
             /\ s.client[d].ready # 0 => t.child[s.client[d].ready] = s.child[s.client[d].ready]
             /\ s.client[d].proc # 0 => t.child[s.client[d].proc] = s.child[s.client[d].proc]
  <2>1. Knows(s.child, d, s.client[d])
    BY <1>1 DEF Owners
  <2>2. s.client[d].ready # 0 => s.client[d].ready \in 1 .. Children /\ s.client[d].ready # k
    BY <2>1, <1>5, <1>8, SizeAssumption DEF Knows
  <2>3. s.client[d].proc # 0 => s.client[d].proc \in 1 .. Children /\ s.client[d].proc # k
    BY <2>1, <1>5, <1>8, SizeAssumption DEF Knows
  <2>4. QED
    BY <2>2, <2>3, <1>2, <1>3, <1>8
<1>9. Kids(t)
  <2>1. ASSUME NEW j \in 1 .. Children, j # k
        PROVE  /\ t.child[j].st = "none" <=> t.child[j].owner = 0
               /\ t.child[j].owner # 0 =>
                    \/ t.client[t.child[j].owner].robbed
                    \/ t.child[j].st = "failed"
                    \/ t.client[t.child[j].owner].ready = j
                    \/ /\ t.client[t.child[j].owner].ready = 0 /\ ~Hired(t, t.child[j].owner)
                       /\ t.child[j].st \in {"killed", "hung"}
    <3> DEFINE o == s.child[j].owner
    <3>1. t.child[j] = s.child[j]
      BY <2>1, <1>3
    <3>2. /\ s.child[j].st = "none" <=> o = 0
          /\ o # 0 => \/ s.client[o].robbed
                     \/ s.child[j].st = "failed"
                     \/ s.client[o].ready = j
                     \/ /\ s.client[o].ready = 0 /\ ~Hired(s, o)
                        /\ s.child[j].st \in {"killed", "hung"}
      BY <1>1 DEF Kids
    <3>3. CASE o = 0
      BY <3>1, <3>2, <3>3
    <3>4. CASE o # 0 /\ o # c
      <4>1. o \in 1 .. Clients
        BY <1>5, <3>4, SizeAssumption
      <4>2. t.client[o] = s.client[o] /\ (Hired(t, o) <=> Hired(s, o))
        BY <3>4, <4>1, <1>5, <1>8
      <4>3. QED
        BY <3>1, <3>2, <3>4, <4>2
    <3>5. CASE o = c /\ nc.robbed
      BY <3>1, <3>2, <3>5, <1>2
    <3>6. CASE o = c /\ ~nc.robbed
      <4>1. ~s.client[c].robbed /\ s.client[c].ready \in {0, k} /\ nc.ready \in {0, s.client[c].ready}
        BY <3>6 DEF Pair, Whole
      <4>2. s.child[j].st = "failed" \/ (s.client[c].ready = 0 /\ ~Hired(s, c) /\ s.child[j].st \in {"killed", "hung"})
        BY <2>1, <3>2, <3>6, <4>1, <1>4
      <4>3. QED
        BY <3>1, <3>2, <3>6, <4>1, <4>2, <1>2, <1>5
    <3>7. QED
      BY <3>3, <3>4, <3>5, <3>6
  <2>2. /\ t.child[k].st = "none" <=> t.child[k].owner = 0
        /\ t.child[k].owner # 0 =>
             \/ t.client[t.child[k].owner].robbed
             \/ t.child[k].st = "failed"
             \/ t.client[t.child[k].owner].ready = k
             \/ /\ t.client[t.child[k].owner].ready = 0 /\ ~Hired(t, t.child[k].owner)
                /\ t.child[k].st \in {"killed", "hung"}
    BY <1>2, <1>3, <1>4, <1>5 DEF Pair, Whole
  <2>3. QED
    BY <2>1, <2>2 DEF Kids
<1>10. Owners(t)
  <2>1. ASSUME NEW d \in 1 .. Clients, d # c
        PROVE  Knows(t.child, d, t.client[d])
    <3>1. Knows(s.child, d, s.client[d])
      BY <1>1 DEF Owners
    <3>2. QED
      BY <2>1, <3>1, <1>8 DEF Knows
  <2>2. Knows(t.child, c, nc)
    <3>1. Knows(s.child, c, s.client[c])
      BY <1>1 DEF Owners
    <3>2. nc.proc # 0 => t.child[nc.proc].owner = c /\ t.child[nc.proc].st # "locating"
      <4>1. CASE nc.proc = k
        BY <4>1, <1>3 DEF Pair
      <4>2. CASE nc.proc # k /\ nc.proc # 0
        <5>1. nc.proc = s.client[c].proc /\ nc.proc \in 1 .. Children
          BY <4>2, <1>5, SizeAssumption DEF Pair
        <5>2. t.child[nc.proc] = s.child[s.client[c].proc]
          BY <4>2, <5>1, <1>3
        <5>3. QED
          BY <4>2, <5>1, <5>2, <3>1 DEF Knows
      <4>3. QED
        BY <4>1, <4>2
    <3>3. nc.ready # 0 =>
             /\ t.child[nc.ready].owner = c
             /\ t.child[nc.ready].st \notin {"failed", "killed"}
             /\ t.child[nc.ready].st \in {"booting", "running"} => nc.robbed \/ nc.proc = nc.ready
      <4>1. CASE nc.ready = k
        BY <4>1, <1>3 DEF Pair, Whole
      <4>2. CASE nc.ready # k /\ nc.ready # 0
        <5>1. nc.ready = s.client[c].ready /\ nc.ready \in 1 .. Children
          BY <4>2, <1>5, SizeAssumption DEF Pair
        <5>2. t.child[nc.ready] = s.child[s.client[c].ready]
          BY <4>2, <5>1, <1>3
        <5>3. nc.robbed
          BY <4>2, <5>1 DEF Pair, Whole
        <5>4. QED
          BY <4>2, <5>1, <5>2, <5>3, <3>1 DEF Knows
      <4>3. QED
        BY <4>1, <4>2
    <3>4. QED
      BY <3>2, <3>3 DEF Knows
  <2>3. QED
    BY <2>1, <2>2, <1>2 DEF Owners
<1>11. Owed(t)
  <2>1. ASSUME NEW d \in 1 .. Clients, d # c, ~t.client[d].robbed
        PROVE  /\ t.client[d].ready = 0 /\ Hired(t, d) => t.client[d].queue = <<>>
               /\ t.client[d].ready # 0 => Matches(t.client[d].queue, t.child[t.client[d].ready])
    <3>1. t.client[d] = s.client[d] /\ (Hired(t, d) <=> Hired(s, d))
      BY <2>1, <1>5, <1>8
    <3>2. s.client[d].ready # 0 => t.child[s.client[d].ready] = s.child[s.client[d].ready]
      BY <2>1, <1>8
    <3>3. /\ s.client[d].ready = 0 /\ Hired(s, d) => s.client[d].queue = <<>>
          /\ s.client[d].ready # 0 => Matches(s.client[d].queue, s.child[s.client[d].ready])
      BY <2>1, <3>1, <1>1 DEF Owed
    <3>4. QED
      BY <3>1, <3>2, <3>3
  <2>2. ASSUME ~nc.robbed
        PROVE  /\ nc.ready = 0 /\ Hired(t, c) => nc.queue = <<>>
               /\ nc.ready # 0 => Matches(nc.queue, t.child[nc.ready])
    <3>1. Whole(s, c, k, nc, nk) /\ nc.ready \in {0, k}
      BY <2>2 DEF Pair, Whole
    <3>2. nc.ready = k => Matches(nc.queue, nk)
      BY <3>1 DEF Whole
    <3>3. nc.ready = 0 /\ Hired(t, c) => nc.queue = <<>>
      BY <3>1, <1>5 DEF Whole
    <3>4. QED
      BY <3>1, <3>2, <3>3, <1>3
  <2>3. QED
    BY <2>1, <2>2, <1>2 DEF Owed
<1>12. Reqs(t)
  <2>1. ASSUME NEW q \in Request, q \notin L, s.req[q].start # 0
        PROVE  /\ t.child[s.req[q].start].owner = s.req[q].client
               /\ t.child[s.req[q].start].st \in Pending \cup {"killed"}
    <3>1. s.req[q].start \in 1 .. Children
      BY <2>1, <1>5, SizeAssumption
    <3>2. /\ s.child[s.req[q].start].owner = s.req[q].client
          /\ s.child[s.req[q].start].st \in Pending \cup {"killed"}
      BY <2>1, <1>1 DEF Reqs
    <3>3. CASE s.req[q].start = k
      BY <2>1, <3>2, <3>3, <1>3 DEF Pair
    <3>4. CASE s.req[q].start # k
      BY <3>1, <3>2, <3>4, <1>3
    <3>5. QED
      BY <3>3, <3>4
  <2>2. Fault.st = "error" /\ Fault.client = 0 /\ Fault.start = 0
    BY DEF Fault
  <2>3. ASSUME NEW q \in Request
        PROVE  /\ t.req[q].st # "wrong"
               /\ t.req[q].st \in {"starting", "sent"} <=> t.req[q].client # 0
               /\ t.req[q].st = "starting" <=> t.req[q].start # 0
               /\ t.req[q].start # 0 => /\ t.child[t.req[q].start].owner = t.req[q].client
                                       /\ t.child[t.req[q].start].st \in Pending \cup {"killed"}
    <3>1. CASE q \in L
      BY <3>1, <2>2, <1>6
    <3>2. CASE q \notin L
      <4>1. t.req[q] = s.req[q]
        BY <3>2, <1>6
      <4>2. /\ s.req[q].st # "wrong"
            /\ s.req[q].st \in {"starting", "sent"} <=> s.req[q].client # 0
            /\ s.req[q].st = "starting" <=> s.req[q].start # 0
        BY <1>1 DEF Reqs
      <4>3. QED
        BY <3>2, <4>1, <4>2, <2>1
    <3>3. QED
      BY <3>1, <3>2
  <2>4. ASSUME NEW q \in Request, NEW r \in Request, t.req[q].client # 0, t.req[q].client = t.req[r].client
        PROVE  q = r
    <3>1. q \notin L /\ r \notin L
      BY <2>2, <2>4, <1>6
    <3>2. s.req[q].client # 0 /\ s.req[q].client = s.req[r].client
      BY <2>4, <3>1, <1>6
    <3>3. QED
      BY <3>2, <1>1 DEF Reqs
  <2>5. QED
    BY <2>3, <2>4 DEF Reqs
\* Who fails did not wait.
<1>13. \A r \in L : s.req[r].st # "waiting"
  <2>1. \A r \in L : r \in Request /\ s.req[r].client # 0
    BY <1>4
  <2>2. QED
    BY <2>1, <1>1 DEF Reqs
<1>14. Lists(t)
  <2>1. \A i \in 1 .. Len(t.waiters) : t.req[t.waiters[i]].st = "waiting"
    <3>1. \A i \in 1 .. Len(s.waiters) : s.waiters[i] \in Request /\ s.req[s.waiters[i]].st = "waiting"
      BY <1>1 DEF Lists, Shape
    <3>2. QED
      BY <3>1, <1>6, <1>13
  <2>2. QED
    BY <2>1, <1>1 DEF Lists
<1>15. Listed(s) => Listed(t)
  <2>1. ASSUME NEW r \in Request, t.req[r].st = "waiting" PROVE s.req[r].st = "waiting"
    BY <2>1, <1>6 DEF Fault
  <2>2. QED
    BY <2>1 DEF Listed
<1>16. FreeChildren(s) \subseteq FreeChildren(t) /\ FreeClients(s) \subseteq FreeClients(t)
  <2>1. k \notin FreeChildren(s)
    BY <1>1, <1>4 DEF Kids, FreeChildren
  <2>2. FreeChildren(s) \subseteq FreeChildren(t)
    BY <2>1, <1>3 DEF FreeChildren
  <2>3. \A r \in Request : t.req[r].client \in {0, s.req[r].client}
    BY <1>6 DEF Fault
  <2>4. \A j \in 1 .. Children : t.child[j].owner \in {0, s.child[j].owner}
    BY <1>3 DEF Pair
  <2>5. QED
    BY <2>2, <2>3, <2>4, FreeClientsStay
<1>17. nk.owner = c /\ nk.st = s.child[k].st /\ SameLists(s, t) => Keeps(s, t)
  <2>1. ASSUME nk.owner = c, nk.st = s.child[k].st, SameLists(s, t)
        PROVE  \A j \in 1 .. Children : t.child[j].owner = s.child[j].owner /\ t.child[j].st = s.child[j].st
    BY <2>1, <1>3
  <2>2. QED
    BY <2>1, <1>5 DEF Keeps, SameLists
<1>18. Sent(t)
  <2>1. ASSUME NEW d \in 1 .. Clients, d # c
        PROVE  SentTo(d, t.client[d].queue, t.req)
    <3>1. SentTo(d, s.client[d].queue, s.req) /\ t.client[d].queue = s.client[d].queue
      BY <2>1, <1>1, <1>2 DEF Sent
    <3>2. s.client[d].queue \in Seq(SUBSET Request)
      BY <1>1 DEF Shape, ClientRec
    <3>3. \A i \in 1 .. Len(s.client[d].queue) : \A r \in s.client[d].queue[i] :
             r \in Request /\ t.req[r] = s.req[r]
      <4>1. ASSUME NEW i \in 1 .. Len(s.client[d].queue), NEW r \in s.client[d].queue[i]
            PROVE  r \in Request /\ t.req[r] = s.req[r]
        <5>1. r \in Request
          BY <3>2, SeqElement
        <5>2. s.req[r].client = d
          BY <3>1 DEF SentTo
        <5>3. QED
          BY <2>1, <5>1, <5>2, <1>6
      <4>2. QED
        BY <4>1
    <3>4. QED
      BY <3>1, <3>3 DEF SentTo
  <2>2. SentTo(c, nc.queue, t.req)
    BY DEF Pair
  <2>3. QED
    BY <2>1, <2>2, <1>2 DEF Sent
<1>19. QED
  BY <1>5, <1>7, <1>9, <1>10, <1>11, <1>12, <1>14, <1>15, <1>16, <1>17, <1>18 DEF Good

LEMMA LostNone ==
  ASSUME NEW s, Shape(s)
  PROVE  Lost(s, {}) = s.req
BY DEF Shape, Lost

\* What Owners and Owed say of a client and the child it has.
LEMMA PairNow ==
  ASSUME NEW s, Good(s), NEW c \in 1 .. Clients, NEW k \in 1 .. Children, s.child[k].owner = c,
         s.client[c].robbed \/ s.client[c].ready \in {0, k}
  PROVE  Pair(s, c, k, s.client[c], s.child[k], {})
<1>1. Shape(s) /\ Kids(s) /\ Owners(s) /\ Owed(s) /\ Sent(s) /\ Reqs(s)
  BY DEF Good
<1>2. c # 0 /\ k # 0
  BY SizeAssumption
<1>3. s.client[c] \in ClientRec /\ s.child[k] \in ChildRec /\ s.child[k].st # "none"
  BY <1>1, <1>2 DEF Shape, Kids
<1>4. Knows(s.child, c, s.client[c])
  BY <1>1 DEF Owners
<1>5. /\ s.client[c].ready = k => s.child[k].st \notin {"failed", "killed"}
      /\ s.client[c].proc = k => s.child[k].st # "locating"
  BY <1>2, <1>4 DEF Knows
<1>6. SentTo(c, s.client[c].queue, Lost(s, {}))
  BY <1>1, LostNone DEF Sent
<1>7. \A r \in Request : s.req[r].start = k => s.child[k].st \in Pending \cup {"killed"}
  BY <1>1, <1>2 DEF Reqs
<1>8. ASSUME ~s.client[c].robbed
      PROVE  Whole(s, c, k, s.client[c], s.child[k])
  <2>1. s.client[c].ready \in {0, k}
    BY <1>8
  <2>2. \/ s.child[k].st = "failed"
        \/ s.client[c].ready = k
        \/ s.client[c].ready = 0 /\ ~Hired(s, c) /\ s.child[k].st \in {"killed", "hung"}
    BY <1>1, <1>2, <1>8 DEF Kids
  <2>3. s.client[c].ready = k => /\ s.child[k].st \in {"booting", "running"} => s.client[c].proc = k
                                 /\ Matches(s.client[c].queue, s.child[k])
    BY <1>1, <1>2, <1>4, <1>8 DEF Knows, Owed
  <2>4. s.client[c].ready = 0 /\ Hired(s, c) => s.client[c].queue = <<>>
    BY <1>1, <1>8 DEF Owed
  <2>5. QED
    BY <2>1, <2>2, <2>3, <2>4 DEF Whole
<1>9. QED
  BY <1>3, <1>5, <1>6, <1>7, <1>8 DEF Pair

\* A client and a child with one other field.
WithQueue(c, queue) == [c EXCEPT !.queue = queue]
WithProc(c, proc)   == [c EXCEPT !.proc = proc]
WithInq(kid, inq)   == [kid EXCEPT !.inq = inq]
WithStage(kid, st)  == [kid EXCEPT !.st = st]

LEMMA WithQueueIs ==
  ASSUME NEW c \in ClientRec, NEW queue \in Seq(SUBSET Request)
  PROVE  LET n == WithQueue(c, queue)
         IN  n \in ClientRec /\ n.queue = queue /\ n.ready = c.ready /\ n.proc = c.proc /\ n.robbed = c.robbed
  BY DEF ClientRec, WithQueue

LEMMA WithProcIs ==
  ASSUME NEW c \in ClientRec, NEW proc \in 0 .. Children
  PROVE  LET n == WithProc(c, proc)
         IN  n \in ClientRec /\ n.proc = proc /\ n.ready = c.ready /\ n.queue = c.queue /\ n.robbed = c.robbed
  BY DEF ClientRec, WithProc

LEMMA WithInqIs ==
  ASSUME NEW kid \in ChildRec, NEW inq \in Seq(Request)
  PROVE  LET n == WithInq(kid, inq)
         IN  n \in ChildRec /\ n.inq = inq /\ n.owner = kid.owner /\ n.st = kid.st
  BY DEF ChildRec, WithInq

LEMMA WithStageIs ==
  ASSUME NEW kid \in ChildRec, NEW st \in Life
  PROVE  LET n == WithStage(kid, st)
         IN  n \in ChildRec /\ n.st = st /\ n.owner = kid.owner /\ n.inq = kid.inq
  BY DEF ChildRec, WithStage

\* The queue of a client, and the input of a child, with one more image.
Queueing(c, r) == [c EXCEPT !.queue = Append(c.queue, {r})]
Feeding(kid, r) == [kid EXCEPT !.inq = Append(kid.inq, r)]

LEMMA PutGood ==
  ASSUME NEW s, Good(s), NEW c \in 1 .. Clients, NEW r \in Request,
         NEW k \in 1 .. Children, s.child[k].owner = c,
         s.client[c].robbed \/ (s.client[c].ready = k /\ s.child[k].st = "running"),
         Idle(s, r), s.req[r].st = "sent", s.req[r].client = c,
         NEW t, IsTurn(t), t.req = s.req, SameLists(s, t),
         t.client = [s.client EXCEPT ![c] = Queueing(@, r)],
         t.child = [s.child EXCEPT ![k] = Feeding(@, r)]
  PROVE  /\ Good(t)
         /\ FreeChildren(s) \subseteq FreeChildren(t)
         /\ FreeClients(s) \subseteq FreeClients(t)
         /\ Keeps(s, t)
<1> DEFINE nc == Queueing(s.client[c], r)
           nk == Feeding(s.child[k], r)
           queue == s.client[c].queue
           inq   == s.child[k].inq
<1>1. Pair(s, c, k, s.client[c], s.child[k], {}) /\ Shape(s)
  <2>1. s.client[c].robbed \/ s.client[c].ready \in {0, k}
    OBVIOUS
  <2>2. QED
    BY <2>1, PairNow DEF Good
<1>2. /\ s.client[c] \in ClientRec /\ s.child[k] \in ChildRec
      /\ queue \in Seq(SUBSET Request) /\ inq \in Seq(Request) /\ {r} \in SUBSET Request
      /\ Append(queue, {r}) \in Seq(SUBSET Request) /\ Append(inq, r) \in Seq(Request)
  BY <1>1 DEF Pair, ClientRec, ChildRec
<1>3. /\ nc \in ClientRec /\ nc.queue = Append(queue, {r})
      /\ nc.ready = s.client[c].ready /\ nc.proc = s.client[c].proc /\ nc.robbed = s.client[c].robbed
  <2>1. nc = WithQueue(s.client[c], Append(queue, {r}))
    BY DEF Queueing, WithQueue
  <2> HIDE DEF nc, queue
  <2>2. QED
    BY <2>1, <1>2, WithQueueIs
<1>4. /\ nk \in ChildRec /\ nk.inq = Append(inq, r)
      /\ nk.owner = s.child[k].owner /\ nk.st = s.child[k].st
  <2>1. nk = WithInq(s.child[k], Append(inq, r))
    BY DEF Feeding, WithInq
  <2> HIDE DEF nk, inq
  <2>2. QED
    BY <2>1, <1>2, WithInqIs
<1> HIDE DEF nc, nk
<1>5. SentTo(c, queue, s.req) /\ \A i \in 1 .. Len(queue) : r \notin queue[i]
  BY DEF Idle, Good, Sent
<1> HIDE DEF queue, inq
<1>6. /\ Len(queue) \in Nat /\ Len(inq) \in Nat
      /\ Len(Append(queue, {r})) = Len(queue) + 1 /\ Len(Append(inq, r)) = Len(inq) + 1
      /\ \A i \in 1 .. Len(queue) : Append(queue, {r})[i] = queue[i]
      /\ \A i \in 1 .. Len(inq) : Append(inq, r)[i] = inq[i]
      /\ Append(queue, {r})[Len(queue) + 1] = {r} /\ Append(inq, r)[Len(inq) + 1] = r
  BY <1>2
<1>7. ASSUME ~s.client[c].robbed
      PROVE  Whole(s, c, k, nc, nk)
  <2>1. Whole(s, c, k, s.client[c], s.child[k]) /\ s.client[c].ready = k /\ s.child[k].st = "running" /\ k # 0
    BY <1>1, <1>7, SizeAssumption DEF Pair
  <2>2. Len(queue) = Len(inq) /\ \A i \in 1 .. Len(inq) : queue[i] \subseteq {inq[i]}
    BY <2>1 DEF Whole, Matches, queue, inq
  <2>3. \A i \in 1 .. Len(inq) + 1 : i \in 1 .. Len(inq) \/ i = Len(inq) + 1
    BY <1>6
  <2>4. \A i \in 1 .. Len(inq) + 1 : Append(queue, {r})[i] \subseteq {Append(inq, r)[i]}
    BY <2>2, <2>3, <1>6
  <2>5. Matches(nc.queue, nk)
    <3>1. nk.st \notin Pending
      BY <2>1, <1>4 DEF Pending
    <3>2. QED
      BY <3>1, <2>2, <2>4, <1>3, <1>4, <1>6 DEF Matches
  <2>6. s.child[k].st \in {"booting", "running"} => s.client[c].proc = k
    BY <2>1 DEF Whole
  <2>7. QED
    BY <2>1, <2>5, <2>6, <1>3, <1>4 DEF Whole
<1>8. SentTo(c, nc.queue, s.req)
  <2>1. \A i \in 1 .. Len(queue) + 1 : i \in 1 .. Len(queue) \/ i = Len(queue) + 1
    BY <1>6
  <2>2. ASSUME NEW i \in 1 .. Len(queue) + 1, NEW p \in Append(queue, {r})[i]
        PROVE  /\ s.req[p].st = "sent" /\ s.req[p].client = c
               /\ \A j \in 1 .. Len(queue) + 1 : p \in Append(queue, {r})[j] => i = j
    <3>1. CASE i \in 1 .. Len(queue)
      <4>1. p \in queue[i] /\ p # r
        BY <2>2, <3>1, <1>5, <1>6
      <4>2. QED
        BY <3>1, <4>1, <2>1, <1>5, <1>6 DEF SentTo
    <3>2. CASE i = Len(queue) + 1
      <4>1. p = r
        BY <2>2, <3>2, <1>6
      <4>2. QED
        BY <3>2, <4>1, <2>1, <1>5, <1>6
    <3>3. QED
      BY <3>1, <3>2, <2>1
  <2>3. QED
    BY <2>2, <1>3, <1>6 DEF SentTo
<1>9. Pair(s, c, k, nc, nk, {})
  <2>1. SentTo(c, nc.queue, Lost(s, {}))
    BY <1>1, <1>8, LostNone
  <2>2. QED
    BY <1>1, <1>3, <1>4, <1>7, <2>1 DEF Pair
<1>10. PairStep(s, c, k, nc, nk, {}, t)
  <2>1. t.client = [s.client EXCEPT ![c] = nc] /\ t.child = [s.child EXCEPT ![k] = nk]
    BY DEF nc, nk
  <2>2. t.req = Lost(s, {})
    BY <1>1, LostNone
  <2>3. t.bg \in BOOLEAN /\ t.bgStart \in 0 .. Children /\ (t.bgStart # 0 => t.bg \/ t.workers = <<>>)
    BY <1>1 DEF Shape, SameLists, Good, Lists
  <2>4. QED
    BY <1>9, <2>1, <2>2, <2>3 DEF PairStep, SameLists
<1>11. /\ Good(t)
       /\ FreeChildren(s) \subseteq FreeChildren(t)
       /\ FreeClients(s) \subseteq FreeClients(t)
       /\ nk.owner = c /\ nk.st = s.child[k].st /\ SameLists(s, t) => Keeps(s, t)
  BY <1>10, PairGood
<1>12. QED
  BY <1>4, <1>11

\* recognize() of r, which is in no other place, by a client that
\* was robbed or whose child runs.
LEMMA SubmitGood ==
  ASSUME NEW u, Good(u), NEW c \in 1 .. Clients, NEW r \in Request, Idle(u, r),
         u.client[c].robbed \/ (u.client[c].ready # 0 /\ u.child[u.client[c].ready].st = "running"),
         Hired(u, c) \/ (\E k \in 1 .. Children : u.child[k].owner = c) \/ (\E p \in Request : u.req[p].client = c),
         \A p \in Request : p # r => u.req[p].client # c,
         NEW s, IsTurn(s), SameLists(u, s), s.client = u.client, s.child = u.child,
         s.req \in [Request -> ReqRec], s.req[r].client = c,
         \A p \in Request : p # r => s.req[p] = u.req[p]
  PROVE  LET t == Submit(s, r)
         IN  /\ Good(t) /\ SameLists(u, t)
             /\ FreeChildren(u) \subseteq FreeChildren(t)
             /\ FreeClients(u) \subseteq FreeClients(t)
             /\ Keeps(u, t)
             /\ t.req[r].st # "waiting" /\ \A p \in Request : p # r => t.req[p] = u.req[p]
<1> DEFINE t == Submit(s, r)
           k == u.client[c].proc
           e == [st |-> "error", client |-> 0, start |-> 0]
           w == [st |-> "sent", client |-> c, start |-> 0]
<1>1. Shape(u) /\ Kids(u) /\ Owners(u)
  BY DEF Good
<1>2. k # 0 => k \in 1 .. Children /\ u.child[k].owner = c
  <2>1. k \in 0 .. Children /\ Knows(u.child, c, u.client[c])
    BY <1>1 DEF Owners, Shape, ClientRec
  <2>2. QED
    BY <2>1, SizeAssumption DEF Knows
<1>3. ~u.client[c].robbed => k # 0 /\ k = u.client[c].ready /\ u.child[k].st = "running"
  <2>1. Knows(u.child, c, u.client[c])
    BY <1>1 DEF Owners
  <2>2. QED
    BY <2>1 DEF Knows
<1>4. s.req[r].client = c /\ s.client[c].proc = k
  OBVIOUS
<1>5. u.req \in [Request -> ReqRec]
  BY <1>1 DEF Shape
<1>6. c \notin FreeClients(u)
  BY DEF FreeClients, Hired
<1>7. CASE k = 0 \/ s.child[k].ended
  <2>1. t = [s EXCEPT !.req[r] = e]
    BY <1>4, <1>7 DEF Submit, Settle
  <2> DEFINE v == [u EXCEPT !.req[r] = e]
  <2>2. /\ Good(v) /\ v.req = [u.req EXCEPT ![r] = e]
        /\ SameLists(u, v) /\ v.client = u.client /\ v.child = u.child
    <3>1. ReqFits(u, e) /\ e.client = 0
      BY SizeAssumption DEF ReqFits, ReqRec, Stage, Settled
    <3> HIDE DEF e
    <3>2. QED
      BY <3>1, NewReq DEF SameLists
  <2> HIDE DEF e, t, k
  <2>3. /\ IsTurn(t) /\ t.req = [s.req EXCEPT ![r] = e]
        /\ SameLists(s, t) /\ t.client = s.client /\ t.child = s.child
    <3>1. t.req = [s.req EXCEPT ![r] = e]
      BY <2>1 DEF IsTurn
    <3>2. t.waiters = s.waiters /\ t.workers = s.workers /\ t.bg = s.bg
          /\ t.bgStart = s.bgStart /\ t.client = s.client /\ t.child = s.child
      BY <2>1 DEF IsTurn
    <3>3. IsTurn(t)
      BY <2>1 DEF IsTurn
    <3>4. QED
      BY <3>1, <3>2, <3>3 DEF SameLists
  <2> HIDE DEF v
  <2>4. t.req = v.req
    BY <2>2, <2>3, <1>5
  <2>5. t = v
    BY <2>2, <2>3, <2>4 DEF IsTurn, SameLists, Good, Shape
  <2>6. FreeChildren(u) \subseteq FreeChildren(v)
    BY <2>2 DEF FreeChildren
  <2>7. FreeClients(u) \subseteq FreeClients(v)
    <3>1. \A p \in Request : v.req[p].client \in {0, u.req[p].client}
      BY <2>2, <1>5 DEF e
    <3>2. QED
      BY <3>1, <2>2 DEF FreeClients, SameLists
  <2>8. Keeps(u, v)
    BY <2>2 DEF Keeps, SameLists, Hired
  <2>9. v.req[r].st # "waiting" /\ \A p \in Request : p # r => v.req[p] = u.req[p]
    BY <2>2, <1>5 DEF e
  <2>10. QED
    BY <2>2, <2>5, <2>6, <2>7, <2>8, <2>9 DEF t
<1>8. CASE ~(k = 0 \/ s.child[k].ended)
  <2> DEFINE v == [u EXCEPT !.req[r] = w]
  <2>1. t = [s EXCEPT !.req[r]          = w,
                      !.client[c].queue = Append(@, {r}),
                      !.child[k].inq    = Append(@, r)]
    BY <1>4, <1>8 DEF Submit
  <2>2. /\ Good(v) /\ v.req = [u.req EXCEPT ![r] = w]
        /\ SameLists(u, v) /\ v.client = u.client /\ v.child = u.child
    <3>1. ReqFits(u, w) /\ w.client = c
      BY SizeAssumption DEF ReqFits, ReqRec, Stage, Settled
    <3> HIDE DEF w
    <3>2. QED
      BY <3>1, NewReq DEF SameLists
  <2> HIDE DEF w, t, k
  <2>3. /\ IsTurn(t) /\ t.req = [s.req EXCEPT ![r] = w]
        /\ SameLists(s, t)
        /\ t.client = [s.client EXCEPT ![c] = Queueing(@, r)]
        /\ t.child = [s.child EXCEPT ![k] = Feeding(@, r)]
    <3>1. t.req = [s.req EXCEPT ![r] = w]
      BY <2>1 DEF IsTurn
    <3>2. t.waiters = s.waiters /\ t.workers = s.workers /\ t.bg = s.bg
          /\ t.bgStart = s.bgStart
      BY <2>1 DEF IsTurn
    <3>3. IsTurn(t)
      BY <2>1 DEF IsTurn
    <3>4. t.client = [s.client EXCEPT ![c] = Queueing(@, r)]
      BY <2>1 DEF IsTurn, Queueing
    <3>5. t.child = [s.child EXCEPT ![k] = Feeding(@, r)]
      BY <2>1 DEF IsTurn, Feeding
    <3>6. QED
      BY <3>1, <3>2, <3>3, <3>4, <3>5 DEF SameLists
  <2> HIDE DEF v
  <2>4. t.req = v.req
    BY <2>2, <2>3, <1>5
  <2>5. /\ SameLists(v, t)
        /\ t.client = [v.client EXCEPT ![c] = Queueing(@, r)]
        /\ t.child = [v.child EXCEPT ![k] = Feeding(@, r)]
    BY <2>2, <2>3 DEF SameLists
  <2>6. /\ k \in 1 .. Children /\ v.child[k].owner = c
        /\ v.client[c].robbed \/ (v.client[c].ready = k /\ v.child[k].st = "running")
    BY <1>2, <1>3, <1>8, <2>2 DEF k
  <2>7. /\ Good(t)
        /\ FreeChildren(v) \subseteq FreeChildren(t) /\ FreeClients(v) \subseteq FreeClients(t)
        /\ Keeps(v, t)
    <3>1. Good(v) /\ IsTurn(t) /\ t.req = v.req
      BY <2>2, <2>3, <2>4
    <3>2. Idle(v, r)
      BY <2>2 DEF Idle, SameLists
    <3>3. v.req[r].st = "sent" /\ v.req[r].client = c
      BY <2>2, <1>5 DEF w
    <3>4. QED
      BY <2>5, <2>6, <3>1, <3>2, <3>3, PutGood
  <2>8. FreeChildren(u) \subseteq FreeChildren(v)
    BY <2>2 DEF FreeChildren
  <2>9. FreeClients(u) \subseteq FreeClients(v)
    <3>1. \A p \in Request : v.req[p].client \in {c, u.req[p].client}
      BY <2>2, <1>5 DEF w
    <3>2. QED
      BY <3>1, <2>2, <1>6 DEF FreeClients, SameLists
  <2>10. SameLists(u, t)
    BY <2>2, <2>5 DEF SameLists
  <2>11. Keeps(u, t)
    <3>1. Keeps(u, v)
      BY <2>2 DEF Keeps, SameLists, Hired
    <3>2. QED
      BY <3>1, <2>7, <1>1, KeepsOn
  <2>12. t.req[r].st # "waiting" /\ \A p \in Request : p # r => t.req[p] = u.req[p]
    BY <2>2, <2>4, <1>5 DEF w
  <2>13. QED
    BY <2>7, <2>8, <2>9, <2>10, <2>11, <2>12 DEF t
<1>9. QED
  BY <1>7, <1>8

-----------------------------------------------------------------------------
(* drain *)

\* What dispatching to n workers may change.
Goes(s, t, n) ==
  /\ Good(t) /\ Keeps(s, t) /\ (Listed(s) => Listed(t))
  /\ t.workers = s.workers /\ t.bg = s.bg /\ t.bgStart = s.bgStart
  /\ FC(t) >= FC(s) - n
  /\ FreeClients(s) \subseteq FreeClients(t)

LEMMA DispatchGood ==
  ASSUME NEW s, Good(s), NEW c \in 1 .. Clients, Hired(s, c), ~Busy(s, c), s.waiters # <<>>,
         FreeChildren(s) # {}
  PROVE  Goes(s, Dispatch(s, c), 1)
<1> DEFINE r  == Head(s.waiters)
           s0 == [s EXCEPT !.waiters = Tail(@)]
           s1 == EnsureStarted(s0, c)
           k  == s1.client[c].ready
           s2 == [s1 EXCEPT !.req[r] = [st |-> "starting", client |-> c, start |-> k]]
<1>1. Shape(s) /\ Kids(s) /\ Owners(s) /\ Owed(s) /\ Reqs(s) /\ Lists(s)
  BY DEF Good
<1>2. s.waiters \in Seq(Request)
  BY <1>1 DEF Shape
<1>3. r \in Request /\ Tail(s.waiters) \in Seq(Request)
  BY <1>2
<1> DEFINE w == Tail(s.waiters)
<1>4. /\ IsTurn(s0) /\ s0.waiters = Tail(s.waiters)
      /\ s0.req = s.req /\ s0.workers = s.workers /\ s0.bg = s.bg
      /\ s0.bgStart = s.bgStart /\ s0.client = s.client /\ s0.child = s.child
  <2>1. s0 = [s EXCEPT !.waiters = w]
    OBVIOUS
  <2> HIDE DEF s0, w
  <2>2. /\ s0.waiters = w
        /\ s0.req = s.req /\ s0.workers = s.workers /\ s0.bg = s.bg
        /\ s0.bgStart = s.bgStart /\ s0.client = s.client /\ s0.child = s.child
    BY <2>1, <1>1 DEF Shape
  <2>3. IsTurn(s0)
    BY <2>1, <1>1 DEF Shape, IsTurn
  <2>4. QED
    BY <2>2, <2>3 DEF w
<1> HIDE DEF s0
<1>5. \A i \in 1 .. Len(Tail(s.waiters)) :
        i + 1 \in 1 .. Len(s.waiters) /\ Tail(s.waiters)[i] = s.waiters[i + 1]
  BY <1>2
<1>6. Good(s0)
  <2>1. Shape(s0)
    BY <1>1, <1>3, <1>4 DEF Shape, IsTurn
  <2>2. Kids(s0) /\ Owners(s0) /\ Owed(s0) /\ Sent(s0) /\ Reqs(s0)
    BY <1>1, <1>4 DEF Good, Kids, Hired, Owners, Owed, Sent, Reqs
  <2>3. Lists(s0)
    <3>1. \A i \in 1 .. Len(s0.waiters) : s0.req[s0.waiters[i]].st = "waiting"
      BY <1>1, <1>4, <1>5 DEF Lists
    <3>2. ASSUME NEW i \in 1 .. Len(s0.waiters), NEW j \in 1 .. Len(s0.waiters),
                 s0.waiters[i] = s0.waiters[j]
          PROVE  i = j
      <4>1. i + 1 = j + 1
        BY <3>2, <1>1, <1>4, <1>5 DEF Lists
      <4>2. QED
        BY <4>1
    <3>3. QED
      BY <3>1, <3>2, <1>1, <1>4 DEF Lists
  <2>4. QED
    BY <2>1, <2>2, <2>3 DEF Good
<1>7. Idle(s0, r)
  <2>1. 1 \in 1 .. Len(s.waiters) /\ r = s.waiters[1]
    BY <1>2
  <2>2. ASSUME NEW i \in 1 .. Len(s0.waiters), s0.waiters[i] = r PROVE FALSE
    <3>1. i + 1 = 1
      BY <2>1, <2>2, <1>1, <1>4, <1>5 DEF Lists
    <3>2. QED
      BY <3>1
  <2>3. s.req[r].st = "waiting"
    BY <2>1, <1>1 DEF Lists
  <2>4. \A d \in 1 .. Clients : \A i \in 1 .. Len(s0.client[d].queue) : r \notin s0.client[d].queue[i]
    BY <2>3, <1>4 DEF Good, Sent, SentTo
  <2>5. QED
    BY <2>2, <2>4 DEF Idle
<1>8. Hired(s0, c) /\ FreeChildren(s0) # {} /\ FreeChildren(s0) = FreeChildren(s)
      /\ FreeClients(s0) = FreeClients(s) /\ FC(s0) = FC(s)
  BY <1>4 DEF Hired, FreeChildren, FreeClients, FC
<1>9. /\ Good(s1) /\ k # 0
      /\ s1.req = s0.req /\ SameLists(s0, s1)
      /\ FC(s1) >= FC(s0) - 1 /\ FreeClients(s0) \subseteq FreeClients(s1)
      /\ Keeps(s0, s1) /\ \A d \in 1 .. Clients : s1.client[d].queue = s0.client[d].queue
  BY <1>6, <1>8, EnsuredGood DEF SameLists
<1>10. Dispatch(s, c) = IF s1.child[k].st \in Pending THEN s2 ELSE Submit(s2, r)
  BY DEF Dispatch, s0
<1> HIDE DEF s1
<1>11. Idle(s1, r) /\ Hired(s1, c) /\ \A p \in Request : s1.req[p].client # c
  BY <1>4, <1>7, <1>8, <1>9 DEF Idle, Hired, SameLists, Busy
<1>12. k \in 1 .. Children /\ s1.child[k].owner = c /\ s1.child[k].st \in Pending \cup {"running"}
  BY <1>9, <1>11, HiredChild
<1>13. /\ s1.workers = s.workers /\ s1.bg = s.bg /\ s1.bgStart = s.bgStart
       /\ FC(s1) >= FC(s) - 1 /\ FreeClients(s) \subseteq FreeClients(s1)
       /\ Keeps(s, s1)
  <2>1. Keeps(s, s1)
    <3>1. Keeps(s, s0)
      BY <1>4 DEF Keeps, Hired
    <3>2. QED
      BY <3>1, <1>1, <1>9, KeepsOn
  <2>2. QED
    BY <2>1, <1>4, <1>8, <1>9 DEF SameLists
\* What is left of the queue is listed.
<1>14. ASSUME NEW t, SameLists(s1, t), t.req[r].st # "waiting",
              \A p \in Request : p # r => t.req[p] = s.req[p]
       PROVE  Listed(s) => Listed(t)
  <2>1. SUFFICES ASSUME Listed(s), NEW p \in Request, t.req[p].st = "waiting"
                 PROVE  \E j \in 1 .. Len(t.waiters) : t.waiters[j] = p
    BY DEF Listed
  <2>2. p # r /\ s.req[p].st = "waiting"
    BY <1>14, <2>1
  <2>3. PICK i \in 1 .. Len(s.waiters) : s.waiters[i] = p
    BY <2>1, <2>2 DEF Listed
  <2>4. i # 1
    BY <2>2, <2>3, <1>2
  <2>5. /\ i - 1 \in 1 .. Len(Tail(s.waiters)) /\ (i - 1) + 1 = i
    BY <2>3, <2>4, <1>2
  <2>6. Tail(s.waiters)[i - 1] = p
    BY <2>3, <2>5, <1>5
  <2>7. t.waiters = Tail(s.waiters)
    BY <1>4, <1>9, <1>14 DEF SameLists
  <2>8. QED
    BY <2>5, <2>6, <2>7
<1>15. c \notin FreeClients(s1)
  BY <1>11 DEF FreeClients, Hired
<1> DEFINE q == [st |-> "starting", client |-> c, start |-> k]
<1>16. CASE s1.child[k].st \in Pending
  <2>1. ReqFits(s1, q) /\ q.client = c
    BY <1>12, <1>16, SizeAssumption DEF ReqFits, ReqRec, Stage
  <2> HIDE DEF q
  <2>2. /\ Good(s2) /\ SameLists(s1, s2) /\ s2.client = s1.client /\ s2.child = s1.child
        /\ s2.req = [s1.req EXCEPT ![r] = q]
    <3>1. s2 = [s1 EXCEPT !.req[r] = q]
      BY DEF q
    <3> HIDE DEF s2
    <3>2. QED
      BY <3>1, <2>1, <1>3, <1>9, <1>11, NewReq DEF SameLists
  <2> HIDE DEF s2
  <2>3. FreeChildren(s2) = FreeChildren(s1) /\ FC(s2) = FC(s1)
    BY <2>2 DEF FreeChildren, FC
  <2>4. FreeClients(s1) \subseteq FreeClients(s2)
    <3>1. s1.req \in [Request -> ReqRec]
      BY <1>9 DEF Good, Shape
    <3>2. \A p \in Request : s2.req[p].client \in {c, s1.req[p].client}
      BY <2>1, <2>2, <3>1
    <3>3. QED
      BY <3>2, <2>2, <1>15 DEF FreeClients, SameLists
  <2>5. Dispatch(s, c) = s2
    BY <1>10, <1>16
  <2>6. Keeps(s, s2)
    <3>1. Keeps(s1, s2)
      BY <2>2 DEF Keeps, Hired, SameLists
    <3>2. QED
      BY <3>1, <1>1, <1>13, KeepsOn
  <2>7. s2.req[r].st # "waiting" /\ \A p \in Request : p # r => s2.req[p] = s.req[p]
    <3>1. s1.req \in [Request -> ReqRec] /\ s1.req = s.req
      BY <1>4, <1>9 DEF Good, Shape
    <3>2. q.st # "waiting"
      BY DEF q
    <3> HIDE DEF r
    <3>3. QED
      BY <1>3, <2>2, <3>1, <3>2
  <2>8. Listed(s) => Listed(s2)
    BY <2>2, <2>7, <1>14
  <2>9. QED
    BY <1>13, <2>2, <2>3, <2>4, <2>5, <2>6, <2>8 DEF Goes, SameLists
<1>17. CASE s1.child[k].st \notin Pending
  <2>1. s1.child[k].st = "running"
    BY <1>12, <1>17
  <2>2. /\ IsTurn(s2) /\ SameLists(s1, s2) /\ s2.client = s1.client /\ s2.child = s1.child
        /\ s2.req = [s1.req EXCEPT ![r] = q]
    <3>1. IsTurn(s1)
      BY <1>9 DEF Good, Shape, IsTurn
    <3> HIDE DEF q
    <3>2. s2 = [s1 EXCEPT !.req[r] = q]
      BY DEF q
    <3> HIDE DEF s2, k
    <3>3. s2.req = [s1.req EXCEPT ![r] = q]
      BY <3>1, <3>2 DEF IsTurn
    <3>4. s2.waiters = s1.waiters /\ s2.workers = s1.workers /\ s2.bg = s1.bg
          /\ s2.bgStart = s1.bgStart /\ s2.client = s1.client /\ s2.child = s1.child
      BY <3>1, <3>2 DEF IsTurn
    <3>5. IsTurn(s2)
      BY <3>1, <3>2 DEF IsTurn
    <3>6. QED
      BY <3>3, <3>4, <3>5 DEF SameLists
  <2> HIDE DEF s2
  <2>3. /\ s2.req \in [Request -> ReqRec] /\ s2.req[r].client = c
        /\ \A p \in Request : p # r => s2.req[p] = s1.req[p]
    <3>1. s1.req \in [Request -> ReqRec]
      BY <1>9 DEF Good, Shape
    <3>2. q \in ReqRec /\ q.client = c
      BY <1>12 DEF ReqRec, Stage
    <3>3. QED
      BY <2>2, <3>1, <3>2, <1>3
  <2> DEFINE t == Submit(s2, r)
  <2>4. /\ Good(t) /\ SameLists(s1, t)
        /\ FreeChildren(s1) \subseteq FreeChildren(t) /\ FreeClients(s1) \subseteq FreeClients(t)
        /\ Keeps(s1, t)
        /\ t.req[r].st # "waiting" /\ \A p \in Request : p # r => t.req[p] = s1.req[p]
    <3>1. /\ Good(s1) /\ s1.client[c].ready # 0 /\ s1.child[s1.client[c].ready].st = "running"
          /\ Hired(s1, c) /\ \A p \in Request : p # r => s1.req[p].client # c
      BY <1>9, <1>11, <2>1
    <3>2. IsTurn(s2) /\ SameLists(s1, s2) /\ s2.client = s1.client /\ s2.child = s1.child
      BY <2>2
    <3> HIDE DEF k, q, r
    <3>3. QED
      BY <1>3, <1>11, <2>3, <3>1, <3>2, SubmitGood
  <2>5. Dispatch(s, c) = t
    BY <1>10, <1>17
  <2> HIDE DEF t
  <2>6. FC(t) >= FC(s1)
    BY <2>4, FreeMore
  <2>7. FC(t) >= FC(s) - 1
    BY <2>6, <1>13, FreeIsFinite
  <2>8. Keeps(s, t)
    BY <1>1, <1>13, <2>4, KeepsOn
  <2>9. Listed(s) => Listed(t)
    <3>1. s1.req = s.req
      BY <1>4, <1>9
    <3>2. QED
      BY <2>4, <3>1, <1>14
  <2>10. QED
    BY <1>13, <2>4, <2>5, <2>7, <2>8, <2>9 DEF Goes, SameLists
<1>18. QED
  BY <1>16, <1>17

\* The equations of Served and of Grown have a solution.
LEMMA ServedStep ==
  ASSUME NEW s, Len(s.workers) \in Nat
  PROVE  /\ Served(s)[0] = s
         /\ \A i \in 1 .. Len(s.workers) : Served(s)[i] = Serve(Served(s)[i - 1], s.workers[i])
<1> DEFINE n == Len(s.workers)
           Is(f, k) == f = [i \in 0 .. k |-> IF i = 0 THEN s ELSE Serve(f[i - 1], s.workers[i])]
           S == {k \in Nat : \E f : Is(f, k)}
<1>1. 0 \in S
  <2>1. Is([i \in 0 .. 0 |-> s], 0)
    OBVIOUS
  <2>2. QED
    BY <2>1
<1>2. ASSUME NEW k \in 1 .. n, k - 1 \in S PROVE k \in S
  <2>1. PICK f : Is(f, k - 1)
    BY <1>2
  <2> DEFINE g == [i \in 0 .. k |-> IF i = k THEN Serve(f[k - 1], s.workers[k]) ELSE f[i]]
  <2>2. \A i \in 0 .. k - 1 : f[i] = IF i = 0 THEN s ELSE Serve(f[i - 1], s.workers[i])
    BY <2>1
  <2>3. \A i \in 0 .. k : g[i] = IF i = 0 THEN s ELSE Serve(g[i - 1], s.workers[i])
    <3>1. \A i \in 0 .. k - 1 : g[i] = f[i]
      OBVIOUS
    <3>2. g[k] = Serve(f[k - 1], s.workers[k])
      OBVIOUS
    <3> HIDE DEF g
    <3>3. QED
      BY <2>2, <3>1, <3>2
  <2>4. Is(g, k)
    <3>1. g = [i \in 0 .. k |-> g[i]]
      OBVIOUS
    <3> HIDE DEF g
    <3>2. QED
      BY <2>3, <3>1
  <2>5. k \in Nat
    OBVIOUS
  <2>6. QED
    BY <2>4, <2>5
<1>3. n \in S
  <2> HIDE DEF S
  <2>1. 0 .. n \subseteq S
    BY <1>1, <1>2, UpTo
  <2>2. QED
    BY <2>1
<1>4. PICK f : Is(f, n)
  BY <1>3
<1>5. Is(Served(s), n)
  <2>1. Served(s) = CHOOSE f1 : Is(f1, n)
    BY DEF Served
  <2> HIDE DEF Is
  <2>2. QED
    BY <1>4, <2>1
<1>6. QED
  BY <1>5

LEMMA GrownStep ==
  ASSUME NEW s
  PROVE  /\ Grown(s)[0] = [s EXCEPT !.bgStart = 0]
         /\ \A i \in 1 .. Size : Grown(s)[i] = AddWorker(Grown(s)[i - 1])
<1> DEFINE n == Size
           s0 == [s EXCEPT !.bgStart = 0]
           Is(f, k) == f = [i \in 0 .. k |-> IF i = 0 THEN s0 ELSE AddWorker(f[i - 1])]
           S == {k \in Nat : \E f : Is(f, k)}
<1>0. n \in Nat
  BY SizeAssumption
<1>1. 0 \in S
  <2>1. Is([i \in 0 .. 0 |-> s0], 0)
    <3> HIDE DEF s0
    <3>1. QED
      OBVIOUS
  <2>2. QED
    BY <2>1
<1>2. ASSUME NEW k \in 1 .. n, k - 1 \in S PROVE k \in S
  <2> HIDE DEF s0
  <2>1. PICK f : Is(f, k - 1)
    BY <1>2
  <2> DEFINE g == [i \in 0 .. k |-> IF i = k THEN AddWorker(f[k - 1]) ELSE f[i]]
  <2>2. \A i \in 0 .. k - 1 : f[i] = IF i = 0 THEN s0 ELSE AddWorker(f[i - 1])
    BY <2>1
  <2>3. \A i \in 0 .. k : g[i] = IF i = 0 THEN s0 ELSE AddWorker(g[i - 1])
    <3>1. \A i \in 0 .. k - 1 : g[i] = f[i]
      OBVIOUS
    <3>2. g[k] = AddWorker(f[k - 1])
      OBVIOUS
    <3> HIDE DEF g
    <3>3. QED
      BY <2>2, <3>1, <3>2
  <2>4. Is(g, k)
    <3>1. g = [i \in 0 .. k |-> g[i]]
      OBVIOUS
    <3> HIDE DEF g
    <3>2. QED
      BY <2>3, <3>1
  <2>5. k \in Nat
    OBVIOUS
  <2>6. QED
    BY <2>4, <2>5
<1>3. n \in S
  <2> HIDE DEF S
  <2>1. 0 .. n \subseteq S
    BY <1>0, <1>1, <1>2, UpTo
  <2>2. QED
    BY <1>0, <2>1
<1>4. PICK f : Is(f, n)
  BY <1>3
<1>5. Is(Grown(s), n)
  <2>1. Grown(s) = CHOOSE f1 : Is(f1, n)
    BY DEF Grown
  <2> HIDE DEF Is
  <2>2. QED
    BY <1>4, <2>1
<1>6. QED
  <2> HIDE DEF s0
  <2>1. Grown(s)[0] = s0 /\ \A i \in 1 .. Size : Grown(s)[i] = AddWorker(Grown(s)[i - 1])
    BY <1>0, <1>5
  <2>2. QED
    BY <2>1 DEF s0

LEMMA ServedGood ==
  ASSUME NEW s, Good(s), FC(s) >= Len(s.workers)
  PROVE  Goes(s, Served(s)[Len(s.workers)], Len(s.workers))
<1> DEFINE n == Len(s.workers)
           S == {i \in 0 .. n : Goes(s, Served(s)[i], i)}
<1>1. n \in Nat /\ FC(s) \in Nat
  BY FreeIsFinite DEF Good, Shape
<1>2. 0 \in S
  <2>1. Served(s)[0] = s
    BY <1>1, ServedStep
  <2>2. Keeps(s, s)
    BY DEF Keeps
  <2>3. FC(s) >= FC(s) - 0
    BY <1>1
  <2>4. Goes(s, s, 0)
    BY <2>2, <2>3 DEF Goes
  <2>5. QED
    BY <1>1, <2>1, <2>4
<1>3. ASSUME NEW i \in 1 .. n, i - 1 \in S PROVE i \in S
  <2> DEFINE u == Served(s)[i - 1]
             c == s.workers[i]
             t == Serve(u, c)
  <2>1. Goes(s, u, i - 1)
    BY <1>3
  <2>2. Served(s)[i] = t
    BY <1>1, ServedStep
  <2> HIDE DEF u, t
  <2>3. Good(u) /\ Keeps(s, u) /\ u.workers = s.workers /\ u.bg = s.bg /\ u.bgStart = s.bgStart
        /\ FC(u) >= FC(s) - (i - 1) /\ FreeClients(s) \subseteq FreeClients(u)
    BY <2>1 DEF Goes
  <2>4. c \in 1 .. Clients /\ Hired(u, c)
    <3>1. s.workers \in Seq(1 .. Clients)
      BY DEF Good, Shape
    <3>2. c \in 1 .. Clients
      BY <3>1, SeqElement
    <3>3. Hired(u, c)
      BY <2>3 DEF Hired
    <3>4. QED
      BY <3>2, <3>3
  <2>5. FC(u) \in Nat
    BY FreeIsFinite
  <2>6. CASE u.waiters # <<>> /\ ~Busy(u, c)
    <3>1. t = Dispatch(u, c)
      BY <2>6 DEF Serve, t
    <3>2. FreeChildren(u) # {}
      <4>1. FC(u) > 0
        BY <1>1, <2>3, <2>5
      <4>2. QED
        BY <4>1, SomeFree
    <3>3. Goes(u, t, 1)
      BY <2>3, <2>4, <2>6, <3>1, <3>2, DispatchGood
    <3>4. FC(t) >= FC(s) - i
      <4>1. FC(t) \in Nat
        BY FreeIsFinite
      <4>2. FC(t) >= FC(u) - 1
        BY <3>3 DEF Goes
      <4>3. QED
        BY <1>1, <2>3, <2>5, <4>1, <4>2
    <3>5. Keeps(s, t) /\ (Listed(s) => Listed(t))
      BY <2>1, <2>3, <3>3, KeepsOn DEF Goes, Good
    <3>6. Goes(s, t, i)
      BY <2>3, <3>3, <3>4, <3>5 DEF Goes
    <3>7. QED
      BY <2>2, <3>6
  <2>7. CASE ~(u.waiters # <<>> /\ ~Busy(u, c))
    <3>1. t = u
      BY <2>7 DEF Serve, t
    <3>2. FC(u) >= FC(s) - i
      BY <1>1, <2>3, <2>5
    <3>3. Goes(s, u, i)
      BY <2>1, <2>3, <3>2 DEF Goes
    <3>4. QED
      BY <2>2, <3>1, <3>3
  <2>8. QED
    BY <2>6, <2>7
<1>4. n \in S
  <2> HIDE DEF S, n
  <2>1. 0 .. n \subseteq S
    BY <1>1, <1>2, <1>3, UpTo
  <2>2. QED
    BY <1>1, <2>1
<1>5. QED
  BY <1>4

-----------------------------------------------------------------------------
(* spawnRemaining *)

Triggered(s) == s.bgStart # 0 => s.bg

\* A client nobody refers to becomes a worker.
LEMMA HireGood ==
  ASSUME NEW s, Good(s), Len(s.workers) < Size, Triggered(s), NEW c \in FreeClients(s),
         NEW m, IsTurn(m), m.workers = Append(s.workers, c),
         m.client = [s.client EXCEPT ![c] = NoClient],
         m.req = s.req, m.waiters = s.waiters, m.bg = s.bg,
         m.bgStart = s.bgStart, m.child = s.child
  PROVE  /\ Good(m) /\ Keeps(s, m)
         /\ Len(m.workers) = Len(s.workers) + 1
         /\ c \in 1 .. Clients /\ m.client[c].ready = 0 /\ m.client[c].queue = <<>>
         /\ \A k \in 1 .. Children : m.child[k].owner # c
         /\ FreeChildren(m) = FreeChildren(s)
         /\ FreeClients(s) \ {c} \subseteq FreeClients(m)
<1> DEFINE w == Append(s.workers, c)
<1>1. Shape(s) /\ Kids(s) /\ Owners(s) /\ Owed(s) /\ Sent(s) /\ Reqs(s) /\ Lists(s)
  BY DEF Good
<1>2. /\ c \in 1 .. Clients
      /\ \A i \in 1 .. Len(s.workers) : s.workers[i] # c
      /\ \A r \in Request : s.req[r].client # c
      /\ \A k \in 1 .. Children : s.child[k].owner # c
  BY DEF FreeClients
<1>3. /\ IsTurn(m) /\ m.workers = w
      /\ m.client = [s.client EXCEPT ![c] = NoClient]
      /\ m.req = s.req /\ m.waiters = s.waiters /\ m.bg = s.bg
      /\ m.bgStart = s.bgStart /\ m.child = s.child
  OBVIOUS
<1>4. /\ s.workers \in Seq(1 .. Clients)
      /\ w \in Seq(1 .. Clients) /\ Len(w) = Len(s.workers) + 1
      /\ \A i \in 1 .. Len(s.workers) : w[i] = s.workers[i]
      /\ w[Len(w)] = c
  <2>1. s.workers \in Seq(1 .. Clients)
    BY <1>1 DEF Shape
  <2>2. QED
    BY <2>1, <1>2
<1> HIDE DEF w
<1>5. \A i \in 1 .. Len(w) : i \in 1 .. Len(s.workers) \/ i = Len(w)
  <2>1. Len(s.workers) \in Nat
    BY <1>4
  <2>2. QED
    BY <1>4, <2>1
<1>6. \A d \in 1 .. Clients : Hired(m, d) <=> Hired(s, d) \/ d = c
  <2>1. ASSUME NEW d \in 1 .. Clients, Hired(m, d) PROVE Hired(s, d) \/ d = c
    BY <2>1, <1>3, <1>4, <1>5 DEF Hired
  <2>2. ASSUME NEW d \in 1 .. Clients, Hired(s, d) PROVE Hired(m, d)
    <3>1. \A i \in 1 .. Len(s.workers) : i \in 1 .. Len(w)
      BY <1>4
    <3>2. QED
      BY <2>2, <3>1, <1>3, <1>4 DEF Hired
  <2>3. Hired(m, c)
    <3>1. Len(w) \in 1 .. Len(w)
      BY <1>4
    <3>2. QED
      BY <3>1, <1>3, <1>4 DEF Hired
  <2>4. QED
    BY <2>1, <2>2, <2>3
<1>7. /\ m.client \in [1 .. Clients -> ClientRec]
      /\ m.client[c].ready = 0 /\ m.client[c].proc = 0 /\ m.client[c].queue = <<>>
      /\ \A d \in 1 .. Clients : d # c => m.client[d] = s.client[d]
  <2>1. NoClient \in ClientRec /\ NoClient.ready = 0 /\ NoClient.proc = 0 /\ NoClient.queue = <<>>
    BY SizeAssumption DEF NoClient, ClientRec
  <2>2. s.client \in [1 .. Clients -> ClientRec]
    BY <1>1 DEF Shape
  <2>3. QED
    BY <2>1, <2>2, <1>2, <1>3
<1>8. Good(m)
  <2>1. Shape(m)
    <3>1. Len(w) <= Size
      BY <1>4, SizeAssumption
    <3>2. m.workers \in Seq(1 .. Clients) /\ Len(m.workers) <= Size
      BY <3>1, <1>3, <1>4
    <3>3. QED
      BY <3>2, <1>1, <1>3, <1>7 DEF Shape, IsTurn
  <2>2. \A k \in 1 .. Children : s.child[k].owner # 0 =>
          s.child[k].owner \in 1 .. Clients /\ s.child[k].owner # c
    BY <1>1, <1>2, SizeAssumption DEF Shape, ChildRec
  <2>3. Kids(m)
    <3>1. ASSUME NEW k \in 1 .. Children, s.child[k].owner # 0
          PROVE  /\ m.client[s.child[k].owner] = s.client[s.child[k].owner]
                 /\ Hired(m, s.child[k].owner) <=> Hired(s, s.child[k].owner)
      BY <2>2, <3>1, <1>6, <1>7
    <3>2. QED
      BY <3>1, <1>1, <1>3 DEF Kids
  <2>4. Owners(m)
    <3>1. \A d \in 1 .. Clients : d # c => m.client[d] = s.client[d]
      BY <1>7
    <3>2. Knows(m.child, c, m.client[c])
      BY <1>7 DEF Knows
    <3>3. QED
      BY <3>1, <3>2, <1>1, <1>3 DEF Owners
  <2>5. Owed(m)
    <3>1. ASSUME NEW d \in 1 .. Clients, d # c
          PROVE  m.client[d] = s.client[d] /\ (Hired(m, d) <=> Hired(s, d))
      BY <3>1, <1>6, <1>7
    <3>2. QED
      BY <3>1, <1>1, <1>3, <1>7 DEF Owed
  <2>6. Reqs(m) /\ Sent(m)
    <3>1. SentTo(c, <<>>, m.req)
      BY DEF SentTo
    <3>2. QED
      BY <3>1, <1>1, <1>3, <1>7 DEF Reqs, Sent
  <2>7. Lists(m)
    <3>1. ASSUME NEW i \in 1 .. Len(w), NEW j \in 1 .. Len(w), w[i] = w[j] PROVE i = j
      <4>1. CASE i \in 1 .. Len(s.workers) /\ j \in 1 .. Len(s.workers)
        BY <3>1, <4>1, <1>1, <1>4 DEF Lists
      <4>2. CASE i = Len(w) /\ j \in 1 .. Len(s.workers)
        BY <3>1, <4>2, <1>2, <1>4
      <4>3. CASE j = Len(w) /\ i \in 1 .. Len(s.workers)
        BY <3>1, <4>3, <1>2, <1>4
      <4>4. QED
        BY <4>1, <4>2, <4>3, <1>5
    <3>2. QED
      BY <3>1, <1>1, <1>3 DEF Lists, Triggered
  <2>8. QED
    BY <2>1, <2>3, <2>4, <2>5, <2>6, <2>7 DEF Good
<1>9. FreeChildren(m) = FreeChildren(s)
  BY <1>3 DEF FreeChildren
<1>10. FreeClients(s) \ {c} \subseteq FreeClients(m)
  <2>1. ASSUME NEW d \in FreeClients(s) \ {c} PROVE d \in FreeClients(m)
    <3>1. /\ d \in 1 .. Clients /\ ~Hired(s, d) /\ d # c
          /\ \A r \in Request : s.req[r].client # d
          /\ \A k \in 1 .. Children : s.child[k].owner # d
      BY <2>1 DEF FreeClients, Hired
    <3>2. ~Hired(m, d)
      BY <3>1, <1>6
    <3>3. QED
      BY <3>1, <3>2, <1>3 DEF FreeClients, Hired
  <2>2. QED
    BY <2>1
<1>11. \A k \in 1 .. Children : m.child[k].owner # c
  BY <1>2, <1>3
<1>12. Keeps(s, m)
  BY <1>2, <1>3, <1>6 DEF Keeps
<1>13. QED
  BY <1>2, <1>3, <1>4, <1>7, <1>8, <1>9, <1>10, <1>11, <1>12

LEMMA AddWorkerGood ==
  ASSUME NEW s, Good(s), s.bgStart = 0, Len(s.workers) < Size, FC(s) > 0, FL(s) > 0
  PROVE  LET t == AddWorker(s)
         IN  /\ Good(t) /\ Keeps(s, t)
             /\ t.bg = s.bg /\ t.bgStart = 0
             /\ Len(t.workers) = Len(s.workers) + 1
             /\ t.req = s.req /\ t.waiters = s.waiters
             /\ FC(t) >= FC(s) - 1 /\ FL(t) >= FL(s) - 1
<1> DEFINE c == Least(FreeClients(s))
           m == [s EXCEPT !.workers = Append(@, c), !.client[c] = NoClient]
           t == AddWorker(s)
<1>1. Shape(s) /\ Kids(s) /\ Owners(s) /\ Owed(s) /\ Reqs(s) /\ Lists(s)
  BY DEF Good
<1>2. c \in FreeClients(s)
  <2>1. FreeClients(s) \subseteq Nat /\ FreeClients(s) # {}
    BY SomeFree DEF FreeClients
  <2>2. QED
    BY <2>1, HasLeast
<1>3. t = Start(m, c)
  BY DEF AddWorker
<1> HIDE DEF c, t
<1> DEFINE w == Append(s.workers, c)
<1>4. /\ IsTurn(m) /\ m.workers = w
      /\ m.client = [s.client EXCEPT ![c] = NoClient]
      /\ m.req = s.req /\ m.waiters = s.waiters /\ m.bg = s.bg
      /\ m.bgStart = s.bgStart /\ m.child = s.child
  <2>1. m = [s EXCEPT !.workers = w, !.client[c] = NoClient]
    OBVIOUS
  <2> HIDE DEF m, w
  <2>2. /\ m.workers = w
        /\ m.req = s.req /\ m.waiters = s.waiters /\ m.bg = s.bg
        /\ m.bgStart = s.bgStart /\ m.child = s.child
    BY <2>1, <1>1 DEF Shape
  <2>3. m.client = [s.client EXCEPT ![c] = NoClient]
    BY <2>1, <1>1 DEF Shape
  <2>4. IsTurn(m)
    BY <2>1, <1>1 DEF Shape, IsTurn
  <2>5. QED
    BY <2>2, <2>3, <2>4
<1> HIDE DEF m
<1>5. /\ Good(m) /\ Keeps(s, m)
      /\ Len(m.workers) = Len(s.workers) + 1
      /\ c \in 1 .. Clients /\ m.client[c].ready = 0 /\ m.client[c].queue = <<>>
      /\ \A k \in 1 .. Children : m.child[k].owner # c
      /\ FreeChildren(m) = FreeChildren(s)
      /\ FreeClients(s) \ {c} \subseteq FreeClients(m)
  BY <1>2, <1>4, HireGood DEF Triggered
<1>6. FreeChildren(m) # {} /\ FC(m) = FC(s)
  BY <1>5, SomeFree DEF FC
<1>7. /\ Good(t) /\ Keeps(m, t)
      /\ t.bg = m.bg /\ t.bgStart = m.bgStart /\ t.workers = m.workers
      /\ t.req = m.req /\ t.waiters = m.waiters
      /\ FC(t) >= FC(m) - 1
      /\ FreeClients(m) \ {c} \subseteq FreeClients(t)
  <2>1. \A j \in 1 .. Children : m.child[j].owner = c => m.child[j].st = "failed"
    BY <1>5
  <2>2. QED
    BY <2>1, <1>3, <1>5, <1>6, StartGood
<1>8. FL(t) >= FL(s) - 1
  <2>1. FreeClients(s) \ {c} \subseteq FreeClients(t)
    BY <1>5, <1>7
  <2>2. QED
    BY <2>1, FreeClientsLeft
<1>9. Keeps(s, t)
  BY <1>1, <1>5, <1>7, KeepsOn
<1>10. QED
  BY <1>4, <1>5, <1>6, <1>7, <1>8, <1>9 DEF t

LEMMA FlagsGood ==
  ASSUME NEW s, Good(s), NEW t, IsTurn(t),
         t.req = s.req, t.waiters = s.waiters, t.workers = s.workers,
         t.client = s.client, t.child = s.child,
         t.bg \in BOOLEAN, t.bgStart \in 0 .. Children,
         t.bgStart # 0 => t.bg \/ t.workers = <<>>
  PROVE  Good(t) /\ FC(t) = FC(s) /\ FL(t) = FL(s)
<1>1. Shape(s) /\ Kids(s) /\ Owners(s) /\ Owed(s) /\ Reqs(s) /\ Lists(s)
  BY DEF Good
<1>2. Shape(t)
  BY <1>1 DEF Shape, IsTurn
<1>3. Kids(t)
  BY <1>1 DEF Kids, Hired
<1>4. Owners(t) /\ Owed(t)
  BY <1>1 DEF Owners, Owed, Hired
<1>5. Reqs(t) /\ Lists(t) /\ Sent(t)
  BY <1>1 DEF Good, Reqs, Lists, Sent
<1>6. FC(t) = FC(s) /\ FL(t) = FL(s)
  BY DEF FC, FL, FreeChildren, FreeClients
<1>7. QED
  BY <1>2, <1>3, <1>4, <1>5, <1>6 DEF Good

LEMMA GrownGood ==
  ASSUME NEW s, Good(s),
         FC(s) >= Size - Len(s.workers), FL(s) >= Size - Len(s.workers)
  PROVE  LET t == AddRemaining(s)
         IN  /\ Good(t) /\ Keeps(s, t) /\ t.bg = s.bg /\ t.bgStart = 0
             /\ t.req = s.req /\ t.waiters = s.waiters
<1> DEFINE n == Size - Len(s.workers)
           s0 == [s EXCEPT !.bgStart = 0]
           P(t, i) == /\ Good(t) /\ Keeps(s, t) /\ t.bg = s.bg /\ t.bgStart = 0
                      /\ t.req = s.req /\ t.waiters = s.waiters
                      /\ Len(t.workers) = Len(s.workers) + i
                      /\ FC(t) >= FC(s) - i /\ FL(t) >= FL(s) - i
           S == {i \in 0 .. n : P(Grown(s)[i], i)}
<1>1. Shape(s) /\ Kids(s) /\ Owners(s) /\ Owed(s) /\ Reqs(s) /\ Lists(s)
  BY DEF Good
<1>2. Len(s.workers) \in Nat /\ n \in 0 .. Size /\ FC(s) \in Nat /\ FL(s) \in Nat
  <2>1. Len(s.workers) \in Nat /\ Len(s.workers) <= Size
    BY <1>1 DEF Shape
  <2>2. QED
    BY <2>1, FreeIsFinite, SizeAssumption
<1>3. 0 \in S
  <2>1. /\ IsTurn(s0) /\ s0.bgStart = 0
        /\ s0.req = s.req /\ s0.waiters = s.waiters /\ s0.workers = s.workers
        /\ s0.bg = s.bg /\ s0.client = s.client /\ s0.child = s.child
    BY <1>1 DEF Shape, IsTurn
  <2>2. Grown(s)[0] = s0
    BY GrownStep
  <2> HIDE DEF s0
  <2>3. Good(s0)
    <3>1. s0.bg \in BOOLEAN /\ 0 \in 0 .. Children
      BY <1>1, <2>1, SizeAssumption DEF Shape
    <3>2. QED
      BY <2>1, <3>1, FlagsGood
  <2>4. Keeps(s, s0)
    BY <2>1 DEF Keeps, Hired
  <2>5. FC(s0) = FC(s) /\ FL(s0) = FL(s)
    BY <2>1 DEF FC, FL, FreeChildren, FreeClients
  <2>6. P(s0, 0)
    BY <1>2, <2>1, <2>3, <2>4, <2>5
  <2> HIDE DEF P
  <2>7. QED
    BY <1>2, <2>2, <2>6
<1>4. ASSUME NEW i \in 1 .. n, i - 1 \in S PROVE i \in S
  <2> DEFINE u == Grown(s)[i - 1]
             t == AddWorker(u)
  <2>1. P(u, i - 1)
    BY <1>4
  <2>2. Grown(s)[i] = t
    <3>1. i \in 1 .. Size
      <4> HIDE DEF n
      <4>1. QED
        BY <1>2, SizeAssumption
    <3>2. QED
      BY <3>1, GrownStep
  <2> HIDE DEF u, t
  <2>3. FC(u) \in Nat /\ FL(u) \in Nat
    BY FreeIsFinite
  <2>11. /\ Len(u.workers) = Len(s.workers) + (i - 1)
         /\ FC(u) >= FC(s) - (i - 1) /\ FL(u) >= FL(s) - (i - 1)
    BY <2>1
  <2>12. /\ i \in Int /\ 1 <= i /\ i <= Size - Len(s.workers)
         /\ Size \in Int /\ Len(s.workers) \in Int /\ FC(s) \in Int /\ FL(s) \in Int
    BY <1>2, SizeAssumption
  <2>13. Good(u) /\ u.bgStart = 0
    BY <2>1
  <2> HIDE DEF n, P, S
  <2>14. Len(u.workers) < Size
    BY <2>11, <2>12
  <2>15. FC(u) > 0 /\ FL(u) > 0
    BY <2>3, <2>11, <2>12
  <2>4. Good(u) /\ u.bgStart = 0 /\ Len(u.workers) < Size /\ FC(u) > 0 /\ FL(u) > 0
    BY <2>13, <2>14, <2>15
  <2>5. /\ Good(t) /\ Keeps(u, t)
        /\ t.bg = u.bg /\ t.bgStart = 0 /\ t.req = u.req /\ t.waiters = u.waiters
        /\ Len(t.workers) = Len(u.workers) + 1
        /\ FC(t) >= FC(u) - 1 /\ FL(t) >= FL(u) - 1
    BY <2>4, AddWorkerGood DEF t
  <2>6. FC(t) \in Nat /\ FL(t) \in Nat
    BY FreeIsFinite
  <2>7. Len(t.workers) = Len(s.workers) + i /\ FC(t) >= FC(s) - i /\ FL(t) >= FL(s) - i
    <3>1. Len(t.workers) = Len(s.workers) + i
      BY <2>5, <2>11, <2>12
    <3>2. FC(t) >= FC(s) - i
      BY <2>3, <2>5, <2>6, <2>11, <2>12
    <3>3. FL(t) >= FL(s) - i
      BY <2>3, <2>5, <2>6, <2>11, <2>12
    <3>4. QED
      BY <3>1, <3>2, <3>3
  <2>16. Keeps(s, u)
    BY <2>1 DEF P
  <2>8. Keeps(s, t)
    BY <1>1, <2>5, <2>16, KeepsOn
  <2>9. P(t, i)
    BY <2>1, <2>5, <2>7, <2>8 DEF P
  <2>10. QED
    BY <2>2, <2>9 DEF S, n
<1>5. n \in S
  <2> HIDE DEF S, n
  <2>1. n \in Nat
    BY <1>2, SizeAssumption
  <2>2. 0 .. n \subseteq S
    BY <1>3, <1>4, <2>1, UpTo
  <2>3. QED
    BY <2>1, <2>2
<1>6. AddRemaining(s) = Grown(s)[n]
  BY DEF AddRemaining
<1>7. QED
  BY <1>5, <1>6

\* What of drain a readiness line relies on: whatever bgStart it leaves is an
\* old one, with no background start now, or one of a child that is not ready.
Drained(s, t) ==
  /\ Good(t) /\ Keeps(s, t) /\ (Listed(s) => Listed(t))
  /\ \/ /\ t.bgStart = s.bgStart /\ t.workers = s.workers
        /\ FC(t) >= FC(s) - Len(s.workers) /\ FL(t) >= FL(s)
     \/ s.bgStart = 0 /\ (t.bgStart # 0 => t.child[t.bgStart].st \in Pending)

LEMMA BackgroundSpawnGood ==
  ASSUME NEW s, Good(s),
         FC(s) > Size - Len(s.workers), FL(s) >= Size - Len(s.workers)
  PROVE  LET t == BackgroundSpawn(s)
         IN  /\ Good(t) /\ Keeps(s, t) /\ t.req = s.req /\ t.waiters = s.waiters
             /\ t = s \/ (s.bgStart = 0 /\ (t.bgStart # 0 => t.child[t.bgStart].st \in Pending))
<1> DEFINE t == BackgroundSpawn(s)
<1>1. Shape(s) /\ Kids(s) /\ Owners(s) /\ Owed(s) /\ Reqs(s) /\ Lists(s)
  BY DEF Good
<1>2. CASE s.bg \/ Len(s.workers) >= Size \/ s.workers = <<>>
  <2>1. t = s
    BY <1>2 DEF BackgroundSpawn
  <2>2. Keeps(s, s)
    BY DEF Keeps
  <2>3. QED
    BY <2>1, <2>2
<1>3. CASE ~(s.bg \/ Len(s.workers) >= Size \/ s.workers = <<>>)
  <2> DEFINE c  == Head(s.workers)
             s0 == [s EXCEPT !.bg = TRUE]
             s1 == EnsureStarted(s0, c)
             k  == s1.client[c].ready
             s2 == [s1 EXCEPT !.bgStart = k]
  <2>1. s.workers \in Seq(1 .. Clients) /\ Len(s.workers) \in Nat
    BY <1>1 DEF Shape
  <2>2. c \in 1 .. Clients /\ 1 \in 1 .. Len(s.workers) /\ s.workers[1] = c
    <3>1. s.workers # <<>>
      BY <1>3
    <3>2. QED
      BY <2>1, <3>1, SeqHead
  <2>3. s.bgStart = 0
    BY <1>1, <1>3 DEF Lists
  <2>4. t = IF s1.child[k].st \in Pending THEN s2 ELSE AddRemaining(s1)
    BY <1>3 DEF BackgroundSpawn
  <2>5. /\ IsTurn(s0) /\ s0.bg = TRUE
        /\ s0.req = s.req /\ s0.waiters = s.waiters /\ s0.workers = s.workers
        /\ s0.bgStart = s.bgStart /\ s0.client = s.client /\ s0.child = s.child
    <3>1. s0 = [s EXCEPT !.bg = TRUE]
      OBVIOUS
    <3> HIDE DEF s0
    <3>2. s0.bg = TRUE /\ s0.req = s.req /\ s0.waiters = s.waiters /\ s0.workers = s.workers
      BY <3>1, <1>1 DEF Shape
    <3>3. s0.bgStart = s.bgStart /\ s0.client = s.client /\ s0.child = s.child
      BY <3>1, <1>1 DEF Shape
    <3>4. IsTurn(s0)
      BY <3>1, <1>1 DEF Shape, IsTurn
    <3>5. QED
      BY <3>2, <3>3, <3>4
  <2> HIDE DEF s0, c, t
  <2>6. Good(s0)
    <3>1. s0.bg \in BOOLEAN /\ s0.bgStart \in 0 .. Children
      BY <1>1, <2>5 DEF Shape
    <3>2. QED
      BY <2>5, <3>1, FlagsGood
  <2>7. Keeps(s, s0)
    BY <2>5 DEF Keeps, Hired
  <2>8. FC(s0) = FC(s) /\ FL(s0) = FL(s) /\ Hired(s0, c)
    BY <2>2, <2>5 DEF FC, FL, FreeChildren, FreeClients, Hired
  <2>9. FC(s) \in Nat /\ FL(s) \in Nat
    BY FreeIsFinite
  <2>10. FreeChildren(s0) # {}
    <3>1. FC(s0) > 0
      BY <1>3, <2>1, <2>8, <2>9, SizeAssumption
    <3>2. QED
      BY <3>1, SomeFree
  <2>11. /\ Good(s1) /\ k # 0 /\ Keeps(s0, s1)
         /\ s1.req = s0.req /\ s1.waiters = s0.waiters /\ s1.workers = s0.workers
         /\ s1.bg = s0.bg /\ s1.bgStart = s0.bgStart
         /\ FC(s1) >= FC(s0) - 1
         /\ FreeClients(s0) \subseteq FreeClients(s1)
    BY <2>2, <2>6, <2>8, <2>10, EnsuredGood
  <2> HIDE DEF s1
  <2>12. Keeps(s, s1)
    BY <1>1, <2>7, <2>11, KeepsOn
  <2>13. CASE s1.child[k].st \in Pending
    <3>1. k \in 0 .. Children
      BY <2>2, <2>11 DEF Good, Shape, ClientRec
    <3>2. /\ IsTurn(s2) /\ s2.bgStart = k
          /\ s2.req = s1.req /\ s2.waiters = s1.waiters /\ s2.workers = s1.workers
          /\ s2.bg = s1.bg /\ s2.client = s1.client /\ s2.child = s1.child
      <4>1. IsTurn(s1)
        BY <2>11 DEF Good, Shape, IsTurn
      <4>2. s2 = [s1 EXCEPT !.bgStart = k]
        OBVIOUS
      <4> HIDE DEF k, s2
      <4>3. s2.bgStart = k /\ s2.req = s1.req /\ s2.waiters = s1.waiters /\ s2.workers = s1.workers
        BY <4>1, <4>2 DEF IsTurn
      <4>4. s2.bg = s1.bg /\ s2.client = s1.client /\ s2.child = s1.child
        BY <4>1, <4>2 DEF IsTurn
      <4>5. IsTurn(s2)
        BY <4>1, <4>2 DEF IsTurn
      <4>6. QED
        BY <4>3, <4>4, <4>5
    <3> HIDE DEF s2
    <3>3. Good(s2)
      <4>1. s2.bg = TRUE /\ s2.bgStart \in 0 .. Children
        BY <2>5, <2>11, <3>1, <3>2
      <4> HIDE DEF k
      <4>2. QED
        BY <2>11, <3>2, <4>1, FlagsGood
    <3>4. Keeps(s1, s2)
      <4>1. s2.bg
        BY <2>5, <2>11, <3>2
      <4>2. QED
        BY <4>1, <3>2 DEF Keeps, Hired
    <3>5. Keeps(s, s2)
      BY <1>1, <2>12, <3>4, KeepsOn
    <3>6. t = s2
      BY <2>4, <2>13
    <3>7. QED
      BY <2>3, <2>5, <2>11, <2>13, <3>2, <3>3, <3>5, <3>6 DEF t
  <2>14. CASE s1.child[k].st \notin Pending
    <3>1. FC(s1) \in Nat /\ FL(s1) \in Nat /\ FL(s1) >= FL(s0)
      BY <2>11, FreeIsFinite, FreeMore
    <3>2. FC(s1) >= Size - Len(s1.workers) /\ FL(s1) >= Size - Len(s1.workers)
      <4>1. Len(s1.workers) = Len(s.workers)
        BY <2>5, <2>11
      <4> HIDE DEF k
      <4>2. FC(s1) >= FC(s) - 1 /\ FL(s1) >= FL(s)
        BY <2>8, <2>11, <3>1
      <4>3. QED
        BY <4>1, <4>2, <2>1, <2>9, <3>1, SizeAssumption
    <3>3. /\ t = AddRemaining(s1)
      BY <2>4, <2>14
    <3>4. Good(t) /\ Keeps(s1, t) /\ t.bgStart = 0 /\ t.req = s1.req /\ t.waiters = s1.waiters
      BY <2>11, <3>2, <3>3, GrownGood
    <3>5. Keeps(s, t)
      BY <1>1, <2>12, <3>4, KeepsOn
    <3>6. QED
      BY <2>3, <2>5, <2>11, <3>4, <3>5 DEF t
  <2>15. QED
    BY <2>13, <2>14
<1>4. QED
  BY <1>2, <1>3

Enough(s) == FC(s) > Size /\ FL(s) >= Size - Len(s.workers)

LEMMA DrainGood ==
  ASSUME NEW s, Good(s), Enough(s)
  PROVE  Drained(s, Drain(s))
<1> DEFINE n == Len(s.workers)
           u == Served(s)[n]
           t == BackgroundSpawn(u)
<1>1. n \in Nat /\ n <= Size /\ FC(s) \in Nat /\ FL(s) \in Nat
  BY FreeIsFinite DEF Good, Shape
<1>2. Goes(s, u, n)
  BY <1>1, ServedGood, SizeAssumption DEF Enough
<1>3. Drain(s) = t
  BY DEF Drain
<1> HIDE DEF u, t
<1>4. /\ Good(u) /\ Keeps(s, u) /\ u.workers = s.workers /\ u.bgStart = s.bgStart
      /\ FC(u) >= FC(s) - n /\ FL(u) >= FL(s)
  BY <1>2, FreeMore DEF Goes
<1>5. FC(u) > Size - n /\ FL(u) >= Size - n
  <2>1. FC(u) \in Nat /\ FL(u) \in Nat
    BY FreeIsFinite
  <2>2. FC(s) > Size /\ FL(s) >= Size - n
    BY DEF Enough
  <2> HIDE DEF n
  <2>3. QED
    BY <1>1, <1>4, <2>1, <2>2, SizeAssumption
<1>6. /\ Good(t) /\ Keeps(u, t) /\ t.req = u.req /\ t.waiters = u.waiters
      /\ t = u \/ (u.bgStart = 0 /\ (t.bgStart # 0 => t.child[t.bgStart].st \in Pending))
  BY <1>4, <1>5, BackgroundSpawnGood DEF t
<1>7. Keeps(s, t)
  BY <1>4, <1>6, KeepsOn DEF Good
<1>8. Listed(s) => Listed(t)
  BY <1>2, <1>6 DEF Goes, Listed
<1>9. QED
  BY <1>3, <1>4, <1>6, <1>7, <1>8 DEF Drained

-----------------------------------------------------------------------------
(* Whole turns *)

LEMMA RoomIsEnough ==
  ASSUME Room, NEW s, Shape(s),
         FreeChildren(Now) \subseteq FreeChildren(s), FreeClients(Now) \subseteq FreeClients(s)
  PROVE  Enough(s)
<1>1. FC(Now) > Size /\ FL(Now) >= Size
  BY DEF Room, FC, FL
<1>2. FC(s) >= FC(Now) /\ FL(s) >= FL(Now)
  BY FreeMore
<1>3. FC(s) \in Nat /\ FL(s) \in Nat /\ FC(Now) \in Nat /\ FL(Now) \in Nat
  BY FreeIsFinite
<1>4. Len(s.workers) \in Nat
  BY DEF Shape
<1>5. QED
  BY <1>1, <1>2, <1>3, <1>4, SizeAssumption DEF Enough

\* No drain.
LEMMA NothingDrained ==
  ASSUME NEW s, Good(s)
  PROVE  Drained(s, s)
<1>1. Len(s.workers) \in Nat /\ FC(s) \in Nat /\ FL(s) \in Nat
  BY FreeIsFinite DEF Good, Shape
<1>2. FC(s) >= FC(s) - Len(s.workers) /\ FL(s) >= FL(s)
  BY <1>1
<1>3. Keeps(s, s)
  BY DEF Keeps
<1>4. QED
  BY <1>2, <1>3 DEF Drained

LEMMA FinallyGood ==
  ASSUME NEW s, Good(s), Enough(s)
  PROVE  Drained(s, Finally(s))
<1>1. Drained(s, Drain(s))
  BY DrainGood
<1>2. Drained(s, s)
  BY NothingDrained
<1>3. QED
  BY <1>1, <1>2 DEF Finally

LEMMA NowIs ==
  /\ IsTurn(Now)
  /\ Now.req = req /\ Now.waiters = waiters /\ Now.workers = workers /\ Now.bg = bg
  /\ Now.bgStart = bgStart /\ Now.client = client /\ Now.child = child
  BY DEF Now, IsTurn

\* A turn that comes to a good state t, from a state s that is over.
LEMMA TurnEnds ==
  ASSUME NEW t, Become(t), Good(t), Listed(t),
         aborted' \subseteq Request, down' \in BOOLEAN, closing' \subseteq 1 .. Children,
         Over(t, down', closing')
  PROVE  IInv'
<1>1. Now' = t
  <2>1. Now' = [req |-> t.req, waiters |-> t.waiters, workers |-> t.workers, bg |-> t.bg,
                bgStart |-> t.bgStart, client |-> t.client, child |-> t.child]
    BY DEF Now, Become
  <2>2. QED
    BY <2>1 DEF Good, Shape
<1>2. QED
  BY <1>1 DEF IInv, Ending

LEMMA Turned ==
  ASSUME NEW s, NEW t, Good(s), Drained(s, t), Listed(s), Become(t),
         aborted' \subseteq Request, down' \in BOOLEAN, closing' \subseteq 1 .. Children,
         Over(s, down', closing')
  PROVE  IInv'
<1>1. Good(t) /\ Keeps(s, t) /\ Listed(t)
  BY DEF Drained
<1>2. Over(t, down', closing')
  BY <1>1, StaysOver DEF Good
<1>3. QED
  BY <1>1, <1>2, TurnEnds

-----------------------------------------------------------------------------
(* Calls *)

LEMMA IsTurnCalled ==
  ASSUME NEW s, IsTurn(s), NEW r, NEW w, NEW x, NEW t, t = [s EXCEPT !.waiters = w, !.req[r].st = x]
  PROVE  IsTurn(t)
  BY DEF IsTurn

LEMMA CallKeeps ==
  ASSUME IInv, NEW r \in Request, Call(r)
  PROVE  IInv'
<1> DEFINE q  == [st |-> "waiting", client |-> 0, start |-> 0]
           v  == [Now EXCEPT !.req[r] = q]
           s  == [Now EXCEPT !.waiters = Append(@, r), !.req[r].st = "waiting"]
           c  == Least(FreeClients(s))
           m  == [s EXCEPT !.workers = <<c>>, !.client[c] = NoClient]
           s1 == IF workers = <<>> THEN m ELSE s
<1>1. /\ Good(Now) /\ Listed(Now) /\ Ending
      /\ Shape(Now) /\ Kids(Now) /\ Owners(Now) /\ Owed(Now) /\ Sent(Now) /\ Reqs(Now) /\ Lists(Now)
  BY DEF IInv, Good
<1>2. /\ ~down /\ Room /\ req[r].st = "idle" /\ Become(Drain(s1))
      /\ aborted' = aborted /\ down' = down /\ closing' = closing
  BY DEF Call
<1>3. /\ req \in [Request -> ReqRec] /\ waiters \in Seq(Request)
      /\ req[r].client = 0 /\ req[r].start = 0
      /\ \A i \in 1 .. Len(waiters) : waiters[i] # r
      /\ \A d \in 1 .. Clients : \A i \in 1 .. Len(client[d].queue) :
           \A p \in client[d].queue[i] : req[p].st = "sent"
  <2>1. req \in [Request -> ReqRec] /\ waiters \in Seq(Request)
    BY <1>1, NowIs DEF Shape
  <2>2. req[r].client = 0 /\ req[r].start = 0
    BY <1>1, <1>2, NowIs DEF Reqs
  <2>3. \A i \in 1 .. Len(waiters) : waiters[i] # r
    BY <1>1, <1>2, NowIs DEF Lists
  <2>4. \A d \in 1 .. Clients : SentTo(d, client[d].queue, req)
    BY <1>1, NowIs DEF Sent
  <2>5. QED
    BY <2>1, <2>2, <2>3, <2>4 DEF SentTo
<1>4. /\ Good(v) /\ v.req = [req EXCEPT ![r] = q]
      /\ v.waiters = waiters /\ v.workers = workers /\ v.bg = bg
      /\ v.bgStart = bgStart /\ v.client = client /\ v.child = child
  <2>1. ReqFits(Now, q) /\ q.client = 0
    BY SizeAssumption DEF ReqFits, ReqRec, Stage, Settled
  <2>2. Idle(Now, r)
    BY <1>2, <1>3, NowIs DEF Idle
  <2> HIDE DEF q
  <2>3. QED
    BY <1>1, <2>1, <2>2, NewReq, NowIs
<1>5. /\ IsTurn(s) /\ s.waiters = Append(waiters, r) /\ s.req = v.req
      /\ s.workers = workers /\ s.bg = bg
      /\ s.bgStart = bgStart /\ s.client = client /\ s.child = child
  <2> DEFINE w == Append(waiters, r)
  <2>1. req[r] \in ReqRec
    BY <1>3
  <2>2. [req[r] EXCEPT !.st = "waiting"] = q
    BY <2>1, <1>3 DEF ReqRec
  <2>3. s.req = [req EXCEPT ![r] = [req[r] EXCEPT !.st = "waiting"]]
    BY NowIs
  <2>4. s.req = v.req
    BY <2>2, <2>3, <1>4
  <2>5. s.waiters = w /\ s.workers = workers /\ s.bg = bg
        /\ s.bgStart = bgStart /\ s.client = client /\ s.child = child
    BY NowIs
  <2>6. IsTurn(s)
    BY NowIs, IsTurnCalled
  <2>7. QED
    BY <2>4, <2>5, <2>6
<1> HIDE DEF v, s
<1>6. /\ Append(waiters, r) \in Seq(Request) /\ Len(waiters) \in Nat
      /\ Len(Append(waiters, r)) = Len(waiters) + 1
      /\ \A i \in 1 .. Len(waiters) : Append(waiters, r)[i] = waiters[i]
      /\ Append(waiters, r)[Len(waiters) + 1] = r
  BY <1>3
<1>7. /\ s.req[r].st = "waiting" /\ \A p \in Request : p # r => s.req[p] = req[p]
  BY <1>3, <1>4, <1>5
<1>8. Good(s)
  <2>1. Shape(s)
    BY <1>4, <1>5, <1>6 DEF Good, Shape, IsTurn
  <2>2. Kids(s) /\ Owners(s) /\ Owed(s) /\ Sent(s) /\ Reqs(s)
    <3>1. Kids(s)
      BY <1>4, <1>5 DEF Good, Kids, Hired
    <3>2. Owners(s) /\ Owed(s)
      BY <1>4, <1>5 DEF Good, Owners, Owed, Hired
    <3>3. Sent(s) /\ Reqs(s)
      <4>1. s.req = v.req /\ s.client = v.client /\ s.child = v.child
        BY <1>4, <1>5
      <4>2. Sent(v) /\ Reqs(v)
        BY <1>4 DEF Good
      <4>3. QED
        BY <4>1, <4>2 DEF Sent, Reqs
    <3>4. QED
      BY <3>1, <3>2, <3>3
  <2>3. Lists(s)
    <3>1. \A i \in 1 .. Len(waiters) + 1 : i \in 1 .. Len(waiters) \/ i = Len(waiters) + 1
      BY <1>6
    <3>2. \A i \in 1 .. Len(waiters) : req[waiters[i]].st = "waiting" /\ waiters[i] \in Request
      BY <1>1, <1>3, NowIs, SeqElement DEF Lists
    <3>3. \A i, j \in 1 .. Len(waiters) : waiters[i] = waiters[j] => i = j
      BY <1>1, NowIs DEF Lists
    <3>4. \A i \in 1 .. Len(s.waiters) : s.req[s.waiters[i]].st = "waiting"
      BY <3>1, <3>2, <1>3, <1>5, <1>6, <1>7
    <3>5. \A i, j \in 1 .. Len(s.waiters) : s.waiters[i] = s.waiters[j] => i = j
      BY <3>1, <3>3, <1>3, <1>5, <1>6
    <3>6. QED
      BY <3>4, <3>5, <1>4, <1>5 DEF Good, Lists
  <2>4. QED
    BY <2>1, <2>2, <2>3 DEF Good
<1>9. Listed(s)
  <2>1. ASSUME NEW p \in Request, s.req[p].st = "waiting"
        PROVE  \E i \in 1 .. Len(s.waiters) : s.waiters[i] = p
    <3>1. CASE p = r
      <4>1. Len(waiters) + 1 \in 1 .. Len(s.waiters)
        BY <1>5, <1>6
      <4>2. QED
        BY <3>1, <4>1, <1>5, <1>6
    <3>2. CASE p # r
      <4>1. PICK i \in 1 .. Len(waiters) : waiters[i] = p
        BY <2>1, <3>2, <1>1, <1>7, NowIs DEF Listed
      <4>2. i \in 1 .. Len(s.waiters) /\ s.waiters[i] = p
        BY <4>1, <1>5, <1>6
      <4>3. QED
        BY <4>2
    <3>3. QED
      BY <3>1, <3>2
  <2>2. QED
    BY <2>1 DEF Listed
<1>10. FreeChildren(s) = FreeChildren(Now) /\ FreeClients(Now) \subseteq FreeClients(s)
  <2>1. FreeChildren(s) = FreeChildren(Now)
    BY <1>5, NowIs DEF FreeChildren
  <2>2. \A p \in Request : s.req[p].client = req[p].client
    BY <1>3, <1>4, <1>5
  <2>3. QED
    BY <2>1, <2>2, <1>5, NowIs DEF FreeClients
<1>11. Keeps(Now, s)
  BY <1>5, NowIs DEF Keeps, Hired
<1>12. /\ Good(s1) /\ Listed(s1) /\ Keeps(s, s1) /\ Enough(s1)
  <2>1. CASE workers # <<>>
    <3>1. s1 = s
      BY <2>1
    <3>2. Enough(s)
      BY <1>2, <1>8, <1>10, RoomIsEnough DEF Good
    <3>3. Keeps(s, s)
      BY DEF Keeps
    <3> HIDE DEF s1
    <3>4. QED
      BY <1>8, <1>9, <3>1, <3>2, <3>3
  <2>2. CASE workers = <<>>
    <3>1. FC(s) > Size /\ FL(s) >= Size /\ FC(s) \in Nat /\ FL(s) \in Nat
      <4>1. FC(Now) > Size /\ FL(Now) >= Size
        BY <1>2 DEF Room, FC, FL
      <4>2. FC(s) >= FC(Now) /\ FL(s) >= FL(Now)
        BY <1>10, FreeMore
      <4>3. QED
        BY <4>1, <4>2, FreeIsFinite, SizeAssumption
    <3>2. c \in FreeClients(s)
      <4>1. FreeClients(s) \subseteq Nat /\ FreeClients(s) # {}
        BY <3>1, SomeFree, SizeAssumption DEF FreeClients
      <4>2. QED
        BY <4>1, HasLeast
    <3> HIDE DEF c
    <3>3. /\ IsTurn(m) /\ m.workers = <<c>> /\ m.client = [s.client EXCEPT ![c] = NoClient]
          /\ m.req = s.req /\ m.waiters = s.waiters /\ m.bg = s.bg
          /\ m.bgStart = s.bgStart /\ m.child = s.child
      <4>1. m.workers = <<c>> /\ m.req = s.req /\ m.waiters = s.waiters /\ m.bg = s.bg
            /\ m.bgStart = s.bgStart /\ m.child = s.child
        BY <1>5 DEF IsTurn
      <4>2. m.client = [s.client EXCEPT ![c] = NoClient]
        BY <1>5 DEF IsTurn
      <4>3. IsTurn(m)
        <5> DEFINE d == <<c>>
        <5>1. m = [s EXCEPT !.workers = d, !.client[c] = NoClient]
          OBVIOUS
        <5> HIDE DEF d, m
        <5>2. QED
          BY <5>1, <1>5 DEF IsTurn
      <4>4. QED
        BY <4>1, <4>2, <4>3
    <3> HIDE DEF m
    <3>4. s.workers = <<>> /\ Append(s.workers, c) = <<c>> /\ Len(s.workers) = 0
      BY <1>5, <2>2
    <3>5. Len(s.workers) < Size /\ Triggered(s)
      <4>1. bgStart # 0 => bg
        BY <1>1, <1>2, NowIs DEF Ending, Over
      <4>2. bg \in BOOLEAN
        BY <1>1, NowIs DEF Shape
      <4>3. QED
        BY <4>1, <4>2, <3>4, <1>5, SizeAssumption DEF Triggered
    <3>6. /\ Good(m) /\ Keeps(s, m)
          /\ Len(m.workers) = Len(s.workers) + 1
          /\ c \in 1 .. Clients /\ m.client[c].ready = 0 /\ m.client[c].queue = <<>>
          /\ \A k \in 1 .. Children : m.child[k].owner # c
          /\ FreeChildren(m) = FreeChildren(s)
          /\ FreeClients(s) \ {c} \subseteq FreeClients(m)
      <4>1. m.workers = Append(s.workers, c)
        BY <3>3, <3>4
      <4>2. QED
        <5> HIDE DEF s1
        <5>1. Good(s) /\ Len(s.workers) < Size /\ Triggered(s) /\ c \in FreeClients(s)
          BY <1>8, <3>2, <3>5
        <5>2. /\ IsTurn(m) /\ m.client = [s.client EXCEPT ![c] = NoClient]
              /\ m.req = s.req /\ m.waiters = s.waiters /\ m.bg = s.bg
              /\ m.bgStart = s.bgStart /\ m.child = s.child
          BY <3>3
        <5>3. QED
          BY <4>1, <5>1, <5>2, HireGood
    <3>7. FC(m) = FC(s) /\ FL(m) >= FL(s) - 1 /\ FL(m) \in Nat
      BY <3>6, FreeClientsLeft, FreeIsFinite DEF FC
    <3>8. Enough(m)
      BY <3>1, <3>4, <3>6, <3>7, SizeAssumption DEF Enough
    <3>9. Listed(m)
      BY <1>9, <3>3 DEF Listed
    <3>10. s1 = m
      BY <2>2
    <3> HIDE DEF s1
    <3>11. QED
      BY <3>6, <3>8, <3>9, <3>10
  <2>3. QED
    BY <2>1, <2>2
<1> HIDE DEF s1
<1>13. Drained(s1, Drain(s1))
  BY <1>12, DrainGood
<1>14. Over(s1, down, closing)
  <2>1. Keeps(Now, s1)
    BY <1>1, <1>11, <1>12, KeepsOn
  <2>2. QED
    BY <2>1, <1>1, StaysOver DEF Ending
<1>15. QED
  BY <1>1, <1>2, <1>12, <1>13, <1>14, Turned DEF Ending

LEMMA InvNow ==
  ASSUME IInv
  PROVE  /\ Good(Now) /\ Listed(Now) /\ Over(Now, down, closing)
         /\ aborted \subseteq Request /\ down \in BOOLEAN /\ closing \subseteq 1 .. Children
         /\ Shape(Now) /\ Kids(Now) /\ Owners(Now) /\ Owed(Now) /\ Sent(Now) /\ Reqs(Now) /\ Lists(Now)
         /\ client \in [1 .. Clients -> ClientRec] /\ child \in [1 .. Children -> ChildRec]
         /\ req \in [Request -> ReqRec] /\ waiters \in Seq(Request)
<1>1. Good(Now) /\ Listed(Now) /\ Ending
  BY DEF IInv
<1>2. Shape(Now) /\ Kids(Now) /\ Owners(Now) /\ Owed(Now) /\ Sent(Now) /\ Reqs(Now) /\ Lists(Now)
  BY <1>1 DEF Good
<1>3. /\ client \in [1 .. Clients -> ClientRec] /\ child \in [1 .. Children -> ChildRec]
      /\ req \in [Request -> ReqRec] /\ waiters \in Seq(Request)
  BY <1>2, NowIs DEF Shape
<1>4. QED
  BY <1>1, <1>2, <1>3 DEF Ending

\* The owner of a child that is there.
LEMMA OwnerIs ==
  ASSUME IInv, NEW k \in 1 .. Children, child[k].st # "none"
  PROVE  /\ child[k].owner \in 1 .. Clients
         /\ client[child[k].owner] \in ClientRec /\ child[k] \in ChildRec
         /\ child[k].st \notin {"failed", "killed", "hung"} =>
              client[child[k].owner].robbed \/ client[child[k].owner].ready = k
         /\ Knows(child, child[k].owner, client[child[k].owner])
<1>1. child[k] \in ChildRec /\ child[k].owner # 0
  BY InvNow, NowIs DEF Kids
<1>2. child[k].owner \in 1 .. Clients
  BY <1>1, SizeAssumption DEF ChildRec
<1>3. child[k].st \notin {"failed", "killed", "hung"} =>
        client[child[k].owner].robbed \/ client[child[k].owner].ready = k
  BY <1>1, InvNow, NowIs DEF Kids
<1>4. Knows(child, child[k].owner, client[child[k].owner])
  BY <1>2, InvNow, NowIs DEF Owners
<1>5. QED
  BY <1>1, <1>2, <1>3, <1>4, InvNow

\* A turn begins with a change of child k and its owner, and the end of requests L.
LEMMA PairTurn ==
  ASSUME IInv, NEW c, NEW k, NEW L, NEW nc, NEW nk, NEW t, PairStep(Now, c, k, nc, nk, L, t)
  PROVE  /\ Good(t) /\ Listed(t)
         /\ FreeChildren(Now) \subseteq FreeChildren(t)
         /\ FreeClients(Now) \subseteq FreeClients(t)
         /\ \A j \in 1 .. Children : j # k => t.child[j] = child[j]
         /\ t.child[k] = nk
         /\ \A d : Hired(t, d) <=> Hired(Now, d)
<1>1. Good(Now) /\ Listed(Now)
  BY InvNow
<1>2. /\ Good(t) /\ (Listed(Now) => Listed(t))
      /\ FreeChildren(Now) \subseteq FreeChildren(t)
      /\ FreeClients(Now) \subseteq FreeClients(t)
  <2> DEFINE s == Now
  <2>1. Good(s) /\ PairStep(s, c, k, nc, nk, L, t)
    BY <1>1
  <2> HIDE DEF s
  <2>2. /\ Good(t) /\ (Listed(s) => Listed(t))
        /\ FreeChildren(s) \subseteq FreeChildren(t)
        /\ FreeClients(s) \subseteq FreeClients(t)
    BY <2>1, PairGood
  <2>3. QED
    BY <2>2 DEF s
<1>3. \A d : Hired(t, d) <=> Hired(Now, d)
  BY DEF Hired, PairStep
<1>4. t.child[k] = nk /\ \A j \in 1 .. Children : j # k => t.child[j] = child[j]
  BY InvNow, NowIs DEF PairStep
<1>5. QED
  BY <1>1, <1>2, <1>3, <1>4

\* Such a change with no request lost and the flags as they were.
LEMMA QuietStep ==
  ASSUME IInv, NEW c \in 1 .. Clients, NEW k \in 1 .. Children, child[k].owner = c,
         NEW nc, NEW nk, Pair(Now, c, k, nc, nk, {}),
         NEW t, IsTurn(t), t.req = req, SameLists(Now, t),
         t.client = [client EXCEPT ![c] = nc], t.child = [child EXCEPT ![k] = nk]
  PROVE  PairStep(Now, c, k, nc, nk, {}, t)
<1>1. t.req = Lost(Now, {})
  BY InvNow, NowIs, LostNone
<1>2. /\ t.waiters = waiters /\ t.workers = workers /\ t.bg = bg /\ t.bgStart = bgStart
      /\ bg \in BOOLEAN /\ bgStart \in 0 .. Children /\ (bgStart # 0 => bg \/ workers = <<>>)
  BY InvNow, NowIs DEF SameLists, Shape, Lists
<1>3. QED
  BY <1>1, <1>2, NowIs DEF PairStep

LEMMA LocatedKeeps ==
  ASSUME IInv, NEW k \in 1 .. Children, Located(k)
  PROVE  IInv'
<1> DEFINE c  == child[k].owner
           nc == [client[c] EXCEPT !.proc = k]
           nk == [child[k] EXCEPT !.st = "booting"]
           t  == [Now EXCEPT !.child[k].st = "booting", !.client[c].proc = k]
<1>1. /\ child[k].st = "locating" /\ Become(t)
      /\ aborted' = aborted /\ down' = down /\ closing' = closing
  BY DEF Located
<1>2. c \in 1 .. Clients /\ (client[c].robbed \/ client[c].ready = k) /\ Pair(Now, c, k, client[c], child[k], {})
  <2>1. c \in 1 .. Clients /\ (client[c].robbed \/ client[c].ready = k)
    BY <1>1, OwnerIs
  <2>2. Now.child[k].owner = c /\ (Now.client[c].robbed \/ Now.client[c].ready \in {0, k}) /\ Good(Now)
    BY <2>1, InvNow, NowIs
  <2> HIDE DEF c
  <2>3. Pair(Now, c, k, Now.client[c], Now.child[k], {})
    BY <2>1, <2>2, PairNow
  <2>4. QED
    BY <2>1, <2>3, NowIs
<1>3. /\ nc \in ClientRec /\ nc.proc = k /\ nc.ready = client[c].ready /\ nc.queue = client[c].queue
      /\ nc.robbed = client[c].robbed
      /\ nk \in ChildRec /\ nk.st = "booting" /\ nk.owner = c /\ nk.inq = child[k].inq
  <2>1. client[c] \in ClientRec /\ child[k] \in ChildRec /\ k \in 0 .. Children /\ "booting" \in Life
    BY <1>2, SizeAssumption DEF Pair, Life, Pending
  <2>2. nc = WithProc(client[c], k) /\ nk = WithStage(child[k], "booting")
    BY DEF WithProc, WithStage
  <2>3. nk.owner = c
    BY <2>1 DEF ChildRec
  <2> HIDE DEF nc, nk, c
  <2>4. QED
    BY <1>2, <2>1, <2>2, <2>3, WithProcIs, WithStageIs
<1>4. /\ IsTurn(t) /\ t.req = req /\ SameLists(Now, t)
      /\ t.client = [client EXCEPT ![c] = nc] /\ t.child = [child EXCEPT ![k] = nk]
  <2>1. t = [Now EXCEPT !.child = [child EXCEPT ![k] = nk], !.client = [client EXCEPT ![c] = nc]]
    BY NowIs
  <2> HIDE DEF t, nc, nk, c
  <2>2. QED
    BY <2>1 DEF Now, IsTurn, SameLists
<1> HIDE DEF t, nc, nk, c
<1>5. ASSUME ~nc.robbed
      PROVE  Whole(Now, c, k, nc, nk)
  <2>1. Whole(Now, c, k, client[c], child[k]) /\ client[c].ready = k /\ k # 0
    BY <1>2, <1>3, <1>5, SizeAssumption DEF Pair
  <2>2. Matches(client[c].queue, child[k]) /\ child[k].st \in Pending
    BY <1>1, <2>1 DEF Whole, Pending
  <2>3. Matches(nc.queue, nk)
    BY <1>3, <2>2 DEF Matches
  <2>4. QED
    BY <1>3, <2>1, <2>3, NowIs DEF Whole
<1>6. Pair(Now, c, k, nc, nk, {})
  <2>1. "booting" \in Pending \cup {"killed"}
    BY DEF Pending
  <2>2. QED
    BY <1>2, <1>3, <1>5, <2>1, NowIs DEF Pair
<1>7. /\ Good(t) /\ Listed(t)
      /\ \A j \in 1 .. Children : j # k => t.child[j] = child[j]
      /\ \A d : Hired(t, d) <=> Hired(Now, d)
  <2>1. child[k].owner = c
    BY DEF c
  <2>2. PairStep(Now, c, k, nc, nk, {}, t)
    BY <1>2, <1>4, <1>6, <2>1, QuietStep
  <2>3. QED
    BY <2>2, PairTurn
<1>8. Over(t, down', closing')
  <2>1. k \notin closing
    BY <1>1, InvNow, NowIs DEF Over
  <2>2. \A j \in closing : t.child[j] = child[j]
    BY <1>7, <2>1, InvNow
  <2>3. QED
    BY <1>1, <1>4, <1>7, <2>2, InvNow, NowIs DEF Over, SameLists
<1>9. QED
  BY <1>1, <1>7, <1>8, InvNow, TurnEnds

LEMMA ShutdownKillsKeeps ==
  ASSUME IInv, NEW k \in 1 .. Children, ShutdownKills(k)
  PROVE  IInv'
<1> DEFINE c  == child[k].owner
           st == IF child[k].st = "hung" THEN "hung" ELSE "killed"
           rob == client[c].robbed \/ Robs(k)
           nc == [client[c] EXCEPT !.proc = 0, !.ready = 0, !.robbed = rob]
           nk == [child[k] EXCEPT !.st = st]
           t  == [Now EXCEPT !.child[k].st = IF @ = "hung" THEN @ ELSE "killed",
                             !.client[c].proc = 0, !.client[c].ready = 0,
                             !.client[c].robbed = @ \/ Robs(k)]
<1>1. /\ k \in closing /\ Become(t)
      /\ aborted' = aborted /\ down' = down /\ closing' = closing \ {k}
  BY DEF ShutdownKills
<1>2. /\ c \in 1 .. Clients /\ client[c] \in ClientRec /\ child[k] \in ChildRec
      /\ ~Hired(Now, c) /\ child[k].st # "none"
  <2>1. child[k].owner # 0 /\ ~Hired(Now, child[k].owner)
    BY <1>1, InvNow, NowIs DEF Over
  <2>2. child[k].st # "none"
    BY <2>1, InvNow, NowIs DEF Kids
  <2>3. QED
    BY <2>1, <2>2, OwnerIs
<1>3. rob \in BOOLEAN /\ (client[c].robbed => rob) /\ (~rob => client[c].ready \in {0, k})
  <2>1. client[c].robbed \in BOOLEAN
    BY <1>2 DEF ClientRec
  <2>2. QED
    BY <2>1 DEF Robs
<1>4. /\ IsTurn(t) /\ t.req = req /\ SameLists(Now, t)
      /\ t.client = [client EXCEPT ![c] = nc] /\ t.child = [child EXCEPT ![k] = nk]
  <2> DEFINE x == [client EXCEPT ![c].proc = 0, ![c].ready = 0, ![c].robbed = rob]
             y == [child EXCEPT ![k].st = st]
  <2>0. client[c].robbed \in BOOLEAN /\ Now.client[c].robbed = client[c].robbed
    BY <1>2, NowIs DEF ClientRec
  <2>1. x = [client EXCEPT ![c] = nc]
    <3> HIDE DEF rob
    <3>1. QED
      BY <1>2, InvNow
  <2>2. t = [Now EXCEPT !.child[k].st = st, !.client[c].proc = 0, !.client[c].ready = 0,
                        !.client[c].robbed = rob]
    <3>1. st = IF Now.child[k].st = "hung" THEN Now.child[k].st ELSE "killed"
      BY NowIs
    <3>2. (Now.client[c].robbed \/ Robs(k)) = rob
      BY <2>0
    <3> HIDE DEF st, rob
    <3>3. QED
      BY <3>1, <3>2
  <2>3. y = [child EXCEPT ![k] = nk]
    OBVIOUS
  <2> HIDE DEF t, nc, nk, c, st, rob
  <2>4. t.child = y /\ t.client = x /\ t.req = req /\ SameLists(Now, t)
    BY <2>2 DEF Now, SameLists
  <2>5. IsTurn(t)
    BY <2>2 DEF Now, IsTurn
  <2> HIDE DEF x, y
  <2>6. QED
    BY <2>1, <2>3, <2>4, <2>5, NowIs
<1>5. st \in {"killed", "hung"}
  OBVIOUS
<1> HIDE DEF rob
<1>6. /\ nc \in ClientRec /\ nc.proc = 0 /\ nc.ready = 0 /\ nc.queue = client[c].queue /\ nc.robbed = rob
      /\ nk \in ChildRec /\ nk.st = st /\ nk.owner = c /\ nk.inq = child[k].inq
  <2>1. client[c] \in ClientRec /\ child[k] \in ChildRec /\ 0 \in 0 .. Children /\ st \in Life
    BY <1>2, SizeAssumption DEF Life, Pending
  <2>2. nc \in ClientRec /\ nc.proc = 0 /\ nc.ready = 0 /\ nc.queue = client[c].queue /\ nc.robbed = rob
    BY <1>3, <2>1 DEF ClientRec
  <2>3. nk = WithStage(child[k], st) /\ nk.owner = c
    BY <2>1 DEF WithStage, ChildRec
  <2> HIDE DEF st, nc, nk, c
  <2>4. QED
    BY <2>1, <2>2, <2>3, WithStageIs
<1> HIDE DEF t, nc, nk, c, st
<1>7. Pair(Now, c, k, nc, nk, {})
  <2>1. ASSUME ~nc.robbed PROVE Whole(Now, c, k, nc, nk)
    <3>1. client[c].ready \in {0, k}
      BY <1>3, <1>6, <2>1
    <3>2. k # 0
      BY SizeAssumption
    <3>3. QED
      BY <1>2, <1>5, <1>6, <3>1, <3>2, NowIs DEF Whole
  <2>2. SentTo(c, nc.queue, Lost(Now, {}))
    BY <1>2, <1>6, InvNow, NowIs, LostNone DEF Sent
  <2>3. k # 0 /\ nk.st # "none" /\ nk.st \in Pending \cup {"killed"}
    BY <1>5, <1>6, SizeAssumption DEF Pending
  <2>4. QED
    BY <1>3, <1>6, <2>1, <2>2, <2>3, NowIs DEF Pair
<1>8. /\ Good(t) /\ Listed(t)
      /\ \A j \in 1 .. Children : j # k => t.child[j] = child[j]
      /\ \A d : Hired(t, d) <=> Hired(Now, d)
  <2>1. child[k].owner = c
    BY DEF c
  <2>2. PairStep(Now, c, k, nc, nk, {}, t)
    BY <1>2, <1>4, <1>7, <2>1, QuietStep
  <2>3. QED
    BY <2>2, PairTurn
<1>9. Over(t, down', closing')
  <2>1. \A j \in closing \ {k} : t.child[j] = child[j]
    BY <1>8, InvNow
  <2>2. QED
    BY <1>1, <1>4, <1>8, <2>1, InvNow, NowIs DEF Over, SameLists
<1>10. QED
  BY <1>1, <1>8, <1>9, InvNow, TurnEnds

\* Who is in the queue of a client was sent to it.
LEMMA QueuedIs ==
  ASSUME NEW s, Good(s), NEW c \in 1 .. Clients
  PROVE  /\ Queued(s, c) \subseteq Request
         /\ \A r \in Queued(s, c) : s.req[r].client = c /\ s.req[r].start = 0
<1>1. s.client[c].queue \in Seq(SUBSET Request) /\ SentTo(c, s.client[c].queue, s.req)
  BY DEF Good, Shape, ClientRec, Sent
<1>2. ASSUME NEW r \in Queued(s, c)
      PROVE  r \in Request /\ s.req[r].client = c /\ s.req[r].start = 0
  <2>1. PICK i \in 1 .. Len(s.client[c].queue) : r \in s.client[c].queue[i]
    BY <1>2 DEF Queued
  <2>2. s.client[c].queue[i] \in SUBSET Request
    BY <1>1, <2>1, SeqElement
  <2>3. r \in Request /\ s.req[r].st = "sent" /\ s.req[r].client = c
    BY <1>1, <2>1, <2>2 DEF SentTo
  <2>4. s.req[r].start = 0
    BY <2>3 DEF Good, Reqs
  <2>5. QED
    BY <2>3, <2>4
<1>3. QED
  BY <1>2

LEMMA SpawnErrorsKeeps ==
  ASSUME IInv, NEW k \in 1 .. Children, SpawnErrors(k)
  PROVE  IInv'
<1> DEFINE c  == child[k].owner
           L  == Queued(Now, c)
           nc == [client[c] EXCEPT !.proc = k, !.queue = <<>>]
           nk == [child[k] EXCEPT !.st = "hung"]
           s  == [Now EXCEPT !.child[k].st = "hung", !.client[c].proc = k]
           u  == FailAll(s, c)
<1>1. /\ child[k].st = "locating" /\ Room /\ Become(Finally(u))
      /\ aborted' = aborted /\ down' = down /\ closing' = closing
  BY DEF SpawnErrors
<1>2. /\ c \in 1 .. Clients /\ (client[c].robbed \/ client[c].ready = k)
      /\ client[c] \in ClientRec /\ child[k] \in ChildRec
  BY <1>1, OwnerIs
<1>3. /\ nc \in ClientRec /\ nc.proc = k /\ nc.ready = client[c].ready /\ nc.queue = <<>>
      /\ nc.robbed = client[c].robbed
      /\ nk \in ChildRec /\ nk.st = "hung" /\ nk.owner = c /\ nk.inq = child[k].inq
  <2>1. k \in 0 .. Children /\ "hung" \in Life /\ <<>> \in Seq(SUBSET Request)
    BY SizeAssumption DEF Life, Pending
  <2>2. nk = WithStage(child[k], "hung") /\ nk.owner = c
    BY <1>2 DEF WithStage, ChildRec
  <2>3. /\ nc \in ClientRec /\ nc.proc = k /\ nc.ready = client[c].ready /\ nc.queue = <<>>
        /\ nc.robbed = client[c].robbed
    BY <1>2, <2>1 DEF ClientRec
  <2> HIDE DEF nc, nk, c
  <2>4. QED
    BY <1>2, <2>1, <2>2, <2>3, WithStageIs
<1>4. /\ IsTurn(u) /\ u.req = Lost(Now, L) /\ SameLists(Now, u)
      /\ u.client = [client EXCEPT ![c] = nc] /\ u.child = [child EXCEPT ![k] = nk]
  <2> DEFINE x  == [client EXCEPT ![c] = [client[c] EXCEPT !.proc = k]]
             y  == [child EXCEPT ![k] = nk]
  <2>1. s = [Now EXCEPT !.child = y, !.client = x]
    BY NowIs
  <2>2. [x EXCEPT ![c].queue = <<>>] = [client EXCEPT ![c] = nc]
    BY <1>2, InvNow
  <2>3. x[c].queue = client[c].queue
    BY <1>2, InvNow DEF ClientRec
  <2> HIDE DEF s, nk, nc, x, y, c
  <2>4. IsTurn(s) /\ s.req = req /\ SameLists(Now, s) /\ s.client = x /\ s.child = y
    BY <2>1 DEF Now, IsTurn, SameLists
  <2>5. Queued(s, c) = L
    BY <2>3, <2>4, NowIs DEF Queued
  <2> DEFINE z == [s.client EXCEPT ![c].queue = <<>>]
             w == [r \in Request |-> IF r \in Queued(s, c) THEN [st |-> "error", client |-> 0, start |-> 0]
                                     ELSE s.req[r]]
  <2>6. u = [s EXCEPT !.client = z, !.req = w]
    BY DEF FailAll
  <2>7. w = Lost(Now, L)
    BY <2>4, <2>5, NowIs DEF Lost, Fault
  <2>8. z = [client EXCEPT ![c] = nc]
    BY <2>2, <2>4
  <2> HIDE DEF u, z, w, L
  <2>9. IsTurn(u) /\ u.req = w /\ SameLists(s, u) /\ u.client = z /\ u.child = s.child
    BY <2>4, <2>6 DEF IsTurn, SameLists
  <2>10. QED
    BY <2>4, <2>7, <2>8, <2>9 DEF SameLists, y
<1>5. L \subseteq Request /\ \A r \in L : req[r].client = c
  BY <1>2, InvNow, NowIs, QueuedIs
<1> HIDE DEF nc, nk, c, s, u, L
<1>6. Pair(Now, c, k, nc, nk, L)
  <2>1. k # 0 /\ "hung" \in Pending /\ "hung" \notin {"none", "failed", "killed", "locating", "booting", "running"}
    BY SizeAssumption DEF Pending
  <2>2. ASSUME ~nc.robbed PROVE Whole(Now, c, k, nc, nk)
    <3>1. client[c].ready = k /\ nc.ready = k
      BY <1>2, <1>3, <2>2
    <3>2. ~client[c].robbed /\ Matches(client[c].queue, child[k])
      BY <1>2, <1>3, <2>1, <2>2, <3>1, InvNow, NowIs DEF Owed
    <3>3. child[k].inq = <<>> /\ nc.queue = <<>> /\ Len(<<>>) = 0
      BY <1>1, <1>3, <3>2 DEF Matches, Pending
    <3>4. Matches(nc.queue, nk)
      BY <1>3, <3>3 DEF Matches
    <3>5. QED
      BY <1>3, <2>1, <3>1, <3>4, NowIs DEF Whole
  <2>3. SentTo(c, nc.queue, Lost(Now, L))
    BY <1>3 DEF SentTo
  <2>4. QED
    BY <1>3, <2>1, <2>2, <2>3, NowIs DEF Pair
<1>7. /\ Good(u) /\ Listed(u)
      /\ FreeChildren(Now) \subseteq FreeChildren(u)
      /\ FreeClients(Now) \subseteq FreeClients(u)
      /\ \A j \in 1 .. Children : j # k => u.child[j] = child[j]
      /\ \A d : Hired(u, d) <=> Hired(Now, d)
  <2>1. /\ u.waiters = waiters /\ u.workers = workers
        /\ u.bg \in BOOLEAN /\ u.bgStart \in 0 .. Children /\ (u.bgStart # 0 => u.bg \/ u.workers = <<>>)
    BY <1>4, InvNow, NowIs DEF SameLists, Shape, Lists
  <2>2. child[k].owner = c
    BY DEF c
  <2>3. PairStep(Now, c, k, nc, nk, L, u)
    BY <1>2, <1>4, <1>5, <1>6, <2>1, <2>2, NowIs DEF PairStep
  <2>4. QED
    BY <2>3, PairTurn
<1>8. Drained(u, Finally(u))
  <2>1. Enough(u)
    BY <1>1, <1>7, RoomIsEnough DEF Good
  <2>2. QED
    BY <1>7, <2>1, FinallyGood
<1>9. Over(u, down', closing')
  <2>1. k \notin closing
    BY <1>1, InvNow, NowIs DEF Over
  <2>2. \A j \in closing : u.child[j] = child[j]
    BY <1>7, <2>1, InvNow
  <2>3. QED
    BY <1>1, <1>4, <1>7, <2>2, InvNow, NowIs DEF Over, SameLists
<1>10. QED
  <2> DEFINE t == Finally(u)
  <2>1. Good(u) /\ Drained(u, t) /\ Listed(u) /\ Become(t) /\ Over(u, down', closing')
    BY <1>1, <1>7, <1>8, <1>9
  <2> HIDE DEF t
  <2>2. QED
    BY <1>1, <2>1, InvNow, Turned

\* An answer is for the oldest request in the queue, if there is one; unless the
\* client was robbed, it is its own.
LEMMA VerdictIs ==
  ASSUME NEW c, NEW r, NEW q, client[c].robbed \in BOOLEAN, client[c].robbed \/ r = q
  PROVE  Verdict(c, r, q) \in Settled /\ Verdict(c, r, q) # "wrong" /\ Verdict(c, r, q) # "waiting"
<1>1. CASE r = q
  <2>1. Verdict(c, r, q) = "ok"
    BY <1>1 DEF Verdict
  <2>2. QED
    BY <2>1 DEF Settled
<1>2. CASE r # q
  <2>1. client[c].robbed
    BY <1>2
  <2>2. Verdict(c, r, q) = "mixed"
    BY <1>2, <2>1 DEF Verdict
  <2>3. QED
    BY <2>2 DEF Settled
<1>3. QED
  BY <1>1, <1>2

LEMMA AnswerKeeps ==
  ASSUME IInv, NEW k \in 1 .. Children, Answer(k)
  PROVE  IInv'
<1> DEFINE c  == child[k].owner
           queue == client[c].queue
           inq == child[k].inq
           nq == IF queue = <<>> THEN <<>> ELSE Tail(queue)
           nc == [client[c] EXCEPT !.queue = nq]
           nk == [child[k] EXCEPT !.inq = Tail(inq)]
           s  == [Now EXCEPT !.child[k].inq = Tail(@)]
           s1 == IF queue = <<>> THEN s ELSE [s EXCEPT !.client[c].queue = Tail(@)]
           r  == CHOOSE r \in Head(queue) : TRUE
           v  == Verdict(c, r, Head(inq))
           u  == Settle(s1, r, v)
<1>1. /\ child[k].st = "running" /\ Room /\ inq # <<>>
      /\ aborted' = aborted /\ down' = down /\ closing' = closing
  BY DEF Answer
<1>2. /\ c \in 1 .. Clients /\ child[k].st # "none" /\ k # 0
      /\ client[c].robbed \/ client[c].ready = k
      /\ client[c] \in ClientRec /\ child[k] \in ChildRec
      /\ Pair(Now, c, k, client[c], child[k], {})
  <2>1. /\ c \in 1 .. Clients /\ child[k].st # "none" /\ k # 0
        /\ client[c].robbed \/ client[c].ready = k
        /\ client[c] \in ClientRec /\ child[k] \in ChildRec
    BY <1>1, OwnerIs, SizeAssumption
  <2>2. Now.child[k].owner = c /\ (Now.client[c].robbed \/ Now.client[c].ready \in {0, k}) /\ Good(Now)
    BY <2>1, InvNow, NowIs
  <2> HIDE DEF c
  <2>3. Pair(Now, c, k, Now.client[c], Now.child[k], {})
    BY <2>1, <2>2, PairNow
  <2>4. QED
    BY <2>1, <2>3, NowIs
<1>3. /\ queue \in Seq(SUBSET Request) /\ inq \in Seq(Request)
      /\ Len(queue) \in Nat /\ Len(inq) \in Nat /\ Len(inq) > 0
      /\ Head(inq) \in Request /\ Head(inq) = inq[1]
      /\ Tail(inq) \in Seq(Request) /\ Len(Tail(inq)) = Len(inq) - 1
      /\ \A i \in 1 .. Len(inq) - 1 : Tail(inq)[i] = inq[i + 1] /\ i + 1 \in 1 .. Len(inq)
      /\ SentTo(c, queue, req)
  <2>1. queue \in Seq(SUBSET Request) /\ inq \in Seq(Request)
    BY <1>2 DEF ClientRec, ChildRec
  <2>2. SentTo(c, queue, req)
    BY <1>2, InvNow, NowIs DEF Sent
  <2> HIDE DEF queue, inq
  <2>3. Len(queue) \in Nat /\ Len(inq) \in Nat /\ Len(inq) > 0
    BY <1>1, <2>1
  <2>4. /\ Head(inq) \in Request /\ Head(inq) = inq[1]
        /\ Tail(inq) \in Seq(Request) /\ Len(Tail(inq)) = Len(inq) - 1
        /\ \A i \in 1 .. Len(inq) - 1 : Tail(inq)[i] = inq[i + 1] /\ i + 1 \in 1 .. Len(inq)
    BY <1>1, <2>1, <2>3
  <2>5. QED
    BY <2>1, <2>2, <2>3, <2>4
\* What is left of the queue is what followed.
<1>4. /\ nq \in Seq(SUBSET Request)
      /\ queue # <<>> => /\ Head(queue) = queue[1] /\ Head(queue) \in SUBSET Request /\ 1 \in 1 .. Len(queue)
                        /\ Len(nq) = Len(queue) - 1
                        /\ \A i \in 1 .. Len(queue) - 1 : nq[i] = queue[i + 1] /\ i + 1 \in 1 .. Len(queue)
      /\ queue = <<>> => Len(nq) = 0
  <2> HIDE DEF queue, inq
  <2>1. CASE queue = <<>>
    BY <2>1
  <2>2. CASE queue # <<>>
    <3>1. /\ Head(queue) = queue[1] /\ Head(queue) \in SUBSET Request /\ 1 \in 1 .. Len(queue)
          /\ Tail(queue) \in Seq(SUBSET Request) /\ Len(Tail(queue)) = Len(queue) - 1
      BY <2>2, <1>3
    <3>2. \A i \in 1 .. Len(queue) - 1 : Tail(queue)[i] = queue[i + 1] /\ i + 1 \in 1 .. Len(queue)
      BY <2>2, <3>1, <1>3
    <3>3. nq = Tail(queue)
      BY <2>2
    <3> HIDE DEF nq
    <3>4. QED
      BY <2>2, <3>1, <3>2, <3>3
  <2>3. QED
    BY <2>1, <2>2
<1>5. /\ nc \in ClientRec /\ nc.proc = client[c].proc /\ nc.ready = client[c].ready
      /\ nc.queue = nq /\ nc.robbed = client[c].robbed
      /\ nk \in ChildRec /\ nk.st = "running" /\ nk.owner = c /\ nk.inq = Tail(inq)
  <2> DEFINE b == Tail(inq)
  <2>1. nc = WithQueue(client[c], nq) /\ nk = WithInq(child[k], b)
    BY DEF WithQueue, WithInq
  <2>2. nk.owner = c /\ nk.st = "running"
    BY <1>1, <1>2 DEF ChildRec
  <2>3. /\ client[c] \in ClientRec /\ child[k] \in ChildRec
        /\ nq \in Seq(SUBSET Request) /\ b \in Seq(Request)
    BY <1>2, <1>3, <1>4
  <2> HIDE DEF queue, inq, nc, nk, c, nq, b
  <2>4. /\ nc \in ClientRec /\ nc.proc = client[c].proc /\ nc.ready = client[c].ready
        /\ nc.queue = nq /\ nc.robbed = client[c].robbed
    BY <2>1, <2>3, WithQueueIs
  <2>5. nk \in ChildRec /\ nk.inq = b
    BY <2>1, <2>3, WithInqIs
  <2>6. QED
    BY <2>2, <2>4, <2>5 DEF b
<1>6. /\ IsTurn(s1) /\ s1.req = req /\ SameLists(Now, s1)
      /\ s1.client = [client EXCEPT ![c] = nc] /\ s1.child = [child EXCEPT ![k] = nk]
  <2> DEFINE x == [client EXCEPT ![c].queue = nq]
             y == [child EXCEPT ![k].inq = Tail(inq)]
  <2>1. s = [Now EXCEPT !.child = y]
    BY NowIs
  <2>2. s.client = client
    BY NowIs
  <2>3. CASE queue # <<>>
    <3>1. nq = Tail(queue)
      BY <2>3
    <3>2. s1 = [s EXCEPT !.client = x]
      BY <2>2, <2>3
    <3> HIDE DEF s, s1, x, y, c, nq, queue
    <3>3. s1.client = x /\ s1.child = y /\ s1.req = req /\ SameLists(Now, s1) /\ IsTurn(s1)
      BY <2>1, <3>2, NowIs DEF Now, IsTurn, SameLists
    <3>4. x = [client EXCEPT ![c] = nc]
      BY DEF x
    <3>5. y = [child EXCEPT ![k] = nk]
      BY DEF y, c
    <3> HIDE DEF nc, nk
    <3>6. QED
      BY <3>3, <3>4, <3>5
  <2>4. CASE queue = <<>>
    <3>1. nc = client[c]
      <4>1. nc = [client[c] EXCEPT !.queue = client[c].queue]
        BY <2>4
      <4>2. client[c] = [client[c] EXCEPT !.queue = client[c].queue]
        BY <1>2 DEF ClientRec
      <4>3. QED
        BY <4>1, <4>2
    <3>2. client = [client EXCEPT ![c] = nc]
      <4> HIDE DEF nc, c
      <4>1. QED
        BY <3>1, <1>2, InvNow
    <3>3. s1 = s
      BY <2>4
    <3>4. y = [child EXCEPT ![k] = nk]
      OBVIOUS
    <3> HIDE DEF s, s1, y, c, nc, nk, queue
    <3>5. s1.client = client /\ s1.child = y /\ s1.req = req /\ SameLists(Now, s1) /\ IsTurn(s1)
      BY <2>1, <3>3, NowIs DEF Now, IsTurn, SameLists
    <3>6. QED
      BY <3>2, <3>4, <3>5
  <2>5. QED
    BY <2>3, <2>4
<1>7. Become(IF queue = <<>> \/ Head(queue) = {} THEN s1 ELSE Finally(u))
  BY DEF Answer
<1> HIDE DEF nc, nk, s, s1, u, nq, queue, inq, c, r, v
<1>8. SentTo(c, nc.queue, req)
  <2>1. CASE queue = <<>>
    BY <2>1, <1>4, <1>5 DEF SentTo
  <2>2. CASE queue # <<>>
    <3>1. ASSUME NEW i \in 1 .. Len(queue) - 1, NEW p \in nq[i]
          PROVE  /\ req[p].st = "sent" /\ req[p].client = c
                 /\ \A j \in 1 .. Len(queue) - 1 : p \in nq[j] => i = j
      <4>1. i + 1 \in 1 .. Len(queue) /\ p \in queue[i + 1]
        BY <2>2, <3>1, <1>4
      <4>2. \A j \in 1 .. Len(queue) - 1 : p \in nq[j] => i + 1 = j + 1
        BY <2>2, <4>1, <1>3, <1>4 DEF SentTo
      <4>3. QED
        BY <4>1, <4>2, <1>3 DEF SentTo
    <3>2. QED
      BY <2>2, <3>1, <1>4, <1>5 DEF SentTo
  <2>3. QED
    BY <2>1, <2>2
\* A client that was not robbed has the child that answers, and it is owed the answer.
<1>9. ASSUME ~client[c].robbed
      PROVE  /\ client[c].ready = k /\ queue # <<>> /\ queue[1] \subseteq {inq[1]}
             /\ Whole(Now, c, k, nc, nk)
  <2>1. client[c].ready = k /\ Whole(Now, c, k, client[c], child[k])
    BY <1>2, <1>9 DEF Pair
  <2>2. /\ Len(queue) = Len(inq) /\ \A i \in 1 .. Len(inq) : queue[i] \subseteq {inq[i]}
        /\ client[c].proc = k
    BY <2>1, <1>1 DEF Whole, Matches, queue, inq
  <2>3. queue # <<>>
    BY <2>2, <1>3
  <2>4. Matches(nc.queue, nk)
    <3>1. "running" \notin Pending
      BY DEF Pending
    <3>2. \A i \in 1 .. Len(inq) - 1 : nq[i] \subseteq {Tail(inq)[i]}
      BY <2>2, <2>3, <1>3, <1>4
    <3>3. Len(nq) = Len(inq) - 1
      BY <2>2, <2>3, <1>4
    <3>4. QED
      BY <3>1, <3>2, <3>3, <1>3, <1>5 DEF Matches
  <2>5. 1 \in 1 .. Len(inq)
    BY <1>3
  <2>6. QED
    BY <2>1, <2>2, <2>3, <2>4, <2>5, <1>2, <1>5, NowIs DEF Whole
<1>10. Pair(Now, c, k, nc, nk, {})
  <2>1. SentTo(c, nc.queue, Lost(Now, {}))
    BY <1>8, InvNow, NowIs, LostNone
  <2>2. \A p \in Request : Now.req[p].start # k
    <3>1. child[k].st \notin Pending \cup {"killed"}
      BY <1>1 DEF Pending
    <3>2. QED
      BY <3>1, <1>2, InvNow, NowIs DEF Reqs
  <2>3. QED
    BY <1>2, <1>5, <1>9, <2>1, <2>2, NowIs DEF Pair
<1>11. /\ Good(s1) /\ Listed(s1)
       /\ FreeChildren(Now) \subseteq FreeChildren(s1)
       /\ FreeClients(Now) \subseteq FreeClients(s1)
       /\ \A j \in 1 .. Children : j # k => s1.child[j] = child[j]
       /\ s1.child[k] = nk
       /\ \A d : Hired(s1, d) <=> Hired(Now, d)
  <2>1. child[k].owner = c
    BY DEF c
  <2>2. PairStep(Now, c, k, nc, nk, {}, s1)
    BY <1>2, <1>6, <1>10, <2>1, QuietStep
  <2>3. QED
    BY <2>2, PairTurn
<1>12. Over(s1, down', closing')
  <2>1. \A j \in closing : s1.child[j].owner = child[j].owner /\ s1.child[j].st = child[j].st
    BY <1>1, <1>5, <1>11, InvNow DEF c
  <2>2. QED
    BY <1>1, <1>6, <1>11, <2>1, InvNow, NowIs DEF Over, SameLists
<1>13. CASE queue = <<>> \/ Head(queue) = {}
  BY <1>1, <1>7, <1>11, <1>12, <1>13, InvNow, TurnEnds
<1>14. CASE ~(queue = <<>> \/ Head(queue) = {})
  <2>1. r \in queue[1] /\ 1 \in 1 .. Len(queue) /\ r \in Request /\ queue # <<>>
    <3>1. Head(queue) # {} /\ queue # <<>> /\ Head(queue) = queue[1] /\ Head(queue) \in SUBSET Request
          /\ 1 \in 1 .. Len(queue)
      BY <1>4, <1>14
    <3>2. r \in Head(queue)
      BY <3>1 DEF r
    <3>3. QED
      BY <3>1, <3>2
  <2>2. /\ req[r].st = "sent" /\ req[r].client = c
        /\ \A j \in 1 .. Len(queue) : r \in queue[j] => j = 1
    BY <2>1, <1>3 DEF SentTo
  <2>3. Idle(s1, r)
    <3>1. \A i \in 1 .. Len(s1.waiters) : s1.waiters[i] # r
      BY <2>2, <1>6, InvNow, NowIs DEF Lists, SameLists
    <3>2. ASSUME NEW d \in 1 .. Clients, NEW i \in 1 .. Len(s1.client[d].queue)
          PROVE  r \notin s1.client[d].queue[i]
      <4>1. CASE d = c
        <5>1. s1.client[d].queue = nq
          BY <4>1, <1>5, <1>6, InvNow
        <5>2. i \in 1 .. Len(queue) - 1 /\ nq[i] = queue[i + 1] /\ i + 1 \in 1 .. Len(queue) /\ i + 1 # 1
          BY <3>2, <5>1, <2>1, <1>3, <1>4
        <5>3. QED
          BY <5>1, <5>2, <2>2
      <4>2. CASE d # c
        <5>1. s1.client[d] = client[d]
          BY <4>2, <1>6, InvNow
        <5>2. SentTo(d, client[d].queue, req)
          BY InvNow, NowIs DEF Sent
        <5>3. QED
          BY <3>2, <4>2, <5>1, <5>2, <2>2 DEF SentTo
      <4>3. QED
        BY <4>1, <4>2
    <3>3. QED
      BY <3>1, <3>2 DEF Idle
  <2>4. v \in Settled /\ v # "wrong" /\ v # "waiting"
    <3>1. client[c].robbed \/ r = Head(inq)
      <4>1. ~client[c].robbed => queue[1] \subseteq {inq[1]}
        BY <1>9
      <4>2. QED
        BY <4>1, <2>1, <1>3
    <3>2. client[c].robbed \in BOOLEAN
      BY <1>2 DEF ClientRec
    <3>3. QED
      BY <3>1, <3>2, VerdictIs DEF v
  <2>5. /\ Good(u)
        /\ u.req = [s1.req EXCEPT ![r] = [st |-> v, client |-> 0, start |-> 0]]
        /\ u.waiters = s1.waiters /\ u.workers = s1.workers /\ u.bg = s1.bg
        /\ u.bgStart = s1.bgStart /\ u.client = s1.client /\ u.child = s1.child
    BY <1>11, <2>1, <2>3, <2>4, SettleGood DEF u
  <2>6. /\ Listed(u) /\ Over(u, down', closing')
    <3>1. \A p \in Request : u.req[p].st = "waiting" => s1.req[p].st = "waiting"
      BY <2>4, <2>5, <1>11 DEF Good, Shape
    <3>2. Listed(u)
      BY <3>1, <2>5, <1>11 DEF Listed
    <3>3. Over(u, down', closing')
      BY <2>5, <1>12 DEF Over, Hired
    <3>4. QED
      BY <3>2, <3>3
  <2>7. Enough(u)
    <3>1. \A p \in Request : u.req[p].client \in {0, s1.req[p].client}
      BY <2>5, <1>11 DEF Good, Shape
    <3>2. FreeChildren(Now) \subseteq FreeChildren(u) /\ FreeClients(Now) \subseteq FreeClients(u)
      <4>1. FreeChildren(u) = FreeChildren(s1)
        BY <2>5 DEF FreeChildren
      <4>2. FreeClients(s1) \subseteq FreeClients(u)
        BY <3>1, <2>5, FreeClientsStay
      <4>3. QED
        BY <4>1, <4>2, <1>11
    <3>3. QED
      BY <1>1, <2>5, <3>2, RoomIsEnough DEF Good
  <2> DEFINE t == Finally(u)
  <2>8. Drained(u, t) /\ Become(t)
    BY <1>7, <1>14, <2>5, <2>7, FinallyGood
  <2> HIDE DEF t
  <2>9. QED
    BY <1>1, <2>5, <2>6, <2>8, InvNow, Turned
<1>15. QED
  BY <1>13, <1>14

\* A client without a start, and the requests that fail with start k and with M.
WithoutStart(cl) == [cl EXCEPT !.ready = 0]
Rejected(M, k) == M \cup {r \in Request : req[r].start = k}

LEMMA WithoutStartIs ==
  ASSUME NEW cl \in ClientRec
  PROVE  LET n == WithoutStart(cl)
         IN  n \in ClientRec /\ n.ready = 0 /\ n.proc = cl.proc /\ n.queue = cl.queue /\ n.robbed = cl.robbed
  BY SizeAssumption DEF ClientRec, WithoutStart

\* Up to s, child k, its client c and the requests M that c had sent change.
RejectStep(c, k, nc, nk, M, s) ==
  /\ k \in 1 .. Children /\ child[k].st # "none" /\ c = child[k].owner
  /\ M \subseteq Queued(Now, c)
  /\ Pair(Now, c, k, WithoutStart(nc), nk, Rejected(M, k))
  /\ IsTurn(s) /\ SameLists(Now, s) /\ s.req = Lost(Now, M)
  /\ s.child = [child EXCEPT ![k] = nk] /\ s.client = [client EXCEPT ![c] = nc]

\* StartRejects after that.
LEMMA RejectTurn ==
  ASSUME IInv, Room, NEW k, NEW c, NEW nc, NEW nk, NEW M, NEW s, RejectStep(c, k, nc, nk, M, s),
         Become(StartRejects(s, k)),
         aborted' = aborted, down' = down, closing' \subseteq closing,
         k \in closing' => nk.owner = c /\ nk.st # "locating"
  PROVE  IInv'
<1>a. /\ k \in 1 .. Children /\ child[k].st # "none" /\ c = child[k].owner
      /\ M \subseteq Queued(Now, c)
      /\ Pair(Now, c, k, WithoutStart(nc), nk, Rejected(M, k))
      /\ IsTurn(s) /\ SameLists(Now, s) /\ s.req = Lost(Now, M)
      /\ s.child = [child EXCEPT ![k] = nk] /\ s.client = [client EXCEPT ![c] = nc]
  BY DEF RejectStep
<1> USE <1>a
<1> DEFINE x == [s.client EXCEPT ![c].ready = 0]
           a == IF s.bgStart = k THEN FALSE ELSE s.bg
           b == IF s.bgStart = k THEN 0 ELSE s.bgStart
           q == [r \in Request |-> IF s.req[r].start = k THEN Fault ELSE s.req[r]]
           L == Rejected(M, k)
           s1 == [s EXCEPT !.client = x, !.bg = a, !.bgStart = b, !.req = q]
           t == Finally(s1)
<1>1. /\ c \in 1 .. Clients /\ Now.child[k].owner = c /\ Good(Now) /\ Listed(Now) /\ c # 0 /\ k # 0
      /\ bg \in BOOLEAN /\ bgStart \in 0 .. Children
  BY OwnerIs, InvNow, NowIs, SizeAssumption DEF Shape
<1>2. Become(t)
  BY DEF StartRejects, Fault
<1>3. /\ IsTurn(s1) /\ s1.waiters = waiters /\ s1.workers = workers /\ s1.child = s.child
      /\ s1.client = x /\ s1.bg = a /\ s1.bgStart = b /\ s1.req = q
  <2>1. s1 = [s EXCEPT !.client = x, !.bg = a, !.bgStart = b, !.req = q]
    OBVIOUS
  <2> HIDE DEF x, a, b, q, s1
  <2>2. IsTurn(s1)
    BY <2>1 DEF IsTurn
  <2>3. /\ s1.waiters = s.waiters /\ s1.workers = s.workers /\ s1.child = s.child
        /\ s1.client = x /\ s1.bgStart = b /\ s1.req = q
    BY <2>1 DEF IsTurn
  <2>4. s1.bg = a
    BY <2>1 DEF IsTurn
  <2>5. QED
    BY <2>2, <2>3, <2>4, NowIs DEF SameLists
<1> HIDE DEF s1, t
<1>4. x = [client EXCEPT ![c] = WithoutStart(nc)]
  BY <1>1, InvNow DEF WithoutStart
<1>5. L \subseteq Request /\ (\A r \in L : req[r].client = c)
  <2>1. \A r \in M : r \in Request /\ req[r].client = c
    BY <1>1, NowIs, QueuedIs
  <2>2. ASSUME NEW r \in Request, req[r].start = k PROVE req[r].client = c
    BY <1>1, <2>2, InvNow, NowIs DEF Reqs
  <2>3. QED
    BY <2>1, <2>2 DEF Rejected
<1>6. q = Lost(Now, L)
  <2>1. Fault.start # k
    BY <1>1 DEF Fault
  <2>2. ASSUME NEW r \in Request
        PROVE  q[r] = IF r \in L THEN Fault ELSE req[r]
    <3>1. CASE r \in M
      <4>1. s.req[r] = Fault /\ r \in L
        BY <3>1 DEF Lost, Rejected
      <4>2. QED
        BY <2>1, <4>1
    <3>2. CASE r \notin M
      <4>1. s.req[r] = req[r] /\ (r \in L <=> req[r].start = k)
        BY <3>2, NowIs DEF Lost, Rejected
      <4>2. QED
        BY <4>1
    <3>3. QED
      BY <3>1, <3>2
  <2> HIDE DEF L
  <2>3. QED
    BY <2>2, NowIs DEF Lost
\* The flags are as they were, or spawnRemaining is over.
<1>7. (s1.bgStart = bgStart /\ s1.bg = bg) \/ (s1.bgStart = 0 /\ s1.bg = FALSE)
  <2>1. s.bg = bg /\ s.bgStart = bgStart
    BY NowIs DEF SameLists
  <2>2. CASE bgStart = k
    BY <1>3, <2>1, <2>2
  <2>3. CASE bgStart # k
    BY <1>3, <2>1, <2>3, Zenon
  <2>4. QED
    BY <2>2, <2>3
<1> HIDE DEF x, a, b, q, L
<1>8. PairStep(Now, c, k, WithoutStart(nc), nk, L, s1)
  <2>1. s1.bg \in BOOLEAN /\ s1.bgStart \in 0 .. Children
    <3>1. CASE s1.bgStart = bgStart /\ s1.bg = bg
      BY <3>1, <1>1
    <3>2. CASE s1.bgStart = 0 /\ s1.bg = FALSE
      <4>1. s1.bg \in BOOLEAN
        BY <3>2, Zenon
      <4>2. QED
        BY <3>2, <4>1, SizeAssumption
    <3>3. QED
      BY <3>1, <3>2, <1>7
  <2>2. s1.bgStart # 0 => s1.bg \/ s1.workers = <<>>
    BY <1>3, <1>7, InvNow, NowIs DEF Lists
  <2>3. Pair(Now, c, k, WithoutStart(nc), nk, L)
    BY DEF L
  <2>4. /\ IsTurn(s1) /\ s1.req = Lost(Now, L)
        /\ s1.waiters = Now.waiters /\ s1.workers = Now.workers
        /\ s1.client = [Now.client EXCEPT ![c] = WithoutStart(nc)] /\ s1.child = [Now.child EXCEPT ![k] = nk]
    BY <1>3, <1>4, <1>6, NowIs
  <2>5. \A r \in L : Now.req[r].client = c
    BY <1>5, NowIs
  <2>6. QED
    BY <1>1, <1>5, <2>1, <2>2, <2>3, <2>4, <2>5 DEF PairStep
<1>9. /\ Good(s1) /\ Listed(s1)
      /\ FreeChildren(Now) \subseteq FreeChildren(s1)
      /\ FreeClients(Now) \subseteq FreeClients(s1)
      /\ \A j \in 1 .. Children : j # k => s1.child[j] = child[j]
      /\ s1.child[k] = nk
      /\ \A d : Hired(s1, d) <=> Hired(Now, d)
  BY <1>8, PairTurn
<1>10. Drained(s1, t)
  <2>1. Enough(s1)
    BY <1>9, RoomIsEnough DEF Good
  <2>2. QED
    BY <1>9, <2>1, FinallyGood DEF t
<1>11. Over(s1, down', closing')
  <2>1. s1.bgStart # 0 => s1.bg \/ down
    <3>1. bgStart # 0 => bg \/ down
      BY InvNow, NowIs DEF Over
    <3>2. QED
      BY <3>1, <1>7
  <2>2. ASSUME NEW j \in closing'
        PROVE  s1.child[j].owner = child[j].owner /\ s1.child[j].st # "locating"
    <3>1. j \in 1 .. Children /\ child[j].st # "locating"
      BY <2>2, InvNow, NowIs DEF Over
    <3>2. CASE j = k
      BY <2>2, <3>2, <1>9
    <3>3. CASE j # k
      BY <3>1, <3>3, <1>9
    <3>4. QED
      BY <3>2, <3>3
  <2>3. QED
    BY <2>1, <2>2, <1>9, InvNow, NowIs DEF Over
<1>12. closing' \subseteq 1 .. Children
  BY InvNow
<1>13. QED
  BY <1>2, <1>9, <1>10, <1>11, <1>12, InvNow, Turned

\* The failure of requests that await a start leaves the queues as they are.
LEMMA SentStays ==
  ASSUME IInv, NEW c \in 1 .. Clients, NEW k \in 1 .. Children
  PROVE  SentTo(c, client[c].queue, Lost(Now, Rejected({}, k)))
<1> DEFINE queue == client[c].queue
           L == Rejected({}, k)
<1>1. SentTo(c, queue, req) /\ queue \in Seq(SUBSET Request)
  BY InvNow, NowIs DEF Sent, ClientRec
<1> HIDE DEF queue
<1>2. ASSUME NEW i \in 1 .. Len(queue), NEW r \in queue[i]
      PROVE  Lost(Now, L)[r] = req[r]
  <2>1. r \in Request
    BY <1>1, <1>2, SeqElement
  <2>2. req[r].st = "sent"
    BY <1>1, <1>2 DEF SentTo
  <2>3. req[r].start = 0 /\ k # 0
    BY <2>1, <2>2, InvNow, NowIs, SizeAssumption DEF Reqs
  <2>4. r \notin L
    BY <2>3 DEF Rejected
  <2> HIDE DEF L
  <2>5. QED
    BY <2>1, <2>4, NowIs DEF Lost
<1> HIDE DEF L
<1>3. SentTo(c, queue, Lost(Now, L))
  BY <1>1, <1>2 DEF SentTo
<1>4. QED
  BY <1>3 DEF queue, L

\* A start that fails, of a child that is gone or stays until it exits.
LEMMA StartFails ==
  ASSUME IInv, Room, NEW k \in 1 .. Children, child[k].st \in {"locating", "booting"},
         NEW nk \in ChildRec,
         \/ nk = NoChild /\ child[k].st = "locating"
         \/ nk.owner = child[k].owner /\ nk.st = "failed" /\ child[k].st = "booting",
         NEW s, s = [Now EXCEPT !.child = [child EXCEPT ![k] = nk]],
         Become(StartRejects(s, k)),
         aborted' = aborted, down' = down, closing' = closing
  PROVE  IInv'
<1> DEFINE c == child[k].owner
           n == WithoutStart(client[c])
           M == {}
           L == Rejected(M, k)
<1>1. /\ c \in 1 .. Clients /\ client[c] \in ClientRec /\ k # 0
      /\ client[c].robbed \/ client[c].ready = k
      /\ Knows(child, c, client[c])
  BY OwnerIs, SizeAssumption
<1>2. /\ IsTurn(s) /\ SameLists(Now, s) /\ s.client = client /\ s.req = req
      /\ s.child = [child EXCEPT ![k] = nk]
  BY DEF Now, IsTurn, SameLists
<1>3. NoChild.owner = 0 /\ NoChild.st = "none"
  BY DEF NoChild
<1>4. n \in ClientRec /\ n.ready = 0 /\ n.proc = client[c].proc /\ n.queue = client[c].queue
      /\ n.robbed = client[c].robbed
  BY <1>1, WithoutStartIs
<1>5. ASSUME ~client[c].robbed
      PROVE  client[c].ready = k /\ client[c].queue = <<>>
  <2>1. client[c].ready = k /\ Matches(client[c].queue, child[k])
    BY <1>1, <1>5, InvNow, NowIs DEF Owed
  <2>2. child[k].inq = <<>> /\ client[c].queue \in Seq(SUBSET Request)
    BY <1>1, <2>1 DEF Matches, Pending, ClientRec
  <2>3. client[c].queue = <<>>
    BY <2>1, <2>2 DEF Matches
  <2>4. QED
    BY <2>1, <2>3
<1>6. SentTo(c, n.queue, Lost(Now, L))
  BY <1>1, <1>4, SentStays
<1> HIDE DEF n
<1>7. Pair(Now, c, k, n, nk, L)
  <2>1. ASSUME ~n.robbed PROVE Whole(Now, c, k, n, nk)
    <3>1. client[c].ready = k /\ n.queue = <<>>
      BY <1>4, <1>5, <2>1
    <3>2. nk.st \in {"none", "failed"}
      BY <1>3
    <3>3. QED
      BY <1>1, <1>4, <3>1, <3>2, NowIs DEF Whole
  <2>2. (nk.owner = c /\ nk.st # "none") \/ (nk.owner = 0 /\ nk.st = "none")
    BY <1>3
  <2>3. n.proc = k => nk.owner = c /\ nk.st # "locating"
    <3>1. CASE child[k].st = "locating"
      BY <3>1, <1>1, <1>4 DEF Knows
    <3>2. CASE child[k].st # "locating"
      BY <3>2
    <3>3. QED
      BY <3>1, <3>2
  <2>4. \A r \in Request : ~(r \notin L /\ Now.req[r].start = k)
    BY NowIs DEF Rejected
  <2> HIDE DEF L, c
  <2>5. QED
    BY <1>1, <1>4, <1>6, <2>1, <2>2, <2>3, <2>4, NowIs DEF Pair
<1>8. s.client = [client EXCEPT ![c] = client[c]] /\ s.req = Lost(Now, M)
  BY <1>1, <1>2, InvNow, NowIs, LostNone
<1>9. M \subseteq Queued(Now, c)
  OBVIOUS
<1>10. k \in closing => nk.owner = c /\ nk.st # "locating"
  BY InvNow, NowIs DEF Over
<1> HIDE DEF M
<1>11. Pair(Now, c, k, WithoutStart(client[c]), nk, Rejected(M, k))
  BY <1>7 DEF n
<1> DEFINE nc == client[c]
<1>12. Pair(Now, c, k, WithoutStart(nc), nk, Rejected(M, k)) /\ s.client = [client EXCEPT ![c] = nc]
       /\ c = child[k].owner /\ child[k].st # "none" /\ closing' \subseteq closing
       /\ (k \in closing' => nk.owner = c /\ nk.st # "locating")
  BY <1>8, <1>10, <1>11
<1>13. RejectStep(c, k, nc, nk, M, s)
  BY <1>1, <1>2, <1>8, <1>9, <1>12 DEF RejectStep
<1> HIDE DEF nc, c, L, n
<1>14. QED
  BY <1>12, <1>13, RejectTurn

LEMMA LocateFailsKeeps ==
  ASSUME IInv, NEW k \in 1 .. Children, LocateFails(k)
  PROVE  IInv'
<1> DEFINE s == [Now EXCEPT !.child[k] = NoChild]
<1>1. /\ child[k].st = "locating" /\ Room /\ Become(StartRejects(s, k))
      /\ aborted' = aborted /\ down' = down /\ closing' = closing
  BY DEF LocateFails
<1>2. NoChild \in ChildRec
  BY SizeAssumption DEF NoChild, ChildRec, Life
<1>3. s = [Now EXCEPT !.child = [child EXCEPT ![k] = NoChild]]
  BY NowIs
<1> HIDE DEF s
<1>4. QED
  BY <1>1, <1>2, <1>3, StartFails

LEMMA BootFailsKeeps ==
  ASSUME IInv, NEW k \in 1 .. Children, BootFails(k)
  PROVE  IInv'
<1> DEFINE nk == WithStage(child[k], "failed")
           s == [Now EXCEPT !.child[k].st = "failed"]
<1>1. /\ child[k].st = "booting" /\ Room /\ Become(StartRejects(s, k))
      /\ aborted' = aborted /\ down' = down /\ closing' = closing
  BY DEF BootFails
<1>2. nk \in ChildRec /\ nk.st = "failed" /\ nk.owner = child[k].owner
  <2>1. child[k] \in ChildRec /\ "failed" \in Life
    BY InvNow DEF Life
  <2>2. QED
    BY <2>1, WithStageIs
<1>3. s = [Now EXCEPT !.child = [child EXCEPT ![k] = nk]]
  BY NowIs DEF WithStage
<1> HIDE DEF s, nk
<1>4. QED
  BY <1>1, <1>2, <1>3, StartFails

LEMMA ExitsKeeps ==
  ASSUME IInv, NEW k \in 1 .. Children, Exits(k)
  PROVE  IInv'
<1> DEFINE c == child[k].owner
           M == Queued(Now, c)
           L == Rejected(M, k)
           rob == client[c].robbed \/ Robs(k)
           s == [Now EXCEPT !.child[k] = NoChild, !.client[c].proc = 0, !.client[c].ready = 0,
                            !.client[c].robbed = @ \/ Robs(k)]
           s1 == FailAll(s, c)
<1>1. /\ child[k].st # "none" /\ Room /\ Become(StartRejects(s1, k))
      /\ aborted' = aborted /\ down' = down /\ closing' = closing \ {k}
  BY DEF Exits
<1>2. c \in 1 .. Clients /\ client[c] \in ClientRec /\ k # 0
  BY <1>1, OwnerIs, SizeAssumption
<1>3. rob \in BOOLEAN /\ (client[c].robbed => rob) /\ (~rob => client[c].ready \in {0, k})
  <2>1. client[c].robbed \in BOOLEAN
    BY <1>2 DEF ClientRec
  <2>2. QED
    BY <2>1 DEF Robs
<1>4. s = [Now EXCEPT !.child[k] = NoChild, !.client[c].proc = 0, !.client[c].ready = 0,
                      !.client[c].robbed = rob]
  <2>1. client[c].robbed \in BOOLEAN /\ Now.client[c].robbed = client[c].robbed
    BY <1>2, NowIs DEF ClientRec
  <2>2. (Now.client[c].robbed \/ Robs(k)) = rob
    BY <2>1
  <2> HIDE DEF rob
  <2>3. QED
    BY <2>2
<1> HIDE DEF rob
<1> DEFINE x == [client EXCEPT ![c].proc = 0, ![c].ready = 0, ![c].robbed = rob]
           y == [child EXCEPT ![k] = NoChild]
           m == [client[c] EXCEPT !.proc = 0, !.ready = 0, !.robbed = rob]
           n == [m EXCEPT !.queue = <<>>]
<1>5. /\ IsTurn(s) /\ SameLists(Now, s) /\ s.client = x /\ s.req = req /\ s.child = y
  <2>1. s = [Now EXCEPT !.child = y, !.client[c].proc = 0, !.client[c].ready = 0, !.client[c].robbed = rob]
    BY <1>4, NowIs
  <2> HIDE DEF c, y, s
  <2>2. IsTurn(s)
    BY <2>1 DEF Now, IsTurn
  <2>3. SameLists(Now, s) /\ s.client = x /\ s.req = req /\ s.child = y
    BY <2>1 DEF Now, SameLists
  <2>4. QED
    BY <2>2, <2>3
<1>6. x = [client EXCEPT ![c] = m]
  BY <1>2, InvNow
<1>7. m \in ClientRec /\ m.queue = client[c].queue /\ m.proc = 0 /\ m.ready = 0 /\ m.robbed = rob
  <2> DEFINE z == client[c]
  <2>1. z \in ClientRec /\ 0 \in 0 .. Children
    BY <1>2, SizeAssumption
  <2>2. m = [z EXCEPT !.proc = 0, !.ready = 0, !.robbed = rob]
    OBVIOUS
  <2> HIDE DEF z, m
  <2>3. m \in ClientRec /\ m.queue = z.queue /\ m.proc = 0 /\ m.ready = 0 /\ m.robbed = rob
    BY <2>1, <2>2, <1>3 DEF ClientRec
  <2>4. QED
    BY <2>3 DEF z
<1> HIDE DEF s, x, m
<1>8. n \in ClientRec /\ n.queue = <<>> /\ n.proc = 0 /\ n.ready = 0 /\ n.robbed = rob
  <2> DEFINE w == <<>>
  <2>1. w \in Seq(SUBSET Request) /\ n = [m EXCEPT !.queue = w]
    OBVIOUS
  <2> HIDE DEF w, n
  <2>2. n \in ClientRec /\ n.queue = w /\ n.proc = m.proc /\ n.ready = m.ready /\ n.robbed = m.robbed
    BY <2>1, <1>7 DEF ClientRec
  <2>3. QED
    BY <2>2, <1>7 DEF w
<1>9. s.client[c] = m /\ [s.client EXCEPT ![c].queue = <<>>] = [client EXCEPT ![c] = n]
  BY <1>2, <1>5, <1>6, InvNow
<1>10. Queued(s, c) = M
  BY <1>7, <1>9, NowIs DEF Queued
<1> DEFINE v == [s.client EXCEPT ![c].queue = <<>>]
           q == [r \in Request |-> IF r \in Queued(s, c) THEN [st |-> "error", client |-> 0, start |-> 0]
                                  ELSE s.req[r]]
<1>11. /\ IsTurn(s1) /\ SameLists(Now, s1) /\ s1.client = v /\ s1.req = q /\ s1.child = y
  <2>1. s1 = [s EXCEPT !.client = v, !.req = q]
    BY DEF FailAll
  <2> HIDE DEF s1, v, q, y
  <2>2. QED
    BY <1>5, <2>1 DEF IsTurn, SameLists
<1>12. q = Lost(Now, M)
  BY <1>5, <1>10, NowIs DEF Lost, Fault
<1> HIDE DEF s1, v, q, n
<1>13. s1.client = [client EXCEPT ![c] = n] /\ s1.req = Lost(Now, M)
  BY <1>9, <1>11, <1>12 DEF v
<1> DEFINE o == WithoutStart(n)
<1>14. o \in ClientRec /\ o.ready = 0 /\ o.proc = 0 /\ o.queue = <<>> /\ o.robbed = rob
  BY <1>8, WithoutStartIs
<1>15. NoChild \in ChildRec /\ NoChild.owner = 0 /\ NoChild.st = "none"
  BY SizeAssumption DEF NoChild, ChildRec, Life
<1> HIDE DEF o
<1>16. Pair(Now, c, k, o, NoChild, L)
  <2>1. ASSUME ~o.robbed PROVE Whole(Now, c, k, o, NoChild)
    BY <1>2, <1>3, <1>14, <1>15, <2>1, NowIs DEF Whole
  <2>2. SentTo(c, o.queue, Lost(Now, L))
    BY <1>14 DEF SentTo
  <2>3. \A r \in Request : ~(r \notin L /\ Now.req[r].start = k)
    BY NowIs DEF Rejected
  <2> HIDE DEF L, c
  <2>4. QED
    BY <1>2, <1>3, <1>14, <1>15, <2>1, <2>2, <2>3, NowIs DEF Pair
<1>17. c = child[k].owner /\ M \subseteq Queued(Now, c) /\ closing' \subseteq closing /\ k \notin closing'
  BY <1>1
<1>18. Pair(Now, c, k, WithoutStart(n), NoChild, Rejected(M, k))
  BY <1>16 DEF o
<1> HIDE DEF c, L, M, y
<1>19. s1.child = [child EXCEPT ![k] = NoChild]
  BY <1>11 DEF y
<1>20. RejectStep(c, k, n, NoChild, M, s1)
  BY <1>1, <1>11, <1>13, <1>17, <1>18, <1>19 DEF RejectStep
<1>21. QED
  BY <1>1, <1>17, <1>20, RejectTurn

\* spawnRemaining, if it awaits child k, which runs, after what drain did.
LEMMA ReadyTurn ==
  ASSUME NEW x, Good(x), Listed(x), Enough(x), NEW k \in 1 .. Children,
         x.child[k].owner # 0, x.child[k].st = "running",
         NEW y, Drained(x, y),
         NEW t, t = IF y.bgStart = k THEN AddRemaining(y) ELSE y
  PROVE  Good(t) /\ Listed(t) /\ Keeps(x, t)
<1>1. /\ Good(y) /\ Keeps(x, y) /\ Listed(y)
      /\ \/ /\ y.bgStart = x.bgStart /\ y.workers = x.workers
            /\ FC(y) >= FC(x) - Len(x.workers) /\ FL(y) >= FL(x)
         \/ x.bgStart = 0 /\ (y.bgStart # 0 => y.child[y.bgStart].st \in Pending)
  BY DEF Drained
<1>2. CASE y.bgStart # k
  BY <1>1, <1>2
<1>3. CASE y.bgStart = k
  <2>1. k # 0
    BY SizeAssumption
  <2>2. y.child[k].st = "running"
    BY <1>1 DEF Keeps
  <2>3. y.workers = x.workers /\ FC(y) >= FC(x) - Len(x.workers) /\ FL(y) >= FL(x)
    BY <1>1, <1>3, <2>1, <2>2 DEF Pending
  <2>4. FC(y) >= Size - Len(y.workers) /\ FL(y) >= Size - Len(y.workers)
    <3>1. FC(x) > Size /\ FL(x) >= Size - Len(x.workers)
      BY DEF Enough
    <3>2. Len(x.workers) \in Nat
      BY DEF Good, Shape
    <3>3. FC(x) \in Nat /\ FL(x) \in Nat /\ FC(y) \in Nat /\ FL(y) \in Nat
      BY FreeIsFinite
    <3> HIDE DEF Enough
    <3>4. QED
      BY <2>3, <3>1, <3>2, <3>3, SizeAssumption
  <2> DEFINE u == AddRemaining(y)
  <2>5. /\ Good(u) /\ Keeps(y, u) /\ u.bg = y.bg /\ u.bgStart = 0
        /\ u.req = y.req /\ u.waiters = y.waiters
    BY <1>1, <2>4, GrownGood
  <2>6. t = u
    BY <1>3
  <2> HIDE DEF u
  <2>7. Keeps(x, u)
    BY <1>1, <2>5, KeepsOn DEF Good
  <2>8. Listed(u)
    BY <1>1, <2>5 DEF Listed
  <2>9. QED
    BY <2>5, <2>6, <2>7, <2>8
<1>4. QED
  BY <1>2, <1>3

\* The readiness line of a child whose start no request awaits.
LEMMA ReadyGood ==
  ASSUME NEW s, Good(s), NEW c \in 1 .. Clients, NEW k \in 1 .. Children, s.child[k].owner = c,
         s.child[k].st = "booting",
         \A r \in Request : s.req[r].start # k,
         NEW t, IsTurn(t), t.req = s.req, SameLists(s, t), t.client = s.client,
         NEW nk, nk \in ChildRec, nk.st = "running", nk.owner = c, nk.inq = s.child[k].inq,
         t.child = [s.child EXCEPT ![k] = nk]
  PROVE  /\ Good(t)
         /\ FreeChildren(s) \subseteq FreeChildren(t)
         /\ FreeClients(s) \subseteq FreeClients(t)
<1> DEFINE nc == s.client[c]
<1>1. Shape(s) /\ Kids(s) /\ Lists(s) /\ c # 0 /\ k # 0
  BY SizeAssumption DEF Good
<1>2. nc.robbed \/ nc.ready = k
  BY <1>1 DEF Kids
<1>3. Pair(s, c, k, nc, s.child[k], {})
  <2>1. nc.robbed \/ nc.ready \in {0, k}
    BY <1>2
  <2>2. QED
    BY <2>1, PairNow
<1>4. t.client = [s.client EXCEPT ![c] = nc] /\ t.req = Lost(s, {})
  BY <1>1, LostNone DEF Shape
<1> HIDE DEF nc
<1>5. ASSUME ~nc.robbed
      PROVE  Whole(s, c, k, nc, nk)
  <2>1. nc.ready = k /\ Whole(s, c, k, nc, s.child[k])
    BY <1>2, <1>3, <1>5 DEF Pair
  <2>2. nc.proc = k /\ Matches(nc.queue, s.child[k]) /\ s.client[c].ready \in {0, k}
    BY <2>1 DEF Whole
  <2>3. Matches(nc.queue, nk)
    <3>1. nk.st \notin Pending
      BY DEF Pending
    <3>2. QED
      BY <2>2, <3>1 DEF Matches
  <2>4. QED
    BY <2>1, <2>2, <2>3, <1>1 DEF Whole
<1>6. Pair(s, c, k, nc, nk, {})
  BY <1>3, <1>5 DEF Pair
<1>7. PairStep(s, c, k, nc, nk, {}, t)
  <2>1. /\ t.waiters = s.waiters /\ t.workers = s.workers
        /\ t.bg \in BOOLEAN /\ t.bgStart \in 0 .. Children /\ (t.bgStart # 0 => t.bg \/ t.workers = <<>>)
    BY <1>1 DEF Shape, SameLists, Lists
  <2>2. QED
    BY <1>4, <1>6, <2>1 DEF PairStep
<1>8. QED
  BY <1>7, PairGood

LEMMA ReadyKeeps ==
  ASSUME IInv, NEW k \in 1 .. Children, Ready(k)
  PROVE  IInv'
<1> DEFINE c  == child[k].owner
           nk == [child[k] EXCEPT !.st = "running"]
           s  == [Now EXCEPT !.child[k].st = "running"]
           R  == {r \in Request : req[r].start = k}
           s1 == IF R = {} THEN s ELSE Finally(Submit(s, CHOOSE r \in R : TRUE))
           t  == IF s1.bgStart = k THEN AddRemaining(s1) ELSE s1
<1>1. /\ child[k].st = "booting" /\ Room /\ Become(t)
      /\ aborted' = aborted /\ down' = down /\ closing' = closing
  BY DEF Ready
<1>2. /\ c \in 1 .. Clients /\ child[k] \in ChildRec /\ k # 0
      /\ client[c].robbed \/ (client[c].ready # 0 /\ client[c].ready = k)
  BY <1>1, OwnerIs, SizeAssumption
<1>3. /\ nk \in ChildRec /\ nk.st = "running" /\ nk.owner = c /\ nk.inq = child[k].inq
  <2>1. child[k] \in ChildRec /\ "running" \in Life
    BY <1>2 DEF Life
  <2>2. nk = WithStage(child[k], "running")
    BY DEF WithStage
  <2> HIDE DEF nk
  <2>3. QED
    BY <2>1, <2>2, WithStageIs
<1>4. /\ IsTurn(s) /\ SameLists(Now, s) /\ s.req = req /\ s.client = client
      /\ s.child = [child EXCEPT ![k] = nk]
  <2> DEFINE y == [child EXCEPT ![k].st = "running"]
  <2>1. s = [Now EXCEPT !.child = y]
    BY NowIs
  <2>2. y = [child EXCEPT ![k] = nk]
    OBVIOUS
  <2> HIDE DEF y, s, nk
  <2>3. QED
    BY <2>1, <2>2 DEF Now, IsTurn, SameLists
<1>5. s.child[k] = nk /\ \A j \in 1 .. Children : j # k => s.child[j] = child[j]
  BY <1>4, InvNow
<1>6. Over(s, down', closing')
  <2>1. \A d : Hired(s, d) <=> Hired(Now, d)
    BY <1>4 DEF Hired, SameLists
  <2>2. \A j \in closing : s.child[j].owner = child[j].owner /\ (s.child[j].st = "locating" => child[j].st = "locating")
    BY <1>3, <1>5, InvNow
  <2>3. QED
    BY <1>1, <1>4, <2>1, <2>2, InvNow, NowIs DEF Over, SameLists
<1> HIDE DEF s, nk, t
\* What is left to show of the state x after recognize().
<1>7. ASSUME NEW x, Good(x), Listed(x), FreeChildren(Now) \subseteq FreeChildren(x),
             FreeClients(Now) \subseteq FreeClients(x), x.child[k].owner # 0, x.child[k].st = "running",
             Over(x, down', closing'), Drained(x, s1)
      PROVE  IInv'
  <2>1. Enough(x)
    BY <1>1, <1>7, RoomIsEnough DEF Good
  <2>2. Good(t) /\ Listed(t) /\ Keeps(x, t)
    <3> HIDE DEF s1
    <3>1. QED
      BY <1>7, <2>1, ReadyTurn DEF t
  <2>3. Over(t, down', closing')
    BY <1>1, <1>7, <2>2, InvNow, StaysOver DEF Good
  <2>4. QED
    BY <1>1, <2>2, <2>3, InvNow, TurnEnds
<1>8. CASE R = {}
  <2> DEFINE u == Now
  <2>1. /\ Good(u) /\ u.child[k].owner = c /\ u.child[k].st = "booting"
        /\ \A r \in Request : u.req[r].start # k
        /\ IsTurn(s) /\ s.req = u.req /\ SameLists(u, s) /\ s.client = u.client
        /\ nk \in ChildRec /\ nk.st = "running" /\ nk.owner = c /\ nk.inq = u.child[k].inq
        /\ s.child = [u.child EXCEPT ![k] = nk]
    BY <1>1, <1>2, <1>3, <1>4, <1>8, InvNow, NowIs
  <2> HIDE DEF u, c
  <2>2. /\ Good(s)
        /\ FreeChildren(u) \subseteq FreeChildren(s)
        /\ FreeClients(u) \subseteq FreeClients(s)
    BY <1>2, <2>1, ReadyGood
  <2>3. Listed(s)
    BY <1>4, InvNow, NowIs DEF Listed, SameLists
  <2>4. Drained(s, s1)
    BY <1>8, <2>2, NothingDrained
  <2>5. s.child[k].owner # 0 /\ s.child[k].st = "running"
    BY <1>2, <1>3, <1>5, SizeAssumption
  <2>6. QED
    BY <1>6, <1>7, <2>2, <2>3, <2>4, <2>5 DEF u
<1>9. CASE R # {}
  <2> DEFINE r == CHOOSE r \in R : TRUE
             v == Settle(Now, r, "error")
             u == [v EXCEPT !.child = s.child]
             x == Submit(s, r)
  <2>1. r \in Request /\ req[r].start = k
    BY <1>9
  <2> HIDE DEF r
  <2>2. /\ req[r].st = "starting" /\ req[r].client = c
        /\ \A p \in Request : p # r => req[p].client # c /\ req[p].start # k
    <3>1. req[r].st = "starting" /\ child[req[r].start].owner = req[r].client
      BY <1>2, <2>1, InvNow, NowIs DEF Reqs
    <3>2. \A p \in Request : req[p].start = k => req[p].client = c
      BY <1>2, InvNow, NowIs DEF Reqs
    <3>3. \A p \in Request : p # r => req[p].client # c
      BY <1>2, <2>1, <3>1, SizeAssumption, InvNow, NowIs DEF Reqs
    <3>4. QED
      BY <2>1, <3>1, <3>2, <3>3
  <2>3. Idle(Now, r)
    <3>1. \A i \in 1 .. Len(waiters) : waiters[i] # r
      BY <2>2, InvNow, NowIs DEF Lists
    <3>2. \A d \in 1 .. Clients : SentTo(d, client[d].queue, req)
      BY InvNow, NowIs DEF Sent
    <3>3. QED
      BY <2>2, <3>1, <3>2, NowIs DEF Idle, SentTo
  <2>4. /\ Good(v)
        /\ v.req = [Now.req EXCEPT ![r] = [st |-> "error", client |-> 0, start |-> 0]]
        /\ v.waiters = Now.waiters /\ v.workers = Now.workers /\ v.bg = Now.bg
        /\ v.bgStart = Now.bgStart /\ v.client = Now.client /\ v.child = Now.child
    <3>1. "error" \in Settled /\ "error" # "wrong"
      BY DEF Settled
    <3>2. QED
      BY <2>1, <2>3, <3>1, InvNow, SettleGood
  <2> HIDE DEF v
  <2>5. /\ IsTurn(v) /\ v.req \in [Request -> ReqRec] /\ v.req[r].start = 0 /\ v.req[r].st = "error"
        /\ v.req[r].client = 0 /\ \A p \in Request : p # r => v.req[p] = req[p]
    BY <2>1, <2>4, InvNow, NowIs DEF Good, Shape, IsTurn
  <2>6. /\ IsTurn(u) /\ u.req = v.req /\ SameLists(v, u) /\ u.client = v.client
        /\ u.child = s.child
    BY <2>5 DEF IsTurn, SameLists
  <2> HIDE DEF u
  <2>7. /\ Good(u)
        /\ FreeChildren(v) \subseteq FreeChildren(u)
        /\ FreeClients(v) \subseteq FreeClients(u)
    <3>1. /\ v.child[k].owner = c /\ v.child[k].st = "booting"
          /\ \A p \in Request : v.req[p].start # k
          /\ nk.inq = v.child[k].inq /\ u.child = [v.child EXCEPT ![k] = nk]
      BY <1>1, <1>2, <1>3, <1>4, <2>2, <2>4, <2>5, <2>6, NowIs
    <3>2. /\ Good(v) /\ c \in 1 .. Clients
          /\ IsTurn(u) /\ u.req = v.req /\ SameLists(v, u) /\ u.client = v.client
          /\ nk \in ChildRec /\ nk.st = "running" /\ nk.owner = c
      BY <1>2, <1>3, <2>4, <2>6
    <3> HIDE DEF c
    <3>3. QED
      BY <3>1, <3>2, ReadyGood
  <2>8. /\ Good(x) /\ SameLists(u, x)
        /\ FreeChildren(u) \subseteq FreeChildren(x)
        /\ FreeClients(u) \subseteq FreeClients(x)
        /\ Keeps(u, x)
        /\ x.req[r].st # "waiting" /\ \A p \in Request : p # r => x.req[p] = u.req[p]
    <3>1. Idle(u, r)
      BY <2>3, <2>4, <2>6 DEF Idle, SameLists
    <3>2. /\ u.client[c].robbed \/ (u.client[c].ready # 0 /\ u.child[u.client[c].ready].st = "running")
          /\ \E j \in 1 .. Children : u.child[j].owner = c
      BY <1>2, <1>3, <1>5, <2>4, <2>6, NowIs
    <3>3. \A p \in Request : p # r => u.req[p].client # c
      BY <2>2, <2>5, <2>6
    <3>4. SameLists(u, s)
      BY <1>4, <2>4, <2>6 DEF SameLists
    <3>5. s.client = u.client /\ s.child = u.child
      BY <1>4, <2>4, <2>6, NowIs
    <3>6. s.req \in [Request -> ReqRec] /\ s.req[r].client = c
          /\ \A p \in Request : p # r => s.req[p] = u.req[p]
      BY <1>4, <2>2, <2>5, <2>6, InvNow
    <3> HIDE DEF c, x
    <3>7. QED
      BY <1>2, <1>4, <2>1, <2>7, <3>1, <3>2, <3>3, <3>4, <3>5, <3>6, SubmitGood DEF x
  <2>9. FreeChildren(Now) \subseteq FreeChildren(x) /\ FreeClients(Now) \subseteq FreeClients(x)
    <3>1. FreeChildren(Now) = FreeChildren(v)
      BY <2>4 DEF FreeChildren
    <3>2. \A p \in Request : v.req[p].client \in {0, Now.req[p].client}
      BY <2>5, NowIs
    <3>3. FreeClients(Now) \subseteq FreeClients(v)
      BY <2>4, <3>2, FreeClientsStay
    <3> HIDE DEF x
    <3>4. QED
      BY <2>7, <2>8, <3>1, <3>3
  <2>10. Over(x, down', closing')
    <3>1. Over(u, down', closing')
      <4>1. u.child = s.child /\ u.workers = s.workers /\ u.bg = s.bg /\ u.bgStart = s.bgStart
        BY <1>4, <2>4, <2>6 DEF SameLists
      <4>2. QED
        BY <4>1, <1>6 DEF Over, Hired
    <3> HIDE DEF x
    <3>2. QED
      BY <1>1, <2>7, <2>8, <3>1, InvNow, StaysOver DEF Good
  <2>11. Listed(x)
    <3>1. x.waiters = waiters
      BY <2>4, <2>6, <2>8, NowIs DEF SameLists
    <3>2. \A p \in Request : x.req[p].st = "waiting" => req[p].st = "waiting"
      BY <2>5, <2>6, <2>8
    <3>3. QED
      BY <3>1, <3>2, InvNow, NowIs DEF Listed
  <2>12. x.child[k].owner # 0 /\ x.child[k].st = "running"
    <3>1. u.child[k].owner # 0 /\ u.child[k].st = "running"
      BY <1>2, <1>3, <1>5, <2>6, SizeAssumption
    <3>2. QED
      BY <2>8, <3>1 DEF Keeps
  <2> HIDE DEF x
  <2>13. Drained(x, s1)
    <3>1. Enough(x)
      BY <1>1, <2>8, <2>9, RoomIsEnough DEF Good
    <3>2. s1 = Finally(x)
      BY <1>9 DEF x, r
    <3>3. QED
      BY <2>8, <3>1, <3>2, FinallyGood
  <2>14. QED
    BY <1>7, <2>8, <2>9, <2>10, <2>11, <2>12, <2>13
<1>10. QED
  BY <1>8, <1>9

LEMMA RemoveAtIs ==
  ASSUME NEW S, NEW q \in Seq(S), NEW i \in 1 .. Len(q)
  PROVE  /\ RemoveAt(q, i) \in Seq(S)
         /\ Len(RemoveAt(q, i)) = Len(q) - 1
         /\ \A j \in 1 .. Len(q) - 1 : RemoveAt(q, i)[j] = IF j < i THEN q[j] ELSE q[j + 1]
<1> DEFINE a == SubSeq(q, 1, i - 1)
           b == SubSeq(q, i + 1, Len(q))
<1>1. Len(q) \in Nat
  OBVIOUS
<1>2. a \in Seq(S) /\ Len(a) = i - 1 /\ \A j \in 1 .. i - 1 : a[j] = q[j]
  OBVIOUS
<1>3. b \in Seq(S) /\ Len(b) = Len(q) - i /\ \A j \in 1 .. Len(q) - i : b[j] = q[i + j]
  OBVIOUS
<1>4. RemoveAt(q, i) = a \o b
  BY DEF RemoveAt
<1> HIDE DEF a, b
<1>5. a \o b \in Seq(S)
  BY <1>2, <1>3
<1>6. Len(a \o b) = Len(q) - 1
  <2>1. Len(a \o b) = Len(a) + Len(b)
    BY <1>2, <1>3, ConcatProperties
  <2>2. QED
    BY <2>1, <1>1, <1>2, <1>3
<1>7. \A j \in 1 .. Len(q) - 1 : (a \o b)[j] = IF j < i THEN a[j] ELSE b[j - (i - 1)]
  BY <1>1, <1>2, <1>3
<1>8. ASSUME NEW j \in 1 .. Len(q) - 1
      PROVE  (a \o b)[j] = IF j < i THEN q[j] ELSE q[j + 1]
  <2>1. CASE j < i
    <3>1. j \in 1 .. i - 1
      BY <1>1, <2>1
    <3>2. QED
      BY <1>2, <1>7, <2>1, <3>1
  <2>2. CASE ~(j < i)
    <3>1. j - (i - 1) \in 1 .. Len(q) - i /\ i + (j - (i - 1)) = j + 1
      BY <1>1, <2>2
    <3>2. b[j - (i - 1)] = q[j + 1]
      BY <1>3, <3>1
    <3>3. QED
      BY <1>7, <2>2, <3>2
  <2>3. QED
    BY <2>1, <2>2
<1>9. QED
  BY <1>4, <1>5, <1>6, <1>8

\* A request that waited leaves the pool's queue.
LEMMA UnlistGood ==
  ASSUME NEW s, Good(s), Listed(s), NEW i \in 1 .. Len(s.waiters), NEW r, r = s.waiters[i],
         NEW t, IsTurn(t), t.req = [s.req EXCEPT ![r] = [st |-> "aborted", client |-> 0, start |-> 0]],
         t.waiters = RemoveAt(s.waiters, i), t.workers = s.workers, t.bg = s.bg,
         t.bgStart = s.bgStart, t.client = s.client, t.child = s.child
  PROVE  Good(t) /\ Listed(t)
<1> DEFINE e == [st |-> "aborted", client |-> 0, start |-> 0]
           n == Len(s.waiters)
<1>1. /\ Shape(s) /\ Kids(s) /\ Owners(s) /\ Owed(s) /\ Sent(s) /\ Reqs(s) /\ Lists(s)
      /\ s.waiters \in Seq(Request) /\ n \in Nat /\ s.req \in [Request -> ReqRec] /\ i \in 1 .. n
  BY DEF Good, Shape
<1>2. r \in Request /\ s.req[r].st = "waiting"
  BY <1>1, SeqElement DEF Lists
<1>3. e \in ReqRec /\ e.st = "aborted" /\ e.client = 0 /\ e.start = 0
  BY SizeAssumption DEF ReqRec, Stage, Settled
<1> HIDE DEF e
<1>4. /\ t.req \in [Request -> ReqRec] /\ t.req[r] = e
      /\ \A p \in Request : p # r => t.req[p] = s.req[p]
  <2>1. t.req = [s.req EXCEPT ![r] = e]
    BY DEF e
  <2>2. QED
    BY <2>1, <1>1, <1>2, <1>3
<1>5. /\ t.waiters \in Seq(Request) /\ Len(t.waiters) = n - 1
      /\ \A j \in 1 .. n - 1 : t.waiters[j] = IF j < i THEN s.waiters[j] ELSE s.waiters[j + 1]
  <2> DEFINE w == s.waiters
  <2>1. w \in Seq(Request) /\ i \in 1 .. Len(w) /\ t.waiters = RemoveAt(w, i) /\ n = Len(w)
    BY <1>1
  <2> HIDE DEF w, n
  <2>2. /\ t.waiters \in Seq(Request) /\ Len(t.waiters) = n - 1
        /\ \A j \in 1 .. n - 1 : t.waiters[j] = IF j < i THEN w[j] ELSE w[j + 1]
    BY <2>1, RemoveAtIs
  <2>3. QED
    BY <2>2 DEF w
<1>6. \A j, m \in 1 .. n : s.waiters[j] = s.waiters[m] => j = m
  BY <1>1 DEF Lists
<1> HIDE DEF n
<1>7. \A j \in 1 .. n - 1 : \E m \in 1 .. n : /\ m # i /\ t.waiters[j] = s.waiters[m]
                                             /\ m = IF j < i THEN j ELSE j + 1
  <2>1. ASSUME NEW j \in 1 .. n - 1, j < i
        PROVE  j \in 1 .. n /\ j # i /\ t.waiters[j] = s.waiters[j]
    BY <2>1, <1>1, <1>5
  <2>2. ASSUME NEW j \in 1 .. n - 1, ~(j < i)
        PROVE  j + 1 \in 1 .. n /\ j + 1 # i /\ t.waiters[j] = s.waiters[j + 1]
    BY <2>2, <1>1, <1>5
  <2>3. QED
    BY <2>1, <2>2
<1>8. Shape(t)
  <2>1. Shape(s) /\ IsTurn(t)
    BY <1>1
  <2>2. QED
    BY <2>1, <1>4, <1>5 DEF Shape, IsTurn
<1>9. Kids(t) /\ Owners(t) /\ Owed(t)
  <2>1. /\ t.workers = s.workers /\ t.client = s.client /\ t.child = s.child
        /\ Kids(s) /\ Owners(s) /\ Owed(s)
    BY <1>1
  <2>2. \A c : Hired(t, c) <=> Hired(s, c)
    BY <2>1 DEF Hired
  <2>3. Kids(t)
    BY <2>1, <2>2 DEF Kids
  <2>4. Owners(t)
    BY <2>1 DEF Owners
  <2>5. Owed(t)
    BY <2>1, <2>2 DEF Owed
  <2>6. QED
    BY <2>3, <2>4, <2>5
<1>10. Sent(t)
  <2>1. ASSUME NEW d \in 1 .. Clients, NEW j \in 1 .. Len(s.client[d].queue), NEW p \in s.client[d].queue[j]
        PROVE  t.req[p] = s.req[p]
    <3>1. SentTo(d, s.client[d].queue, s.req) /\ s.client[d].queue \in Seq(SUBSET Request)
      BY <1>1 DEF Sent, Shape, ClientRec
    <3>2. s.client[d].queue[j] \in SUBSET Request
      BY <3>1, SeqElement
    <3>3. p \in Request /\ s.req[p].st = "sent"
      BY <3>1, <3>2, <2>1 DEF SentTo
    <3>4. QED
      BY <3>3, <1>2, <1>4
  <2>2. QED
    BY <2>1, <1>1 DEF Sent, SentTo
<1>11. Reqs(t)
  BY <1>1, <1>3, <1>4 DEF Reqs
<1>12. Lists(t)
  <2>1. ASSUME NEW j \in 1 .. n - 1
        PROVE  t.req[t.waiters[j]].st = "waiting"
    <3>1. PICK m \in 1 .. n : m # i /\ t.waiters[j] = s.waiters[m]
      BY <1>7
    <3>2. s.waiters[m] \in Request /\ s.waiters[m] # r /\ s.req[s.waiters[m]].st = "waiting"
      BY <3>1, <1>1, <1>6, SeqElement DEF Lists, n
    <3>3. QED
      BY <3>1, <3>2, <1>4
  <2>2. ASSUME NEW j \in 1 .. n - 1, NEW l \in 1 .. n - 1, t.waiters[j] = t.waiters[l]
        PROVE  j = l
    <3>1. PICK m \in 1 .. n : t.waiters[j] = s.waiters[m] /\ m = IF j < i THEN j ELSE j + 1
      BY <1>7
    <3>2. PICK o \in 1 .. n : t.waiters[l] = s.waiters[o] /\ o = IF l < i THEN l ELSE l + 1
      BY <1>7
    <3>3. s.waiters[m] = s.waiters[o]
      BY <2>2, <3>1, <3>2
    <3>4. m = o
      BY <3>3, <1>6
    <3>5. QED
      BY <3>1, <3>2, <3>4, <1>1
  <2>3. QED
    BY <2>1, <2>2, <1>1, <1>5 DEF Lists
<1>13. Listed(t)
  <2>1. ASSUME NEW p \in Request, t.req[p].st = "waiting"
        PROVE  \E j \in 1 .. n - 1 : t.waiters[j] = p
    <3>1. p # r /\ s.req[p].st = "waiting"
      BY <2>1, <1>3, <1>4
    <3>2. PICK m \in 1 .. n : s.waiters[m] = p
      BY <3>1 DEF Listed, n
    <3>3. CASE m < i
      <4>1. m \in 1 .. n - 1
        BY <3>3, <1>1
      <4>2. QED
        BY <3>2, <3>3, <4>1, <1>5
    <3>4. CASE m > i
      <4>1. m - 1 \in 1 .. n - 1 /\ ~(m - 1 < i) /\ m - 1 + 1 = m
        BY <3>4, <1>1
      <4>2. QED
        BY <3>2, <4>1, <1>5
    <3>5. m # i
      BY <3>1, <3>2
    <3>6. QED
      BY <3>3, <3>4, <3>5, <1>1
  <2>2. QED
    BY <2>1, <1>5 DEF Listed
<1>14. QED
  BY <1>8, <1>9, <1>10, <1>11, <1>12, <1>13 DEF Good

\* An aborted request that was sent leaves a hole in its client's queue.
LEMMA HollowGood ==
  ASSUME NEW s, Good(s), NEW c \in 1 .. Clients, NEW r \in Request,
         s.req[r].st = "sent", s.req[r].client = c,
         NEW h, h = HollowInQueue(s.client[c].queue, r),
         NEW t, IsTurn(t), t.req = s.req, SameLists(s, t), t.child = s.child,
         NEW nc, nc = [s.client[c] EXCEPT !.queue = h], t.client = [s.client EXCEPT ![c] = nc]
  PROVE  /\ Good(t) /\ Idle(t, r) /\ Keeps(s, t)
         /\ FreeChildren(s) \subseteq FreeChildren(t)
         /\ FreeClients(s) \subseteq FreeClients(t)
<1> DEFINE queue == s.client[c].queue
<1>1. /\ Shape(s) /\ Kids(s) /\ Owners(s) /\ Owed(s) /\ Sent(s) /\ Reqs(s) /\ Lists(s)
      /\ s.client \in [1 .. Clients -> ClientRec] /\ s.child \in [1 .. Children -> ChildRec]
      /\ s.client[c] \in ClientRec /\ queue \in Seq(SUBSET Request) /\ SentTo(c, queue, s.req)
  BY DEF Good, Shape, ClientRec, Sent
<1>2. t.client = [s.client EXCEPT ![c] = nc]
  OBVIOUS
<1>3. /\ h \in Seq(SUBSET Request) /\ Len(h) = Len(queue) /\ Len(queue) \in Nat
      /\ \A i \in 1 .. Len(queue) : h[i] = queue[i] \ {r}
  <2>1. h = [i \in 1 .. Len(queue) |-> queue[i] \ {r}]
    BY DEF HollowInQueue
  <2> HIDE DEF queue
  <2>2. \A i \in 1 .. Len(queue) : queue[i] \ {r} \in SUBSET Request
    BY <1>1, SeqElement
  <2>3. Len(queue) \in Nat
    BY <1>1
  <2>4. QED
    BY <2>1, <2>2, <2>3
<1>4. /\ nc \in ClientRec /\ nc.queue = h /\ nc.ready = s.client[c].ready
      /\ nc.proc = s.client[c].proc /\ nc.robbed = s.client[c].robbed
  <2> DEFINE z == s.client[c]
             n == WithQueue(z, h)
  <2>1. z \in ClientRec /\ h \in Seq(SUBSET Request)
    BY <1>1, <1>3
  <2>2. nc = n
    BY DEF WithQueue
  <2> HIDE DEF z, queue
  <2>3. /\ n \in ClientRec /\ n.queue = h /\ n.ready = z.ready /\ n.proc = z.proc
        /\ n.robbed = z.robbed
    BY <2>1, WithQueueIs
  <2> HIDE DEF n
  <2>4. QED
    BY <2>2, <2>3 DEF z
<1> HIDE DEF queue
<1>5. /\ t.client \in [1 .. Clients -> ClientRec] /\ t.client[c] = nc
      /\ \A d \in 1 .. Clients : d # c => t.client[d] = s.client[d]
      /\ \A d \in 1 .. Clients : /\ t.client[d].ready = s.client[d].ready
                                 /\ t.client[d].proc = s.client[d].proc
                                 /\ t.client[d].robbed = s.client[d].robbed
  BY <1>1, <1>2, <1>4
<1>6. /\ Good(t) /\ Keeps(s, t)
      /\ FreeChildren(s) \subseteq FreeChildren(t)
      /\ FreeClients(s) \subseteq FreeClients(t)
  <2>1. Shape(t)
    BY <1>1, <1>5 DEF Shape, IsTurn, SameLists
  <2>2. \A d : Hired(t, d) <=> Hired(s, d)
    BY DEF Hired, SameLists
  <2>3. \A k \in 1 .. Children : s.child[k].owner # 0 => s.child[k].owner \in 1 .. Clients
    BY <1>1, SizeAssumption DEF ChildRec
  <2>4. Kids(t)
    <3>1. ASSUME NEW k \in 1 .. Children
          PROVE  /\ t.child[k].st = "none" <=> t.child[k].owner = 0
                 /\ t.child[k].owner # 0 =>
                      \/ t.client[t.child[k].owner].robbed
                      \/ t.child[k].st = "failed"
                      \/ t.client[t.child[k].owner].ready = k
                      \/ /\ t.client[t.child[k].owner].ready = 0 /\ ~Hired(t, t.child[k].owner)
                         /\ t.child[k].st \in {"killed", "hung"}
      <4>1. /\ s.child[k].st = "none" <=> s.child[k].owner = 0
            /\ s.child[k].owner # 0 =>
                 \/ s.client[s.child[k].owner].robbed
                 \/ s.child[k].st = "failed"
                 \/ s.client[s.child[k].owner].ready = k
                 \/ /\ s.client[s.child[k].owner].ready = 0 /\ ~Hired(s, s.child[k].owner)
                    /\ s.child[k].st \in {"killed", "hung"}
        BY <1>1 DEF Kids
      <4>2. QED
        BY <4>1, <1>5, <2>2, <2>3
    <3>2. QED
      BY <3>1 DEF Kids
  <2>5. Owners(t)
    <3>1. ASSUME NEW d \in 1 .. Clients
          PROVE  Knows(t.child, d, t.client[d])
      <4>1. Knows(s.child, d, s.client[d])
        BY <1>1 DEF Owners
      <4>2. QED
        BY <4>1, <1>5 DEF Knows
    <3>2. QED
      BY <3>1 DEF Owners
  <2>6. Owed(t)
    <3>1. ASSUME NEW d \in 1 .. Clients, ~t.client[d].robbed
          PROVE  /\ t.client[d].ready = 0 /\ Hired(t, d) => t.client[d].queue = <<>>
                 /\ t.client[d].ready # 0 => Matches(t.client[d].queue, t.child[t.client[d].ready])
      <4>1. /\ s.client[d].ready = 0 /\ Hired(s, d) => s.client[d].queue = <<>>
            /\ s.client[d].ready # 0 => Matches(s.client[d].queue, s.child[s.client[d].ready])
        BY <3>1, <1>1, <1>5 DEF Owed
      <4>2. CASE d # c
        BY <4>1, <4>2, <1>5, <2>2
      <4>3. CASE d = c
        <5>1. queue = <<>> => h = <<>>
          BY <1>3
        <5>2. ASSUME NEW kid, Matches(queue, kid) PROVE Matches(h, kid)
          BY <5>2, <1>3 DEF Matches
        <5>3. QED
          BY <4>1, <4>3, <5>1, <5>2, <1>4, <1>5, <2>2 DEF queue
      <4>4. QED
        BY <4>2, <4>3
    <3>2. QED
      BY <3>1 DEF Owed
  <2>7. Sent(t)
    <3>1. SentTo(c, h, s.req)
      BY <1>1, <1>3 DEF SentTo, queue
    <3>2. QED
      BY <3>1, <1>1, <1>4, <1>5 DEF Sent
  <2>8. Reqs(t) /\ Lists(t)
    BY <1>1 DEF Reqs, Lists, SameLists
  <2>9. Keeps(s, t)
    BY <2>2 DEF Keeps, SameLists
  <2>10. FreeChildren(s) = FreeChildren(t) /\ FreeClients(s) = FreeClients(t)
    BY DEF FreeChildren, FreeClients, SameLists
  <2>11. QED
    BY <2>1, <2>4, <2>5, <2>6, <2>7, <2>8, <2>9, <2>10 DEF Good
<1>7. Idle(t, r)
  <2>1. \A i \in 1 .. Len(t.waiters) : t.waiters[i] # r
    BY <1>1 DEF Lists, SameLists
  <2>2. ASSUME NEW d \in 1 .. Clients, NEW i \in 1 .. Len(t.client[d].queue)
        PROVE  r \notin t.client[d].queue[i]
    <3>1. CASE d = c
      <4>1. t.client[d].queue = h
        BY <3>1, <1>4, <1>5
      <4>2. QED
        BY <2>2, <4>1, <1>3
    <3>2. CASE d # c
      <4>1. SentTo(d, s.client[d].queue, s.req) /\ t.client[d] = s.client[d]
        BY <3>2, <1>1, <1>5 DEF Sent
      <4>2. QED
        BY <2>2, <3>2, <4>1 DEF SentTo
    <3>3. QED
      BY <3>1, <3>2
  <2>3. QED
    BY <2>1, <2>2 DEF Idle
<1>8. QED
  BY <1>6, <1>7

LEMMA AbortKeeps ==
  ASSUME IInv, NEW r \in Request, Abort(r)
  PROVE  IInv'
<1> DEFINE c == req[r].client
           i == CHOOSE j \in DOMAIN waiters : waiters[j] = r
           v == Settle(Now, r, "aborted")
           w == [v EXCEPT !.waiters = RemoveAt(@, i)]
           x == [v EXCEPT !.client[c].queue = HollowInQueue(@, r)]
<1>1. /\ Room /\ req[r].st \in {"waiting", "starting", "sent"}
      /\ Become(CASE req[r].st = "waiting"  -> w
                  [] req[r].st = "sent"     -> Finally(x)
                  [] req[r].st = "starting" -> Now)
      /\ aborted' = aborted \cup {r} /\ down' = down /\ closing' = closing
  BY DEF Abort
<1>2. /\ aborted' \subseteq Request /\ down' \in BOOLEAN /\ closing' \subseteq 1 .. Children
      /\ Over(Now, down', closing')
  BY <1>1, InvNow
<1> DEFINE e == [st |-> "aborted", client |-> 0, start |-> 0]
<1>3. /\ v.req = [req EXCEPT ![r] = e] /\ v.waiters = waiters /\ v.workers = workers
      /\ v.bg = bg /\ v.bgStart = bgStart /\ v.client = client /\ v.child = child /\ IsTurn(v)
  <2>1. v = [Now EXCEPT !.req = [req EXCEPT ![r] = e]]
    BY NowIs DEF Settle
  <2> HIDE DEF v, e
  <2>2. QED
    BY <2>1 DEF Now, IsTurn
<1> HIDE DEF v
<1>4. CASE req[r].st = "starting"
  <2>1. Become(Now)
    BY <1>1, <1>4
  <2>2. QED
    BY <1>2, <2>1, InvNow, TurnEnds
<1>5. CASE req[r].st = "waiting"
  <2>1. Become(w)
    BY <1>1, <1>5
  <2>2. i \in 1 .. Len(waiters) /\ waiters[i] = r
    <3>1. \E j \in 1 .. Len(waiters) : waiters[j] = r
      BY <1>5, InvNow, NowIs DEF Listed
    <3>2. DOMAIN waiters = 1 .. Len(waiters)
      BY InvNow
    <3>3. QED
      BY <3>1, <3>2
  <2> DEFINE m == RemoveAt(waiters, i)
  <2>3. w = [v EXCEPT !.waiters = m]
    BY <1>3
  <2> HIDE DEF w, m, i, e
  <2>4. /\ IsTurn(w) /\ w.req = v.req /\ w.waiters = m /\ w.workers = v.workers /\ w.bg = v.bg
        /\ w.bgStart = v.bgStart /\ w.client = v.client /\ w.child = v.child
    BY <1>3, <2>3 DEF IsTurn
  <2>5. Good(w) /\ Listed(w)
    <3> DEFINE s == Now
    <3>1. /\ Good(s) /\ Listed(s) /\ i \in 1 .. Len(s.waiters) /\ r = s.waiters[i]
          /\ w.req = [s.req EXCEPT ![r] = [st |-> "aborted", client |-> 0, start |-> 0]]
          /\ w.waiters = RemoveAt(s.waiters, i) /\ w.workers = s.workers /\ w.bg = s.bg
          /\ w.bgStart = s.bgStart /\ w.client = s.client /\ w.child = s.child
      BY <1>3, <2>2, <2>4, InvNow, NowIs DEF e, m
    <3> HIDE DEF s
    <3>2. QED
      BY <2>4, <3>1, UnlistGood
  <2>6. Over(w, down', closing')
    <3>1. \A d : Hired(w, d) <=> Hired(Now, d)
      BY <1>3, <2>4, NowIs DEF Hired
    <3>2. QED
      BY <1>2, <1>3, <2>4, <3>1, NowIs DEF Over
  <2>7. QED
    BY <1>2, <2>1, <2>5, <2>6, TurnEnds
<1>6. CASE req[r].st = "sent"
  <2>1. Become(Finally(x))
    BY <1>1, <1>6
  <2>2. c \in 1 .. Clients
    <3>1. req[r] \in ReqRec /\ c # 0
      BY <1>6, InvNow, NowIs DEF Reqs
    <3>2. QED
      BY <3>1, SizeAssumption DEF ReqRec
  <2> DEFINE h  == HollowInQueue(client[c].queue, r)
             nc == [client[c] EXCEPT !.queue = h]
             a  == [client EXCEPT ![c] = nc]
             u  == [Now EXCEPT !.client = a]
  <2>3. x = [v EXCEPT !.client = a]
    <3> DEFINE b == [v.client EXCEPT ![c].queue = h]
    <3>1. HollowInQueue(v.client[c].queue, r) = h
      BY <1>3
    <3>2. x = [v EXCEPT !.client[c].queue = HollowInQueue(v.client[c].queue, r)]
      OBVIOUS
    <3>3. x = [v EXCEPT !.client = b]
      BY <3>1, <3>2
    <3>4. b = a
      BY <1>3
    <3> HIDE DEF a, b, x
    <3>5. QED
      BY <3>3, <3>4
  <2> HIDE DEF x, a, u
  <2>4. /\ IsTurn(u) /\ u.req = req /\ u.waiters = waiters /\ u.workers = workers /\ u.bg = bg
        /\ u.bgStart = bgStart /\ u.client = a /\ u.child = child
    <3> HIDE DEF h, nc, c
    <3>1. QED
      BY DEF u, Now, IsTurn
  <2>5. /\ IsTurn(x) /\ x.req = v.req /\ x.waiters = v.waiters /\ x.workers = v.workers /\ x.bg = v.bg
        /\ x.bgStart = v.bgStart /\ x.client = a /\ x.child = v.child
    <3> HIDE DEF h, nc, c, e
    <3>1. QED
      BY <1>3, <2>3 DEF IsTurn
  <2> HIDE DEF h, nc
  <2>6. /\ Good(u) /\ Idle(u, r) /\ Keeps(Now, u)
        /\ FreeChildren(Now) \subseteq FreeChildren(u)
        /\ FreeClients(Now) \subseteq FreeClients(u)
    <3> DEFINE s == Now
    <3>1. /\ Good(s) /\ s.req[r].st = "sent" /\ s.req[r].client = c
          /\ u.req = s.req /\ SameLists(s, u) /\ u.child = s.child
          /\ h = HollowInQueue(s.client[c].queue, r)
          /\ nc = [s.client[c] EXCEPT !.queue = h] /\ u.client = [s.client EXCEPT ![c] = nc]
      BY <1>6, <2>4, InvNow, NowIs DEF a, nc, h, SameLists
    <3> HIDE DEF s, c
    <3>2. /\ Good(u) /\ Idle(u, r) /\ Keeps(s, u)
          /\ FreeChildren(s) \subseteq FreeChildren(u)
          /\ FreeClients(s) \subseteq FreeClients(u)
      BY <2>2, <2>4, <3>1, HollowGood
    <3>3. QED
      BY <3>2 DEF s
  <2> DEFINE y == Settle(u, r, "aborted")
  <2>7. /\ Good(y)
        /\ y.req = [u.req EXCEPT ![r] = [st |-> "aborted", client |-> 0, start |-> 0]]
        /\ y.waiters = u.waiters /\ y.workers = u.workers /\ y.bg = u.bg
        /\ y.bgStart = u.bgStart /\ y.client = u.client /\ y.child = u.child
    <3>1. "aborted" \in Settled /\ "aborted" # "wrong"
      BY DEF Settled
    <3>2. QED
      BY <2>6, <3>1, SettleGood
  <2> HIDE DEF y
  <2>8. y = x
    <3>1. IsTurn(y)
      BY <2>7 DEF Good, Shape, IsTurn
    <3>2. y.req = x.req
      BY <1>3, <2>4, <2>5, <2>7
    <3>3. /\ y.waiters = x.waiters /\ y.workers = x.workers /\ y.bg = x.bg
          /\ y.bgStart = x.bgStart /\ y.client = x.client /\ y.child = x.child
      BY <1>3, <2>4, <2>5, <2>7
    <3>4. QED
      BY <2>5, <3>1, <3>2, <3>3 DEF IsTurn
  <2>9. Listed(x)
    <3>1. x.waiters = waiters /\ x.req = [req EXCEPT ![r] = e]
      BY <1>3, <2>5
    <3>2. \A p \in Request : x.req[p].st = "waiting" => req[p].st = "waiting"
      BY <3>1, InvNow
    <3>3. QED
      BY <3>1, <3>2, InvNow, NowIs DEF Listed
  <2>10. Over(x, down', closing')
    <3>1. Over(u, down', closing')
      BY <1>2, <2>6, InvNow, StaysOver
    <3>2. x.workers = u.workers /\ x.bg = u.bg /\ x.bgStart = u.bgStart /\ x.child = u.child
      BY <1>3, <2>4, <2>5
    <3>3. QED
      BY <3>1, <3>2 DEF Over, Hired
  <2>11. Drained(x, Finally(x))
    <3>1. FreeChildren(u) \subseteq FreeChildren(x)
      BY <2>7, <2>8 DEF FreeChildren
    <3>2. FreeClients(u) \subseteq FreeClients(x)
      <4>1. \A p \in Request : x.req[p].client \in {0, u.req[p].client}
        <5>1. x.req = [req EXCEPT ![r] = e] /\ u.req = req /\ e.client = 0
          BY <1>3, <2>4, <2>5
        <5> HIDE DEF e
        <5>2. QED
          BY <5>1, InvNow
      <4>2. QED
        BY <2>7, <2>8, <4>1, FreeClientsStay
    <3>3. Enough(x)
      BY <1>1, <2>6, <2>7, <2>8, <3>1, <3>2, RoomIsEnough DEF Good
    <3>4. QED
      BY <2>7, <2>8, <3>3, FinallyGood
  <2> DEFINE t == Finally(x)
  <2>12. Good(x) /\ Become(t) /\ Drained(x, t)
    BY <2>1, <2>7, <2>8, <2>11
  <2> HIDE DEF t
  <2>13. QED
    BY <1>2, <2>9, <2>10, <2>12, Turned
<1>7. QED
  BY <1>1, <1>4, <1>5, <1>6

LEMMA ShutdownKeeps ==
  ASSUME IInv, Shutdown
  PROVE  IInv'
<1> DEFINE kids == {client[workers[i]].proc : i \in 1 .. Len(workers)} \ {0}
           q == [r \in Request |-> IF req[r].st = "waiting" THEN [req[r] EXCEPT !.st = "error"] ELSE req[r]]
           y == [k \in 1 .. Children |-> IF k \in kids THEN [child[k] EXCEPT !.ended = TRUE] ELSE child[k]]
           t == [Now EXCEPT !.workers = <<>>, !.bg = FALSE, !.waiters = <<>>, !.req = q, !.child = y]
<1>1. /\ down' = TRUE /\ closing' = kids /\ aborted' = aborted /\ Become(t)
  BY DEF Shutdown
<1>2. /\ IsTurn(t) /\ t.workers = <<>> /\ t.bg = FALSE /\ t.waiters = <<>> /\ t.req = q
      /\ t.child = y /\ t.client = client /\ t.bgStart = bgStart
  <2> DEFINE o == <<>>
  <2>1. t = [Now EXCEPT !.workers = o, !.bg = FALSE, !.waiters = o, !.req = q, !.child = y]
    OBVIOUS
  <2> HIDE DEF q, y, kids, t, o
  <2>2. IsTurn(t) /\ t.workers = o /\ t.waiters = o /\ t.bg = FALSE
    BY <2>1 DEF Now, IsTurn
  <2>3. t.req = q /\ t.child = y /\ t.client = client /\ t.bgStart = bgStart
    BY <2>1 DEF Now
  <2>4. QED
    BY <2>2, <2>3 DEF o
<1> HIDE DEF t
<1>3. /\ q \in [Request -> ReqRec]
      /\ \A r \in Request : /\ q[r].client = req[r].client /\ q[r].start = req[r].start
                            /\ q[r].st = IF req[r].st = "waiting" THEN "error" ELSE req[r].st
  <2>1. ASSUME NEW r \in Request
        PROVE  /\ q[r] \in ReqRec /\ q[r].client = req[r].client /\ q[r].start = req[r].start
               /\ q[r].st = IF req[r].st = "waiting" THEN "error" ELSE req[r].st
    <3>1. req[r] \in ReqRec /\ "error" \in Stage
      BY InvNow DEF Stage, Settled
    <3>2. CASE req[r].st = "waiting"
      <4>1. q[r] = [req[r] EXCEPT !.st = "error"]
        BY <3>2
      <4>2. QED
        BY <3>1, <3>2, <4>1 DEF ReqRec
    <3>3. CASE req[r].st # "waiting"
      BY <3>1, <3>3
    <3>4. QED
      BY <3>2, <3>3
  <2>2. QED
    BY <2>1
<1>4. /\ y \in [1 .. Children -> ChildRec]
      /\ \A k \in 1 .. Children : y[k].owner = child[k].owner /\ y[k].st = child[k].st /\ y[k].inq = child[k].inq
  <2>1. ASSUME NEW k \in 1 .. Children
        PROVE  /\ y[k] \in ChildRec
               /\ y[k].owner = child[k].owner /\ y[k].st = child[k].st /\ y[k].inq = child[k].inq
    <3>1. child[k] \in ChildRec
      BY InvNow
    <3> HIDE DEF kids
    <3>2. CASE k \in kids
      <4>1. y[k] = [child[k] EXCEPT !.ended = TRUE]
        BY <3>2
      <4> HIDE DEF y
      <4>2. QED
        BY <3>1, <4>1 DEF ChildRec
    <3>3. CASE k \notin kids
      BY <3>1, <3>3
    <3>4. QED
      BY <3>2, <3>3
  <2>2. QED
    BY <2>1
\* Those shutdown waits for are the children of the pool's clients.
<1>5. ASSUME NEW k \in kids
      PROVE  k \in 1 .. Children /\ child[k].owner # 0 /\ child[k].st # "locating"
  <2>1. PICK i \in 1 .. Len(workers) : client[workers[i]].proc = k
    BY <1>5
  <2> DEFINE c == workers[i]
  <2>2. workers \in Seq(1 .. Clients)
    BY InvNow, NowIs DEF Shape
  <2>3. c \in 1 .. Clients
    BY <2>1, <2>2, SeqElement
  <2>4. k # 0
    BY <1>5
  <2> HIDE DEF c
  <2>5. client[c].proc = k
    BY <2>1 DEF c
  <2>6. child[k].owner = c /\ child[k].st # "locating"
    BY <2>3, <2>4, <2>5, InvNow, NowIs DEF Owners, Knows
  <2>7. client[c] \in ClientRec
    BY <2>3, InvNow
  <2>8. QED
    BY <2>3, <2>4, <2>5, <2>6, <2>7, SizeAssumption DEF ClientRec
<1> HIDE DEF q, y, kids
<1>6. \A d : ~Hired(t, d)
  BY <1>2 DEF Hired
<1>7. Shape(t)
  <2>1. bgStart \in 0 .. Children
    BY InvNow, NowIs DEF Shape
  <2>2. t.req \in [Request -> ReqRec] /\ t.child \in [1 .. Children -> ChildRec]
    BY <1>2, <1>3, <1>4
  <2>3. t.client \in [1 .. Clients -> ClientRec] /\ t.bgStart \in 0 .. Children
    BY <1>2, <2>1, InvNow
  <2>4. t.workers \in Seq(1 .. Clients) /\ Len(t.workers) = 0 /\ t.waiters \in Seq(Request)
    BY <1>2
  <2>5. t.bg \in BOOLEAN
    BY <1>2
  <2>6. QED
    BY <1>2, <2>2, <2>3, <2>4, <2>5, SizeAssumption DEF Shape, IsTurn
<1>8. Kids(t)
  <2>1. \A k \in 1 .. Children :
          /\ child[k].st = "none" <=> child[k].owner = 0
          /\ child[k].owner # 0 =>
               \/ client[child[k].owner].robbed
               \/ child[k].st = "failed"
               \/ client[child[k].owner].ready = k
               \/ client[child[k].owner].ready = 0 /\ child[k].st \in {"killed", "hung"}
    BY InvNow, NowIs DEF Kids
  <2>2. QED
    BY <2>1, <1>2, <1>4, <1>6 DEF Kids
<1>9. Owners(t)
  <2>1. \A c \in 1 .. Clients : client[c].ready \in 0 .. Children /\ client[c].proc \in 0 .. Children
    BY InvNow DEF ClientRec
  <2>2. ASSUME NEW c \in 1 .. Clients
        PROVE  Knows(y, c, client[c])
    <3>1. Knows(child, c, client[c])
      BY InvNow, NowIs DEF Owners
    <3>2. /\ client[c].ready # 0 => client[c].ready \in 1 .. Children
          /\ client[c].proc # 0 => client[c].proc \in 1 .. Children
      BY <2>1, SizeAssumption
    <3>3. QED
      BY <3>1, <3>2, <1>4 DEF Knows
  <2>3. QED
    BY <2>2, <1>2 DEF Owners
<1>10. Owed(t)
  <2>1. ASSUME NEW c \in 1 .. Clients, ~client[c].robbed, client[c].ready # 0
        PROVE  Matches(client[c].queue, y[client[c].ready])
    <3>1. client[c].ready \in 1 .. Children
      BY <2>1, InvNow, SizeAssumption DEF ClientRec
    <3>2. Matches(client[c].queue, child[client[c].ready])
      BY <2>1, InvNow, NowIs DEF Owed
    <3>3. QED
      BY <3>1, <3>2, <1>4 DEF Matches
  <2>2. QED
    BY <2>1, <1>2, <1>6 DEF Owed
<1>11. Sent(t)
  <2>1. ASSUME NEW d \in 1 .. Clients
        PROVE  SentTo(d, client[d].queue, q)
    <3> DEFINE queue == client[d].queue
    <3>1. SentTo(d, queue, req) /\ queue \in Seq(SUBSET Request)
      BY InvNow, NowIs DEF Sent, ClientRec
    <3> HIDE DEF queue
    <3>2. ASSUME NEW i \in 1 .. Len(queue), NEW p \in queue[i]
          PROVE  /\ q[p].st = "sent" /\ q[p].client = d
                 /\ \A j \in 1 .. Len(queue) : p \in queue[j] => i = j
      <4>1. queue[i] \in SUBSET Request
        BY <3>1, SeqElement
      <4>2. /\ p \in Request /\ req[p].st = "sent" /\ req[p].client = d
            /\ \A j \in 1 .. Len(queue) : p \in queue[j] => i = j
        BY <3>1, <3>2, <4>1 DEF SentTo
      <4>3. QED
        BY <4>2, <1>3
    <3>3. SentTo(d, queue, q)
      BY <3>2 DEF SentTo
    <3>4. QED
      BY <3>3 DEF queue
  <2>2. QED
    BY <2>1, <1>2 DEF Sent
<1>12. Reqs(t)
  <2>1. ASSUME NEW r \in Request
        PROVE  /\ q[r].st # "wrong"
               /\ q[r].st \in {"starting", "sent"} <=> q[r].client # 0
               /\ q[r].st = "starting" <=> q[r].start # 0
               /\ q[r].start # 0 => /\ y[q[r].start].owner = q[r].client
                                    /\ y[q[r].start].st \in Pending \cup {"killed"}
    <3>1. /\ req[r].st # "wrong"
          /\ req[r].st \in {"starting", "sent"} <=> req[r].client # 0
          /\ req[r].st = "starting" <=> req[r].start # 0
          /\ req[r].start # 0 => /\ child[req[r].start].owner = req[r].client
                                 /\ child[req[r].start].st \in Pending \cup {"killed"}
      BY InvNow, NowIs DEF Reqs
    <3>2. req[r].start # 0 => req[r].start \in 1 .. Children
      BY InvNow, SizeAssumption DEF ReqRec
    <3>3. QED
      BY <3>1, <3>2, <1>3, <1>4
  <2>2. \A p, r \in Request : q[p].client # 0 /\ q[p].client = q[r].client => p = r
    BY <1>3, InvNow, NowIs DEF Reqs
  <2>3. QED
    BY <2>1, <2>2, <1>2 DEF Reqs
<1>13. Lists(t) /\ Listed(t)
  <2>1. Lists(t)
    BY <1>2 DEF Lists
  <2>2. \A r \in Request : q[r].st # "waiting"
    BY <1>3
  <2>3. QED
    BY <2>1, <2>2, <1>2 DEF Listed
<1>14. Over(t, TRUE, kids) /\ kids \subseteq 1 .. Children
  BY <1>2, <1>4, <1>5, <1>6 DEF Over
<1>15. QED
  <2>1. Good(t)
    BY <1>7, <1>8, <1>9, <1>10, <1>11, <1>12, <1>13 DEF Good
  <2>2. Over(t, down', closing') /\ closing' \subseteq 1 .. Children /\ aborted' \subseteq Request /\ down' \in BOOLEAN
    BY <1>1, <1>14, InvNow
  <2>3. QED
    BY <1>1, <1>13, <2>1, <2>2, TurnEnds

-----------------------------------------------------------------------------
(* The invariant *)

LEMMA InitIInv == Init => IInv
<1> SUFFICES ASSUME Init PROVE IInv
  OBVIOUS
<1>1. /\ req = [r \in Request |-> [st |-> "idle", client |-> 0, start |-> 0]]
      /\ aborted = {} /\ waiters = <<>> /\ workers = <<>> /\ bg = FALSE /\ bgStart = 0
      /\ client = [c \in 1 .. Clients |-> NoClient] /\ child = [k \in 1 .. Children |-> NoChild]
      /\ down = FALSE /\ closing = {}
  BY DEF Init
<1>2. NoClient \in ClientRec /\ NoClient.ready = 0 /\ NoClient.proc = 0 /\ NoClient.queue = <<>>
  BY SizeAssumption DEF NoClient, ClientRec
<1>3. NoChild \in ChildRec /\ NoChild.owner = 0 /\ NoChild.st = "none"
  BY SizeAssumption DEF NoChild, ChildRec, Life
<1>4. Shape(Now)
  <2>1. req \in [Request -> ReqRec]
    BY <1>1, SizeAssumption DEF ReqRec, Stage
  <2>2. client \in [1 .. Clients -> ClientRec] /\ child \in [1 .. Children -> ChildRec]
    BY <1>1, <1>2, <1>3
  <2>3. waiters \in Seq(Request) /\ workers \in Seq(1 .. Clients) /\ Len(workers) = 0
    BY <1>1
  <2>4. bg \in BOOLEAN /\ bgStart \in 0 .. Children
    <3>1. bg \in BOOLEAN
      BY <1>1, Zenon
    <3>2. QED
      BY <3>1, <1>1, SizeAssumption
  <2>5. QED
    BY <2>1, <2>2, <2>3, <2>4, NowIs, SizeAssumption DEF Shape, IsTurn
<1>5. Kids(Now) /\ Owners(Now)
  BY <1>1, <1>2, <1>3, NowIs DEF Kids, Owners, Knows
<1>6. Owed(Now)
  BY <1>1, <1>2, <1>3, NowIs DEF Owed
<1>7. Sent(Now)
  BY <1>1, <1>2, NowIs DEF Sent, SentTo
<1>8. Reqs(Now)
  BY <1>1, NowIs DEF Reqs
<1>9. Lists(Now) /\ Listed(Now) /\ Ending
  <2>1. Lists(Now) /\ Listed(Now)
    BY <1>1, NowIs DEF Lists, Listed
  <2>2. Over(Now, down, closing)
    BY <1>1, NowIs DEF Over
  <2>3. aborted \subseteq Request /\ closing \subseteq 1 .. Children
    BY <1>1
  <2>4. down \in BOOLEAN
    BY <1>1, Zenon
  <2>5. QED
    BY <2>1, <2>2, <2>3, <2>4 DEF Ending
<1>10. QED
  BY <1>4, <1>5, <1>6, <1>7, <1>8, <1>9 DEF IInv, Good

LEMMA NextIInv ==
  ASSUME IInv, [Next]_vars
  PROVE  IInv'
<1>1. ASSUME NEW r \in Request, Call(r) \/ Abort(r) PROVE IInv'
  BY <1>1, CallKeeps, AbortKeeps
<1>2. ASSUME NEW k \in 1 .. Children, ShutdownKills(k) \/ Located(k) \/ LocateFails(k) \/ SpawnErrors(k)
      PROVE  IInv'
  BY <1>2, ShutdownKillsKeeps, LocatedKeeps, LocateFailsKeeps, SpawnErrorsKeeps
<1>3. ASSUME NEW k \in 1 .. Children, Ready(k) \/ BootFails(k) \/ Answer(k) \/ Exits(k)
      PROVE  IInv'
  BY <1>3, ReadyKeeps, BootFailsKeeps, AnswerKeeps, ExitsKeeps
<1>4. CASE UNCHANGED vars
  <2>1. Now' = Now /\ aborted' = aborted /\ down' = down /\ closing' = closing
    BY <1>4 DEF vars, poolVars, Now
  <2>2. QED
    BY <2>1 DEF IInv, Ending
<1>5. QED
  BY <1>1, <1>2, <1>3, <1>4, ShutdownKeeps DEF Next

LEMMA Invariance == Spec => []IInv
<1>1. IInv /\ [Next]_vars => IInv'
  BY NextIInv
<1>2. QED
  BY <1>1, InitIInv, PTL DEF Spec

-----------------------------------------------------------------------------
(* The theorems *)

\* TypeOK: every variable keeps its declared shape, nobody is twice in a list of
\* the pool, and a request awaits only the start of a child that is not ready.
THEOREM TypeCorrect == Spec => []TypeOK
<1>1. IInv => TypeOK
  <2> SUFFICES ASSUME IInv PROVE TypeOK
    OBVIOUS
  <2>1. ASSUME NEW r \in Request
        PROVE  /\ req[r].st \in {"idle", "waiting", "starting", "sent"} \cup Settled
               /\ req[r].client \in 0 .. Clients /\ req[r].start \in 0 .. Children
               /\ req[r].st = "starting" => child[req[r].start].st \in Pending \cup {"killed"}
    BY InvNow, NowIs DEF ReqRec, Stage, Reqs
  <2>2. waiters \in Seq(Request) /\ IsInjective(waiters)
    <3>1. waiters \in Seq(Request) /\ DOMAIN waiters = 1 .. Len(waiters)
      BY InvNow
    <3>2. QED
      BY <3>1, InvNow, NowIs DEF IsInjective, Lists
  <2>3. Len(workers) <= Size /\ IsInjective(workers)
    <3>1. workers \in Seq(1 .. Clients) /\ Len(workers) <= Size
      BY InvNow, NowIs DEF Shape
    <3>2. DOMAIN workers = 1 .. Len(workers)
      BY <3>1
    <3>3. QED
      BY <3>1, <3>2, InvNow, NowIs DEF IsInjective, Lists
  <2>4. bg \in BOOLEAN /\ bgStart \in 0 .. Children /\ (bgStart # 0 => bg \/ down)
    BY InvNow, NowIs DEF Shape, Over
  <2>5. \A c \in 1 .. Clients :
          /\ client[c].proc \in 0 .. Children /\ client[c].ready \in 0 .. Children
          /\ client[c].robbed \in BOOLEAN
    BY InvNow DEF ClientRec
  <2>6. \A k \in 1 .. Children : child[k].st \in Pending \cup {"none", "running", "failed", "killed"}
    BY InvNow DEF ChildRec, Life
  <2>7. QED
    BY <2>1, <2>2, <2>3, <2>4, <2>5, <2>6, InvNow DEF TypeOK
<1>2. QED
  BY <1>1, Invariance, PTL

\* OwnUnlessRobbed: however calls, aborts, exits, failed starts and restarts
\* interleave, the answer to the image of another request comes only from a client
\* that had lost a start of its own to the end of another child.
THEOREM AnswersAreOwn == Spec => []OwnUnlessRobbed
<1>1. IInv => OwnUnlessRobbed
  BY InvNow, NowIs DEF Reqs, OwnUnlessRobbed
<1>2. QED
  BY <1>1, Invariance, PTL

\* OneChildUnlessRobbed: until then a client starts a child only when it has no
\* other one that lives, also after a start that failed.
THEOREM OneChildEach == Spec => []OneChildUnlessRobbed
<1>1. IInv => OneChildUnlessRobbed
  <2> SUFFICES ASSUME IInv, NEW c \in 1 .. Clients, ~client[c].robbed
               PROVE  Cardinality({k \in 1 .. Children :
                         /\ child[k].owner = c
                         /\ child[k].st \in {"locating", "booting", "running"}}) <= 1
    BY DEF OneChildUnlessRobbed
  <2> DEFINE K == {k \in 1 .. Children : /\ child[k].owner = c
                                         /\ child[k].st \in {"locating", "booting", "running"}}
  <2>1. \A j \in K : client[c].ready = j
    <3>1. c # 0
      BY SizeAssumption
    <3>2. QED
      BY <3>1, InvNow, NowIs DEF Kids
  <2> HIDE DEF K
  <2>2. K = {} \/ \E k : K = {k}
    BY <2>1
  <2>3. Cardinality(K) = 0 \/ Cardinality(K) = 1
    BY <2>2, FS_EmptySet, FS_Singleton
  <2>4. QED
    BY <2>3 DEF K
<1>2. QED
  BY <1>1, Invariance, PTL
=============================================================================
