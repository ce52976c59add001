------------------------------ MODULE OcrPool ------------------------------
(***************************************************************************)
(* The OCR pool: OcrPool (ocr.ts), its RapidOcrClients (ocr-rapidocr.ts)   *)
(* and their Python worker processes.                                      *)
(*                                                                         *)
(* A client object owns a queue of requests and, one after the other,      *)
(* child processes; every child that ever gets ready stays attached to the *)
(* queue of its client, and its n-th answer goes to whoever is at the head *)
(* of the queue then.  An action is one event: a call, an abort, a message *)
(* from a child, its exit, a timer.  What the code does in the same turn   *)
(* of the event loop (drain, dispatch, spawnRemaining) is part of it.      *)
(*                                                                         *)
(* This is one pool: shutdownOcr drops it, and later calls get a new one.  *)
(***************************************************************************)
EXTENDS Naturals, Sequences, FiniteSets, SequencesExt

CONSTANTS Request,        \* calls of ocr(), each with an AbortSignal
          Size,           \* workers
          Clients,        \* bound: RapidOcrClient objects, numbered from 1
          Children,       \* bound: child processes at one time, numbered from 1
          StartsMayFail,  \* may a child report that it is not ready?
          SpawnsMayFail   \* may spawn() report an error?

ASSUME SizeAssumption == Size \in Nat \ {0} /\ Clients \in Nat /\ Children \in Nat
ASSUME FaultAssumption == StartsMayFail \in BOOLEAN /\ SpawnsMayFail \in BOOLEAN

VARIABLES
  req,      \* request -> [st, client, start]: its state, the client it is
            \* dispatched to, the start of a child it awaits
  aborted,  \* requests whose signal fired before they were settled
  waiters,  \* pool: requests not yet dispatched
  workers,  \* pool: its clients
  bg,       \* pool: bgSpawnTriggered
  bgStart,  \* pool: the start that spawnRemaining awaits, or 0
  client,   \* client -> [proc, ready, queue, robbed]; robbed is a history variable:
            \* the end of one child has taken another one's start from the client
  child,    \* child -> [owner, st, inq, ended]
  down,     \* pool: shutdown() was called
  closing   \* children whose exit shutdown() awaits

poolVars == <<waiters, workers, bg, bgStart>>
vars == <<req, aborted, poolVars, client, child, down, closing>>

NoChild == [owner |-> 0, st |-> "none", inq |-> <<>>, ended |-> FALSE]
NoClient == [proc |-> 0, ready |-> 0, queue |-> <<>>, robbed |-> FALSE]

\* "hung": spawn() failed and nothing more will be heard of it.
Pending == {"locating", "booting", "hung"}
\* "wrong" and "mixed": it got the text of somebody else's image, "mixed" if the
\* client that gave it had been robbed.
Settled == {"ok", "wrong", "mixed", "error", "aborted"}

TypeOK ==
  /\ \A r \in Request :
       /\ req[r].st \in {"idle", "waiting", "starting", "sent"} \cup Settled
       /\ req[r].client \in 0 .. Clients /\ req[r].start \in 0 .. Children
       /\ req[r].st = "starting" => child[req[r].start].st \in Pending \cup {"killed"}
  /\ aborted \subseteq Request
  /\ waiters \in Seq(Request) /\ IsInjective(waiters)
  /\ Len(workers) <= Size /\ IsInjective(workers)
  /\ bg \in BOOLEAN /\ bgStart \in 0 .. Children /\ (bgStart # 0 => bg \/ down)
  /\ \A c \in 1 .. Clients :
       /\ client[c].proc \in 0 .. Children /\ client[c].ready \in 0 .. Children
       /\ client[c].robbed \in BOOLEAN
  /\ \A k \in 1 .. Children :
       child[k].st \in Pending \cup {"none", "running", "failed", "killed"}
  /\ down \in BOOLEAN
  /\ closing \subseteq 1 .. Children

Init ==
  /\ req = [r \in Request |-> [st |-> "idle", client |-> 0, start |-> 0]]
  /\ aborted = {}
  /\ waiters = <<>> /\ workers = <<>> /\ bg = FALSE /\ bgStart = 0
  /\ client = [c \in 1 .. Clients |-> NoClient]
  /\ child = [k \in 1 .. Children |-> NoChild]
  /\ down = FALSE /\ closing = {}

-----------------------------------------------------------------------------
(* The state that one turn of the event loop passes through, as a record.  *)

Now == [req |-> req, waiters |-> waiters, workers |-> workers, bg |-> bg,
        bgStart |-> bgStart, client |-> client, child |-> child]

\* The quantifier names the state once for all variables.
Become(s) ==
  \E t \in {s} :
    /\ req' = t.req /\ waiters' = t.waiters /\ workers' = t.workers
    /\ bg' = t.bg /\ bgStart' = t.bgStart /\ client' = t.client /\ child' = t.child

Least(S) == CHOOSE n \in S : \A m \in S : n <= m

FreeChildren(s) == {k \in 1 .. Children : s.child[k].st = "none"}

\* Client numbers of objects nothing refers to any more.
FreeClients(s) ==
  {c \in 1 .. Clients : /\ \A i \in 1 .. Len(s.workers) : s.workers[i] # c
                        /\ \A r \in Request : s.req[r].client # c
                        /\ \A k \in 1 .. Children : s.child[k].owner # c}

-----------------------------------------------------------------------------
(* RapidOcrClient *)

Start(s, c) ==
  LET k == Least(FreeChildren(s))
  IN  [s EXCEPT !.child[k] = [NoChild EXCEPT !.owner = c, !.st = "locating"],
                !.client[c].ready = k]

\* Mutant: a start under way is not shared.
EnsureStartedAnew(s, c) ==
  IF s.client[c].ready # 0 /\ s.child[s.client[c].ready].st \notin Pending THEN s ELSE Start(s, c)

EnsureStarted(s, c) == IF s.client[c].ready # 0 THEN s ELSE Start(s, c)

Settle(s, r, how) == [s EXCEPT !.req[r] = [st |-> how, client |-> 0, start |-> 0]]

\* recognize() once its client is started: the image goes to whatever child
\* the client has now.
Submit(s, r) ==
  LET c == s.req[r].client
      p == s.client[c].proc
  IN  IF p = 0 \/ s.child[p].ended
      THEN Settle(s, r, "error")
      ELSE [s EXCEPT !.req[r]          = [st |-> "sent", client |-> c, start |-> 0],
                     !.client[c].queue = Append(@, {r}),
                     !.child[p].inq    = Append(@, r)]

\* The requests the client's queue holds; an aborted one has left a hole {}.
Queued(s, c) == UNION {s.client[c].queue[i] : i \in 1 .. Len(s.client[c].queue)}

\* failAll() of client c.
FailAll(s, c) ==
  [s EXCEPT !.client[c].queue = <<>>,
            !.req = [r \in Request |->
                       IF r \in Queued(s, c) THEN [st |-> "error", client |-> 0, start |-> 0]
                       ELSE s.req[r]]]

-----------------------------------------------------------------------------
(* OcrPool *)

Busy(s, c) == \E r \in Request : s.req[r].client = c

Dispatch(s, c) ==
  LET r  == Head(s.waiters)
      s1 == EnsureStarted([s EXCEPT !.waiters = Tail(@)], c)
      k  == s1.client[c].ready
      s2 == [s1 EXCEPT !.req[r] = [st |-> "starting", client |-> c, start |-> k]]
  IN  IF s1.child[k].st \in Pending THEN s2 ELSE Submit(s2, r)

\* A new, idle worker, whose start nobody awaits.
AddWorker(s) ==
  LET c == Least(FreeClients(s))
  IN  Start([s EXCEPT !.workers = Append(@, c), !.client[c] = NoClient], c)

\* The state after each round of spawnRemaining's loop.
Grown(s) ==
  LET after[i \in 0 .. Size] == IF i = 0 THEN [s EXCEPT !.bgStart = 0] ELSE AddWorker(after[i - 1])
  IN  after

\* Mutant: spawnRemaining counts to size from 1.
AddTooMany(s) == Grown(s)[Size]

\* spawnRemaining after its await.
AddRemaining(s) == Grown(s)[Size - Len(s.workers)]

\* maybeBackgroundSpawn, and spawnRemaining up to its await.
BackgroundSpawn(s) ==
  IF s.bg \/ Len(s.workers) >= Size \/ s.workers = <<>>
  THEN s
  ELSE LET c  == Head(s.workers)
           s1 == EnsureStarted([s EXCEPT !.bg = TRUE], c)
           k  == s1.client[c].ready
       IN  IF s1.child[k].st \in Pending THEN [s1 EXCEPT !.bgStart = k] ELSE AddRemaining(s1)

\* Worker c takes the next waiter, if it is idle and there is one.
Serve(s, c) == IF s.waiters # <<>> /\ ~Busy(s, c) THEN Dispatch(s, c) ELSE s

\* The state after drain() has come to each worker.
Served(s) ==
  LET after[i \in 0 .. Len(s.workers)] == IF i = 0 THEN s ELSE Serve(after[i - 1], s.workers[i])
  IN  after

Drain(s) == BackgroundSpawn(Served(s)[Len(s.workers)])

\* Mutant: the finally of dispatch frees the worker and does not drain.
FinallyQuiet(s) == s

\* The finally of dispatch, for the requests that t has settled and s had not.
Finally(s) == IF \E r \in Request : req[r].client # 0 /\ s.req[r].client = 0 THEN Drain(s) ELSE s

-----------------------------------------------------------------------------
(* Calls *)

\* Bound: there is room for another client and for what it may start.
Room == Cardinality(FreeChildren(Now)) > Size /\ Cardinality(FreeClients(Now)) >= Size

Call(r) ==
  /\ ~down /\ Room
  /\ req[r].st = "idle"
  /\ LET s  == [Now EXCEPT !.waiters = Append(@, r), !.req[r].st = "waiting"]
         c  == Least(FreeClients(s))
         s1 == IF workers = <<>>
               THEN [s EXCEPT !.workers = <<c>>, !.client[c] = NoClient] ELSE s
     IN  Become(Drain(s1))
  /\ UNCHANGED <<aborted, down, closing>>

\* Mutant: an aborted entry leaves the queue.
ForgottenInQueue(queue, r) == SelectSeq(queue, LAMBDA e : e # {r})

\* An aborted entry stays in the queue, for the answer that will come for it.
HollowInQueue(queue, r) == [i \in 1 .. Len(queue) |-> queue[i] \ {r}]

\* A dispatched request that still awaits the start of its client has no
\* listener.
Abort(r) ==
  /\ Room
  /\ req[r].st \in {"waiting", "starting", "sent"}
  /\ r \notin aborted
  /\ aborted' = aborted \cup {r}
  /\ LET c == req[r].client
         i == CHOOSE i \in DOMAIN waiters : waiters[i] = r
     IN  Become(CASE req[r].st = "waiting"  -> [Settle(Now, r, "aborted") EXCEPT !.waiters = RemoveAt(@, i)]
                  [] req[r].st = "sent"     -> Finally([Settle(Now, r, "aborted") EXCEPT
                                                 !.client[c].queue = HollowInQueue(@, r)])
                  [] req[r].st = "starting" -> Now)
  /\ UNCHANGED <<down, closing>>

\* Every client of the pool that has a child ends its input.
Shutdown ==
  /\ ~down
  /\ down' = TRUE
  /\ LET kids == {client[workers[i]].proc : i \in 1 .. Len(workers)} \ {0}
     IN  /\ closing' = kids
         /\ Become([Now EXCEPT
              !.workers = <<>>, !.bg = FALSE, !.waiters = <<>>,
              !.req   = [r \in Request |->
                           IF req[r].st = "waiting" THEN [req[r] EXCEPT !.st = "error"] ELSE req[r]],
              !.child = [k \in 1 .. Children |->
                           IF k \in kids THEN [child[k] EXCEPT !.ended = TRUE] ELSE child[k]]])
  /\ UNCHANGED aborted

\* Does the end of child k take from its client the start of another one?
Robs(k) == client[child[k].owner].ready \notin {0, k}

\* Two seconds later, the child is killed and no longer awaited.
ShutdownKills(k) ==
  /\ k \in closing
  /\ closing' = closing \ {k}
  /\ Become([Now EXCEPT !.child[k].st = IF @ = "hung" THEN @ ELSE "killed",
                        !.client[child[k].owner].proc   = 0,
                        !.client[child[k].owner].ready  = 0,
                        !.client[child[k].owner].robbed = @ \/ Robs(k)])
  /\ UNCHANGED <<aborted, down>>

-----------------------------------------------------------------------------
(* Children *)

\* The await of start k throws: in the dispatched request, in spawnRemaining.
StartRejects(s, k) ==
  LET s1 == [s EXCEPT !.client[child[k].owner].ready = 0,
                      !.bg      = IF s.bgStart = k THEN FALSE ELSE @,
                      !.bgStart = IF @ = k THEN 0 ELSE @,
                      !.req     = [r \in Request |->
                                     IF s.req[r].start = k
                                     THEN [st |-> "error", client |-> 0, start |-> 0]
                                     ELSE s.req[r]]]
  IN  Finally(s1)

Located(k) ==
  /\ child[k].st = "locating"
  /\ Become([Now EXCEPT !.child[k].st = "booting", !.client[child[k].owner].proc = k])
  /\ UNCHANGED <<aborted, down, closing>>

LocateFails(k) ==
  /\ Room
  /\ child[k].st = "locating"
  /\ Become(StartRejects([Now EXCEPT !.child[k] = NoChild], k))
  /\ UNCHANGED <<aborted, down, closing>>

\* spawn() emits 'error' and never 'exit': no readiness line, no end of it.
SpawnErrors(k) ==
  /\ SpawnsMayFail /\ Room
  /\ child[k].st = "locating"
  /\ LET c == child[k].owner
     IN  Become(Finally(FailAll([Now EXCEPT !.child[k].st = "hung", !.client[c].proc = k], c)))
  /\ UNCHANGED <<aborted, down, closing>>

\* The readiness line.
Ready(k) ==
  /\ Room
  /\ child[k].st = "booting"
  /\ LET s  == [Now EXCEPT !.child[k].st = "running"]
         R  == {r \in Request : req[r].start = k}
         s1 == IF R = {} THEN s ELSE Finally(Submit(s, CHOOSE r \in R : TRUE))
     IN  Become(IF s1.bgStart = k THEN AddRemaining(s1) ELSE s1)
  /\ UNCHANGED <<aborted, down, closing>>

\* The child says that it is not ready; it is sent SIGTERM and stays the
\* client's child until it exits.
BootFails(k) ==
  /\ StartsMayFail /\ Room
  /\ child[k].st = "booting"
  /\ Become(StartRejects([Now EXCEPT !.child[k].st = "failed"], k))
  /\ UNCHANGED <<aborted, down, closing>>

\* Request r gets from client c the answer to the image of request q.
Verdict(c, r, q) ==
  CASE r = q                        -> "ok"
    [] r # q /\ client[c].robbed    -> "mixed"
    [] r # q /\ ~client[c].robbed   -> "wrong"

\* One answer, a result or an error, for the oldest image of child k.
Answer(k) ==
  /\ Room
  /\ child[k].st = "running"
  /\ child[k].inq # <<>>
  /\ LET c     == child[k].owner
         queue == client[c].queue
         s     == [Now EXCEPT !.child[k].inq = Tail(@)]
         s1    == IF queue = <<>> THEN s ELSE [s EXCEPT !.client[c].queue = Tail(@)]
     IN  Become(
           IF queue = <<>> \/ Head(queue) = {} THEN s1
           ELSE LET r == CHOOSE r \in Head(queue) : TRUE
                IN  Finally(Settle(s1, r, Verdict(c, r, Head(child[k].inq)))))
  /\ UNCHANGED <<aborted, down, closing>>

\* The exit of child k, of itself, by a signal or at the end of its input: its
\* client loses its child and its queue, even if that child is another one.
Exits(k) ==
  /\ Room
  /\ child[k].st \in {"booting", "running", "failed", "killed"}
  /\ LET c  == child[k].owner
         s  == [Now EXCEPT !.child[k] = NoChild, !.client[c].proc = 0, !.client[c].ready = 0,
                           !.client[c].robbed = @ \/ Robs(k)]
         s1 == FailAll(s, c)
     IN  Become(StartRejects(s1, k))     \* of no effect once the start is over
  /\ closing' = closing \ {k}
  /\ UNCHANGED <<aborted, down>>

-----------------------------------------------------------------------------
Next ==
  \/ \E r \in Request : Call(r) \/ Abort(r)
  \/ Shutdown
  \/ \E k \in 1 .. Children : \/ ShutdownKills(k)
                              \/ Located(k) \/ LocateFails(k) \/ SpawnErrors(k)
                              \/ Ready(k) \/ BootFails(k)
                              \/ Answer(k)
                              \/ Exits(k)

Spec == Init /\ [][Next]_vars

\* uv is found or not, a worker process gets ready or ends, answers each image
\* or ends, and a process that was sent SIGTERM ends.  No timer of the code
\* makes up for one that does not, and none is assumed for a spawn() that hung.
\* This is weak fairness of Located \/ LocateFails, of Ready \/ BootFails \/ Exits,
\* of Answer \/ Exits, of Exits and of ShutdownKills, with the guards in the place
\* of ENABLED: each of them ends what it is enabled by, and the images of a child
\* are no more than the requests, each of which is made once.
Fairness ==
  \A k \in 1 .. Children :
    /\ []<>(child[k].st # "locating")
    /\ []<>(child[k].st # "booting" \/ ~Room)
    /\ []<>(child[k].inq = <<>> \/ child[k].st = "hung" \/ ~Room)
    /\ []<>(child[k].st \notin {"failed", "killed"} \/ ~Room)
    /\ []<>(k \notin closing)

FairSpec == Spec /\ Fairness

-----------------------------------------------------------------------------
(* Properties *)

\* Answers carry no name and are told apart only by their order.  Nobody gets the
\* text of somebody else's image from a client whose starts were taken from it
\* only by the end of the child in question, however often children end, starts
\* fail and requests are aborted.
OwnUnlessRobbed == \A r \in Request : req[r].st # "wrong"

\* Such a client never has two live children: a start under way is shared, and a
\* new one is made only for a child that is gone or was sent SIGTERM.
OneChildUnlessRobbed ==
  \A c \in 1 .. Clients :
    ~client[c].robbed =>
      Cardinality({k \in 1 .. Children : /\ child[k].owner = c
                                         /\ child[k].st \in {"locating", "booting", "running"}}) <= 1

\* The protocol of ocr-rapidocr.ts, "one JSON line per request": everyone gets
\* the answer to its own image.
AnswersOwn == \A r \in Request : req[r].st \notin {"wrong", "mixed"}

\* "One worker is reused for the lifetime of the process" (ocr-rapidocr.ts): no
\* client has two live children.
OneChild ==
  \A c \in 1 .. Clients :
    Cardinality({k \in 1 .. Children : /\ child[k].owner = c
                                       /\ child[k].st \in {"locating", "booting", "running"}}) <= 1

\* Every call of ocr() settles, however children end and starts fail, unless a
\* spawn() that hung is in its way: on its own client, or, while it waits for a
\* worker, on any.
OcrSettlesUnlessHung ==
  \A r \in Request :
    req[r].st \in {"waiting", "starting", "sent"} ~>
      \/ req[r].st \in Settled
      \/ \E k \in 1 .. Children :
           /\ child[k].st = "hung"
           /\ req[r].st = "waiting" \/ child[k].owner = req[r].client

\* "Failures self-heal on next dispatch" (spawnRemaining): every call settles.  After
\* a spawn() that reports an error they do not.
OcrSettles == \A r \in Request : req[r].st \in {"waiting", "starting", "sent"} ~> req[r].st \in Settled
=============================================================================
