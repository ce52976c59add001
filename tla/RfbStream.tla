----------------------------- MODULE RfbStream -----------------------------
(***************************************************************************)
(* What a connected VncSession does with the server's byte stream:         *)
(* handleFramebufferUpdate, the Framebuffer it paints, the dirty           *)
(* rectangles it accumulates, and waitForUpdate.                           *)
(*                                                                         *)
(* The screen is one row of pixels.  A FramebufferUpdate is a sequence of  *)
(* rectangles and arrives in chunks that end anywhere; a rectangle is      *)
(* applied when all of its bytes are there, and as long as the message is  *)
(* not complete nothing is consumed, so that every further chunk parses    *)
(* and applies it from its first rectangle again.                          *)
(***************************************************************************)
EXTENDS Integers, Sequences, FiniteSets, SequencesExt

CONSTANTS Width,        \* initial width of the screen
          Rects,        \* the rectangles a server may send
          MaxRects,     \* rectangles per message
          MaxMessages,  \* bound: messages per behaviour
          MaxSeq,       \* bound: updateSeq up to which a chunk may complete no rectangle
          Cap,          \* DIRTY_RECTS_CAP
          Waiter        \* concurrent waitForUpdate calls

ASSUME WidthAssumption == Width \in Nat \ {0}
ASSUME BoundsAssumption == /\ MaxRects \in Nat \ {0} /\ MaxMessages \in Nat
                           /\ MaxSeq \in Nat /\ Cap \in Nat \ {0}
\* What is painted has a place and a width; no screen is empty.
ASSUME RectsAssumption ==
  \A r \in Rects :
    /\ r.kind \in {"raw", "copy"} => r.x \in Nat /\ r.w \in Nat
    /\ r.kind = "copy" => r.src \in Nat
    /\ r.kind = "resize" => r.w \in Nat \ {0}

VARIABLES
  client,    \* the session: fb, seq, dirty, cont (see InitClient)
  link,      \* the WebSocket: "open", "closing", "closed"
  msg,       \* the message that is arriving
  got,       \* how many of its rectangles have arrived
  ideal,     \* the framebuffer if each rectangle sent is applied once
  sent,      \* messages sent
  asked,     \* an update request is outstanding at the server
  srvCont,   \* width for which the server pushes continuous updates, 0 if it does not
  seen,      \* fb and seq as of the last consumeDirtyRects
  base,      \* waiter: its baseline, -1 when it does not wait
  doubt      \* history variable: the pixels that a CopyRect may have got wrong

vars == <<client, link, msg, got, ideal, sent, asked, srvCont, seen, base, doubt>>

Blank(w) == [p \in 0 .. w - 1 |-> 0]
WidthOf(f) == Cardinality(DOMAIN f)
Painted(r) == r.kind \in {"raw", "copy", "resize"}

InitClient == [fb |-> Blank(Width), seq |-> 0, dirty |-> <<>>, cont |-> FALSE]

-----------------------------------------------------------------------------
(* Framebuffer *)

Span(x, w) == x .. x + w - 1

ApplyRaw(f, r) == [p \in DOMAIN f |-> IF p \in Span(r.x, r.w) THEN r.colour ELSE f[p]]

\* Buffer.copy reads all of a row before it changes any of it.
ApplyCopy(f, r) == [p \in DOMAIN f |-> IF p \in Span(r.x, r.w) THEN f[p - r.x + r.src] ELSE f[p]]

\* The framebuffer after rectangle r.
Paint(f, r) ==
  CASE r.kind = "raw"    -> ApplyRaw(f, r)
    [] r.kind = "copy"   -> ApplyCopy(f, r)
    [] r.kind = "resize" -> Blank(r.w)
    [] OTHER             -> f

-----------------------------------------------------------------------------
(* Dirty rectangles *)

\* Mutant: at the cap a rectangle is dropped.
PushDropping(dirty, f, x, w) == IF Len(dirty) < Cap THEN Append(dirty, [x |-> x, w |-> w]) ELSE dirty

\* Mutant: the cap is not enforced.
PushAlways(dirty, f, x, w) == Append(dirty, [x |-> x, w |-> w])

\* pushDirtyRect: at the cap, one rectangle that covers the whole screen.
PushDirty(dirty, f, x, w) ==
  CASE w = 0                     -> dirty
    [] w # 0 /\ Len(dirty) < Cap -> Append(dirty, [x |-> x, w |-> w])
    [] OTHER                      -> <<[x |-> 0, w |-> WidthOf(f)]>>

\* bump()
Bump(c, r) == IF Painted(r) THEN c.seq + 1 ELSE c.seq

\* One round of handleFramebufferUpdate's loop.
Apply(c, r) ==
  LET f == Paint(c.fb, r)
  IN  [fb    |-> f,
       seq   |-> Bump(c, r),
       dirty |-> CASE r.kind \in {"raw", "copy"} -> PushDirty(c.dirty, f, r.x, r.w)
                   [] r.kind = "resize"          -> PushDirty(c.dirty, f, 0, r.w)
                   [] OTHER                      -> c.dirty,
       cont  |-> c.cont \/ r.kind = "cont"]

\* The session after each round: Rounds(c, m)[i] when i rectangles of m are applied.
Rounds(c, m) ==
  LET done[i \in 0 .. Len(m)] == IF i = 0 THEN c ELSE Apply(done[i - 1], m[i])
  IN  done

\* Mutant: the loop ends one rectangle early.
ParsedShort(c, m, n) == Rounds(c, m)[n - 1]

\* The loop over the n rectangles of the message that are there.
Parsed(c, m, n) == Rounds(c, m)[n]

-----------------------------------------------------------------------------
(* Rectangles that are applied again.  Nothing here acts on the session: doubt *)
(* only records where applying a message again may have led away from it.      *)

\* Where the first n rectangles of m have painted: when m is applied from its
\* first rectangle again, these pixels are ahead of it.
Ahead(m, n) == UNION {Span(m[i].x, m[i].w) : i \in {j \in 1 .. n : m[j].kind \in {"raw", "copy"}}}

\* The pixels in doubt after r: a copy takes doubt along, any other paint ends it.
Spread(d, r) ==
  CASE r.kind = "raw"    -> d \ Span(r.x, r.w)
    [] r.kind = "copy"   -> (d \ Span(r.x, r.w)) \cup {p \in Span(r.x, r.w) : p - r.x + r.src \in d}
    [] r.kind = "resize" -> {}
    [] OTHER             -> d

\* The pixels in doubt after each rectangle of m.
Doubts(d, m) ==
  LET after[i \in 0 .. Len(m)] == IF i = 0 THEN d ELSE Spread(after[i - 1], m[i])
  IN  after

-----------------------------------------------------------------------------
(* The server *)

Fits(f, r) ==
  CASE r.kind = "raw"  -> Span(r.x, r.w) \subseteq DOMAIN f
    [] r.kind = "copy" -> Span(r.x, r.w) \cup Span(r.src, r.w) \subseteq DOMAIN f
    [] OTHER           -> TRUE

\* The screen f after each rectangle of m, applied once.
Screens(f, m) ==
  LET shown[i \in 0 .. Len(m)] == IF i = 0 THEN f ELSE Paint(shown[i - 1], m[i])
  IN  shown

\* What m makes of f.
Reference(f, m) == Screens(f, m)[Len(m)]

Has(m, kind) == \E i \in 1 .. Len(m) : m[i].kind = kind

\* The messages a server whose screen is f may send.  RFC 6143 (7.8.2) keeps
\* rectangles that paint out of a message with a resize; of those, only a
\* CopyRect is left out here.
Updates(f) ==
  {m \in BoundedSeq(Rects, MaxRects) :
     /\ m # <<>>
     /\ ~(Has(m, "copy") /\ Has(m, "resize"))
     /\ \A i \in 1 .. Len(m) : Fits(Screens(f, m)[i - 1], m[i])}

-----------------------------------------------------------------------------
Init ==
  /\ client = InitClient
  /\ link = "open"
  /\ msg = <<>> /\ got = 0
  /\ ideal = Blank(Width)
  /\ sent = 0
  /\ asked = TRUE      \* handleServerInit requests a full update
  /\ srvCont = 0
  /\ seen = [fb |-> Blank(Width), seq |-> 0]
  /\ base = [w \in Waiter |-> -1]
  /\ doubt = {}

\* The server answers a request, or pushes, with an update.
ServerUpdates ==
  /\ link = "open"
  /\ msg = <<>>
  /\ sent < MaxMessages
  /\ asked \/ srvCont > 0
  /\ \E m \in Updates(ideal) : msg' = m /\ ideal' = Reference(ideal, m)
  /\ sent'  = sent + 1
  /\ asked' = FALSE
  /\ UNCHANGED <<client, link, got, srvCont, seen, base, doubt>>

\* Mutant: a resize does not enable continuous updates anew.
EnabledOnce(c, n) == IF c.cont /\ ~client.cont THEN WidthOf(c.fb) ELSE srvCont

\* The width for which the server pushes updates after the client has applied
\* n rectangles and become c: EnableContinuousUpdates is sent at the first
\* "cont" rectangle, and again at each resize after it.
Enabled(c, n) ==
  LET resized == \E i \in 1 .. n : msg[i].kind = "resize"
  IN  IF c.cont /\ (~client.cont \/ resized) THEN WidthOf(c.fb) ELSE srvCont

\* Mutant: only the first waiter hears of an update.
WokenFirst(seq) ==
  LET w == CHOOSE w \in Waiter : TRUE
  IN  IF base[w] < seq THEN [base EXCEPT ![w] = -1] ELSE base

\* 'update' resolves every waiter whose baseline is behind.
Woken(seq) == [w \in Waiter |-> IF base[w] < seq THEN -1 ELSE base[w]]

\* Mutant: the incremental request that follows an update is left out.
CompletedSilently(c) ==
  /\ msg' = <<>> /\ got' = 0
  /\ UNCHANGED asked
  /\ base' = IF \E i \in 1 .. Len(msg) : Painted(msg[i]) THEN Woken(c.seq) ELSE base
  /\ doubt' = Doubts(doubt \cup Ahead(msg, got), msg)[Len(msg)]

\* The end of handleFramebufferUpdate: the message is consumed, the next update
\* requested, and 'update' emitted if anything was painted.
Completed(c) ==
  /\ msg' = <<>> /\ got' = 0
  /\ asked' = TRUE
  /\ base' = IF \E i \in 1 .. Len(msg) : Painted(msg[i]) THEN Woken(c.seq) ELSE base
  /\ doubt' = Doubts(doubt \cup Ahead(msg, got), msg)[Len(msg)]

\* Bytes arrive: k rectangles of the message are there now, and all of them
\* are applied, those of the earlier chunks included.
Chunk(k) ==
  /\ link = "open"
  /\ k \in got .. Len(msg)
  /\ k > 0
  /\ k = got => client.seq < MaxSeq
  /\ LET c == Parsed(client, msg, k)
     IN  /\ client'  = c
         /\ srvCont' = Enabled(c, k)
         /\ IF k = Len(msg)
            THEN Completed(c)
            ELSE got' = k /\ UNCHANGED <<msg, asked, base, doubt>>
  /\ UNCHANGED <<link, ideal, sent, seen>>

-----------------------------------------------------------------------------
(* Callers *)

\* consumeDirtyRects, with the snapshot its callers take.
Consume ==
  /\ seen'   = [fb |-> client.fb, seq |-> client.seq]
  /\ client' = [client EXCEPT !.dirty = <<>>]
  /\ UNCHANGED <<link, msg, got, ideal, sent, asked, srvCont, base, doubt>>

RequestFullUpdate ==
  /\ asked' = (asked \/ link = "open")
  /\ UNCHANGED <<client, link, msg, got, ideal, sent, srvCont, seen, base, doubt>>

\* waitForUpdate from a baseline that is still the current seq; from an older
\* one it resolves at once.
StartWait(w) ==
  /\ base[w] = -1
  /\ base' = [base EXCEPT ![w] = client.seq]
  /\ UNCHANGED <<client, link, msg, got, ideal, sent, asked, srvCont, seen, doubt>>

WaitTimesOut(w) ==
  /\ base[w] # -1
  /\ base' = [base EXCEPT ![w] = -1]
  /\ UNCHANGED <<client, link, msg, got, ideal, sent, asked, srvCont, seen, doubt>>

-----------------------------------------------------------------------------
(* The end of the session *)

Disconnect ==
  /\ link   = "open"
  /\ link'  = "closing"
  /\ client' = [client EXCEPT !.dirty = <<>>]
  /\ msg' = <<>> /\ got' = 0
  /\ UNCHANGED <<ideal, sent, asked, srvCont, seen, base, doubt>>

PeerCloses ==
  /\ link  = "open"
  /\ link' = "closing"
  /\ UNCHANGED <<client, msg, got, ideal, sent, asked, srvCont, seen, base, doubt>>

\* 'close' rejects every waiter.
CloseEvent ==
  /\ link  = "closing"
  /\ link' = "closed"
  /\ base' = [w \in Waiter |-> -1]
  /\ UNCHANGED <<client, msg, got, ideal, sent, asked, srvCont, seen, doubt>>

Next ==
  \/ ServerUpdates
  \/ \E k \in 1 .. MaxRects : Chunk(k)
  \/ Consume
  \/ RequestFullUpdate
  \/ \E w \in Waiter : StartWait(w) \/ WaitTimesOut(w)
  \/ Disconnect
  \/ PeerCloses
  \/ CloseEvent

Spec == Init /\ [][Next]_vars

-----------------------------------------------------------------------------
(* Properties *)

TypeOK ==
  /\ DOMAIN client.fb = 0 .. WidthOf(client.fb) - 1
  /\ client.seq \in Nat /\ client.cont \in BOOLEAN
  /\ Len(client.dirty) <= Cap    \* however long nobody consumes
  /\ \A i \in 1 .. Len(client.dirty) : client.dirty[i].x \in Nat /\ client.dirty[i].w \in Nat \ {0}
  /\ link \in {"open", "closing", "closed"}
  /\ msg \in BoundedSeq(Rects, MaxRects)
  /\ got \in 0 .. MaxRects /\ (msg = <<>> => got = 0)
  /\ DOMAIN ideal = 0 .. WidthOf(ideal) - 1
  /\ sent \in 0 .. MaxMessages
  /\ asked \in BOOLEAN
  /\ srvCont \in Nat
  /\ seen.seq \in 0 .. client.seq
  /\ base \in [Waiter -> {-1} \cup (0 .. client.seq)]
  /\ doubt \subseteq Int

\* Between two messages the screen is as wide as the server's and shows, but for
\* the pixels in doubt, what the server sent, each rectangle applied once.  Only
\* a CopyRect of a message that arrived in pieces brings a pixel into doubt, and
\* only if it reads, there or through another such copy, where its message had
\* painted before; what is painted over such a pixel is the server's again.
FaithfulPixels ==
  link = "open" /\ msg = <<>> =>
    /\ DOMAIN client.fb = DOMAIN ideal
    /\ \A p \in DOMAIN ideal : p \in doubt \/ client.fb[p] = ideal[p]

\* What the tool screenshot says it captures, "the VM's current display": between
\* two messages the screen is the one the server sent.
FaithfulFrame == link = "open" /\ msg = <<>> => client.fb = ideal

\* A pixel that is not what it was at the last consumeDirtyRects lies in a
\* rectangle that the next one returns: OCR of those alone misses nothing.  And
\* a caller that skips a frame whose seq it has seen skips the same frame.
DirtyCovers ==
  /\ client.seq = seen.seq => client.fb = seen.fb
  /\ link = "open" =>
       \A p \in DOMAIN client.fb :
         \/ p \in DOMAIN seen.fb /\ client.fb[p] = seen.fb[p]
         \/ \E i \in 1 .. Len(client.dirty) : p \in Span(client.dirty[i].x, client.dirty[i].w)

\* Nobody who waits has been overtaken by a complete update.
NoLostWakeup == link = "open" /\ msg = <<>> => \A w \in Waiter : base[w] \in {-1, client.seq}

\* Client and server never wait for each other: a request is outstanding, or
\* the server pushes, or an update is on its way.
NeverStarved == link = "open" => asked \/ srvCont > 0 \/ msg # <<>>

\* Continuous updates cover the screen as it is now.
ContCovers == link = "open" /\ msg = <<>> /\ srvCont > 0 => srvCont = WidthOf(client.fb)
=============================================================================
