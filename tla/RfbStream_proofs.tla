-------------------------- MODULE RfbStream_proofs --------------------------
(***************************************************************************)
(* Proofs about RfbStream, for screens and messages of any size, any       *)
(* rectangles, any number of waiters and any cap.                          *)
(***************************************************************************)
EXTENDS RfbStream, FiniteSetTheorems, WellFoundedInduction, TLAPS

-----------------------------------------------------------------------------
(* Induction along a message *)

Before == {ij \in Nat \X Nat : ij[1] < ij[2]}

LEMMA BeforeIsWellFounded == IsWellFoundedOn(Before, Nat)
<1>1. Before = OpToRel(<, Nat)
  BY Zenon DEF Before, OpToRel
<1>2. QED
  BY <1>1, NatLessThanWellFounded, Zenon

\* A set that has 0 and, with each i below n, i + 1, has all of 0 .. n.
LEMMA UpTo ==
  ASSUME NEW n \in Nat, NEW S,
         0 \in S,
         \A i \in 1 .. n : i - 1 \in S => i \in S
  PROVE  0 .. n \subseteq S
<1> DEFINE T == (0 .. n) \ S
<1>1. SUFFICES ASSUME T # {} PROVE FALSE
  OBVIOUS
<1>2. T \subseteq Nat
  OBVIOUS
<1>3. PICK i \in T : \A j \in T : ~ (<<j, i>> \in Before)
  <2> HIDE DEF T
  <2>1. QED
    BY <1>1, <1>2, BeforeIsWellFounded, WFMin
<1>4. i \in 1 .. n /\ i - 1 \in 0 .. n
  OBVIOUS
<1>5. <<i - 1, i>> \in Before
  BY <1>4 DEF Before
<1>6. i - 1 \in S
  BY <1>3, <1>4, <1>5
<1>7. QED
  BY <1>4, <1>6

\* The equations of Rounds and of Screens have a solution.
LEMMA RoundsStep ==
  ASSUME NEW c, NEW m, Len(m) \in Nat
  PROVE  /\ Rounds(c, m)[0] = c
         /\ \A i \in 1 .. Len(m) : Rounds(c, m)[i] = Apply(Rounds(c, m)[i - 1], m[i])
<1> DEFINE n == Len(m)
           Is(f, k) == f = [i \in 0 .. k |-> IF i = 0 THEN c ELSE Apply(f[i - 1], m[i])]
           S == {k \in Nat : \E f : Is(f, k)}
<1>1. 0 \in S
  <2>1. Is([i \in 0 .. 0 |-> c], 0)
    OBVIOUS
  <2>2. QED
    BY <2>1
<1>2. ASSUME NEW k \in 1 .. n, k - 1 \in S PROVE k \in S
  <2>1. PICK f : Is(f, k - 1)
    BY <1>2
  <2> DEFINE g == [i \in 0 .. k |-> IF i = k THEN Apply(f[k - 1], m[k]) ELSE f[i]]
  <2>2. \A i \in 0 .. k - 1 : f[i] = IF i = 0 THEN c ELSE Apply(f[i - 1], m[i])
    BY <2>1
  <2>3. \A i \in 0 .. k : g[i] = IF i = 0 THEN c ELSE Apply(g[i - 1], m[i])
    <3>1. \A i \in 0 .. k - 1 : g[i] = f[i]
      OBVIOUS
    <3>2. g[k] = Apply(f[k - 1], m[k])
      OBVIOUS
    <3> HIDE DEF g
    <3>3. QED
      BY <2>2, <3>1, <3>2
  <2>4. Is(g, k)
    <3>1. g = [i \in 0 .. k |-> g[i]]
      OBVIOUS
    <3> HIDE DEF g
    <3>2. QED
      BY <2>3, <3>1
  <2>5. k \in Nat
    OBVIOUS
  <2>6. QED
    BY <2>4, <2>5
<1>3. n \in S
  <2> HIDE DEF S
  <2>1. 0 .. n \subseteq S
    BY <1>1, <1>2, UpTo
  <2>2. QED
    BY <2>1
<1>4. PICK f : Is(f, n)
  BY <1>3
<1>5. Is(Rounds(c, m), n)
  <2>1. Rounds(c, m) = CHOOSE f1 : Is(f1, n)
    BY DEF Rounds
  <2> HIDE DEF Is
  <2>2. QED
    BY <1>4, <2>1
<1>6. QED
  BY <1>5

LEMMA ScreensStep ==
  ASSUME NEW f, NEW m, Len(m) \in Nat
  PROVE  /\ Screens(f, m)[0] = f
         /\ \A i \in 1 .. Len(m) : Screens(f, m)[i] = Paint(Screens(f, m)[i - 1], m[i])
<1> DEFINE n == Len(m)
           Is(g) == g = [i \in 0 .. n |-> IF i = 0 THEN f ELSE Paint(g[i - 1], m[i])]
           c == [fb |-> f, seq |-> 0, dirty |-> <<>>, cont |-> FALSE]
           g0 == [i \in 0 .. n |-> Rounds(c, m)[i].fb]
<1>1. Is(g0)
  <2>1. \A d, r : Apply(d, r).fb = Paint(d.fb, r)
    BY DEF Apply
  <2>2. /\ Rounds(c, m)[0] = c
        /\ \A i \in 1 .. n : Rounds(c, m)[i] = Apply(Rounds(c, m)[i - 1], m[i])
    BY RoundsStep
  <2>3. \A i \in 0 .. n : g0[i] = IF i = 0 THEN f ELSE Paint(g0[i - 1], m[i])
    <3>1. g0[0] = f
      <4>1. c.fb = f
        OBVIOUS
      <4> HIDE DEF c
      <4>2. QED
        BY <2>2, <4>1
    <3>2. ASSUME NEW i \in 1 .. n PROVE g0[i] = Paint(g0[i - 1], m[i])
      <4> HIDE DEF c
      <4>1. g0[i] = Apply(Rounds(c, m)[i - 1], m[i]).fb
        BY <2>2
      <4>2. g0[i - 1] = Rounds(c, m)[i - 1].fb
        OBVIOUS
      <4>3. QED
        BY <2>1, <4>1, <4>2
    <3> HIDE DEF g0
    <3>3. QED
      BY <3>1, <3>2
  <2>4. g0 = [i \in 0 .. n |-> g0[i]]
    OBVIOUS
  <2> HIDE DEF g0
  <2>5. QED
    BY <2>3, <2>4
<1>2. Is(Screens(f, m))
  <2>1. Screens(f, m) = CHOOSE g : Is(g)
    BY DEF Screens
  <2> HIDE DEF Is
  <2>2. QED
    BY <1>1, <2>1
<1>3. QED
  BY <1>2

LEMMA DoubtsStep ==
  ASSUME NEW d, NEW m, Len(m) \in Nat
  PROVE  /\ Doubts(d, m)[0] = d
         /\ \A i \in 1 .. Len(m) : Doubts(d, m)[i] = Spread(Doubts(d, m)[i - 1], m[i])
<1> DEFINE n == Len(m)
           Is(f, k) == f = [i \in 0 .. k |-> IF i = 0 THEN d ELSE Spread(f[i - 1], m[i])]
           S == {k \in Nat : \E f : Is(f, k)}
<1>1. 0 \in S
  <2>1. Is([i \in 0 .. 0 |-> d], 0)
    OBVIOUS
  <2>2. QED
    BY <2>1
<1>2. ASSUME NEW k \in 1 .. n, k - 1 \in S PROVE k \in S
  <2>1. PICK f : Is(f, k - 1)
    BY <1>2
  <2> DEFINE g == [i \in 0 .. k |-> IF i = k THEN Spread(f[k - 1], m[k]) ELSE f[i]]
  <2>2. \A i \in 0 .. k - 1 : f[i] = IF i = 0 THEN d ELSE Spread(f[i - 1], m[i])
    BY <2>1
  <2>3. \A i \in 0 .. k : g[i] = IF i = 0 THEN d ELSE Spread(g[i - 1], m[i])
    <3>1. \A i \in 0 .. k - 1 : g[i] = f[i]
      OBVIOUS
    <3>2. g[k] = Spread(f[k - 1], m[k])
      OBVIOUS
    <3> HIDE DEF g
    <3>3. QED
      BY <2>2, <3>1, <3>2
  <2>4. Is(g, k)
    <3>1. g = [i \in 0 .. k |-> g[i]]
      OBVIOUS
    <3> HIDE DEF g
    <3>2. QED
      BY <2>3, <3>1
  <2>5. k \in Nat
    OBVIOUS
  <2>6. QED
    BY <2>4, <2>5
<1>3. n \in S
  <2> HIDE DEF S
  <2>1. 0 .. n \subseteq S
    BY <1>1, <1>2, UpTo
  <2>2. QED
    BY <2>1
<1>4. PICK f : Is(f, n)
  BY <1>3
<1>5. Is(Doubts(d, m), n)
  <2>1. Doubts(d, m) = CHOOSE f1 : Is(f1, n)
    BY DEF Doubts
  <2> HIDE DEF Is
  <2>2. QED
    BY <1>4, <2>1
<1>6. QED
  BY <1>5

\* A session that applies m shows the screens that m makes of its own.
LEMMA RoundsShow ==
  ASSUME NEW c, NEW m, Len(m) \in Nat
  PROVE  \A i \in 0 .. Len(m) : Rounds(c, m)[i].fb = Screens(c.fb, m)[i]
<1> DEFINE S == {i \in 0 .. Len(m) : Rounds(c, m)[i].fb = Screens(c.fb, m)[i]}
<1>1. 0 \in S
  BY RoundsStep, ScreensStep
<1>2. ASSUME NEW i \in 1 .. Len(m), i - 1 \in S PROVE i \in S
  <2>1. Rounds(c, m)[i].fb = Paint(Rounds(c, m)[i - 1].fb, m[i])
    <3>1. \A d, r : Apply(d, r).fb = Paint(d.fb, r)
      BY DEF Apply
    <3>2. QED
      BY <3>1, RoundsStep
  <2>2. Screens(c.fb, m)[i] = Paint(Screens(c.fb, m)[i - 1], m[i])
    BY ScreensStep
  <2>3. QED
    BY <1>2, <2>1, <2>2
<1>3. 0 .. Len(m) \subseteq S
  <2> HIDE DEF S
  <2>1. QED
    BY <1>1, <1>2, UpTo
<1>4. QED
  BY <1>3

-----------------------------------------------------------------------------
(* Frames: rows of at least one pixel *)

Frame(f) ==
  /\ f = [p \in DOMAIN f |-> f[p]]
  /\ WidthOf(f) \in Nat \ {0}
  /\ DOMAIN f = 0 .. WidthOf(f) - 1

LEMMA BlankIsFrame ==
  ASSUME NEW w \in Nat \ {0}
  PROVE  Frame(Blank(w)) /\ WidthOf(Blank(w)) = w
<1>1. DOMAIN Blank(w) = 0 .. w - 1
  BY DEF Blank
<1>2. Cardinality(0 .. w - 1) = w
  BY FS_Interval
<1>3. QED
  BY <1>1, <1>2 DEF Frame, WidthOf, Blank

\* What each kind of rectangle does to a frame.
LEMMA PaintKinds ==
  ASSUME NEW f, NEW r
  PROVE  /\ r.kind = "raw" => Paint(f, r) = ApplyRaw(f, r)
         /\ r.kind = "copy" => Paint(f, r) = ApplyCopy(f, r)
         /\ r.kind = "resize" => Paint(f, r) = Blank(r.w)
         /\ ~Painted(r) => Paint(f, r) = f
  BY DEF Paint, Painted

LEMMA PaintKeepsDomain ==
  ASSUME NEW f, NEW r, r.kind # "resize"
  PROVE  DOMAIN Paint(f, r) = DOMAIN f
  BY PaintKinds DEF Painted, ApplyRaw, ApplyCopy

LEMMA PaintIsFrame ==
  ASSUME NEW f, Frame(f), NEW r \in Rects
  PROVE  Frame(Paint(f, r))
<1>1. CASE r.kind = "resize"
  BY <1>1, PaintKinds, BlankIsFrame, RectsAssumption
<1>2. CASE r.kind # "resize"
  <2>1. DOMAIN Paint(f, r) = DOMAIN f
    BY <1>2, PaintKeepsDomain
  <2>2. Paint(f, r) = [p \in DOMAIN f |-> Paint(f, r)[p]]
    BY <1>2, PaintKinds DEF Painted, ApplyRaw, ApplyCopy, Frame
  <2>3. QED
    BY <2>1, <2>2 DEF Frame, WidthOf
<1>3. QED
  BY <1>1, <1>2

LEMMA ScreensAreFrames ==
  ASSUME NEW f, Frame(f), NEW m \in Seq(Rects)
  PROVE  \A i \in 0 .. Len(m) : Frame(Screens(f, m)[i])
<1> DEFINE S == {i \in 0 .. Len(m) : Frame(Screens(f, m)[i])}
<1>1. 0 \in S
  BY ScreensStep
<1>2. ASSUME NEW i \in 1 .. Len(m), i - 1 \in S PROVE i \in S
  <2>1. m[i] \in Rects
    OBVIOUS
  <2>2. QED
    BY <1>2, <2>1, ScreensStep, PaintIsFrame
<1>3. 0 .. Len(m) \subseteq S
  <2>1. Len(m) \in Nat
    OBVIOUS
  <2> HIDE DEF S
  <2>2. QED
    BY <1>1, <1>2, <2>1, UpTo
<1>4. QED
  BY <1>3

-----------------------------------------------------------------------------
(* Sessions *)

DirtyRect == [x : Nat, w : Nat \ {0}]

Session(c) ==
  /\ c = [fb |-> c.fb, seq |-> c.seq, dirty |-> c.dirty, cont |-> c.cont]
  /\ Frame(c.fb)
  /\ c.seq \in Nat /\ c.cont \in BOOLEAN
  /\ c.dirty \in Seq(DirtyRect) /\ Len(c.dirty) <= Cap

LEMMA PushIsDirty ==
  ASSUME NEW d \in Seq(DirtyRect), Len(d) <= Cap, NEW f, Frame(f),
         NEW x \in Nat, NEW w \in Nat
  PROVE  PushDirty(d, f, x, w) \in Seq(DirtyRect) /\ Len(PushDirty(d, f, x, w)) <= Cap
<1>1. CASE w = 0
  <2>1. PushDirty(d, f, x, w) = d
    BY <1>1 DEF PushDirty
  <2>2. QED
    BY <2>1
<1>2. CASE w # 0 /\ Len(d) < Cap
  <2>1. [x |-> x, w |-> w] \in DirtyRect
    BY <1>2 DEF DirtyRect
  <2>2. PushDirty(d, f, x, w) = Append(d, [x |-> x, w |-> w])
    BY <1>2 DEF PushDirty
  <2>3. /\ Append(d, [x |-> x, w |-> w]) \in Seq(DirtyRect)
        /\ Len(Append(d, [x |-> x, w |-> w])) = Len(d) + 1
    BY <2>1
  <2>4. QED
    BY <1>2, <2>2, <2>3, BoundsAssumption
<1>3. CASE w # 0 /\ ~(Len(d) < Cap)
  <2>1. [x |-> 0, w |-> WidthOf(f)] \in DirtyRect
    BY DEF DirtyRect, Frame
  <2>2. PushDirty(d, f, x, w) = <<[x |-> 0, w |-> WidthOf(f)]>>
    BY <1>3 DEF PushDirty
  <2>3. QED
    BY <2>1, <2>2, BoundsAssumption
<1>4. QED
  BY <1>1, <1>2, <1>3

\* The fields of a session after a rectangle.
LEMMA ApplyFields ==
  ASSUME NEW c, NEW r
  PROVE  LET d == Apply(c, r)
         IN  /\ d = [fb |-> d.fb, seq |-> d.seq, dirty |-> d.dirty, cont |-> d.cont]
             /\ d.fb = Paint(c.fb, r)
             /\ d.seq = IF Painted(r) THEN c.seq + 1 ELSE c.seq
             /\ d.cont = (c.cont \/ r.kind = "cont")
             /\ r.kind \in {"raw", "copy"} => d.dirty = PushDirty(c.dirty, d.fb, r.x, r.w)
             /\ r.kind = "resize" => d.dirty = PushDirty(c.dirty, d.fb, 0, r.w)
             /\ ~Painted(r) => d.dirty = c.dirty
<1> DEFINE d == Apply(c, r)
           f == Paint(c.fb, r)
           pushed == CASE r.kind \in {"raw", "copy"} -> PushDirty(c.dirty, f, r.x, r.w)
                       [] r.kind = "resize"          -> PushDirty(c.dirty, f, 0, r.w)
                       [] OTHER                      -> c.dirty
<1>1. d = [fb |-> f, seq |-> Bump(c, r), dirty |-> pushed, cont |-> c.cont \/ r.kind = "cont"]
  BY DEF Apply
<1>2. /\ d.fb = f /\ d.seq = Bump(c, r) /\ d.dirty = pushed
      /\ d.cont = (c.cont \/ r.kind = "cont")
      /\ d = [fb |-> d.fb, seq |-> d.seq, dirty |-> d.dirty, cont |-> d.cont]
  <2> HIDE DEF d, pushed, f
  <2>1. QED
    BY <1>1
<1>3. /\ r.kind \in {"raw", "copy"} => pushed = PushDirty(c.dirty, f, r.x, r.w)
      /\ r.kind = "resize" => pushed = PushDirty(c.dirty, f, 0, r.w)
      /\ ~Painted(r) => pushed = c.dirty
  BY DEF Painted
<1>4. QED
  <2> HIDE DEF d, pushed, f
  <2>1. QED
    BY <1>2, <1>3 DEF d, f, Bump

LEMMA ApplyIsSession ==
  ASSUME NEW c, Session(c), NEW r \in Rects
  PROVE  Session(Apply(c, r))
<1> DEFINE d == Apply(c, r)
<1>1. /\ d = [fb |-> d.fb, seq |-> d.seq, dirty |-> d.dirty, cont |-> d.cont]
      /\ d.fb = Paint(c.fb, r)
      /\ d.seq = IF Painted(r) THEN c.seq + 1 ELSE c.seq
      /\ d.cont = (c.cont \/ r.kind = "cont")
      /\ r.kind \in {"raw", "copy"} => d.dirty = PushDirty(c.dirty, d.fb, r.x, r.w)
      /\ r.kind = "resize" => d.dirty = PushDirty(c.dirty, d.fb, 0, r.w)
      /\ ~Painted(r) => d.dirty = c.dirty
  BY ApplyFields
<1> HIDE DEF d
<1>2. Frame(d.fb)
  BY <1>1, PaintIsFrame DEF Session
<1>3. d.seq \in Nat
  BY <1>1 DEF Session
<1>4. d.cont \in BOOLEAN
  BY <1>1 DEF Session
<1>5. d.dirty \in Seq(DirtyRect) /\ Len(d.dirty) <= Cap
  <2>1. CASE r.kind \in {"raw", "copy"}
    BY <1>1, <1>2, <2>1, PushIsDirty, RectsAssumption DEF Session
  <2>2. CASE r.kind = "resize"
    <3>1. r.w \in Nat /\ 0 \in Nat
      BY <2>2, RectsAssumption
    <3>2. d.dirty = PushDirty(c.dirty, d.fb, 0, r.w)
      BY <1>1, <2>2
    <3>3. c.dirty \in Seq(DirtyRect) /\ Len(c.dirty) <= Cap
      BY DEF Session
    <3>4. QED
      BY <1>2, <3>1, <3>2, <3>3, PushIsDirty
  <2>3. CASE ~Painted(r)
    BY <1>1, <2>3 DEF Session
  <2>4. QED
    BY <2>1, <2>2, <2>3 DEF Painted
<1>6. QED
  BY <1>1, <1>2, <1>3, <1>4, <1>5 DEF Session, d

\* d is c, or c later: a frame with the same number is the same frame.
Later(c, d) ==
  /\ d.seq >= c.seq
  /\ d.seq = c.seq => d.fb = c.fb
  /\ c.cont => d.cont

LEMMA ApplyIsLater ==
  ASSUME NEW c, NEW d, Session(c), Session(d), Later(c, d), NEW r
  PROVE  Later(c, Apply(d, r))
<1> DEFINE e == Apply(d, r)
<1>1. /\ e.fb = Paint(d.fb, r)
      /\ e.seq = IF Painted(r) THEN d.seq + 1 ELSE d.seq
      /\ e.cont = (d.cont \/ r.kind = "cont")
  BY ApplyFields
<1> HIDE DEF e
<1>2. c.seq \in Nat /\ d.seq \in Nat
  BY DEF Session
<1>3. e.seq >= c.seq /\ (e.seq = c.seq => ~Painted(r) /\ d.seq = c.seq)
  BY <1>1, <1>2 DEF Later
<1>4. e.seq = c.seq => e.fb = c.fb
  BY <1>1, <1>3, PaintKinds DEF Later
<1>5. c.cont => e.cont
  BY <1>1, Zenon DEF Later
<1>6. QED
  BY <1>3, <1>4, <1>5 DEF Later, e

\* Every pixel of c that is not as in f lies in a dirty rectangle of c.
Covers(c, f) ==
  \A p \in DOMAIN c.fb :
    \/ p \in DOMAIN f /\ c.fb[p] = f[p]
    \/ \E i \in 1 .. Len(c.dirty) : p \in Span(c.dirty[i].x, c.dirty[i].w)

\* A rectangle that was pushed is covered, and so is what was covered before.
LEMMA PushCovers ==
  ASSUME NEW d \in Seq(DirtyRect), NEW f, Frame(f), NEW x \in Nat, NEW w \in Nat,
         NEW p \in DOMAIN f,
         p \in Span(x, w) \/ \E i \in 1 .. Len(d) : p \in Span(d[i].x, d[i].w)
  PROVE  LET e == PushDirty(d, f, x, w)
         IN  \E i \in 1 .. Len(e) : p \in Span(e[i].x, e[i].w)
<1>1. CASE w = 0
  <2>1. p \notin Span(x, w)
    BY <1>1 DEF Span
  <2>2. QED
    BY <1>1, <2>1 DEF PushDirty
<1>2. CASE w # 0 /\ Len(d) < Cap
  <2> DEFINE r == [x |-> x, w |-> w]
             e == Append(d, r)
  <2>1. PushDirty(d, f, x, w) = e
    BY <1>2 DEF PushDirty
  <2>2. /\ Len(e) = Len(d) + 1 /\ e[Len(d) + 1] = r
        /\ \A i \in 1 .. Len(d) : e[i] = d[i]
    OBVIOUS
  <2>3. r.x = x /\ r.w = w
    OBVIOUS
  <2>4. Len(d) \in Nat
    OBVIOUS
  <2> HIDE DEF e, r
  <2>5. \E i \in 1 .. Len(e) : p \in Span(e[i].x, e[i].w)
    <3>1. CASE p \in Span(x, w)
      <4>1. Len(d) + 1 \in 1 .. Len(e)
        BY <2>2, <2>4
      <4>2. QED
        BY <2>2, <2>3, <3>1, <4>1
    <3>2. CASE \E i \in 1 .. Len(d) : p \in Span(d[i].x, d[i].w)
      <4>1. \A i \in 1 .. Len(d) : i \in 1 .. Len(e)
        BY <2>2, <2>4
      <4>2. QED
        BY <2>2, <3>2, <4>1
    <3>3. QED
      BY <3>1, <3>2
  <2>6. QED
    BY <2>1, <2>5
<1>3. CASE w # 0 /\ ~(Len(d) < Cap)
  <2> DEFINE r == [x |-> 0, w |-> WidthOf(f)]
  <2>1. PushDirty(d, f, x, w) = <<r>>
    BY <1>3 DEF PushDirty
  <2>2. p \in Span(r.x, r.w)
    BY DEF Frame, Span
  <2>3. 1 \in 1 .. Len(<<r>>) /\ <<r>>[1] = r
    OBVIOUS
  <2> HIDE DEF r
  <2>4. QED
    BY <2>1, <2>2, <2>3
<1>4. QED
  BY <1>1, <1>2, <1>3

LEMMA ApplyCovers ==
  ASSUME NEW c, Session(c), NEW r \in Rects, NEW f, Covers(c, f)
  PROVE  Covers(Apply(c, r), f)
<1> DEFINE d == Apply(c, r)
<1>1. /\ d.fb = Paint(c.fb, r)
      /\ r.kind \in {"raw", "copy"} => d.dirty = PushDirty(c.dirty, d.fb, r.x, r.w)
      /\ r.kind = "resize" => d.dirty = PushDirty(c.dirty, d.fb, 0, r.w)
      /\ ~Painted(r) => d.dirty = c.dirty
  BY ApplyFields
<1>2. Frame(d.fb)
  BY <1>1, PaintIsFrame DEF Session
<1> HIDE DEF d
<1>3. CASE r.kind \in {"raw", "copy"}
  <2>1. r.x \in Nat /\ r.w \in Nat
    BY <1>3, RectsAssumption
  <2>2. DOMAIN d.fb = DOMAIN c.fb
    BY <1>1, <1>3, PaintKeepsDomain
  <2>3. \A p \in DOMAIN d.fb : p \in Span(r.x, r.w) \/ d.fb[p] = c.fb[p]
    BY <1>1, <1>3, <2>2, PaintKinds DEF ApplyRaw, ApplyCopy
  <2>4. ASSUME NEW p \in DOMAIN d.fb, ~(p \in DOMAIN f /\ d.fb[p] = f[p])
        PROVE  \E i \in 1 .. Len(d.dirty) : p \in Span(d.dirty[i].x, d.dirty[i].w)
    <3>1. p \in Span(r.x, r.w) \/ \E i \in 1 .. Len(c.dirty) : p \in Span(c.dirty[i].x, c.dirty[i].w)
      BY <2>2, <2>3, <2>4 DEF Covers
    <3>2. d.dirty = PushDirty(c.dirty, d.fb, r.x, r.w)
      BY <1>1, <1>3
    <3>3. QED
      BY <1>2, <2>1, <3>1, <3>2, PushCovers DEF Session
  <2>5. QED
    BY <2>4 DEF Covers, d
<1>4. CASE r.kind = "resize"
  <2>1. r.w \in Nat \ {0} /\ d.fb = Blank(r.w)
    BY <1>1, <1>4, PaintKinds, RectsAssumption
  <2>2. DOMAIN d.fb = Span(0, r.w)
    BY <2>1 DEF Blank, Span
  <2>3. ASSUME NEW p \in DOMAIN d.fb
        PROVE  \E i \in 1 .. Len(d.dirty) : p \in Span(d.dirty[i].x, d.dirty[i].w)
    <3>1. d.dirty = PushDirty(c.dirty, d.fb, 0, r.w)
      BY <1>1, <1>4
    <3>2. QED
      <4>1. r.w \in Nat /\ 0 \in Nat /\ p \in Span(0, r.w)
        BY <2>1, <2>2
      <4>2. c.dirty \in Seq(DirtyRect)
        BY DEF Session
      <4>3. \E i \in 1 .. Len(PushDirty(c.dirty, d.fb, 0, r.w)) :
              p \in Span(PushDirty(c.dirty, d.fb, 0, r.w)[i].x, PushDirty(c.dirty, d.fb, 0, r.w)[i].w)
        BY <1>2, <4>1, <4>2, PushCovers
      <4>4. QED
        BY <3>1, <4>3
  <2>4. QED
    BY <2>3 DEF Covers, d
<1>5. CASE ~Painted(r)
  <2>1. d.fb = c.fb /\ d.dirty = c.dirty
    BY <1>1, <1>5, PaintKinds
  <2>2. QED
    BY <2>1 DEF Covers, d
<1>6. QED
  BY <1>3, <1>4, <1>5 DEF Painted

\* What k rounds make of a session.
LEMMA RoundsKeep ==
  ASSUME NEW c, Session(c), NEW m \in Seq(Rects)
  PROVE  \A i \in 0 .. Len(m) :
           /\ Session(Rounds(c, m)[i])
           /\ Later(c, Rounds(c, m)[i])
           /\ \A f : Covers(c, f) => Covers(Rounds(c, m)[i], f)
<1> DEFINE g == Rounds(c, m)
           S == {i \in 0 .. Len(m) : /\ Session(g[i]) /\ Later(c, g[i])
                                     /\ \A f : Covers(c, f) => Covers(g[i], f)}
<1>1. Len(m) \in Nat
  OBVIOUS
<1>2. g[0] = c /\ \A i \in 1 .. Len(m) : g[i] = Apply(g[i - 1], m[i])
  BY <1>1, RoundsStep
<1>3. 0 \in S
  <2>1. Later(c, c)
    BY DEF Later, Session
  <2> HIDE DEF g
  <2>2. QED
    BY <1>1, <1>2, <2>1
<1>4. ASSUME NEW i \in 1 .. Len(m), i - 1 \in S PROVE i \in S
  <2> HIDE DEF g
  <2>1. m[i] \in Rects
    OBVIOUS
  <2>2. /\ Session(g[i - 1]) /\ Later(c, g[i - 1])
        /\ \A f : Covers(c, f) => Covers(g[i - 1], f)
    BY <1>4
  <2>3. Session(Apply(g[i - 1], m[i]))
    BY <2>1, <2>2, ApplyIsSession
  <2>4. Later(c, Apply(g[i - 1], m[i]))
    BY <2>2, ApplyIsLater
  <2>5. \A f : Covers(c, f) => Covers(Apply(g[i - 1], m[i]), f)
    BY <2>1, <2>2, ApplyCovers
  <2>6. QED
    BY <1>2, <2>3, <2>4, <2>5
<1>5. 0 .. Len(m) \subseteq S
  <2> HIDE DEF S
  <2>1. QED
    BY <1>1, <1>3, <1>4, UpTo
<1>6. QED
  BY <1>5

\* Rectangles that paint nothing leave the number of the frame alone.
LEMMA RoundsUnpainted ==
  ASSUME NEW c, NEW m, Len(m) \in Nat, \A j \in 1 .. Len(m) : ~Painted(m[j])
  PROVE  \A i \in 0 .. Len(m) : Rounds(c, m)[i].seq = c.seq
<1> DEFINE S == {i \in 0 .. Len(m) : Rounds(c, m)[i].seq = c.seq}
<1>1. 0 \in S
  BY RoundsStep
<1>2. ASSUME NEW i \in 1 .. Len(m), i - 1 \in S PROVE i \in S
  <2>1. Rounds(c, m)[i].seq = Rounds(c, m)[i - 1].seq
    <3>1. Rounds(c, m)[i] = Apply(Rounds(c, m)[i - 1], m[i])
      BY RoundsStep
    <3>2. \A d : Apply(d, m[i]).seq = d.seq
      BY ApplyFields
    <3>3. QED
      BY <3>1, <3>2
  <2>2. QED
    BY <1>2, <2>1
<1>3. 0 .. Len(m) \subseteq S
  <2> HIDE DEF S
  <2>1. QED
    BY <1>1, <1>2, UpTo
<1>4. QED
  BY <1>3

\* As long as there is no resize, the screen keeps its width.
LEMMA ScreensKeepWidth ==
  ASSUME NEW f, NEW m, Len(m) \in Nat, NEW k \in 0 .. Len(m),
         \A j \in 1 .. k : m[j].kind # "resize"
  PROVE  DOMAIN Screens(f, m)[k] = DOMAIN f
<1> DEFINE S == {i \in 0 .. k : DOMAIN Screens(f, m)[i] = DOMAIN f}
<1>1. 0 \in S
  BY ScreensStep
<1>2. ASSUME NEW i \in 1 .. k, i - 1 \in S PROVE i \in S
  <2>1. Screens(f, m)[i] = Paint(Screens(f, m)[i - 1], m[i])
    BY ScreensStep
  <2>2. DOMAIN Screens(f, m)[i] = DOMAIN Screens(f, m)[i - 1]
    BY <2>1, PaintKeepsDomain
  <2>3. QED
    BY <1>2, <2>2
<1>3. 0 .. k \subseteq S
  <2> HIDE DEF S
  <2>1. k \in Nat
    OBVIOUS
  <2>2. QED
    BY <1>1, <1>2, <2>1, UpTo
<1>4. QED
  BY <1>3

LEMMA BoundedMessages ==
  ASSUME NEW m
  PROVE  m \in BoundedSeq(Rects, MaxRects) <=> m \in Seq(Rects) /\ Len(m) <= MaxRects
<1>1. ASSUME m \in BoundedSeq(Rects, MaxRects) PROVE m \in Seq(Rects) /\ Len(m) <= MaxRects
  <2>1. PICK n \in 0 .. MaxRects : m \in [1 .. n -> Rects]
    BY <1>1 DEF BoundedSeq, SeqOf
  <2>2. n \in Nat
    BY BoundsAssumption
  <2>3. m \in Seq(Rects) /\ Len(m) = n
    BY <2>1, <2>2
  <2>4. QED
    BY <2>1, <2>2, <2>3, BoundsAssumption
<1>2. ASSUME m \in Seq(Rects), Len(m) <= MaxRects PROVE m \in BoundedSeq(Rects, MaxRects)
  <2>1. Len(m) \in 0 .. MaxRects /\ m \in [1 .. Len(m) -> Rects]
    BY <1>2, BoundsAssumption
  <2>2. QED
    BY <2>1 DEF BoundedSeq, SeqOf
<1>3. QED
  BY <1>1, <1>2

\* A message a server may send.
LEMMA UpdatesAreMessages ==
  ASSUME NEW f, NEW m \in Updates(f)
  PROVE  m \in Seq(Rects) /\ Len(m) <= MaxRects /\ m # <<>>
  BY BoundedMessages DEF Updates

-----------------------------------------------------------------------------
(* A message that is applied again *)

\* Doubt is a set of places, whatever is painted.
LEMMA DoubtsArePlaces ==
  ASSUME NEW d, d \subseteq Int, NEW m, Len(m) \in Nat
  PROVE  \A i \in 0 .. Len(m) : Doubts(d, m)[i] \subseteq Int
<1> DEFINE S == {i \in 0 .. Len(m) : Doubts(d, m)[i] \subseteq Int}
<1>1. 0 \in S
  <2>1. Doubts(d, m)[0] \subseteq Int
    BY DoubtsStep
  <2>2. QED
    BY <2>1
<1>2. ASSUME NEW i \in 1 .. Len(m), i - 1 \in S PROVE i \in S
  <2> DEFINE e == Doubts(d, m)[i - 1]
  <2>1. e \subseteq Int
    BY <1>2
  <2>2. Doubts(d, m)[i] = Spread(e, m[i])
    BY DoubtsStep
  <2> HIDE DEF e
  <2>3. Span(m[i].x, m[i].w) \subseteq Int
    BY DEF Span
  <2>4. Spread(e, m[i]) \subseteq Int
    BY <2>1, <2>3 DEF Spread
  <2>5. QED
    BY <2>2, <2>4
<1>3. 0 .. Len(m) \subseteq S
  <2> HIDE DEF S
  <2>1. QED
    BY <1>1, <1>2, UpTo
<1>4. QED
  BY <1>3

LEMMA AheadIsPlaces ==
  ASSUME NEW m, NEW n
  PROVE  Ahead(m, n) \subseteq Int
  BY DEF Ahead, Span

\* More rectangles paint more.
LEMMA AheadGrows ==
  ASSUME NEW m, NEW n \in Nat, NEW k \in Nat, n <= k
  PROVE  Ahead(m, n) \subseteq Ahead(m, k)
<1>1. 1 .. n \subseteq 1 .. k
  OBVIOUS
<1>2. QED
  BY <1>1 DEF Ahead

\* f and g differ at most at d, or m still has a resize behind its i-th rectangle.
Strays(f, g, m, i, d) ==
  \/ \E j \in i + 1 .. Len(m) : m[j].kind = "resize"
  \/ /\ DOMAIN f = DOMAIN g
     /\ \A p \in DOMAIN f : p \in d \/ f[p] = g[p]

\* What Spread does with each kind of rectangle.
LEMMA SpreadKinds ==
  ASSUME NEW d, NEW r
  PROVE  /\ r.kind = "raw" => Spread(d, r) = d \ Span(r.x, r.w)
         /\ r.kind = "copy" =>
              Spread(d, r) = (d \ Span(r.x, r.w)) \cup {p \in Span(r.x, r.w) : p - r.x + r.src \in d}
         /\ ~Painted(r) => Spread(d, r) = d
  BY DEF Spread, Painted

\* A rectangle that fits g takes what strays as Spread says.
LEMMA PaintStrays ==
  ASSUME NEW f, NEW g, NEW m \in Seq(Rects), Len(m) \in Nat, NEW i \in 1 .. Len(m), NEW d,
         Strays(f, g, m, i - 1, d),
         Fits(g, m[i]), ~(Has(m, "copy") /\ Has(m, "resize"))
  PROVE  Strays(Paint(f, m[i]), Paint(g, m[i]), m, i, Spread(d, m[i]))
<1> DEFINE r == m[i]
<1>0. \A j \in (i - 1) + 1 .. Len(m) : j = i \/ j \in i + 1 .. Len(m)
  OBVIOUS
<1>1. CASE \E j \in i + 1 .. Len(m) : m[j].kind = "resize"
  BY <1>1 DEF Strays
<1>2. CASE r.kind = "resize"
  <2>1. Paint(f, r) = Blank(r.w) /\ Paint(g, r) = Blank(r.w)
    BY <1>2, PaintKinds
  <2>2. QED
    BY <2>1 DEF Strays
<1>3. ASSUME ~ \E j \in i + 1 .. Len(m) : m[j].kind = "resize", r.kind # "resize"
      PROVE  DOMAIN f = DOMAIN g /\ \A p \in DOMAIN f : p \in d \/ f[p] = g[p]
  BY <1>0, <1>3 DEF Strays
<1>4. CASE r.kind = "raw" /\ ~ \E j \in i + 1 .. Len(m) : m[j].kind = "resize"
  <2>1. Paint(f, r) = ApplyRaw(f, r) /\ Paint(g, r) = ApplyRaw(g, r)
    BY <1>4, PaintKinds
  <2>2. Spread(d, r) = d \ Span(r.x, r.w)
    BY <1>4, SpreadKinds
  <2>3. DOMAIN f = DOMAIN g /\ \A p \in DOMAIN f : p \in d \/ f[p] = g[p]
    BY <1>3, <1>4
  <2>4. DOMAIN Paint(f, r) = DOMAIN f /\ DOMAIN Paint(g, r) = DOMAIN f
    BY <2>1, <2>3 DEF ApplyRaw
  <2>5. \A p \in DOMAIN f : p \in Spread(d, r) \/ Paint(f, r)[p] = Paint(g, r)[p]
    BY <2>1, <2>2, <2>3 DEF ApplyRaw
  <2>6. QED
    BY <2>4, <2>5 DEF Strays
<1>5. CASE r.kind = "copy" /\ ~ \E j \in i + 1 .. Len(m) : m[j].kind = "resize"
  <2>1. Paint(f, r) = ApplyCopy(f, r) /\ Paint(g, r) = ApplyCopy(g, r)
    BY <1>5, PaintKinds
  <2>2. Spread(d, r) = (d \ Span(r.x, r.w)) \cup {p \in Span(r.x, r.w) : p - r.x + r.src \in d}
    BY <1>5, SpreadKinds
  <2>3. DOMAIN f = DOMAIN g /\ \A p \in DOMAIN f : p \in d \/ f[p] = g[p]
    BY <1>3, <1>5
  <2>4. DOMAIN Paint(f, r) = DOMAIN f /\ DOMAIN Paint(g, r) = DOMAIN f
    BY <2>1, <2>3 DEF ApplyCopy
  <2>5. ASSUME NEW p \in DOMAIN f
        PROVE  p \in Spread(d, r) \/ Paint(f, r)[p] = Paint(g, r)[p]
    <3>1. CASE p \notin Span(r.x, r.w)
      BY <2>1, <2>2, <2>3, <3>1 DEF ApplyCopy
    <3>2. CASE p \in Span(r.x, r.w)
      <4>1. Paint(f, r)[p] = f[p - r.x + r.src] /\ Paint(g, r)[p] = g[p - r.x + r.src]
        BY <2>1, <2>3, <3>2 DEF ApplyCopy
      <4>2. p - r.x + r.src \in DOMAIN g
        <5>1. Span(r.src, r.w) \subseteq DOMAIN g
          BY <1>5 DEF Fits
        <5>2. r.x \in Nat /\ r.w \in Nat /\ r.src \in Nat
          BY <1>5, RectsAssumption
        <5>3. p - r.x + r.src \in Span(r.src, r.w)
          BY <3>2, <5>2 DEF Span
        <5>4. QED
          BY <5>1, <5>3
      <4>3. QED
        BY <2>2, <2>3, <3>2, <4>1, <4>2
    <3>3. QED
      BY <3>1, <3>2
  <2>6. QED
    BY <2>4, <2>5 DEF Strays
<1>6. CASE ~Painted(r) /\ ~ \E j \in i + 1 .. Len(m) : m[j].kind = "resize"
  <2>1. Paint(f, r) = f /\ Paint(g, r) = g /\ Spread(d, r) = d
    BY <1>6, PaintKinds, SpreadKinds
  <2>2. DOMAIN f = DOMAIN g /\ \A p \in DOMAIN f : p \in d \/ f[p] = g[p]
    BY <1>3, <1>6 DEF Painted
  <2>3. QED
    BY <2>1, <2>2 DEF Strays
<1>7. QED
  BY <1>1, <1>2, <1>4, <1>5, <1>6 DEF Painted

\* So the whole of m makes the same of f and of g, but for what it leaves in doubt.
LEMMA StraysAtTheEnd ==
  ASSUME NEW f, NEW g, NEW m \in Updates(g), NEW d, Strays(f, g, m, 0, d)
  PROVE  LET a == Reference(f, m)
             b == Reference(g, m)
         IN  DOMAIN a = DOMAIN b /\ \A p \in DOMAIN a : p \in Doubts(d, m)[Len(m)] \/ a[p] = b[p]
<1> DEFINE n == Len(m)
           S == {i \in 0 .. n : Strays(Screens(f, m)[i], Screens(g, m)[i], m, i, Doubts(d, m)[i])}
<1>1. n \in Nat /\ m \in Seq(Rects)
  BY UpdatesAreMessages
<1>2. 0 \in S
  BY <1>1, ScreensStep, DoubtsStep
<1>3. ASSUME NEW i \in 1 .. n, i - 1 \in S PROVE i \in S
  <2>1. /\ Screens(f, m)[i] = Paint(Screens(f, m)[i - 1], m[i])
        /\ Screens(g, m)[i] = Paint(Screens(g, m)[i - 1], m[i])
        /\ Doubts(d, m)[i] = Spread(Doubts(d, m)[i - 1], m[i])
    BY <1>1, ScreensStep, DoubtsStep
  <2>2. Strays(Screens(f, m)[i - 1], Screens(g, m)[i - 1], m, i - 1, Doubts(d, m)[i - 1])
    BY <1>3
  <2>3. Fits(Screens(g, m)[i - 1], m[i]) /\ ~(Has(m, "copy") /\ Has(m, "resize"))
    BY DEF Updates
  <2>4. QED
    BY <1>1, <2>1, <2>2, <2>3, PaintStrays
<1>4. n \in S
  <2>1. 0 .. n \subseteq S
    <3> HIDE DEF S
    <3>1. QED
      BY <1>1, <1>2, <1>3, UpTo
  <2>2. QED
    BY <1>1, <2>1
<1>5. Strays(Screens(f, m)[n], Screens(g, m)[n], m, n, Doubts(d, m)[n])
  BY <1>4
<1>6. QED
  BY <1>1, <1>5 DEF Strays, Reference

\* The first k rectangles of m stray from where they paint nowhere.
LEMMA PrefixStrays ==
  ASSUME NEW f, NEW g, NEW m, Len(m) \in Nat, NEW k \in 0 .. Len(m), NEW d,
         Strays(f, g, m, 0, d), Ahead(m, k) \subseteq d
  PROVE  Strays(Screens(f, m)[k], g, m, 0, d)
<1> DEFINE S == {i \in 0 .. k : Strays(Screens(f, m)[i], g, m, 0, d)}
<1>1. 0 \in S
  BY ScreensStep
<1>2. ASSUME NEW i \in 1 .. k, i - 1 \in S PROVE i \in S
  <2> DEFINE h == Screens(f, m)[i - 1]
             r == m[i]
  <2>1. Screens(f, m)[i] = Paint(h, r)
    BY ScreensStep
  <2>2. Strays(h, g, m, 0, d)
    BY <1>2
  <2>3. i \in 0 + 1 .. Len(m)
    OBVIOUS
  <2>4. r.kind \in {"raw", "copy"} => Span(r.x, r.w) \subseteq d
    BY DEF Ahead
  <2> HIDE DEF h
  <2>5. Strays(Paint(h, r), g, m, 0, d)
    <3>1. CASE \E j \in 0 + 1 .. Len(m) : m[j].kind = "resize"
      BY <3>1 DEF Strays
    <3>2. CASE r.kind \in {"raw", "copy"} /\ ~ \E j \in 0 + 1 .. Len(m) : m[j].kind = "resize"
      <4>1. DOMAIN h = DOMAIN g /\ \A p \in DOMAIN h : p \in d \/ h[p] = g[p]
        BY <2>2, <3>2 DEF Strays
      <4>2. /\ DOMAIN Paint(h, r) = DOMAIN h
            /\ \A p \in DOMAIN h : p \in Span(r.x, r.w) \/ Paint(h, r)[p] = h[p]
        BY <3>2, PaintKinds DEF ApplyRaw, ApplyCopy
      <4>3. QED
        BY <2>4, <3>2, <4>1, <4>2 DEF Strays
    <3>3. CASE ~Painted(r)
      BY <2>2, <3>3, PaintKinds
    <3>4. QED
      BY <2>3, <3>1, <3>2, <3>3 DEF Painted
  <2>6. QED
    BY <2>1, <2>5
<1>3. 0 .. k \subseteq S
  <2> HIDE DEF S
  <2>1. k \in Nat
    OBVIOUS
  <2>2. QED
    BY <1>1, <1>2, <2>1, UpTo
<1>4. QED
  BY <1>3

LEMMA StraysMore ==
  ASSUME NEW f, NEW g, NEW m, NEW d, NEW e, d \subseteq e, Strays(f, g, m, 0, d)
  PROVE  Strays(f, g, m, 0, e)
  BY DEF Strays

-----------------------------------------------------------------------------
(* The inductive invariant *)

Shape ==
  /\ Session(client)
  /\ link \in {"open", "closing", "closed"}
  /\ msg \in Seq(Rects) /\ Len(msg) <= MaxRects
  /\ got \in 0 .. MaxRects /\ (msg = <<>> => got = 0)
  /\ Frame(ideal)
  /\ sent \in 0 .. MaxMessages
  /\ asked \in BOOLEAN
  /\ srvCont \in Nat
  /\ seen = [fb |-> seen.fb, seq |-> seen.seq]
  /\ seen.seq \in 0 .. client.seq
  /\ base \in [Waiter -> {-1} \cup (0 .. client.seq)]
  /\ doubt \subseteq Int

SeenInv ==
  /\ client.seq = seen.seq => client.fb = seen.fb
  /\ link = "open" => Covers(client, seen.fb)

\* A waiter is behind only while a message that paints is arriving.
WaitInv ==
  link = "open" /\ (\A i \in 1 .. Len(msg) : ~Painted(msg[i]))
    => \A w \in Waiter : base[w] \in {-1, client.seq}

\* The server pushes only for a client that knows, and for its present width.
PushInv == srvCont > 0 => client.cont /\ srvCont = WidthOf(client.fb)

\* The message that is arriving was sent for a screen f and makes ideal of it;
\* the client strays from f at most where there is doubt and where the rectangles
\* that have arrived paint.
FrameInv ==
  link = "open" =>
    IF msg = <<>>
    THEN DOMAIN client.fb = DOMAIN ideal /\ \A p \in DOMAIN ideal : p \in doubt \/ client.fb[p] = ideal[p]
    ELSE \E f : /\ msg \in Updates(f) /\ ideal = Reference(f, msg)
                /\ Strays(client.fb, f, msg, 0, doubt \cup Ahead(msg, got))

IInv == Shape /\ SeenInv /\ WaitInv /\ NeverStarved /\ PushInv

LEMMA ShapeIsTyped == Shape => TypeOK
<1>1. SUFFICES ASSUME Shape PROVE TypeOK
  OBVIOUS
<1>2. DOMAIN client.fb = 0 .. WidthOf(client.fb) - 1 /\ client.seq \in Nat /\ client.cont \in BOOLEAN
  BY <1>1 DEF Shape, Session, Frame
<1>3. /\ Len(client.dirty) <= Cap
      /\ \A i \in 1 .. Len(client.dirty) : client.dirty[i] \in DirtyRect
  BY <1>1 DEF Shape, Session
<1>4. \A i \in 1 .. Len(client.dirty) : client.dirty[i].x \in Nat /\ client.dirty[i].w \in Nat \ {0}
  BY <1>3 DEF DirtyRect
<1>5. msg \in BoundedSeq(Rects, MaxRects)
  BY <1>1, BoundedMessages DEF Shape
<1>6. DOMAIN ideal = 0 .. WidthOf(ideal) - 1
  BY <1>1 DEF Shape, Frame
<1>7. QED
  BY <1>1, <1>2, <1>3, <1>4, <1>5, <1>6 DEF Shape, TypeOK

\* What a chunk does to the session.
LEMMA ChunkApplies ==
  ASSUME Shape, NEW k \in 1 .. MaxRects, Chunk(k)
  PROVE  /\ k \in 1 .. Len(msg) /\ Len(msg) \in Nat /\ msg # <<>>
         /\ Session(client')
         /\ Later(client, client')
         /\ \A f : Covers(client, f) => Covers(client', f)
         /\ client'.fb = Screens(client.fb, msg)[k]
         /\ (\A i \in 1 .. Len(msg) : ~Painted(msg[i])) => client'.seq = client.seq
<1>1. msg \in Seq(Rects) /\ Session(client)
  BY DEF Shape
<1>2. Len(msg) \in Nat
  BY <1>1
<1>3. k \in 1 .. Len(msg) /\ k \in 0 .. Len(msg)
  BY <1>2, BoundsAssumption DEF Chunk, Shape
<1>4. client' = Rounds(client, msg)[k]
  BY DEF Chunk, Parsed
<1>5. msg # <<>>
  BY <1>3
<1>6. /\ Session(client') /\ Later(client, client')
      /\ \A f : Covers(client, f) => Covers(client', f)
  BY <1>1, <1>3, <1>4, RoundsKeep
<1>7. client'.fb = Screens(client.fb, msg)[k]
  BY <1>2, <1>3, <1>4, RoundsShow
<1>8. (\A i \in 1 .. Len(msg) : ~Painted(msg[i])) => client'.seq = client.seq
  BY <1>2, <1>3, <1>4, RoundsUnpainted
<1>9. QED
  BY <1>2, <1>3, <1>5, <1>6, <1>7, <1>8

\* Consuming and disconnecting empty the list of dirty rectangles, no more.
LEMMA EmptiedIsSession ==
  ASSUME Session(client), client' = [client EXCEPT !.dirty = <<>>]
  PROVE  /\ Session(client')
         /\ client'.fb = client.fb /\ client'.seq = client.seq /\ client'.cont = client.cont
<1>1. client' = [fb |-> client.fb, seq |-> client.seq, dirty |-> <<>>, cont |-> client.cont]
  BY DEF Session
<1>2. /\ client'.fb = client.fb /\ client'.seq = client.seq /\ client'.cont = client.cont
      /\ client'.dirty = <<>>
  BY <1>1
<1>3. client' = [fb |-> client'.fb, seq |-> client'.seq, dirty |-> client'.dirty, cont |-> client'.cont]
  BY <1>1, <1>2
<1>4. <<>> \in Seq(DirtyRect) /\ Len(<<>>) = 0
  OBVIOUS
<1>5. client'.dirty \in Seq(DirtyRect) /\ Len(client'.dirty) <= Cap
  BY <1>2, <1>4, BoundsAssumption
<1>6. QED
  BY <1>2, <1>3, <1>5 DEF Session

-----------------------------------------------------------------------------
(* Every variable keeps its shape *)

LEMMA ShapeInit == Init => Shape
<1>1. SUFFICES ASSUME Init PROVE Shape
  OBVIOUS
<1>2. Frame(Blank(Width))
  BY BlankIsFrame, WidthAssumption
<1>3. client = [fb |-> Blank(Width), seq |-> 0, dirty |-> <<>>, cont |-> FALSE]
  BY <1>1 DEF Init, InitClient
<1>4. client.fb = Blank(Width) /\ client.seq = 0 /\ client.dirty = <<>> /\ client.cont = FALSE
  BY <1>3
<1>5. <<>> \in Seq(DirtyRect) /\ Len(<<>>) = 0
  OBVIOUS
<1>6. Session(client)
  BY <1>2, <1>3, <1>4, <1>5, BoundsAssumption DEF Session
<1>7. seen = [fb |-> seen.fb, seq |-> seen.seq] /\ seen.seq = 0
  BY <1>1 DEF Init
<1>8. base \in [Waiter -> {-1} \cup (0 .. client.seq)]
  BY <1>1, <1>4 DEF Init
<1>9. msg \in Seq(Rects) /\ Len(msg) = 0
  BY <1>1 DEF Init
<1>10. QED
  BY <1>1, <1>2, <1>6, <1>4, <1>7, <1>8, <1>9, BoundsAssumption DEF Shape, Init

\* Waiters stay typed when the number of the frame grows.
LEMMA WaitersStayTyped ==
  ASSUME NEW m \in Nat, NEW n \in Nat, m <= n,
         NEW b \in [Waiter -> {-1} \cup (0 .. m)]
  PROVE  b \in [Waiter -> {-1} \cup (0 .. n)]
<1>1. {-1} \cup (0 .. m) \subseteq {-1} \cup (0 .. n)
  OBVIOUS
<1>2. QED
  BY <1>1

LEMMA ShapeChunk ==
  ASSUME Shape, NEW k \in 1 .. MaxRects, Chunk(k)
  PROVE  Shape'
<1>1. /\ k \in 1 .. Len(msg) /\ msg # <<>>
      /\ Session(client') /\ Later(client, client')
  BY ChunkApplies
<1>2. /\ client.seq \in Nat /\ client'.seq \in Nat /\ client.seq <= client'.seq
      /\ client.cont \in BOOLEAN
  BY <1>1 DEF Session, Later, Shape
<1>3. base \in [Waiter -> {-1} \cup (0 .. client'.seq)]
  BY <1>2, WaitersStayTyped DEF Shape
<1>4. Woken(client'.seq) \in [Waiter -> {-1} \cup (0 .. client'.seq)]
  BY <1>3 DEF Woken
<1>5. srvCont' \in Nat
  <2>1. WidthOf(client'.fb) \in Nat
    BY <1>1 DEF Session, Frame
  <2>2. srvCont' \in {WidthOf(client'.fb), srvCont}
    BY DEF Chunk, Enabled
  <2>3. QED
    BY <2>1, <2>2 DEF Shape
<1>6. seen' = seen /\ seen.seq \in 0 .. client'.seq
  BY <1>2 DEF Chunk, Shape
<1>7. CASE k = Len(msg)
  <2>1. Completed(client')
    BY <1>7 DEF Chunk
  <2>2. msg' = <<>> /\ got' = 0 /\ asked' = TRUE /\ base' \in {base, Woken(client'.seq)}
    BY <2>1 DEF Completed
  <2>3. msg' \in Seq(Rects) /\ Len(msg') = 0
    BY <2>2
  <2>4. UNCHANGED <<link, ideal, sent>>
    BY DEF Chunk
  <2>5. doubt' \subseteq Int
    <3>1. doubt' = Doubts(doubt \cup Ahead(msg, got), msg)[Len(msg)]
      BY <2>1 DEF Completed
    <3>2. doubt \cup Ahead(msg, got) \subseteq Int /\ Len(msg) \in Nat /\ Len(msg) \in 0 .. Len(msg)
      BY AheadIsPlaces DEF Shape
    <3>3. QED
      BY <3>1, <3>2, DoubtsArePlaces
  <2>6. QED
    BY <1>1, <1>3, <1>4, <1>5, <1>6, <2>2, <2>3, <2>4, <2>5, BoundsAssumption DEF Shape
<1>8. CASE k # Len(msg)
  <2>1. got' = k /\ UNCHANGED <<msg, asked, base, doubt>>
    BY <1>8 DEF Chunk
  <2>2. UNCHANGED <<link, ideal, sent>>
    BY DEF Chunk
  <2>3. got' \in 0 .. MaxRects
    BY <2>1, BoundsAssumption
  <2>4. QED
    BY <1>1, <1>3, <1>5, <1>6, <2>1, <2>2, <2>3 DEF Shape
<1>9. QED
  BY <1>7, <1>8

LEMMA ShapeStep == Shape /\ [Next]_vars => Shape'
<1>1. SUFFICES ASSUME Shape, [Next]_vars PROVE Shape'
  OBVIOUS
<1>2. CASE ServerUpdates
  <2>1. PICK m \in Updates(ideal) : msg' = m /\ ideal' = Reference(ideal, m)
    BY <1>2 DEF ServerUpdates
  <2>2. m \in Seq(Rects) /\ Len(m) <= MaxRects /\ m # <<>>
    BY <2>1, UpdatesAreMessages
  <2>3. Frame(ideal')
    <3>1. Len(m) \in 0 .. Len(m) /\ Frame(ideal)
      BY <1>1, <2>2 DEF Shape
    <3>2. QED
      BY <2>1, <2>2, <3>1, ScreensAreFrames DEF Reference
  <2>4. sent' \in 0 .. MaxMessages
    BY <1>1, <1>2, BoundsAssumption DEF ServerUpdates, Shape
  <2>5. QED
    BY <1>1, <1>2, <2>1, <2>2, <2>3, <2>4 DEF ServerUpdates, Shape
<1>3. ASSUME NEW k \in 1 .. MaxRects, Chunk(k) PROVE Shape'
  BY <1>1, <1>3, ShapeChunk
<1>4. CASE Consume
  <2>1. /\ Session(client')
        /\ client'.fb = client.fb /\ client'.seq = client.seq /\ client'.cont = client.cont
    BY <1>1, <1>4, EmptiedIsSession DEF Consume, Shape
  <2>2. seen' = [fb |-> seen'.fb, seq |-> seen'.seq] /\ seen'.seq = client.seq
    BY <1>4 DEF Consume
  <2>3. seen'.seq \in 0 .. client'.seq
    BY <1>1, <2>1, <2>2 DEF Shape, Session
  <2>4. QED
    BY <1>1, <1>4, <2>1, <2>2, <2>3 DEF Consume, Shape
<1>5. CASE RequestFullUpdate
  BY <1>1, <1>5 DEF RequestFullUpdate, Shape
<1>6. ASSUME NEW w \in Waiter, StartWait(w) \/ WaitTimesOut(w) PROVE Shape'
  <2>1. client.seq \in Nat
    BY <1>1 DEF Shape, Session
  <2>2. base' \in [Waiter -> {-1} \cup (0 .. client.seq)]
    BY <1>1, <1>6, <2>1 DEF StartWait, WaitTimesOut, Shape
  <2>3. UNCHANGED <<client, link, msg, got, ideal, sent, asked, srvCont, seen, doubt>>
    BY <1>6 DEF StartWait, WaitTimesOut
  <2>4. QED
    BY <1>1, <2>2, <2>3 DEF Shape
<1>7. CASE Disconnect
  <2>1. /\ Session(client')
        /\ client'.fb = client.fb /\ client'.seq = client.seq /\ client'.cont = client.cont
    BY <1>1, <1>7, EmptiedIsSession DEF Disconnect, Shape
  <2>2. msg' \in Seq(Rects) /\ Len(msg') = 0 /\ got' = 0
    BY <1>7 DEF Disconnect
  <2>3. QED
    BY <1>1, <1>7, <2>1, <2>2, BoundsAssumption DEF Disconnect, Shape
<1>8. CASE PeerCloses
  BY <1>1, <1>8 DEF PeerCloses, Shape
<1>9. CASE CloseEvent
  <2>1. base' \in [Waiter -> {-1} \cup (0 .. client.seq)]
    BY <1>9 DEF CloseEvent
  <2>2. QED
    BY <1>1, <1>9, <2>1 DEF CloseEvent, Shape
<1>10. CASE UNCHANGED vars
  BY <1>1, <1>10 DEF vars, Shape
<1>11. QED
  BY <1>1, <1>2, <1>3, <1>4, <1>5, <1>6, <1>7, <1>8, <1>9, <1>10 DEF Next

-----------------------------------------------------------------------------
(* What was seen, and what is dirty *)

LEMMA SeenStep == Shape /\ SeenInv /\ [Next]_vars => SeenInv'
<1>1. SUFFICES ASSUME Shape, SeenInv, [Next]_vars PROVE SeenInv'
  OBVIOUS
<1>2. CASE UNCHANGED <<client, seen>> /\ (link' = "open" => link = "open")
  BY <1>1, <1>2 DEF SeenInv
<1>3. ASSUME NEW k \in 1 .. MaxRects, Chunk(k) PROVE SeenInv'
  <2>1. /\ Session(client') /\ Later(client, client')
        /\ \A f : Covers(client, f) => Covers(client', f)
    BY <1>1, <1>3, ChunkApplies
  <2>2. seen' = seen /\ link' = link
    BY <1>3 DEF Chunk
  <2>3. client'.seq = seen.seq => client'.fb = seen.fb
    <3>1. seen.seq <= client.seq /\ client.seq \in Nat /\ client'.seq \in Nat /\ seen.seq \in Nat
      BY <1>1, <2>1 DEF Shape, Session
    <3>2. QED
      BY <1>1, <2>1, <3>1 DEF Later, SeenInv
  <2>4. QED
    BY <1>1, <2>1, <2>2, <2>3 DEF SeenInv
<1>4. CASE Consume
  <2>1. client'.fb = client.fb /\ client'.seq = client.seq
    BY <1>1, <1>4, EmptiedIsSession DEF Consume, Shape
  <2>2. seen'.fb = client.fb /\ seen'.seq = client.seq
    BY <1>4 DEF Consume
  <2>3. Covers(client', seen'.fb)
    BY <2>1, <2>2 DEF Covers
  <2>4. QED
    BY <2>1, <2>2, <2>3 DEF SeenInv
<1>5. CASE Disconnect
  <2>1. client'.fb = client.fb /\ client'.seq = client.seq
    BY <1>1, <1>5, EmptiedIsSession DEF Disconnect, Shape
  <2>2. seen' = seen /\ link' # "open"
    BY <1>5 DEF Disconnect
  <2>3. QED
    BY <1>1, <2>1, <2>2 DEF SeenInv
<1>6. QED
  BY <1>1, <1>2, <1>3, <1>4, <1>5
     DEF Next, vars, ServerUpdates, RequestFullUpdate, StartWait, WaitTimesOut, PeerCloses, CloseEvent

-----------------------------------------------------------------------------
(* Waiters *)

LEMMA WaitStep == Shape /\ WaitInv /\ [Next]_vars => WaitInv'
<1>1. SUFFICES ASSUME Shape, WaitInv, [Next]_vars PROVE WaitInv'
  OBVIOUS
<1>2. CASE link' # "open"
  BY <1>2 DEF WaitInv
<1>3. CASE ServerUpdates
  <2>1. msg = <<>> /\ UNCHANGED <<client, link, base>>
    BY <1>3 DEF ServerUpdates
  <2>2. \A i \in 1 .. Len(msg) : ~Painted(msg[i])
    BY <2>1
  <2>3. QED
    BY <1>1, <2>1, <2>2 DEF WaitInv
<1>4. ASSUME NEW k \in 1 .. MaxRects, Chunk(k) PROVE WaitInv'
  <2>1. /\ Len(msg) \in Nat /\ Session(client') /\ Later(client, client')
        /\ (\A i \in 1 .. Len(msg) : ~Painted(msg[i])) => client'.seq = client.seq
    BY <1>1, <1>4, ChunkApplies
  <2>2. link' = link /\ link = "open"
    BY <1>4 DEF Chunk
  <2>3. CASE \A i \in 1 .. Len(msg) : ~Painted(msg[i])
    <3>1. \A w \in Waiter : base[w] \in {-1, client'.seq}
      BY <1>1, <2>1, <2>2, <2>3 DEF WaitInv
    <3>2. base' = base
      BY <1>4, <2>3 DEF Chunk, Completed
    <3>3. QED
      BY <3>1, <3>2 DEF WaitInv
  <2>4. CASE k = Len(msg) /\ \E i \in 1 .. Len(msg) : Painted(msg[i])
    <3>1. base' = Woken(client'.seq)
      BY <1>4, <2>4 DEF Chunk, Completed
    <3>2. client.seq <= client'.seq /\ client.seq \in Nat /\ client'.seq \in Nat
      BY <1>1, <2>1 DEF Later, Shape, Session
    <3>3. \A w \in Waiter : base[w] \in {-1} \cup (0 .. client.seq)
      BY <1>1 DEF Shape
    <3>4. \A w \in Waiter : base'[w] \in {-1, client'.seq}
      BY <3>1, <3>2, <3>3 DEF Woken
    <3>5. QED
      BY <3>4 DEF WaitInv
  <2>5. CASE k # Len(msg) /\ \E i \in 1 .. Len(msg) : Painted(msg[i])
    <3>1. msg' = msg
      BY <1>4, <2>5 DEF Chunk
    <3>2. QED
      BY <2>5, <3>1 DEF WaitInv
  <2>6. QED
    BY <2>3, <2>4, <2>5
<1>5. CASE Consume
  <2>1. client'.seq = client.seq
    BY <1>1, <1>5, EmptiedIsSession DEF Consume, Shape
  <2>2. QED
    BY <1>1, <1>5, <2>1 DEF Consume, WaitInv
<1>6. CASE RequestFullUpdate
  BY <1>1, <1>6 DEF RequestFullUpdate, WaitInv
<1>7. ASSUME NEW w \in Waiter, StartWait(w) \/ WaitTimesOut(w) PROVE WaitInv'
  <2>1. /\ UNCHANGED <<client, link, msg>>
        /\ \A v \in Waiter : base'[v] \in {base[v], -1, client.seq}
    BY <1>1, <1>7 DEF StartWait, WaitTimesOut, Shape
  <2>2. QED
    BY <1>1, <2>1 DEF WaitInv
<1>8. CASE UNCHANGED vars
  BY <1>1, <1>8 DEF vars, WaitInv
<1>9. QED
  BY <1>1, <1>2, <1>3, <1>4, <1>5, <1>6, <1>7, <1>8
     DEF Next, Disconnect, PeerCloses, CloseEvent

-----------------------------------------------------------------------------
(* Client and server *)

LEMMA StarvedStep == Shape /\ NeverStarved /\ [Next]_vars => NeverStarved'
<1>1. SUFFICES ASSUME Shape, NeverStarved, [Next]_vars PROVE NeverStarved'
  OBVIOUS
<1>2. CASE link' # "open"
  BY <1>2 DEF NeverStarved
<1>3. CASE ServerUpdates
  <2>1. msg' # <<>>
    BY <1>3, UpdatesAreMessages DEF ServerUpdates
  <2>2. QED
    BY <2>1 DEF NeverStarved
<1>4. ASSUME NEW k \in 1 .. MaxRects, Chunk(k) PROVE NeverStarved'
  <2>1. msg # <<>>
    BY <1>1, <1>4, ChunkApplies
  <2>2. asked' \/ msg' # <<>>
    BY <1>4, <2>1 DEF Chunk, Completed
  <2>3. QED
    BY <2>2 DEF NeverStarved
<1>5. CASE UNCHANGED <<link, msg, asked, srvCont>>
  BY <1>1, <1>5 DEF NeverStarved
<1>6. CASE RequestFullUpdate
  BY <1>6 DEF RequestFullUpdate, NeverStarved
<1>7. QED
  BY <1>1, <1>2, <1>3, <1>4, <1>5, <1>6
     DEF Next, vars, Consume, StartWait, WaitTimesOut, Disconnect, PeerCloses, CloseEvent

LEMMA PushStep == Shape /\ PushInv /\ [Next]_vars => PushInv'
<1>1. SUFFICES ASSUME Shape, PushInv, [Next]_vars PROVE PushInv'
  OBVIOUS
<1>2. ASSUME client'.fb = client.fb, client'.cont = client.cont, srvCont' = srvCont
      PROVE  PushInv'
  BY <1>1, <1>2 DEF PushInv
<1>3. ASSUME NEW k \in 1 .. MaxRects, Chunk(k) PROVE PushInv'
  <2> DEFINE resized == \E i \in 1 .. k : msg[i].kind = "resize"
  <2>1. /\ k \in 1 .. Len(msg) /\ Len(msg) \in Nat
        /\ Later(client, client') /\ client'.fb = Screens(client.fb, msg)[k]
    BY <1>1, <1>3, ChunkApplies
  <2>2. srvCont' = IF client'.cont /\ (~client.cont \/ resized) THEN WidthOf(client'.fb) ELSE srvCont
    BY <1>3 DEF Chunk, Enabled
  <2>3. CASE client'.cont /\ (~client.cont \/ resized)
    BY <2>2, <2>3 DEF PushInv
  <2>4. CASE ~(client'.cont /\ (~client.cont \/ resized))
    <3>1. SUFFICES ASSUME srvCont > 0 PROVE client'.cont /\ srvCont = WidthOf(client'.fb)
      BY <2>2, <2>4 DEF PushInv
    <3>2. client.cont /\ srvCont = WidthOf(client.fb)
      BY <1>1, <3>1 DEF PushInv
    <3>3. client'.cont
      BY <2>1, <3>2 DEF Later
    <3>4. ~resized
      BY <2>4, <3>2, <3>3
    <3>5. k \in 0 .. Len(msg)
      BY <2>1
    <3>6. DOMAIN client'.fb = DOMAIN client.fb
      BY <2>1, <3>4, <3>5, ScreensKeepWidth
    <3>7. QED
      BY <3>2, <3>3, <3>6 DEF WidthOf
  <2>5. QED
    BY <2>3, <2>4
<1>4. CASE Consume
  BY <1>1, <1>2, <1>4, EmptiedIsSession DEF Consume, Shape
<1>5. CASE Disconnect
  BY <1>1, <1>2, <1>5, EmptiedIsSession DEF Disconnect, Shape
<1>6. CASE UNCHANGED <<client, srvCont>>
  BY <1>2, <1>6
<1>7. QED
  BY <1>1, <1>3, <1>4, <1>5, <1>6
     DEF Next, vars, ServerUpdates, RequestFullUpdate, StartWait, WaitTimesOut, PeerCloses, CloseEvent

-----------------------------------------------------------------------------
(* The screen *)

LEMMA FrameChunk ==
  ASSUME Shape, FrameInv, NEW k \in 1 .. MaxRects, Chunk(k)
  PROVE  FrameInv'
<1>1. /\ k \in 1 .. Len(msg) /\ Len(msg) \in Nat /\ msg # <<>>
      /\ client'.fb = Screens(client.fb, msg)[k]
  BY ChunkApplies
<1>2. link = "open" /\ link' = link /\ ideal' = ideal
  BY DEF Chunk
<1>3. PICK f : /\ msg \in Updates(f) /\ ideal = Reference(f, msg)
               /\ Strays(client.fb, f, msg, 0, doubt \cup Ahead(msg, got))
  BY <1>1, <1>2 DEF FrameInv
<1>4. CASE k = Len(msg)
  <2> DEFINE d == Doubts(doubt \cup Ahead(msg, got), msg)[Len(msg)]
  <2>1. client'.fb = Reference(client.fb, msg)
    BY <1>1, <1>4 DEF Reference
  <2>2. /\ DOMAIN Reference(client.fb, msg) = DOMAIN ideal
        /\ \A p \in DOMAIN ideal : p \in d \/ Reference(client.fb, msg)[p] = ideal[p]
    BY <1>3, StraysAtTheEnd
  <2>3. msg' = <<>> /\ doubt' = d
    BY <1>4 DEF Chunk, Completed
  <2> HIDE DEF d
  <2>4. QED
    BY <1>2, <2>1, <2>2, <2>3 DEF FrameInv
<1>5. CASE k # Len(msg)
  <2> DEFINE d == doubt \cup Ahead(msg, k)
  <2>1. msg' = msg /\ got' = k /\ doubt' = doubt
    BY <1>5 DEF Chunk
  <2>2. k \in 0 .. Len(msg) /\ k \in Nat /\ got \in Nat /\ got <= k
    BY <1>1 DEF Chunk, Shape
  <2>3. doubt \cup Ahead(msg, got) \subseteq d /\ Ahead(msg, k) \subseteq d
    BY <2>2, AheadGrows
  <2> HIDE DEF d
  <2>4. Strays(client.fb, f, msg, 0, d)
    BY <1>3, <2>3, StraysMore
  <2>5. Strays(client'.fb, f, msg, 0, d)
    BY <1>1, <2>2, <2>3, <2>4, PrefixStrays
  <2>6. d = doubt' \cup Ahead(msg', got')
    BY <2>1 DEF d
  <2>7. QED
    BY <1>1, <1>2, <1>3, <2>1, <2>5, <2>6 DEF FrameInv
<1>6. QED
  BY <1>4, <1>5

LEMMA FrameStep == Shape /\ FrameInv /\ [Next]_vars => FrameInv'
<1>1. SUFFICES ASSUME Shape, FrameInv, [Next]_vars PROVE FrameInv'
  OBVIOUS
<1>2. CASE ServerUpdates
  <2>1. PICK m \in Updates(ideal) : msg' = m /\ ideal' = Reference(ideal, m)
    BY <1>2 DEF ServerUpdates
  <2>2. msg' # <<>>
    BY <2>1, UpdatesAreMessages
  <2>3. client' = client /\ link = "open" /\ msg = <<>> /\ got' = got /\ doubt' = doubt
    BY <1>2 DEF ServerUpdates
  <2>4. DOMAIN client.fb = DOMAIN ideal /\ \A p \in DOMAIN ideal : p \in doubt \/ client.fb[p] = ideal[p]
    BY <1>1, <2>3 DEF FrameInv
  <2>5. Strays(client'.fb, ideal, msg', 0, doubt' \cup Ahead(msg', got'))
    BY <2>3, <2>4 DEF Strays
  <2>6. QED
    BY <2>1, <2>2, <2>5 DEF FrameInv
<1>3. ASSUME NEW k \in 1 .. MaxRects, Chunk(k) PROVE FrameInv'
  BY <1>1, <1>3, FrameChunk
<1>4. ASSUME client'.fb = client.fb, UNCHANGED <<msg, got, ideal, doubt>>, link' = "open" => link = "open"
      PROVE  FrameInv'
  BY <1>1, <1>4 DEF FrameInv
<1>5. CASE Consume
  BY <1>1, <1>4, <1>5, EmptiedIsSession DEF Consume, Shape
<1>6. CASE Disconnect
  BY <1>6 DEF Disconnect, FrameInv
<1>7. QED
  BY <1>1, <1>2, <1>3, <1>4, <1>5, <1>6
     DEF Next, vars, RequestFullUpdate, StartWait, WaitTimesOut, PeerCloses, CloseEvent

-----------------------------------------------------------------------------
(* The theorems *)

LEMMA InitIInv == Init => IInv
<1>1. SUFFICES ASSUME Init PROVE IInv
  OBVIOUS
<1>2. client.fb = Blank(Width) /\ client.seq = 0 /\ seen.fb = Blank(Width) /\ seen.seq = 0
  BY <1>1 DEF Init, InitClient
<1>3. SeenInv
  BY <1>2 DEF SeenInv, Covers
<1>4. WaitInv
  BY <1>1 DEF Init, WaitInv
<1>5. NeverStarved /\ PushInv
  BY <1>1 DEF Init, NeverStarved, PushInv
<1>6. QED
  BY <1>1, <1>3, <1>4, <1>5, ShapeInit DEF IInv

THEOREM Invariance == Spec => []IInv
<1>1. IInv /\ [Next]_vars => IInv'
  BY ShapeStep, SeenStep, WaitStep, StarvedStep, PushStep DEF IInv
<1>2. QED
  BY <1>1, InitIInv, PTL DEF Spec

\* TypeOK: every variable keeps its declared shape, and the list of dirty
\* rectangles its cap, however long nobody calls consumeDirtyRects.
THEOREM TypeCorrect == Spec => []TypeOK
<1>1. IInv => TypeOK
  BY ShapeIsTyped DEF IInv
<1>2. QED
  BY <1>1, Invariance, PTL

\* DirtyCovers: whatever was applied once or again, the rectangles that
\* consumeDirtyRects returns cover every pixel that has changed, and frames of
\* one number are one frame.
THEOREM DirtyRectsCover == Spec => []DirtyCovers
<1>1. IInv => DirtyCovers
  BY DEF IInv, SeenInv, Covers, DirtyCovers
<1>2. QED
  BY <1>1, Invariance, PTL

\* NoLostWakeup: between two messages no call of waitForUpdate waits for an
\* update that has been applied.
THEOREM NobodyOvertaken == Spec => []NoLostWakeup
<1>1. IInv => NoLostWakeup
  <2>1. SUFFICES ASSUME IInv, link = "open", msg = <<>>
                 PROVE  \A w \in Waiter : base[w] \in {-1, client.seq}
    BY DEF NoLostWakeup
  <2>2. \A i \in 1 .. Len(msg) : ~Painted(msg[i])
    BY <2>1
  <2>3. QED
    BY <2>1, <2>2 DEF IInv, WaitInv
<1>2. QED
  BY <1>1, Invariance, PTL

\* NeverStarved: handleFramebufferUpdate leaves a request outstanding.
THEOREM RequestOutstanding == Spec => []NeverStarved
<1>1. IInv => NeverStarved
  BY DEF IInv
<1>2. QED
  BY <1>1, Invariance, PTL

\* ContCovers: what the server pushes is as wide as the screen, whichever of
\* resize and ContinuousUpdates came first and in however many chunks.
THEOREM PushesCoverScreen == Spec => []ContCovers
<1>1. IInv => ContCovers
  BY DEF IInv, PushInv, ContCovers
<1>2. QED
  BY <1>1, Invariance, PTL

\* FaithfulPixels: however messages arrive, the screen is as wide as the server's,
\* and a pixel that is not as the server sent it was brought there by a CopyRect
\* that handleFramebufferUpdate applied again.
THEOREM PixelsAreTheServers == Spec => []FaithfulPixels
<1>1. Init => FrameInv
  BY DEF Init, InitClient, FrameInv
<1>2. IInv /\ FrameInv /\ [Next]_vars => FrameInv'
  BY FrameStep DEF IInv
<1>3. FrameInv => FaithfulPixels
  BY DEF FrameInv, FaithfulPixels
<1>4. QED
  BY <1>1, <1>2, <1>3, Invariance, PTL DEF Spec

=============================================================================
