-------------------------- MODULE HeldInput_proofs --------------------------
(***************************************************************************)
(* For every set of runs, keys and buttons, and every number of sessions:  *)
(* the variables keep their shape, a key or button that is down in the     *)
(* guest is known to whoever will lift it, and a text arrives once.        *)
(***************************************************************************)
EXTENDS HeldInput, TLAPS

USE ClientAssumption, ButtonAssumption, BoundAssumption

LEMMA InitTypes == Init => TypeOK
<1> SUFFICES ASSUME Init
             PROVE  TypeOK
  OBVIOUS
<1>0. connected \in BOOLEAN
  BY DEF Init
<1>1. epoch \in 0 .. MaxSessions /\ session \in [Client -> 0 .. MaxSessions]
  BY DEF Init
<1>2. texts \in [Client -> Seq(Client \cup {"old"})]
  BY DEF Init
<1>3. QED
  BY <1>0, <1>1, <1>2 DEF Init, TypeOK

LEMMA SessionTypes ==
  ASSUME TypeOK, NEW c \in Client, UseSession(c)
  PROVE  /\ epoch' \in 0 .. MaxSessions /\ connected' = TRUE
         /\ \/ epoch' = epoch
            \/ ~connected /\ epoch' = epoch + 1
<1>1. /\ connected' = TRUE
      /\ \/ epoch' = epoch
         \/ ~connected /\ epoch < MaxSessions /\ epoch' = epoch + 1
  BY DEF UseSession
<1>2. epoch' \in 0 .. MaxSessions
  BY <1>1 DEF TypeOK
<1>3. QED
  BY <1>1, <1>2

LEMMA RecordTypes ==
  ASSUME TypeOK, NEW c \in Client
  PROVE  /\ Recorded(c) \subseteq Key \cup Button
         /\ c \notin Tools => Record(c) \in Records /\ Recorded(c) = held[Record(c)]
  BY DEF TypeOK, Recorded, Record, Records, Client

LEMMA RememberTypes ==
  ASSUME TypeOK, NEW c \in Client, NEW s \in SUBSET (Key \cup Button), Remember(c, s)
  PROVE  held' \in [Records -> SUBSET (Key \cup Button)]
  BY RecordTypes DEF TypeOK, Remember

LEMMA MaskTypes ==
  ASSUME NEW s \in SUBSET (Key \cup Button), NEW m \in SUBSET (Key \cup Button)
  PROVE  WithMask(s, m) \in SUBSET (Key \cup Button)
  BY DEF WithMask

LEMMA KeyboardTypes ==
  ASSUME TypeOK, NEW c \in Client, Keyboard(c)
  PROVE  TypeOK'
<1>1. PICK k \in Key : KeyDown(c, k) \/ KeyUp(c, k) \/ Press(c, k)
  BY DEF Keyboard
<1>2. UseSession(c) /\ UNCHANGED <<pc, session, clipboard, asked, texts, abandoned>>
  BY <1>1 DEF KeyDown, KeyUp, Press, Steps, AtOnce
<1>3. guest' \subseteq Key \cup Button /\ held' \in [Records -> SUBSET (Key \cup Button)]
  <2>1. CASE KeyDown(c, k)
    BY <2>1, RecordTypes, RememberTypes DEF KeyDown, TypeOK
  <2>2. CASE KeyUp(c, k)
    BY <2>2, RecordTypes, RememberTypes DEF KeyUp, TypeOK
  <2>3. CASE Press(c, k)
    BY <2>3 DEF Press, TypeOK
  <2>4. QED
    BY <1>1, <2>1, <2>2, <2>3
<1>4. QED
  BY <1>2, <1>3, SessionTypes DEF TypeOK

LEMMA PointerTypes ==
  ASSUME TypeOK, NEW c \in Client, Pointer(c)
  PROVE  TypeOK'
<1>0. Recorded(c) \subseteq Key \cup Button
  BY RecordTypes
<1>1. ASSUME NEW b \in Button, MouseDown(c, b)
      PROVE  TypeOK'
  <2> DEFINE mask == (Recorded(c) \cap Button) \cup {b}
  <2>1. mask \in SUBSET (Key \cup Button) /\ WithMask(Recorded(c), mask) \in SUBSET (Key \cup Button)
    BY <1>0, MaskTypes
  <2>2. guest' \subseteq Key \cup Button /\ held' \in [Records -> SUBSET (Key \cup Button)]
    BY <1>1, <2>1, MaskTypes, RememberTypes DEF MouseDown, TypeOK
  <2>3. QED
    BY <1>1, <2>2, SessionTypes DEF MouseDown, Steps, AtOnce, TypeOK
<1>2. ASSUME NEW bs \in SUBSET Button, MouseUp(c, bs)
      PROVE  TypeOK'
  <2> DEFINE mask == (Recorded(c) \cap Button) \ bs
  <2>1. mask \in SUBSET (Key \cup Button) /\ WithMask(Recorded(c), mask) \in SUBSET (Key \cup Button)
    BY <1>0, MaskTypes
  <2>2. guest' \subseteq Key \cup Button /\ held' \in [Records -> SUBSET (Key \cup Button)]
    BY <1>2, <2>1, MaskTypes, RememberTypes DEF MouseUp, TypeOK
  <2>3. QED
    BY <1>2, <2>2, SessionTypes DEF MouseUp, Steps, AtOnce, TypeOK
<1>3. ASSUME NEW b \in Button, HoldClick(c, b)
      PROVE  TypeOK'
  BY <1>0, <1>3, SessionTypes DEF HoldClick, WithMask, Steps, Waits, Waiting, TypeOK
<1>4. ASSUME Point(c) \/ Scroll(c)
      PROVE  TypeOK'
  BY <1>0, <1>4, SessionTypes DEF Point, Scroll, WithMask, Steps, AtOnce, TypeOK
<1>5. ASSUME HoldEnds(c)
      PROVE  TypeOK'
  BY <1>0, <1>5 DEF HoldEnds, WithMask, Over, TypeOK
<1>6. ASSUME DragBegins(c)
      PROVE  TypeOK'
  BY <1>6, SessionTypes DEF DragBegins, WithMask, Steps, Waits, Waiting, TypeOK
<1>7. ASSUME DragPoint(c)
      PROVE  TypeOK'
  BY <1>7 DEF DragPoint, WithMask, TypeOK
<1>8. ASSUME DragEnds(c)
      PROVE  TypeOK'
  <2>1. WithMask(Recorded(c), {}) \in SUBSET (Key \cup Button)
    BY <1>0, MaskTypes
  <2>2. held' \in [Records -> SUBSET (Key \cup Button)]
    BY <1>8, <2>1, RememberTypes DEF DragEnds
  <2>3. QED
    BY <1>8, <2>2 DEF DragEnds, WithMask, Over, TypeOK
<1>9. ASSUME LostEnds(c)
      PROVE  TypeOK'
  BY <1>9 DEF LostEnds, Over, TypeOK
<1>10. ASSUME Connects(c)
       PROVE  TypeOK'
  BY <1>10, SessionTypes DEF Connects, Steps, AtOnce, TypeOK
<1>11. QED
  BY <1>1, <1>2, <1>3, <1>4, <1>5, <1>6, <1>7, <1>8, <1>9, <1>10 DEF Pointer

LEMMA TextTypes ==
  ASSUME TypeOK, NEW c \in Client, Text(c)
  PROVE  TypeOK'
<1>1. ASSUME TypeBegins(c)
      PROVE  TypeOK'
  <2>1. /\ epoch' \in 0 .. MaxSessions /\ connected' \in BOOLEAN
        /\ session' \in [Client -> 0 .. MaxSessions]
    <3>1. UseSession(c) /\ session' = [session EXCEPT ![c] = epoch']
      BY <1>1 DEF TypeBegins, Steps, Waits
    <3>2. epoch' \in 0 .. MaxSessions /\ connected' \in BOOLEAN
      BY <3>1, SessionTypes
    <3>3. QED
      BY <3>1, <3>2 DEF TypeOK
  <2>2. pc' \in [Client -> Waiting \cup {"ready", "releasing", "done"}] /\ asked' \subseteq Client
    BY <1>1 DEF TypeBegins, Waits, Waiting, TypeOK
  <2>3. QED
    BY <1>1, <2>1, <2>2 DEF TypeBegins, TypeOK
<1>2. ASSUME NEW t \in Client \cup {"old"}, Arrives(c, t)
      PROVE  texts' \in [Client -> Seq(Client \cup {"old"})]
  BY <1>2 DEF Arrives, TypeOK
<1>0. ASSUME Lifts(c)
      PROVE  guest' \subseteq Key \cup Button
  BY <1>0 DEF Lifts, TypeOK
<1>3. ASSUME Types(c)
      PROVE  TypeOK'
  BY <1>0, <1>2, <1>3 DEF Types, GoesTo, Waiting, TypeOK
<1>4. ASSUME GuestSets(c)
      PROVE  TypeOK'
  BY <1>4 DEF GuestSets, TypeOK
<1>5. ASSUME Paste(c)
      PROVE  TypeOK'
  <2>1. clipboard \in Client \cup {"old"}
    BY DEF TypeOK
  <2>2. QED
    BY <1>0, <1>2, <1>5, <2>1 DEF Paste, GoesTo, Waiting, TypeOK
<1>6. ASSUME ClipboardFails(c)
      PROVE  TypeOK'
  <2>1. asked' \subseteq Client
    BY <1>6 DEF ClipboardFails, TypeOK
  <2>2. CASE GoesTo(c, "typing")
    BY <1>6, <2>1, <2>2 DEF ClipboardFails, GoesTo, Waiting, TypeOK
  <2>3. CASE Over(c, "ready")
    <3>1. 0 \in 0 .. MaxSessions
      BY BoundAssumption
    <3>2. /\ pc' \in [Client -> Waiting \cup {"ready", "releasing", "done"}]
          /\ session' \in [Client -> 0 .. MaxSessions]
      BY <2>3, <3>1 DEF Over, TypeOK
    <3>3. QED
      BY <1>6, <2>1, <3>2 DEF ClipboardFails, TypeOK
  <2>4. QED
    BY <1>6, <2>2, <2>3 DEF ClipboardFails
<1>7. ASSUME TypeReturns(c)
      PROVE  TypeOK'
  BY <1>7 DEF TypeReturns, Over, TypeOK
<1>8. QED
  BY <1>1, <1>3, <1>4, <1>5, <1>6, <1>7 DEF Text

LEMMA EndingTypes ==
  ASSUME TypeOK, NEW c \in Client, Ending(c)
  PROVE  TypeOK'
<1>1. ASSUME Finishes(c)
      PROVE  TypeOK'
  BY <1>1 DEF Finishes, GoesTo, TypeOK
<1>2. ASSUME TimelineReleases(c)
      PROVE  TypeOK'
  BY <1>2 DEF TimelineReleases, GoesTo, WithMask, Records, TypeOK
<1>3. ASSUME ScriptReleases(c)
      PROVE  TypeOK'
  BY <1>3, SessionTypes DEF ScriptReleases, GoesTo, WithMask, Records, TypeOK
<1>4. ASSUME ReleaseFails(c)
      PROVE  TypeOK'
  BY <1>4 DEF ReleaseFails, GoesTo, TypeOK
<1>5. ASSUME DisconnectVnc(c)
      PROVE  TypeOK'
  BY <1>5 DEF DisconnectVnc, InHand, Records, Waiting, TypeOK
<1>6. ASSUME TimelineLeaves(c)
      PROVE  TypeOK'
  BY <1>6 DEF TimelineLeaves, GoesTo, Records, TypeOK
<1>7. QED
  BY <1>1, <1>2, <1>3, <1>4, <1>5, <1>6 DEF Ending

LEMMA StepTypes == TypeOK /\ [Next]_vars => TypeOK'
<1> SUFFICES ASSUME TypeOK, [Next]_vars
             PROVE  TypeOK'
  OBVIOUS
<1>1. CASE UNCHANGED vars
  BY <1>1 DEF vars, TypeOK
<1>2. CASE Drop
  BY <1>2 DEF Drop, TypeOK
<1>3. ASSUME NEW c \in Client, Keyboard(c) \/ Pointer(c) \/ Text(c) \/ Ending(c)
      PROVE  TypeOK'
  BY <1>3, KeyboardTypes, PointerTypes, TextTypes, EndingTypes
<1>4. QED
  BY <1>1, <1>2, <1>3 DEF Next

\* Every variable keeps the shape that the model declares for it.
THEOREM TypeCorrect == Spec => []TypeOK
  BY InitTypes, StepTypes, PTL DEF Spec

-----------------------------------------------------------------------------
(* Who knows of what is down in the guest *)

\* HeldIsKnown, of each key and button.
Known(x) ==
  \/ \E r \in Records : x \in held[r]
  \/ x \in Button /\ \E c \in Client : pc[c] \in {"hold", "drag"}
  \/ x \in abandoned
EachKnown == \A x \in guest : Known(x)

LEMMA KnownForm == EachKnown => HeldIsKnown
<1> DEFINE InRecords == UNION {held[r] : r \in Records}
<1> SUFFICES ASSUME EachKnown, NEW x \in guest
             PROVE  x \in InRecords \cup InHand \cup abandoned
  BY DEF HeldIsKnown
<1>1. CASE \E r \in Records : x \in held[r]
  <2>1. PICK r \in Records : x \in held[r]
    BY <1>1
  <2>2. held[r] \in {held[q] : q \in Records}
    OBVIOUS
  <2>3. x \in InRecords
    BY <2>1, <2>2
  <2> HIDE DEF InRecords
  <2>4. QED
    BY <2>3
<1> HIDE DEF InRecords
<1>2. CASE x \in Button /\ \E c \in Client : pc[c] \in {"hold", "drag"}
  BY <1>2 DEF InHand
<1>3. CASE x \in abandoned
  BY <1>3
<1>4. QED
  BY <1>1, <1>2, <1>3 DEF EachKnown, Known

LEMMA InitKnown == Init => EachKnown
  BY DEF Init, EachKnown

\* A step that lifts nothing from the records and lets no click or drag end.
LEMMA KnownStays ==
  ASSUME TypeOK,
         \A r \in Records : held[r] \subseteq held'[r],
         \A d \in Client : pc[d] \in {"hold", "drag"} => pc'[d] = pc[d],
         abandoned \subseteq abandoned',
         NEW x, Known(x)
  PROVE  Known(x)'
  BY DEF Known

LEMMA KeyboardKnown ==
  ASSUME TypeOK, EachKnown, NEW c \in Client, Keyboard(c)
  PROVE  EachKnown'
<1>1. PICK k \in Key : KeyDown(c, k) \/ KeyUp(c, k) \/ Press(c, k)
  BY DEF Keyboard
<1>2. UNCHANGED <<pc, abandoned>>
  BY <1>1 DEF KeyDown, KeyUp, Press, AtOnce
<1>3. CASE KeyDown(c, k)
  <2>1. Record(c) \in Records /\ held' = [held EXCEPT ![Record(c)] = held[Record(c)] \cup {k}]
    BY <1>3, RecordTypes DEF KeyDown, Remember
  <2>2. \A r \in Records : held[r] \subseteq held'[r]
    BY <2>1 DEF TypeOK
  <2>3. k \in held'[Record(c)]
    BY <2>1 DEF TypeOK
  <2>4. QED
    BY <1>2, <1>3, <2>1, <2>2, <2>3 DEF KeyDown, EachKnown, Known
<1>4. CASE KeyUp(c, k)
  <2>1. Record(c) \in Records /\ held' = [held EXCEPT ![Record(c)] = held[Record(c)] \ {k}]
    BY <1>4, RecordTypes DEF KeyUp, Remember
  <2>2. \A r \in Records : held[r] \ {k} \subseteq held'[r]
    BY <2>1 DEF TypeOK
  <2>3. QED
    BY <1>2, <1>4, <2>2 DEF KeyUp, EachKnown, Known
<1>5. CASE Press(c, k)
  BY <1>2, <1>5 DEF Press, EachKnown, Known
<1>6. QED
  BY <1>1, <1>3, <1>4, <1>5

LEMMA PointerKnown ==
  ASSUME TypeOK, EachKnown, NEW c \in Client, Pointer(c)
  PROVE  EachKnown'
<1>0. /\ Recorded(c) \subseteq Key \cup Button
      /\ \A x \in Recorded(c) : \E r \in Records : x \in held[r]
  BY RecordTypes DEF Recorded, Record, Records, Client
\* What a pointer event leaves down: the keys as they were, and a mask.
<1>1. ASSUME NEW m \in SUBSET Button, guest' = WithMask(guest, m),
             NEW x \in guest', x \notin m
      PROVE  x \in Key /\ x \in guest /\ Known(x) /\ x \notin Button
  BY <1>1 DEF WithMask, EachKnown
\* A step that sets the record to what it sends.
<1>2. ASSUME NEW m \in SUBSET Button, guest' = WithMask(guest, m), c \notin Tools,
             Remember(c, WithMask(Recorded(c), m)), UNCHANGED <<pc, abandoned>>
      PROVE  EachKnown'
  <2>1. /\ Record(c) \in Records
        /\ held' = [held EXCEPT ![Record(c)] = WithMask(held[Record(c)], m)]
    BY <1>2, RecordTypes DEF Remember
  <2>2. \A r \in Records : \A x \in Key : x \in held[r] => x \in held'[r]
    BY <2>1 DEF TypeOK, WithMask
  <2>3. m \subseteq held'[Record(c)]
    BY <2>1 DEF TypeOK, WithMask
  <2>4. SUFFICES ASSUME NEW x \in guest'
                 PROVE  Known(x)'
    BY DEF EachKnown
  <2>5. CASE x \in m
    BY <2>1, <2>3, <2>5 DEF Known
  <2>6. CASE x \notin m
    <3>1. x \in Key /\ Known(x) /\ x \notin Button
      BY <1>1, <1>2, <2>6
    <3>2. QED
      BY <1>2, <2>2, <3>1 DEF Known
  <2>7. QED
    BY <2>5, <2>6
\* A step that sends what is in the record, or less.
<1>3. ASSUME NEW m \in SUBSET Button, m \subseteq Recorded(c), guest' = WithMask(guest, m),
             UNCHANGED <<pc, abandoned, held>>
      PROVE  EachKnown'
  BY <1>0, <1>1, <1>3 DEF EachKnown, Known
\* A click that holds, a drag.
<1>4. ASSUME NEW m \in SUBSET Button, guest' = WithMask(guest, m), UNCHANGED <<abandoned, held>>,
             pc'[c] \in {"hold", "drag"}
      PROVE  EachKnown'
  <2>1. \A x \in Button : Known(x)'
    BY <1>4 DEF Known
  <2>2. \A x \in guest' : x \notin m => Known(x)'
    BY <1>1, <1>4 DEF Known
  <2>3. QED
    BY <2>1, <2>2 DEF EachKnown
\* The end of one: whatever buttons are down then are known otherwise.
<1>5. ASSUME \A r \in Records : \A x \in Key : x \in held[r] => x \in held'[r],
             abandoned \subseteq abandoned',
             \A x \in guest' : \/ x \in Key /\ x \in guest
                               \/ x \in Button /\ Known(x)'
      PROVE  EachKnown'
  BY <1>5 DEF EachKnown, Known
<1>6. ASSUME NEW b \in Button, MouseDown(c, b)
      PROVE  EachKnown'
  BY <1>2, <1>6 DEF MouseDown, AtOnce
<1>7. ASSUME NEW bs \in SUBSET Button, MouseUp(c, bs)
      PROVE  EachKnown'
  <2>1. (Recorded(c) \cap Button) \ bs \in SUBSET Button
    OBVIOUS
  <2>2. QED
    BY <1>2, <1>7, <2>1 DEF MouseUp, AtOnce
<1>8. ASSUME Point(c) \/ Scroll(c)
      PROVE  EachKnown'
  <2>1. {} \in SUBSET Button /\ Recorded(c) \cap Button \in SUBSET Button
    OBVIOUS
  <2>2. CASE Point(c)
    BY <1>3, <2>1, <2>2 DEF Point, AtOnce
  <2>3. CASE Scroll(c)
    BY <1>3, <2>1, <2>3 DEF Scroll, AtOnce
  <2>4. QED
    BY <1>8, <2>2, <2>3
<1>9. ASSUME NEW b \in Button, HoldClick(c, b)
      PROVE  EachKnown'
  BY <1>4, <1>9 DEF HoldClick, Waits, TypeOK
<1>10. ASSUME DragBegins(c) \/ DragPoint(c)
       PROVE  EachKnown'
  BY <1>4, <1>10 DEF DragBegins, DragPoint, Waits, TypeOK
<1>11. ASSUME HoldEnds(c)
       PROVE  EachKnown'
  <2>1. UNCHANGED held /\ abandoned \subseteq abandoned'
    BY <1>11 DEF HoldEnds
  <2>2. CASE Live(c)
    <3>1. \A x \in Recorded(c) : Known(x)'
      BY <1>0, <2>1 DEF Known
    <3>2. \A x \in guest' : \/ x \in Key /\ x \in guest
                            \/ x \in Button /\ Known(x)'
      BY <1>11, <2>2, <3>1 DEF HoldEnds, WithMask
    <3>3. QED
      BY <1>5, <2>1, <3>2
  <2>3. CASE ~Live(c)
    <3>1. guest' = guest /\ \A x \in guest \cap Button : x \in abandoned'
      BY <1>11, <2>3 DEF HoldEnds
    <3>2. \A x \in guest' : \/ x \in Key /\ x \in guest
                            \/ x \in Button /\ Known(x)'
      BY <3>1 DEF Known, TypeOK
    <3>3. QED
      BY <1>5, <2>1, <3>2
  <2>4. QED
    BY <2>2, <2>3
<1>12. ASSUME DragEnds(c)
       PROVE  EachKnown'
  <2>1. \A r \in Records : \A x \in Key : x \in held[r] => x \in held'[r]
    BY <1>12, RecordTypes DEF DragEnds, Remember, WithMask, TypeOK
  <2>2. CASE Live(c)
    <3>1. abandoned \subseteq abandoned' /\ \A x \in guest' : x \in Key /\ x \in guest
      BY <1>12, <2>2 DEF DragEnds, WithMask
    <3>2. QED
      BY <1>5, <2>1, <3>1
  <2>3. CASE ~Live(c)
    <3>1. guest' = guest /\ \A x \in guest \cap Button : x \in abandoned'
      BY <1>12, <2>3 DEF DragEnds
    <3>2. \A x \in guest' : \/ x \in Key /\ x \in guest
                            \/ x \in Button /\ Known(x)'
      BY <3>1 DEF Known, TypeOK
    <3>3. abandoned \subseteq abandoned'
      BY <1>12, <2>3 DEF DragEnds
    <3>4. QED
      BY <1>5, <2>1, <3>2, <3>3
  <2>4. QED
    BY <2>2, <2>3
<1>13. ASSUME LostEnds(c)
       PROVE  EachKnown'
  <2>1. UNCHANGED <<guest, held, abandoned>>
    BY <1>13 DEF LostEnds
  <2>2. \A d \in Client : pc[d] \in {"hold", "drag"} => pc'[d] = pc[d]
    BY <1>13 DEF LostEnds, Over, TypeOK
  <2>3. QED
    BY <2>1, <2>2, KnownStays DEF EachKnown
<1>14. ASSUME Connects(c)
       PROVE  EachKnown'
  BY <1>14, KnownStays DEF Connects, AtOnce, EachKnown
<1>15. QED
  BY <1>6, <1>7, <1>8, <1>9, <1>10, <1>11, <1>12, <1>13, <1>14 DEF Pointer

LEMMA TextKnown ==
  ASSUME TypeOK, EachKnown, NEW c \in Client, Text(c)
  PROVE  EachKnown'
<1>1. guest' \subseteq guest /\ UNCHANGED <<held, abandoned>>
  BY DEF Text, TypeBegins, Types, GuestSets, Paste, Lifts, ClipboardFails, TypeReturns
<1>2. \A d \in Client : pc[d] \in {"hold", "drag"} => pc'[d] = pc[d]
  BY DEF Text, TypeBegins, Steps, Waits, Types, GuestSets, Paste, ClipboardFails, TypeReturns,
         GoesTo, Over, TypeOK
<1>3. QED
  BY <1>1, <1>2, KnownStays DEF EachKnown

LEMMA EndingKnown ==
  ASSUME TypeOK, EachKnown, NEW c \in Client, Ending(c)
  PROVE  EachKnown'
<1>1. ~DisconnectVnc(c) => \A d \in Client : pc[d] \in {"hold", "drag"} => pc'[d] = pc[d]
  BY DEF Ending, Finishes, TimelineReleases, TimelineLeaves, ScriptReleases, ReleaseFails,
         GoesTo, TypeOK
\* A record is emptied: what it held is up, or is put down as left behind.
<1>2. ASSUME NEW q \in Records, held' = [held EXCEPT ![q] = {}], ~DisconnectVnc(c),
             abandoned \subseteq abandoned', guest' \subseteq guest,
             \A x \in guest' : x \in held[q] => x \in abandoned'
      PROVE  EachKnown'
  <2>1. SUFFICES ASSUME NEW x \in guest'
                 PROVE  Known(x)'
    BY DEF EachKnown
  <2>2. CASE x \in held[q]
    BY <1>2, <2>2 DEF Known
  <2>3. CASE x \notin held[q]
    <3>1. \A r \in Records : x \in held[r] => x \in held'[r]
      BY <1>2, <2>3 DEF TypeOK
    <3>2. QED
      BY <1>1, <1>2, <3>1 DEF EachKnown, Known
  <2>4. QED
    BY <2>2, <2>3
<1>3. CASE Finishes(c) \/ ReleaseFails(c)
  <2>1. ~DisconnectVnc(c)
    BY <1>3 DEF Finishes, ReleaseFails, DisconnectVnc, GoesTo, TypeOK
  <2>2. QED
    BY <1>1, <1>3, <2>1, KnownStays DEF Finishes, ReleaseFails, EachKnown
<1>4. CASE TimelineReleases(c) \/ TimelineLeaves(c)
  <2>1. ~DisconnectVnc(c)
    BY <1>4 DEF TimelineReleases, TimelineLeaves, DisconnectVnc
  <2>2. CASE TimelineReleases(c)
    BY <1>2, <2>1, <2>2 DEF TimelineReleases, Records
  <2>3. CASE TimelineLeaves(c)
    BY <1>2, <2>1, <2>3 DEF TimelineLeaves, Records
  <2>4. QED
    BY <1>4, <2>2, <2>3
<1>5. CASE ScriptReleases(c)
  <2>1. ~DisconnectVnc(c)
    BY <1>5 DEF ScriptReleases, DisconnectVnc
  <2>2. QED
    BY <1>2, <1>5, <2>1 DEF ScriptReleases, Records
<1>6. CASE DisconnectVnc(c)
  <2>1. \A x \in guest' : x \in guest
    BY <1>6 DEF DisconnectVnc
  <2>2. \A x \in guest : Known(x) => Known(x)'
    BY <1>6 DEF DisconnectVnc, InHand, Known, Records, TypeOK
  <2>3. QED
    BY <2>1, <2>2 DEF EachKnown
<1>7. QED
  BY <1>3, <1>4, <1>5, <1>6 DEF Ending

LEMMA StepKnown == TypeOK /\ EachKnown /\ [Next]_vars => EachKnown'
<1> SUFFICES ASSUME TypeOK, EachKnown, [Next]_vars
             PROVE  EachKnown'
  OBVIOUS
<1>1. CASE UNCHANGED vars
  BY <1>1 DEF vars, EachKnown, Known
<1>2. CASE Drop
  BY <1>2 DEF Drop, EachKnown, Known
<1>3. ASSUME NEW c \in Client, Keyboard(c) \/ Pointer(c) \/ Text(c) \/ Ending(c)
      PROVE  EachKnown'
  BY <1>3, KeyboardKnown, PointerKnown, TextKnown, EndingKnown
<1>4. QED
  BY <1>1, <1>2, <1>3 DEF Next

\* Whatever is down in the guest is in some record, or held by a click or drag under
\* way, or was left when a session was lost or on purpose: no number of runs that overlap
\* on one VM loses track of a key or a button.
THEOREM NothingStaysDown == Spec => []HeldIsKnown
<1>1. Spec => []EachKnown
  BY InitKnown, StepKnown, TypeCorrect, PTL DEF Spec
<1>2. QED
  BY <1>1, KnownForm, PTL

-----------------------------------------------------------------------------
(* Texts *)

\* Inductive: only a call that has typed has a text, and a session number is never
\* that of a session still to come.
TextInv ==
  \A c \in Client :
    /\ session[c] <= epoch
    /\ pc[c] # "typed" => texts[c] = <<>>
    /\ Len(texts[c]) <= 1
    /\ pc[c] = "typed" /\ Live(c) => texts[c] # <<>>

LEMMA InitText == Init => TextInv
<1> SUFFICES ASSUME Init
             PROVE  TextInv
  OBVIOUS
<1>1. Len(<<>>) = 0
  OBVIOUS
<1>2. QED
  BY <1>1 DEF Init, TextInv

\* A session that has ended does not come back.
Forward == \/ UNCHANGED epoch /\ (connected' => connected)
           \/ ~connected /\ epoch' = epoch + 1

LEMMA SessionForward == ASSUME NEW c \in Client, UseSession(c) PROVE Forward
  BY DEF UseSession, Forward

\* A step that is none of Text: it moves no call in or out of typing.
LEMMA QuietStep ==
  ASSUME TypeOK, TextInv, Forward, UNCHANGED texts,
         \A d \in Client : \/ pc'[d] = pc[d] /\ session'[d] = session[d]
                           \/ pc'[d] # "typed" /\ pc[d] # "typed" /\ session'[d] \in {0, session[d], epoch'}
  PROVE  TextInv'
<1> SUFFICES ASSUME NEW d \in Client
             PROVE  /\ session'[d] <= epoch'
                    /\ pc'[d] # "typed" => texts'[d] = <<>>
                    /\ Len(texts'[d]) <= 1
                    /\ pc'[d] = "typed" /\ Live(d)' => texts'[d] # <<>>
  BY DEF TextInv
<1>1. session[d] \in Nat /\ epoch \in Nat /\ epoch' \in Nat /\ session[d] <= epoch /\ epoch <= epoch'
  BY DEF TypeOK, TextInv, Forward
<1>2. pc[d] = "typed" /\ session'[d] = session[d] /\ Live(d)' => Live(d)
  BY <1>1 DEF Live, Forward
<1>3. QED
  BY <1>1, <1>2 DEF TextInv

LEMMA KeyboardText ==
  ASSUME TypeOK, TextInv, NEW c \in Client, Keyboard(c)
  PROVE  TextInv'
<1>1. UseSession(c) /\ UNCHANGED <<pc, session, texts>>
  BY DEF Keyboard, KeyDown, KeyUp, Press, Steps, AtOnce
<1>2. QED
  BY <1>1, SessionForward, QuietStep

LEMMA PointerText ==
  ASSUME TypeOK, TextInv, NEW c \in Client, Pointer(c)
  PROVE  TextInv'
<1>0. /\ UNCHANGED texts
      /\ UseSession(c) \/ UNCHANGED <<epoch, connected>>
  BY DEF Pointer, Connects, MouseDown, MouseUp, HoldClick, Point, Scroll, HoldEnds, DragBegins,
     DragPoint, DragEnds, LostEnds, Steps, AtOnce
<1>1. Forward /\ UNCHANGED texts
  BY <1>0, SessionForward DEF Forward
<1>2. \/ UNCHANGED <<pc, session>>
      \/ pc[c] = "ready" /\ (Waits(c, "hold") \/ Waits(c, "drag"))
      \/ pc[c] \in {"hold", "drag", "lost"} /\ Over(c, "ready")
  BY DEF Pointer, Connects, MouseDown, MouseUp, HoldClick, Point, Scroll, HoldEnds, DragBegins,
     DragPoint, DragEnds, LostEnds, Steps, AtOnce
<1>3. \A d \in Client : \/ pc'[d] = pc[d] /\ session'[d] = session[d]
                        \/ pc'[d] # "typed" /\ pc[d] # "typed" /\ session'[d] \in {0, session[d], epoch'}
  BY <1>2 DEF Waits, Over, TypeOK
<1>4. QED
  BY <1>1, <1>3, QuietStep

LEMMA EndingText ==
  ASSUME TypeOK, TextInv, NEW c \in Client, Ending(c)
  PROVE  TextInv'
<1>1. Forward /\ UNCHANGED texts
  BY SessionForward DEF Ending, Finishes, TimelineReleases, TimelineLeaves, ScriptReleases,
     ReleaseFails, DisconnectVnc, Forward
<1>2. /\ UNCHANGED session
      /\ \A d \in Client : \/ pc'[d] = pc[d]
                           \/ pc'[d] # "typed" /\ pc[d] # "typed"
  BY DEF Ending, Finishes, TimelineReleases, TimelineLeaves, ScriptReleases, ReleaseFails,
     DisconnectVnc, GoesTo, TypeOK
<1>3. QED
  BY <1>1, <1>2, QuietStep

LEMMA TextText ==
  ASSUME TypeOK, TextInv, NEW c \in Client, Text(c)
  PROVE  TextInv'
<1>1. ASSUME TypeBegins(c)
      PROVE  TextInv'
  <2>1. Forward /\ UNCHANGED texts
    BY <1>1, SessionForward DEF TypeBegins, Steps
  <2>2. \A d \in Client : \/ pc'[d] = pc[d] /\ session'[d] = session[d]
                          \/ pc'[d] # "typed" /\ pc[d] # "typed" /\ session'[d] \in {0, session[d], epoch'}
    BY <1>1 DEF TypeBegins, Steps, Waits, TypeOK
  <2>3. QED
    BY <2>1, <2>2, QuietStep
<1>2. ASSUME GuestSets(c) \/ ClipboardFails(c)
      PROVE  TextInv'
  <2>1. Forward /\ UNCHANGED texts
    BY <1>2 DEF GuestSets, ClipboardFails, Forward
  <2>2. \A d \in Client : \/ pc'[d] = pc[d] /\ session'[d] = session[d]
                          \/ pc'[d] # "typed" /\ pc[d] # "typed" /\ session'[d] \in {0, session[d], epoch'}
    BY <1>2 DEF GuestSets, ClipboardFails, GoesTo, Over, TypeOK
  <2>3. QED
    BY <2>1, <2>2, QuietStep
\* The text arrives, in a call that has had none.
<1>3. ASSUME NEW t, pc[c] \in {"typing", "clipboard"}, Arrives(c, t), GoesTo(c, "typed"),
             UNCHANGED <<epoch, connected>>
      PROVE  TextInv'
  <2>1. texts[c] = <<>> /\ Len(Append(<<>>, t)) = 1 /\ Append(<<>>, t) # <<>> /\ Len(<<>>) = 0
    BY <1>3 DEF TextInv
  <2>2. texts' = [texts EXCEPT ![c] = IF Live(c) THEN Append(<<>>, t) ELSE <<>>]
    BY <1>3, <2>1 DEF Arrives, TypeOK
  <2>3. ASSUME NEW d \in Client
        PROVE  Live(d)' <=> Live(d)
    BY <1>3 DEF Live, GoesTo
  <2>4. QED
    BY <1>3, <2>1, <2>2, <2>3 DEF TextInv, GoesTo, TypeOK
<1>4. ASSUME Types(c)
      PROVE  TextInv'
  BY <1>3, <1>4 DEF Types
<1>5. ASSUME Paste(c)
      PROVE  TextInv'
  BY <1>3, <1>5 DEF Paste
<1>6. ASSUME TypeReturns(c)
      PROVE  TextInv'
  <2>1. Len(<<>>) = 0
    OBVIOUS
  <2>2. ASSUME NEW d \in Client, d # c
        PROVE  Live(d)' <=> Live(d)
    BY <1>6, <2>2 DEF Live, TypeReturns, Over, TypeOK
  <2>3. epoch \in Nat
    BY DEF TypeOK
  <2>4. QED
    BY <1>6, <2>1, <2>2, <2>3 DEF TextInv, TypeReturns, Over, TypeOK
<1>7. QED
  BY <1>1, <1>2, <1>4, <1>5, <1>6 DEF Text

LEMMA StepText == TypeOK /\ TextInv /\ [Next]_vars => TextInv'
<1> SUFFICES ASSUME TypeOK, TextInv, [Next]_vars
             PROVE  TextInv'
  OBVIOUS
<1>1. CASE UNCHANGED vars
  BY <1>1 DEF vars, TextInv, Live
<1>2. CASE Drop
  BY <1>2, QuietStep DEF Drop, Forward
<1>3. ASSUME NEW c \in Client, Keyboard(c) \/ Pointer(c) \/ Text(c) \/ Ending(c)
      PROVE  TextInv'
  BY <1>3, KeyboardText, PointerText, TextText, EndingText
<1>4. QED
  BY <1>1, <1>2, <1>3 DEF Next

\* A call of type_text makes one text arrive, also when the clipboard fails and the
\* keys make up for it, and none only when its session is lost under it.
THEOREM TextArrivesOnce == Spec => []TextOnce
<1>1. TextInv => TextOnce
  BY DEF TextInv, TextOnce
<1>2. Spec => []TextInv
  BY InitText, StepText, TypeCorrect, PTL DEF Spec
<1>3. QED
  BY <1>1, <1>2, PTL
=============================================================================
