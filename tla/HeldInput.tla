----------------------------- MODULE HeldInput ------------------------------
(***************************************************************************)
(* What the guest of one VM has pressed, and who knows of it: runs of the  *)
(* timeline tool (tools/timeline.ts), each with masks and keys of its own, *)
(* scripts of the library (skill/lib/index.ts), which share one record,    *)
(* and the single tools (tools/vnc.ts), which keep none.  All send over    *)
(* the one VNC session of the VM, which may be lost and opened again       *)
(* between any two of their steps.  Text is typed by keys, or pasted from  *)
(* the clipboard of a Windows guest, which takes a command in the guest.   *)
(*                                                                         *)
(* Code between two awaits is one step.  A position on the screen is not   *)
(* modelled, nor the wheel's own bits, which every scroll takes back.      *)
(***************************************************************************)
EXTENDS Naturals, Sequences, FiniteSets

CONSTANTS Timelines, Scripts, Tools,  \* who sends input
          Typists,                    \* those of them that type text
          Key, Button,                \* what can be held
          Left,                       \* the button of a drag
          MaxSessions                 \* bound: sessions opened

Client == Timelines \cup Scripts \cup Tools

ASSUME ClientAssumption ==
  /\ Timelines \cap Scripts = {} /\ Timelines \cap Tools = {} /\ Scripts \cap Tools = {}
  /\ Typists \subseteq Client
ASSUME ButtonAssumption == Left \in Button /\ Key \cap Button = {}
ASSUME BoundAssumption == MaxSessions \in Nat \ {0}

VARIABLES
  epoch,      \* sessions opened so far: the number of the newest
  connected,  \* is it connected?
  guest,      \* external: keys and buttons that are down in the guest
  clipboard,  \* external: whose text it holds
  asked,      \* external: commands that may still set it
  held,       \* record -> keys and buttons it says are held
  pc,         \* client -> where its current step is
  session,    \* client -> the session that a step that waits uses, or 0
  texts,      \* ghost: client -> texts that its type_text has made arrive
  abandoned   \* ghost: what a lost session, a forgotten record or a caller's wish left

vars == <<epoch, connected, guest, clipboard, asked, held, pc, session, texts, abandoned>>

\* The record a client keeps: its own, or that of all scripts (getHeld).
Record(c) == IF c \in Scripts THEN "scripts" ELSE c
Records   == Timelines \cup {"scripts"}
Recorded(c) == IF c \in Tools THEN {} ELSE held[Record(c)]

\* Where a step is while it waits: for a session, in a click that holds, in a drag,
\* for the clipboard to be set, between two characters; in "lost" a click or a drag
\* whose session and whose record are gone (disconnectVnc).
Waiting == {"hold", "drag", "lost", "clipboard", "typing", "typed"}

TypeOK ==
  /\ epoch \in 0 .. MaxSessions /\ connected \in BOOLEAN
  /\ guest \subseteq Key \cup Button
  /\ clipboard \in Client \cup {"old"} /\ asked \subseteq Client
  /\ held \in [Records -> SUBSET (Key \cup Button)]
  /\ pc \in [Client -> Waiting \cup {"ready", "releasing", "done"}]
  /\ session \in [Client -> 0 .. MaxSessions]
  /\ texts \in [Client -> Seq(Client \cup {"old"})]
  /\ abandoned \subseteq Key \cup Button

Init ==
  /\ epoch = 0 /\ connected = FALSE
  /\ guest = {} /\ clipboard = "old" /\ asked = {}
  /\ held = [r \in Records |-> {}]
  /\ pc = [c \in Client |-> "ready"] /\ session = [c \in Client |-> 0]
  /\ texts = [c \in Client |-> <<>>] /\ abandoned = {}

-----------------------------------------------------------------------------
\* The session a client holds is the one that is connected: what it sends on any
\* other is dropped (send).
Live(c) == connected /\ session[c] = epoch

\* Buttons m, and the keys as they are: a pointer event.
WithMask(s, m) == (s \cap Key) \cup m

\* getOrConnectVncSession, getSession: a client that has none opens one.
UseSession(c) ==
  /\ \/ connected /\ UNCHANGED epoch
     \/ ~connected /\ c \notin Tools /\ epoch < MaxSessions /\ epoch' = epoch + 1
  /\ connected' = TRUE

\* A step of c that needs a session begins; it does all until its first await.
Steps(c) == pc[c] = "ready" /\ UseSession(c)
AtOnce == UNCHANGED <<pc, session, clipboard, asked, texts, abandoned>>

\* It waits, and goes on with the session it has; it is over.
Waits(c, to) == pc' = [pc EXCEPT ![c] = to] /\ session' = [session EXCEPT ![c] = epoch']
GoesTo(c, to) == pc' = [pc EXCEPT ![c] = to] /\ UNCHANGED session
Over(c, to) == pc' = [pc EXCEPT ![c] = to] /\ session' = [session EXCEPT ![c] = 0]

Remember(c, s) ==
  held' = IF c \in Tools THEN held ELSE [held EXCEPT ![Record(c)] = s]

\* The connect step, or one that only looks at the screen.
Connects(c) == Steps(c) /\ AtOnce /\ UNCHANGED <<guest, held>>

KeyDown(c, k) ==
  /\ c \notin Tools /\ Steps(c)
  /\ guest' = guest \cup {k} /\ Remember(c, Recorded(c) \cup {k}) /\ AtOnce

KeyUp(c, k) ==
  /\ c \notin Tools /\ Steps(c)
  /\ guest' = guest \ {k} /\ Remember(c, Recorded(c) \ {k}) /\ AtOnce

\* pressKey, or a character: a key goes down and up, whoever holds it.
Press(c, k) == Steps(c) /\ guest' = guest \ {k} /\ AtOnce /\ UNCHANGED held

\* Mutant: the button is sent and not recorded.
MouseDownUnrecorded(c, b) ==
  /\ c \notin Tools /\ Steps(c)
  /\ guest' = WithMask(guest, (Recorded(c) \cap Button) \cup {b})
  /\ AtOnce /\ UNCHANGED held

MouseDown(c, b) ==
  /\ c \notin Tools /\ Steps(c)
  /\ LET mask == (Recorded(c) \cap Button) \cup {b}
     IN  guest' = WithMask(guest, mask) /\ Remember(c, WithMask(Recorded(c), mask))
  /\ AtOnce

\* One button, or all of them.
MouseUp(c, bs) ==
  /\ c \notin Tools /\ Steps(c)
  /\ LET mask == (Recorded(c) \cap Button) \ bs
     IN  guest' = WithMask(guest, mask) /\ Remember(c, WithMask(Recorded(c), mask))
  /\ AtOnce

\* A move or a click ends with the recorded mask.
Point(c) ==
  Steps(c) /\ guest' = WithMask(guest, Recorded(c) \cap Button) /\ AtOnce /\ UNCHANGED held

\* The library's scroll, and the tool's, end with mask 0; the timeline's does not.
Scroll(c) ==
  /\ c \notin Timelines /\ Steps(c)
  /\ guest' = WithMask(guest, {}) /\ AtOnce /\ UNCHANGED held

\* kvm.click with holdMs: the button stays down over an await.
HoldClick(c, b) ==
  /\ c \in Scripts /\ Steps(c) /\ Waits(c, "hold")
  /\ guest' = WithMask(guest, (Recorded(c) \cap Button) \cup {b})
  /\ UNCHANGED <<clipboard, asked, held, texts, abandoned>>

HoldEnds(c) ==
  /\ pc[c] = "hold" /\ Over(c, "ready")
  /\ IF Live(c)
     THEN guest' = WithMask(guest, Recorded(c) \cap Button) /\ UNCHANGED abandoned
     ELSE abandoned' = abandoned \cup (guest \cap Button) /\ UNCHANGED guest
  /\ UNCHANGED <<epoch, connected, clipboard, asked, held, texts>>

\* drag: the mask is 0 at its start, 1 at each of its points, and 0 at the end, also in
\* the record.
DragBegins(c) ==
  /\ Steps(c) /\ Waits(c, "drag") /\ guest' = WithMask(guest, {})
  /\ UNCHANGED <<clipboard, asked, held, texts, abandoned>>

DragPoint(c) ==
  /\ pc[c] = "drag" /\ Live(c) /\ guest' = WithMask(guest, {Left})
  /\ UNCHANGED <<epoch, connected, clipboard, asked, held, pc, session, texts, abandoned>>

DragEnds(c) ==
  /\ pc[c] = "drag" /\ Over(c, "ready")
  /\ Remember(c, WithMask(Recorded(c), {}))
  /\ IF Live(c)
     THEN guest' = WithMask(guest, {}) /\ UNCHANGED abandoned
     ELSE abandoned' = abandoned \cup (guest \cap Button) /\ UNCHANGED guest
  /\ UNCHANGED <<epoch, connected, clipboard, asked, texts>>

\* Its last event is dropped, and what it sets is the record that is gone.
LostEnds(c) ==
  /\ pc[c] = "lost" /\ Over(c, "ready")
  /\ UNCHANGED <<epoch, connected, guest, clipboard, asked, held, texts, abandoned>>

-----------------------------------------------------------------------------
(* Text *)

Arrives(c, t) == texts' = [texts EXCEPT ![c] = IF Live(c) THEN Append(@, t) ELSE @]

\* What is typed lifts the keys it uses, whoever holds them.
Lifts(c) == \E ks \in SUBSET Key : guest' = IF Live(c) THEN guest \ ks ELSE guest

\* typeTextByStrategy: by keys, or on Windows by the clipboard.
TypeBegins(c) ==
  /\ c \in Typists /\ Steps(c)
  /\ \/ Waits(c, "typing") /\ UNCHANGED asked
     \/ Waits(c, "clipboard") /\ asked' = asked \cup {c}
  /\ UNCHANGED <<guest, clipboard, held, texts, abandoned>>

\* typeText: the characters take a while.
Types(c) ==
  /\ pc[c] = "typing" /\ GoesTo(c, "typed") /\ Arrives(c, c) /\ Lifts(c)
  /\ UNCHANGED <<epoch, connected, clipboard, asked, held, abandoned>>

\* External: the task that Windows runs for the client sets the clipboard.
GuestSets(c) ==
  /\ c \in asked /\ asked' = asked \ {c} /\ clipboard' = c
  /\ UNCHANGED <<epoch, connected, guest, held, pc, session, texts, abandoned>>

\* Mutant: the paste is part of what the keys make up for.
PasteThenTypes(c) ==
  /\ pc[c] = "clipboard" /\ Arrives(c, clipboard) /\ GoesTo(c, "typing")
  /\ UNCHANGED <<epoch, connected, guest, clipboard, asked, held, abandoned>>

\* The command returns with status 0, which it does when the task has run and when
\* it has waited for it long enough; then Ctrl+V is sent.
Paste(c) ==
  /\ pc[c] = "clipboard" /\ Arrives(c, clipboard) /\ GoesTo(c, "typed") /\ Lifts(c)
  /\ UNCHANGED <<epoch, connected, clipboard, asked, held, abandoned>>

\* The command fails, or its answer is not waited for any longer: keys instead, or an
\* error where the caller of the tool asked for the clipboard only. What was asked for
\* may still happen, or not.
ClipboardFails(c) ==
  /\ pc[c] = "clipboard" /\ asked' \in {asked, asked \ {c}}
  /\ GoesTo(c, "typing") \/ (c \notin Scripts /\ Over(c, "ready"))
  /\ UNCHANGED <<epoch, connected, guest, clipboard, held, texts, abandoned>>

TypeReturns(c) ==
  /\ pc[c] = "typed" /\ Over(c, "ready") /\ texts' = [texts EXCEPT ![c] = <<>>]
  /\ UNCHANGED <<epoch, connected, guest, clipboard, asked, held, abandoned>>

-----------------------------------------------------------------------------
(* Ends *)

\* A run ends, by its last step, by an error of one, or by a signal.
Finishes(c) ==
  /\ pc[c] = "ready" /\ GoesTo(c, IF c \in Tools THEN "done" ELSE "releasing")
  /\ UNCHANGED <<epoch, connected, guest, clipboard, asked, held, texts, abandoned>>

\* Mutant: the buttons are released, the keys forgotten.
TimelineReleasesMask(c) ==
  /\ c \in Timelines /\ pc[c] = "releasing" /\ GoesTo(c, "done")
  /\ held' = [held EXCEPT ![c] = {}]
  /\ guest' = IF connected /\ held[c] \cap Button # {} THEN WithMask(guest, {}) ELSE guest
  /\ abandoned' = IF connected THEN abandoned ELSE abandoned \cup held[c]
  /\ UNCHANGED <<epoch, connected, clipboard, asked, texts>>

\* release_inputs_at_end, on whatever session is connected then, and on no other.
TimelineReleases(c) ==
  /\ c \in Timelines /\ pc[c] = "releasing" /\ GoesTo(c, "done")
  /\ held' = [held EXCEPT ![c] = {}]
  /\ IF connected
     THEN /\ guest' = IF held[c] \cap Button # {} THEN (guest \cap Key) \ held[c]
                                                 ELSE guest \ held[c]
          /\ UNCHANGED abandoned
     ELSE abandoned' = abandoned \cup held[c] /\ UNCHANGED guest
  /\ UNCHANGED <<epoch, connected, clipboard, asked, texts>>

\* release_inputs_at_end is false: what is held stays, by the caller's wish, and its
\* record goes with the run.
TimelineLeaves(c) ==
  /\ c \in Timelines /\ pc[c] = "releasing" /\ GoesTo(c, "done")
  /\ held' = [held EXCEPT ![c] = {}]
  /\ abandoned' = abandoned \cup held[c]
  /\ UNCHANGED <<epoch, connected, guest, clipboard, asked, texts>>

\* releaseAll, at the end of run(): it opens a session if it must.
ScriptReleases(c) ==
  /\ c \in Scripts /\ pc[c] = "releasing" /\ UseSession(c) /\ GoesTo(c, "done")
  /\ held' = [held EXCEPT !["scripts"] = {}]
  /\ guest' = IF held["scripts"] \cap Button # {} THEN (guest \cap Key) \ held["scripts"]
                                                  ELSE guest \ held["scripts"]
  /\ UNCHANGED <<clipboard, asked, texts, abandoned>>

\* releaseAll fails for want of a session, which run() swallows: the record stays.
ReleaseFails(c) ==
  /\ c \in Scripts /\ pc[c] = "releasing" /\ ~connected /\ GoesTo(c, "done")
  /\ UNCHANGED <<epoch, connected, guest, clipboard, asked, held, texts, abandoned>>

\* The session ends; the server may lift what its client held.
Drop ==
  /\ connected /\ connected' = FALSE
  /\ guest' \in {guest, {}}
  /\ UNCHANGED <<epoch, clipboard, asked, held, pc, session, texts, abandoned>>

\* What a click or a drag in progress may hold.
InHand == IF \E c \in Client : pc[c] \in {"hold", "drag"} THEN Button ELSE {}

\* disconnectVnc: the session ends and the record is dropped with it, also the one
\* that another script's click or drag goes on with.
DisconnectVnc(c) ==
  /\ c \in Scripts /\ pc[c] = "ready" /\ connected' = FALSE
  /\ held' = [held EXCEPT !["scripts"] = {}]
  /\ pc' = [d \in Client |-> IF d \in Scripts /\ pc[d] \in {"hold", "drag"} THEN "lost" ELSE pc[d]]
  /\ abandoned' = abandoned \cup held["scripts"] \cup (guest \cap InHand)
  /\ guest' \in {guest, {}}
  /\ UNCHANGED <<epoch, clipboard, asked, session, texts>>

-----------------------------------------------------------------------------
Keyboard(c) == \E k \in Key : KeyDown(c, k) \/ KeyUp(c, k) \/ Press(c, k)

Pointer(c) ==
  \/ \E b \in Button : MouseDown(c, b) \/ MouseUp(c, {b}) \/ HoldClick(c, b)
  \/ Connects(c) \/ MouseUp(c, Button) \/ Point(c) \/ Scroll(c) \/ HoldEnds(c)
  \/ DragBegins(c) \/ DragPoint(c) \/ DragEnds(c) \/ LostEnds(c)

Text(c) ==
  \/ TypeBegins(c) \/ Types(c) \/ GuestSets(c) \/ Paste(c) \/ ClipboardFails(c)
  \/ TypeReturns(c)

Ending(c) ==
  \/ Finishes(c) \/ TimelineReleases(c) \/ TimelineLeaves(c)
  \/ ScriptReleases(c) \/ ReleaseFails(c) \/ DisconnectVnc(c)

Next == Drop \/ \E c \in Client : Keyboard(c) \/ Pointer(c) \/ Text(c) \/ Ending(c)

Spec == Init /\ [][Next]_vars

-----------------------------------------------------------------------------
\* Whatever is down in the guest, some run still knows of and will lift, or a click
\* or drag in progress holds it, or it was left when a session was lost or because a
\* timeline asked for that: no interleaving of runs on one VM alone leaves a key or a
\* button pressed (the release at the end of timeline.ts and of run()).
HeldIsKnown == guest \subseteq (UNION {held[r] : r \in Records}) \cup InHand \cup abandoned

\* type_text makes one text arrive and no more, by whichever of its ways, and by
\* falling back from one to the other (typeTextByStrategy, typeWithStrategy).
TextOnce ==
  \A c \in Client :
    /\ Len(texts[c]) <= 1
    /\ pc[c] \in {"typing", "clipboard"} => texts[c] = <<>>
    /\ pc[c] = "typed" /\ Live(c) => texts[c] # <<>>

\* What arrives is the text of the call: "Set the Windows clipboard to `text`", which
\* the caller then pastes (windows-guest.ts).
OwnText == \A c \in Client : \A i \in DOMAIN texts[c] : texts[c][i] = c
=============================================================================
