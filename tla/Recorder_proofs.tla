--------------------------- MODULE Recorder_proofs ---------------------------
(***************************************************************************)
(* Proofs about RecorderPipeline, for any capacity of its channels and     *)
(* pipes, any lookahead of ffmpeg and any number of callbacks and frames;  *)
(* and, behind them, about RecorderOutput, for any stream of pictures,     *)
(* wherever the reads cut it, and any timestamps.                          *)
(***************************************************************************)
EXTENDS RecorderPipeline, RecorderOutput, SequenceTheorems, WellFoundedInduction, TLAPS

Broken == source.flag \/ source.fatal

\* An error is recorded before anything is said of it.
ErrorFirst ==
  /\ \A l \in Listener : call[l] \in {"failEos", "term"} => Broken
  /\ source.term => Broken
  /\ endedBy = "failEos" \/ (\E i \in DOMAIN chan : chan[i] = "failEos") => Broken

\* Until a state is opened the channel is as it was filled: its first event is no Frame,
\* and while it is empty no callback has come as far as to emit one.
FirstEvent ==
  ~state.open /\ loop # "done" =>
    IF chan = <<>>
    THEN \A l \in Listener : /\ call[l] \notin {"frame", "paint"}
                             /\ surface[l] => call[l] \in {"store", "oddStore", "reset", "oddReset"}
    ELSE chan[1] # "frame"

\* Without the x264 state nothing of ffmpeg is there.
NoChild ==
  backend # "x264" \/ ~state.open =>
    /\ loop \in {"none", "idle", "done"} /\ ~state.frame /\ ~state.fresh
    /\ child = "none" /\ ~pump
    /\ inside = <<>> /\ out = <<>> /\ units = <<>> /\ pending = <<>> /\ written = 0

\* ffmpeg and its pump: what is empty when.
ChildStages ==
  /\ child \in {"none", "ok", "failed"} => inside = <<>>
  /\ state.open /\ backend = "x264" /\ loop # "done" /\ ~pump /\ Err \notin ToSet(units) =>
       out = <<>> /\ child \in {"ok", "failed"}
  /\ loop = "wait" => units = <<>> /\ ~pump
  /\ state.fresh => state.frame
  /\ loop \in {"drain", "wait"} => ~state.fresh

\* The main task and the loop.
MainStages ==
  /\ main \in {"registering", "armed"} <=> loop = "none"
  /\ loop = "none" => ~state.open
  /\ terminal = "running" <=> loop # "done"
  /\ stop = "eos" => terminal = "eos"
  /\ stop = "term" => source.term
  /\ main \in {"sending", "finalizing"} =>
       stop # "term" /\ ~(stop = "eos" /\ endedBy = "failEos")
  /\ exit = "ok" => terminal = "eos" /\ main = "finalizing"

Complete == terminal = "eos" /\ state.open => sunk /\ pending = <<>> /\ ~state.fresh

IInv == /\ TypeOK /\ ErrorFirst /\ FirstEvent /\ NoChild /\ ChildStages /\ MainStages
        /\ TimesInOrder /\ Complete

-----------------------------------------------------------------------------
(* Sequences *)

Unit == Nat \cup {Err}

LEMMA PrefixByIndex ==
  ASSUME NEW s \in Seq(Unit), NEW t \in Seq(Unit)
  PROVE  IsPrefix(s, t) <=> Len(s) <= Len(t) /\ \A i \in 1 .. Len(s) : s[i] = t[i]
<1>1. Len(s) \in Nat /\ Len(t) \in Nat
  OBVIOUS
<1>2. SubSeq(s, 1, Len(s)) = s
  BY SubSeqFull
<1>3. ASSUME Len(s) <= Len(t)
      PROVE  /\ SubSeq(t, 1, Len(s)) \in Seq(Unit) /\ Len(SubSeq(t, 1, Len(s))) = Len(s)
             /\ \A i \in 1 .. Len(s) : SubSeq(t, 1, Len(s))[i] = t[i]
  BY <1>1, <1>3, SubSeqProperties
<1>4. ASSUME Len(s) <= Len(t), \A i \in 1 .. Len(s) : s[i] = t[i]
      PROVE  s = SubSeq(t, 1, Len(s))
  BY <1>3, <1>4, SeqEqual
<1>5. QED
  BY <1>2, <1>3, <1>4 DEF IsPrefix

LEMMA ConcatAppend ==
  ASSUME NEW s \in Seq(Unit), NEW t \in Seq(Unit), NEW u \in Unit
  PROVE  s \o Append(t, u) = Append(s \o t, u)
OBVIOUS

LEMMA ConcatTail ==
  ASSUME NEW s \in Seq(Unit), NEW t \in Seq(Unit), s # <<>>
  PROVE  Tail(s \o t) = Tail(s) \o t /\ Head(s \o t) = Head(s) /\ s \o t # <<>>
OBVIOUS

LEMMA MoveHead ==
  ASSUME NEW s \in Seq(Unit), NEW t \in Seq(Unit), t # <<>>
  PROVE  Append(s, Head(t)) \o Tail(t) = s \o t
OBVIOUS

LEMMA PrefixTail ==
  ASSUME NEW s \in Seq(Unit), NEW t \in Seq(Unit), IsPrefix(s, t), s # <<>>
  PROVE  IsPrefix(Tail(s), Tail(t))
<1>1. Len(s) \in Nat \ {0} /\ Len(t) \in Nat /\ Len(s) <= Len(t) /\ \A i \in 1 .. Len(s) : s[i] = t[i]
  BY PrefixByIndex
<1>2. t # <<>>
  BY <1>1
<1>3. /\ Tail(s) \in Seq(Unit) /\ Len(Tail(s)) = Len(s) - 1
      /\ \A i \in 1 .. Len(s) - 1 : Tail(s)[i] = s[i + 1]
  BY HeadTailProperties
<1>4. /\ Tail(t) \in Seq(Unit) /\ Len(Tail(t)) = Len(t) - 1
      /\ \A i \in 1 .. Len(t) - 1 : Tail(t)[i] = t[i + 1]
  BY <1>2, HeadTailProperties
<1>5. \A i \in 1 .. Len(s) - 1 : Tail(s)[i] = Tail(t)[i]
  <2>1. \A i \in 1 .. Len(s) - 1 : i + 1 \in 1 .. Len(s) /\ i \in 1 .. Len(t) - 1
    BY <1>1
  <2>2. QED
    BY <1>1, <1>3, <1>4, <2>1
<1>6. Len(Tail(s)) <= Len(Tail(t))
  BY <1>1, <1>3, <1>4
<1>7. QED
  BY <1>3, <1>4, <1>5, <1>6, PrefixByIndex

LEMMA PrefixConcat ==
  ASSUME NEW s \in Seq(Unit), NEW t \in Seq(Unit), NEW u \in Seq(Unit), IsPrefix(s \o t, u)
  PROVE  IsPrefix(s, u)
<1>1. s \o t \in Seq(Unit) /\ Len(s \o t) = Len(s) + Len(t) /\ Len(s) \in Nat /\ Len(t) \in Nat
      /\ Len(u) \in Nat
  OBVIOUS
<1>2. \A i \in 1 .. Len(s) : (s \o t)[i] = s[i]
  OBVIOUS
<1>3. Len(s \o t) <= Len(u) /\ \A i \in 1 .. Len(s \o t) : (s \o t)[i] = u[i]
  BY <1>1, PrefixByIndex
<1>4. Len(s) <= Len(u) /\ \A i \in 1 .. Len(s) : s[i] = u[i]
  BY <1>1, <1>2, <1>3
<1>5. QED
  BY <1>4, PrefixByIndex

-----------------------------------------------------------------------------
(* Types *)

SourceT ==
  /\ call \in [Listener -> Steps] /\ surface \in [Listener -> BOOLEAN]
  /\ shared \in {"none", "even", "odd"}
  /\ calls \in Nat
  /\ source \in [flag : BOOLEAN, fatal : BOOLEAN, term : BOOLEAN]
ChanT == chan \in Seq(Events) /\ Len(chan) <= ChanCap
MainT ==
  /\ main \in {"registering", "armed", "running", "stopped", "sending", "finalizing"}
  /\ stop \in {"none", "signal", "term", "duration", "eos", "fatal"}
  /\ exit \in {"none", "ok", "preflight", "dirty", "internal", "killed"}
  /\ backend \in Backends
LoopT ==
  /\ loop \in {"none", "idle", "write", "wrote", "lastWrite", "lastWrote", "drain",
               "wait", "done"}
  /\ state \in [open : BOOLEAN, frame : BOOLEAN, fresh : BOOLEAN]
  /\ terminal \in {"running", "eos", "fatal"}
  /\ sunk \in BOOLEAN
  /\ pending \in Seq(Nat) /\ written \in Nat
EndT == endedBy \in {"none", "eos", "failEos"}
ChildT ==
  /\ child \in {"none", "running", "closing", "ok", "failed"}
  /\ inside \in Seq(Nat) /\ Len(inside) <= Inside
  /\ out \in Seq(Nat) /\ Len(out) <= PipeCap
  /\ pump \in BOOLEAN
  /\ units \in Seq(Unit) /\ Len(units) <= UnitCap

LEMMA TypeParts ==
  /\ TypeOK <=> SourceT /\ ChanT /\ MainT /\ LoopT /\ EndT /\ ChildT
  /\ TypeOK' <=> SourceT' /\ ChanT' /\ MainT' /\ LoopT' /\ EndT' /\ ChildT'
BY DEF TypeOK, SourceT, ChanT, MainT, LoopT, EndT, ChildT, Unit

LEMMA PartsStay ==
  /\ SourceT /\ UNCHANGED sourceVars => SourceT'
  /\ ChanT /\ UNCHANGED chan => ChanT'
  /\ MainT /\ UNCHANGED <<mainVars, backend>> => MainT'
  /\ LoopT /\ UNCHANGED <<loop, state, terminal, sunk, pending, written>> => LoopT'
  /\ EndT /\ UNCHANGED endedBy => EndT'
  /\ ChildT /\ UNCHANGED childVars => ChildT'
BY DEF SourceT, ChanT, MainT, LoopT, EndT, ChildT, sourceVars, mainVars, childVars

LEMMA InitTypes == Init => TypeOK
<1> SUFFICES ASSUME Init PROVE TypeOK
  OBVIOUS
<1>1. SourceT /\ EndT
  BY DEF Init, SourceT, EndT, Steps
<1>2. Len(<<>>) = 0 /\ 0 <= ChanCap /\ 0 <= Inside /\ 0 <= PipeCap /\ 0 <= UnitCap
  BY CapAssumption
<1>3. ChanT
  BY <1>2 DEF Init, ChanT
<1>4. inside = <<>> /\ out = <<>> /\ units = <<>> /\ child = "none" /\ pump = FALSE
  BY DEF Init
<1>5. ChildT
  <2>1. inside \in Seq(Nat) /\ Len(inside) <= Inside
    BY <1>2, <1>4
  <2>2. out \in Seq(Nat) /\ Len(out) <= PipeCap
    BY <1>2, <1>4
  <2>3. units \in Seq(Unit) /\ Len(units) <= UnitCap
    BY <1>2, <1>4
  <2>4. QED
    BY <1>4, <2>1, <2>2, <2>3 DEF ChildT
<1>6. MainT
  BY DEF Init, MainT
<1>7. state \in [open : BOOLEAN, frame : BOOLEAN, fresh : BOOLEAN] /\ pending \in Seq(Nat)
  BY DEF Init
<1>8. LoopT
  BY <1>7 DEF Init, LoopT
<1> QED
  BY <1>1, <1>3, <1>5, <1>6, <1>8, TypeParts

LEMMA ProceedTypes ==
  ASSUME TypeOK, NEW l \in Listener, Proceed(l)
  PROVE  call' \in [Listener -> Steps] /\ UNCHANGED <<surface, calls>>
<1>1. After(l, call[l]) \in Steps
  BY DEF After, Steps
<1>2. QED
  BY <1>1 DEF Proceed, TypeOK

LEMMA SourceTypes ==
  ASSUME TypeOK, Source
  PROVE  TypeOK'
<1> USE TypeParts, PartsStay
<1>1. ASSUME NEW l \in Listener, NEW s \in Steps, Callback(l, s), surface' \in [Listener -> BOOLEAN]
      PROVE  TypeOK'
  <2>1. SourceT'
    BY <1>1 DEF Callback, SourceT
  <2>2. QED
    BY <1>1, <2>1 DEF Callback, loopVars
<1>2. CASE \E l \in Listener : Scanout(l) \/ Refused(l) \/ Update(l)
  <2>1. PICK l \in Listener, s \in Steps : /\ Callback(l, s)
                                           /\ surface' = surface \/ surface' = [surface EXCEPT ![l] = TRUE]
    BY <1>2 DEF Scanout, Refused, Update, Steps
  <2>2. surface' \in [Listener -> BOOLEAN]
    BY <2>1 DEF TypeOK
  <2>3. QED
    BY <1>1, <2>1, <2>2
<1>3. CASE Dmabuf \/ Disconnected
  <2>1. "base" \in Listener /\ "flag" \in Steps /\ "eos" \in Steps
    BY DEF Listener, Steps
  <2>2. surface' \in [Listener -> BOOLEAN]
    BY <1>3 DEF Dmabuf, Disconnected, TypeOK
  <2>3. QED
    BY <1>1, <1>3, <2>1, <2>2 DEF Dmabuf, Disconnected
<1>4. ASSUME NEW l \in Listener, Store(l)
      PROVE  TypeOK'
  <2>1. SourceT'
    BY <1>4, ProceedTypes DEF Store, SourceT
  <2>2. QED
    BY <1>4, <2>1 DEF Store, loopVars
<1>5. ASSUME NEW l \in Listener, Emit(l)
      PROVE  TypeOK'
  <2>1. ChanT'
    BY <1>5, CapAssumption DEF Emit, ChanT
  <2>2. SourceT'
    BY <1>5, ProceedTypes DEF Emit, SourceT
  <2>3. QED
    BY <1>5, <2>1, <2>2 DEF Emit, loopVars
<1>6. ASSUME NEW l \in Listener, Record(l)
      PROVE  TypeOK'
  <2>1. source' \in [flag : BOOLEAN, fatal : BOOLEAN, term : BOOLEAN]
    BY <1>6 DEF Record, TypeOK
  <2>2. SourceT'
    BY <1>6, <2>1, ProceedTypes DEF Record, SourceT
  <2>3. QED
    BY <1>6, <2>2 DEF Record, loopVars
<1>7. ASSUME NEW l \in Listener, Raise(l)
      PROVE  TypeOK'
  <2>1. source' \in [flag : BOOLEAN, fatal : BOOLEAN, term : BOOLEAN]
    BY <1>7 DEF Raise, TypeOK
  <2>2. SourceT'
    BY <1>7, <2>1, ProceedTypes DEF Raise, SourceT
  <2>3. MainT'
    BY <1>7 DEF Raise, MainT
  <2>4. QED
    BY <1>7, <2>2, <2>3 DEF Raise, loopVars
<1>8. QED
  BY <1>2, <1>3, <1>4, <1>5, <1>6, <1>7 DEF Source

LEMMA MainTypes ==
  ASSUME TypeOK, Main
  PROVE  TypeOK'
<1> USE TypeParts, PartsStay
<1>1. CASE Registered \/ SourceClean
  <2>1. MainT'
    BY <1>1 DEF Registered, SourceClean, MainGoes, MainT
  <2>2. QED
    BY <1>1, <2>1 DEF Registered, SourceClean, MainGoes, loopVars
<1>2. CASE EncoderStarts
  <2>1. MainT' /\ LoopT'
    BY <1>2 DEF EncoderStarts, MainGoes, MainT, LoopT
  <2>2. QED
    BY <1>2, <2>1 DEF EncoderStarts, MainGoes
<1>3. CASE StartFails \/ SourceFailed \/ Finalized \/ GivenUp
  <2>1. PICK how \in {"internal", "preflight", "dirty", "ok"} : Exits(how)
    BY <1>3 DEF StartFails, SourceFailed, Finalized, GivenUp
  <2>2. MainT'
    BY <2>1 DEF Exits, MainT
  <2>3. QED
    BY <2>1, <2>2 DEF Exits, loopVars
<1>4. CASE \E why \in {"signal", "term", "duration", "eos", "fatal"} : Stops(why)
  <2>1. MainT'
    BY <1>4 DEF Stops, MainGoes, MainT
  <2>2. QED
    BY <1>4, <2>1 DEF Stops, MainGoes, loopVars
<1>5. CASE SendEos
  <2>1. ChanT'
    BY <1>5, CapAssumption DEF SendEos, Events, ChanT
  <2>2. MainT'
    BY <1>5 DEF SendEos, MainT
  <2>3. QED
    BY <1>5, <2>1, <2>2 DEF SendEos, loopVars
<1>6. QED
  BY <1>1, <1>2, <1>3, <1>4, <1>5 DEF Main

LEMMA EndingTypes ==
  ASSUME TypeOK, Fails \/ SinkRefuses \/ SinksEos
  PROVE  LoopT' /\ ChildT'
<1>1. LoopT'
  BY TypeParts DEF Fails, SinkRefuses, SinksEos, Ends, LoopT
<1>2. ChildT'
  BY TypeParts, PartsStay DEF Fails, SinkRefuses, SinksEos
<1>3. QED
  BY <1>1, <1>2

LEMMA PushTypes ==
  ASSUME TypeOK, units # <<>>, Pushes
  PROVE  LoopT' /\ ChildT'
<1>1. CASE Fails \/ SinkRefuses
  BY <1>1, EndingTypes
<1>2. CASE ~(Fails \/ SinkRefuses)
  <2>1. /\ pending # <<>> /\ pending' = Tail(pending) /\ units' = Tail(units)
        /\ UNCHANGED <<loop, terminal, state, sunk, written, child, inside, out, pump>>
    BY <1>2 DEF Pushes
  <2>2. LoopT'
    BY <2>1, TypeParts DEF LoopT
  <2>3. units' \in Seq(Unit) /\ Len(units') <= UnitCap
    BY <2>1, TypeParts, CapAssumption DEF ChildT
  <2>4. QED
    BY <2>1, <2>2, <2>3, TypeParts DEF ChildT
<1>3. QED
  BY <1>1, <1>2

LEMMA FinishTypes ==
  ASSUME TypeOK, Finishes
  PROVE  LoopT' /\ ChildT'
<1>1. LoopT'
  BY TypeParts DEF Finishes, LoopT
<1>2. ChildT'
  BY TypeParts, PartsStay DEF Finishes, childVars, ChildT
<1>3. QED
  BY <1>1, <1>2

LEMMA OpenTypes ==
  ASSUME TypeOK, Opens
  PROVE  LoopT' /\ ChildT'
<1> USE TypeParts, PartsStay
<1>1. CASE SinkRefuses
  BY <1>1, EndingTypes
<1>2. CASE UNCHANGED <<loop, terminal, state, sunk, pending, written, childVars>>
  BY <1>2
<1>3. CASE Ends("fatal") /\ UNCHANGED <<state, sunk, pending, written, childVars>>
  BY <1>3 DEF Ends, LoopT
<1>4. CASE /\ state' = [state EXCEPT !.open = TRUE]
           /\ child' = IF backend = "x264" THEN "running" ELSE child
           /\ pump'  = (backend = "x264")
           /\ UNCHANGED <<loop, terminal, sunk, pending, written, inside, out, units>>
  <2>1. state' \in [open : BOOLEAN, frame : BOOLEAN, fresh : BOOLEAN]
    BY <1>4 DEF LoopT
  <2>2. LoopT'
    BY <1>4, <2>1 DEF LoopT
  <2>3. ChildT'
    BY <1>4 DEF ChildT
  <2>4. QED
    BY <2>2, <2>3
<1>5. QED
  BY <1>1, <1>2, <1>3, <1>4 DEF Opens

LEMMA FrameTypes ==
  ASSUME TypeOK, TakesFrame
  PROVE  LoopT' /\ ChildT'
<1> USE TypeParts, PartsStay
<1>1. CASE Fails \/ SinkRefuses
  BY <1>1, EndingTypes
<1>2. CASE UNCHANGED <<loop, terminal, state, sunk, pending, written, childVars>>
  BY <1>2
<1>3. CASE Stages
  <2>1. state' \in [open : BOOLEAN, frame : BOOLEAN, fresh : BOOLEAN]
    BY <1>3 DEF Stages, LoopT
  <2>2. QED
    BY <1>3, <2>1 DEF Stages, LoopT
<1>4. QED
  BY <1>1, <1>2, <1>3 DEF TakesFrame, Encodes

LEMMA EosTypes ==
  ASSUME TypeOK, TakesEos
  PROVE  LoopT' /\ ChildT'
<1> USE TypeParts, PartsStay
<1>1. CASE SinksEos
  BY <1>1, EndingTypes
<1>2. CASE Ends("eos") /\ UNCHANGED <<state, sunk, pending, written, childVars>>
  BY <1>2 DEF Ends, LoopT
<1>3. CASE Finishes
  BY <1>3, FinishTypes
<1>4. QED
  BY <1>1, <1>2, <1>3, EndingTypes DEF TakesEos

LEMMA LoopTypes ==
  ASSUME TypeOK, Loop
  PROVE  TypeOK'
<1> USE TypeParts, PartsStay DEF LoopUnchanged
<1>1. CASE TakeEvent
  <2>1. ChanT'
    BY <1>1, CapAssumption DEF TakeEvent, ChanT
  <2>2. EndT'
    BY <1>1 DEF TakeEvent, EndT
  <2>3. LoopT' /\ ChildT'
    BY <1>1, EndingTypes, OpenTypes, FrameTypes, EosTypes DEF TakeEvent
  <2>4. QED
    BY <1>1, <2>1, <2>2, <2>3 DEF TakeEvent
<1>2. CASE TakeUnit \/ (Drain /\ units # <<>>)
  <2>1. Pushes /\ units # <<>>
    BY <1>2 DEF TakeUnit, Drain
  <2>2. QED
    BY <1>2, <2>1, PushTypes DEF TakeUnit, Drain
<1>3. CASE Tick
  <2>1. LoopT'
    BY <1>3 DEF Tick, LoopT
  <2>2. QED
    BY <1>3, <2>1 DEF Tick
<1>4. CASE WriteReturns
  <2>1. state' \in [open : BOOLEAN, frame : BOOLEAN, fresh : BOOLEAN]
    BY <1>4 DEF WriteReturns, LoopT
  <2>2. pending' \in Seq(Nat) /\ written' \in Nat
    BY <1>4 DEF WriteReturns, LoopT
  <2>3. LoopT'
    BY <1>4, <2>1, <2>2 DEF WriteReturns, LoopT
  <2>4. ChildT'
    BY <1>4 DEF WriteReturns, ChildT
  <2>5. QED
    BY <1>4, <2>3, <2>4 DEF WriteReturns
<1>5. CASE WriteFails
  BY <1>5, EndingTypes DEF WriteFails
<1>6. CASE Drain /\ units = <<>>
  <2>1. LoopT'
    BY <1>6 DEF Drain, LoopT
  <2>2. QED
    BY <1>6, <2>1 DEF Drain
<1>7. CASE ChildEnded
  BY <1>7, EndingTypes DEF ChildEnded
<1>8. QED
  BY <1>1, <1>2, <1>3, <1>4, <1>5, <1>6, <1>7 DEF Loop

LEMMA ChildTypes ==
  ASSUME TypeOK, Child
  PROVE  TypeOK'
<1> USE TypeParts, PartsStay
<1>1. ASSUME ChildUnchanged, LoopT', ChildT'
      PROVE  TypeOK'
  BY <1>1 DEF ChildUnchanged
<1>2. CASE FfmpegReads
  <2>1. inside' \in Seq(Nat) /\ Len(inside') <= Inside
    BY <1>2, CapAssumption DEF FfmpegReads, LoopT, ChildT
  <2>2. ChildT'
    BY <1>2, <2>1 DEF FfmpegReads, ChildT
  <2>3. LoopT'
    BY <1>2 DEF FfmpegReads, ChildUnchanged, LoopT
  <2>4. QED
    BY <1>1, <1>2, <2>2, <2>3 DEF FfmpegReads
<1>3. ASSUME ChildUnchanged, UNCHANGED loop
      PROVE  LoopT'
  BY <1>3 DEF ChildUnchanged
<1>4. ASSUME inside' = <<>>, UNCHANGED <<out, pump, units>>, child' \in {"ok", "failed"}
      PROVE  ChildT'
  <2>1. Len(<<>>) = 0 /\ 0 <= Inside
    BY CapAssumption
  <2>2. QED
    BY <1>4, <2>1 DEF ChildT
<1>5. CASE FfmpegEmits
  <2>1. ChildT'
    <3>1. CASE pump
      <4>1. out' = Append(out, Head(inside)) /\ inside' = Tail(inside) /\ Len(out) < PipeCap
            /\ inside # <<>>
        BY <1>5, <3>1 DEF FfmpegEmits
      <4>2. out' \in Seq(Nat) /\ Len(out') <= PipeCap
        BY <4>1, CapAssumption DEF ChildT
      <4>3. inside' \in Seq(Nat) /\ Len(inside') <= Inside
        BY <4>1, CapAssumption DEF ChildT
      <4>4. QED
        BY <1>5, <3>1, <4>2, <4>3 DEF FfmpegEmits, ChildT
    <3>2. CASE ~pump
      BY <1>4, <1>5, <3>2 DEF FfmpegEmits
    <3>3. QED
      BY <3>1, <3>2
  <2>2. QED
    BY <1>1, <1>3, <1>5, <2>1 DEF FfmpegEmits
<1>6. CASE FfmpegEnds \/ FfmpegDies
  <2>1. ChildT'
    BY <1>4, <1>6 DEF FfmpegEnds, FfmpegDies
  <2>2. QED
    BY <1>1, <1>3, <1>6, <2>1 DEF FfmpegEnds, FfmpegDies
<1>7. CASE PumpSends
  <2>1. Len(out) \in Nat /\ out # <<>>
    BY <1>7 DEF PumpSends, ChildT
  <2>2. out' \in Seq(Nat) /\ Len(out') <= PipeCap
    BY <1>7, <2>1, CapAssumption DEF PumpSends, ChildT
  <2>3. Head(out) \in Unit
    BY <2>1 DEF ChildT, Unit
  <2>4. units' \in Seq(Unit) /\ Len(units') <= UnitCap
    BY <1>7, <2>3, CapAssumption DEF PumpSends, ChildT
  <2>5. ChildT'
    BY <1>7, <2>2, <2>4 DEF PumpSends, ChildT
  <2>6. QED
    BY <1>1, <1>3, <1>7, <2>5 DEF PumpSends
<1>8. CASE PumpFails
  <2>1. Err \in Unit /\ Len(<<>>) = 0 /\ 0 <= PipeCap
    BY CapAssumption DEF Unit
  <2>2. units' \in Seq(Unit) /\ Len(units') <= UnitCap
    BY <1>8, <2>1, CapAssumption DEF PumpFails, ChildT
  <2>3. out' \in Seq(Nat) /\ Len(out') <= PipeCap
    BY <1>8, <2>1 DEF PumpFails
  <2>4. ChildT'
    BY <1>8, <2>2, <2>3 DEF PumpFails, ChildT
  <2>5. QED
    BY <1>1, <1>3, <1>8, <2>4 DEF PumpFails
<1>9. CASE PumpEnds
  <2>1. ChildT'
    BY <1>9 DEF PumpEnds, ChildT
  <2>2. QED
    BY <1>1, <1>3, <1>9, <2>1 DEF PumpEnds
<1>10. QED
  BY <1>2, <1>5, <1>6, <1>7, <1>8, <1>9 DEF Child

LEMMA NextTypes == TypeOK /\ [Next]_vars => TypeOK'
<1> SUFFICES ASSUME TypeOK, [Next]_vars PROVE TypeOK'
  OBVIOUS
<1>1. CASE UNCHANGED vars
  BY <1>1, TypeParts, PartsStay DEF vars, loopVars
<1>2. QED
  BY <1>1, SourceTypes, MainTypes, LoopTypes, ChildTypes DEF Next

-----------------------------------------------------------------------------
(* The source *)

LEMMA ErrorFirstStays ==
  ASSUME TypeOK, ErrorFirst, Next
  PROVE  ErrorFirst'
<1>1. /\ call \in [Listener -> Steps] /\ source \in [flag : BOOLEAN, fatal : BOOLEAN, term : BOOLEAN]
      /\ chan \in Seq(Events) /\ DOMAIN chan = 1 .. Len(chan) /\ Len(chan) \in Nat
  BY DEF TypeOK
<1>2. ASSUME UNCHANGED <<call, source, chan, endedBy>>
      PROVE  ErrorFirst'
  BY <1>2 DEF ErrorFirst, Broken
<1>3. ASSUME NEW l \in Listener, NEW s, s \notin {"failEos", "term"}, Callback(l, s)
      PROVE  ErrorFirst'
  BY <1>1, <1>3 DEF Callback, loopVars, ErrorFirst, Broken
<1>4. CASE (\E l \in Listener : Scanout(l) \/ Refused(l) \/ Update(l)) \/ Dmabuf \/ Disconnected
  BY <1>3, <1>4 DEF Scanout, Refused, Update, Dmabuf, Disconnected, Listener
<1>5. ASSUME NEW l \in Listener, Store(l)
      PROVE  ErrorFirst'
  <2>1. After(l, call[l]) \notin {"failEos", "term"}
    BY <1>5 DEF Store, After
  <2>2. QED
    BY <1>1, <1>5, <2>1 DEF Store, Proceed, loopVars, ErrorFirst, Broken
<1>6. ASSUME NEW l \in Listener, Emit(l)
      PROVE  ErrorFirst'
  <2>1. After(l, call[l]) \in {"failEos", "term"} => Broken
    BY <1>6 DEF Emit, After, Events, ErrorFirst
  <2>2. \A i \in DOMAIN chan' : chan'[i] = "failEos" =>
          call[l] = "failEos" \/ \E j \in DOMAIN chan : chan[j] = "failEos"
    BY <1>1, <1>6 DEF Emit
  <2>3. QED
    BY <1>1, <1>6, <2>1, <2>2 DEF Emit, Proceed, loopVars, ErrorFirst, Broken
<1>7. ASSUME NEW l \in Listener, Record(l)
      PROVE  ErrorFirst'
  <2>1. Broken'
    BY <1>1, <1>7 DEF Record, Broken
  <2>2. QED
    BY <2>1 DEF ErrorFirst
<1>8. ASSUME NEW l \in Listener, Raise(l)
      PROVE  ErrorFirst'
  <2>1. After(l, call[l]) = "idle" /\ Broken
    BY <1>8 DEF Raise, After, ErrorFirst
  <2>2. Broken'
    BY <1>1, <1>8, <2>1 DEF Raise, Broken
  <2>3. QED
    BY <2>2 DEF ErrorFirst
<1>9. CASE SendEos
  <2>1. \A i \in DOMAIN chan' : chan'[i] = "failEos" => \E j \in DOMAIN chan : chan[j] = "failEos"
    BY <1>1, <1>9 DEF SendEos
  <2>2. QED
    BY <1>9, <2>1 DEF SendEos, sourceVars, loopVars, ErrorFirst, Broken
<1>10. CASE Main /\ ~SendEos
  BY <1>2, <1>10 DEF Main, Registered, EncoderStarts, StartFails, Stops, SourceFailed, SourceClean,
                     Finalized, GivenUp, MainGoes, Exits, sourceVars, loopVars
<1>11. CASE TakeEvent
  <2>1. chan # <<>> /\ chan' = Tail(chan) /\ UNCHANGED <<call, source>>
    BY <1>11 DEF TakeEvent, LoopUnchanged, sourceVars
  <2>2. \A i \in DOMAIN chan' : chan'[i] = "failEos" => \E j \in DOMAIN chan : chan[j] = "failEos"
    BY <1>1, <2>1
  <2>3. Head(chan) = chan[1] /\ 1 \in DOMAIN chan
    BY <1>1, <2>1
  <2>4. endedBy' = "failEos" => endedBy = "failEos" \/ chan[1] = "failEos"
    BY <1>11, <2>3 DEF TakeEvent
  <2>5. QED
    BY <2>1, <2>2, <2>3, <2>4 DEF ErrorFirst, Broken
<1>12. CASE Loop /\ ~TakeEvent
  BY <1>2, <1>12 DEF Loop, TakeUnit, Tick, WriteReturns, WriteFails, Drain, ChildEnded, LoopUnchanged,
                     sourceVars
<1>13. CASE Child
  BY <1>2, <1>13 DEF Child, FfmpegReads, FfmpegEmits, FfmpegEnds, FfmpegDies, PumpSends, PumpFails,
                     PumpEnds, ChildUnchanged, sourceVars
<1>14. QED
  BY <1>4, <1>5, <1>6, <1>7, <1>8, <1>9, <1>10, <1>11, <1>12, <1>13 DEF Next, Source

-----------------------------------------------------------------------------
(* The loop *)

\* What an ended loop leaves is left alone.
LEMMA Frozen ==
  ASSUME MainStages, Next, loop = "done"
  PROVE  UNCHANGED <<loopVars, backend>>
<1>1. CASE Source
  BY <1>1 DEF Source, Scanout, Refused, Update, Dmabuf, Disconnected, Callback, Store, Emit, Record, Raise
<1>2. CASE Main
  BY <1>2 DEF Main, Registered, EncoderStarts, StartFails, Stops, SourceFailed, SourceClean, SendEos,
              Finalized, GivenUp, MainGoes, Exits, MainStages
<1>3. CASE Loop
  BY <1>3 DEF Loop, TakeEvent, TakeUnit, Tick, WriteReturns, WriteFails, Drain, ChildEnded, Looping
<1>4. CASE Child
  BY <1>4 DEF Child, FfmpegReads, FfmpegEmits, FfmpegEnds, FfmpegDies, PumpSends, PumpFails,
              PumpEnds, Working
<1>5. QED
  BY <1>1, <1>2, <1>3, <1>4 DEF Next

\* A source or main step changes nothing of the loop and of ffmpeg, but that it is started.
LEMMA OutsideTheLoop ==
  ASSUME Source \/ Main
  PROVE  /\ UNCHANGED <<state, terminal, endedBy, sunk, pending, written, childVars, backend>>
         /\ loop' = loop \/ (EncoderStarts /\ loop' = "idle")
<1>1. CASE Source
  BY <1>1 DEF Source, Scanout, Refused, Update, Dmabuf, Disconnected, Callback, Store, Emit, Record, Raise,
              loopVars
<1>2. CASE EncoderStarts
  BY <1>2 DEF EncoderStarts, MainGoes
<1>3. CASE Main /\ ~EncoderStarts
  BY <1>3 DEF Main, Registered, StartFails, Stops, SourceFailed, SourceClean, SendEos,
              Finalized, GivenUp, MainGoes, Exits, loopVars
<1>4. QED
  BY <1>1, <1>2, <1>3

\* What happens to the state, and what the loop may take while there is none.
LEMMA EventEffect ==
  ASSUME TypeOK, TakeEvent
  PROVE  /\ state.open => state'.open
         /\ ~state.open /\ Head(chan) # "frame" => state'.open \/ loop' = "done"
<1>1. state \in [open : BOOLEAN, frame : BOOLEAN, fresh : BOOLEAN]
  BY DEF TypeOK
<1>2. CASE Opens
  BY <1>1, <1>2 DEF Opens, SinkRefuses, Ends
<1>3. CASE Fails
  BY <1>3 DEF Fails, Ends
<1>4. CASE Head(chan) = "frame" /\ TakesFrame
  BY <1>1, <1>4 DEF TakesFrame, Fails, Stages, Encodes, SinkRefuses
<1>5. CASE TakesEos
  BY <1>5 DEF TakesEos, SinksEos, Finishes, SinkRefuses, Ends
<1>6. QED
  BY <1>2, <1>3, <1>4, <1>5 DEF TakeEvent

LEMMA OpenStays ==
  ASSUME TypeOK, Next, state.open
  PROVE  state'.open
<1>1. CASE Source \/ Main
  BY <1>1, OutsideTheLoop
<1>2. CASE TakeEvent
  BY <1>2, EventEffect
<1>3. CASE WriteReturns
  BY <1>3 DEF WriteReturns, TypeOK
<1>4. CASE Loop /\ ~TakeEvent /\ ~WriteReturns
  BY <1>4 DEF Loop, TakeUnit, Tick, WriteFails, Drain, ChildEnded, Pushes, Fails, SinksEos, SinkRefuses
<1>5. CASE Child
  BY <1>5 DEF Child, FfmpegReads, FfmpegEmits, FfmpegEnds, FfmpegDies, PumpSends, PumpFails,
              PumpEnds, ChildUnchanged
<1>6. QED
  BY <1>1, <1>2, <1>3, <1>4, <1>5 DEF Next

LEMMA FirstEventStays ==
  ASSUME TypeOK, MainStages, FirstEvent, Next
  PROVE  FirstEvent'
<1> SUFFICES ASSUME ~state'.open, loop' # "done"
             PROVE  IF chan' = <<>>
                    THEN \A l \in Listener :
                           /\ call'[l] \notin {"frame", "paint"}
                           /\ surface'[l] => call'[l] \in {"store", "oddStore", "reset", "oddReset"}
                    ELSE chan'[1] # "frame"
  BY DEF FirstEvent
<1>1. ~state.open /\ loop # "done"
  BY OpenStays, Frozen DEF loopVars
<1>2. IF chan = <<>>
      THEN \A l \in Listener :
             /\ call[l] \notin {"frame", "paint"}
             /\ surface[l] => call[l] \in {"store", "oddStore", "reset", "oddReset"}
      ELSE chan[1] # "frame"
  BY <1>1 DEF FirstEvent
<1>3. /\ call \in [Listener -> Steps] /\ surface \in [Listener -> BOOLEAN]
      /\ chan \in Seq(Events) /\ Len(chan) \in Nat /\ ChanCap \in Nat \ {0}
  BY CapAssumption DEF TypeOK
<1>4. CASE UNCHANGED <<call, surface, chan>>
  BY <1>2, <1>4
<1>5. CASE \E l \in Listener : Scanout(l) \/ Refused(l) \/ Update(l)
  BY <1>2, <1>3, <1>5 DEF Scanout, Refused, Update, Callback
<1>6. CASE Dmabuf \/ Disconnected
  BY <1>2, <1>3, <1>6 DEF Dmabuf, Disconnected, Callback, Listener
<1>7. CASE \E l \in Listener : Store(l)
  BY <1>2, <1>3, <1>7 DEF Store, Proceed, After
<1>8. CASE \E l \in Listener : Emit(l)
  <2>1. PICK l \in Listener : Emit(l)
    BY <1>8
  <2>2. CASE chan = <<>>
    <3>1. chan' = Append(chan, call[l]) /\ call[l] # "frame"
      BY <1>1, <1>2, <1>3, <2>1, <2>2 DEF Emit
    <3>2. chan' # <<>> /\ chan'[1] = call[l]
      BY <2>2, <3>1
    <3>3. QED
      BY <3>1, <3>2
  <2>3. CASE chan # <<>>
    <3>1. chan' # <<>> /\ chan'[1] = chan[1]
      BY <1>3, <2>1, <2>3 DEF Emit
    <3>2. QED
      BY <1>2, <2>3, <3>1
  <2>4. QED
    BY <2>2, <2>3
<1>9. CASE \E l \in Listener : Record(l) \/ Raise(l)
  BY <1>2, <1>3, <1>9 DEF Record, Raise, Proceed, After
<1>10. CASE SendEos
  <2>1. chan' = Append(chan, "eos")
    BY <1>1, <1>10 DEF SendEos
  <2>2. chan' # <<>> /\ chan'[1] = IF chan = <<>> THEN "eos" ELSE chan[1]
    BY <1>3, <2>1
  <2>3. QED
    BY <1>2, <2>2
<1>11. CASE Main /\ ~SendEos
  BY <1>4, <1>11 DEF Main, Registered, EncoderStarts, StartFails, Stops, SourceFailed, SourceClean,
                     Finalized, GivenUp, MainGoes, Exits, sourceVars
<1>12. CASE TakeEvent
  <2>1. chan # <<>> /\ Head(chan) = chan[1]
    BY <1>3, <1>12 DEF TakeEvent
  <2>2. QED
    BY <1>1, <1>2, <1>12, <2>1, EventEffect
<1>13. CASE Loop /\ ~TakeEvent
  BY <1>4, <1>13 DEF Loop, TakeUnit, Tick, WriteReturns, WriteFails, Drain, ChildEnded, LoopUnchanged,
                     sourceVars
<1>14. CASE Child
  BY <1>4, <1>14 DEF Child, FfmpegReads, FfmpegEmits, FfmpegEnds, FfmpegDies, PumpSends, PumpFails,
                     PumpEnds, ChildUnchanged, sourceVars
<1>15. QED
  BY <1>5, <1>6, <1>7, <1>8, <1>9, <1>10, <1>11, <1>12, <1>13, <1>14 DEF Next, Source

\* What an event does to the loop and to ffmpeg.
LEMMA EventCases ==
  ASSUME TypeOK, TakeEvent
  PROVE  /\ loop = "idle" /\ UNCHANGED <<call, surface, shared, source, calls, main, stop, exit, backend>>
         /\ \/ /\ loop' = "done" /\ UNCHANGED <<state, pending, written, childVars>>
               /\ \/ terminal' = "fatal"
                  \/ terminal' = "eos" /\ (state.open => backend = "openh264" /\ sunk' = TRUE)
            \/ UNCHANGED <<loop, terminal, state, sunk, pending, written, childVars>>
            \/ /\ ~state.open /\ state' = [state EXCEPT !.open = TRUE]
               /\ child' = IF backend = "x264" THEN "running" ELSE child
               /\ pump'  = (backend = "x264")
               /\ UNCHANGED <<loop, terminal, sunk, pending, written, inside, out, units>>
            \/ state.open /\ backend = "x264" /\ Stages
            \/ state.open /\ backend = "x264" /\ Finishes
<1>1. loop = "idle" /\ UNCHANGED <<call, surface, shared, source, calls, main, stop, exit, backend>>
  BY DEF TakeEvent, Looping, LoopUnchanged, sourceVars, mainVars
<1>2. CASE Opens
  BY <1>1, <1>2 DEF Opens, SinkRefuses, Ends
<1>3. CASE Fails
  BY <1>1, <1>3 DEF Fails, Ends
<1>4. CASE TakesFrame
  BY <1>1, <1>4 DEF TakesFrame, Fails, Encodes, SinkRefuses, Ends
<1>5. CASE TakesEos
  BY <1>1, <1>5 DEF TakesEos, SinksEos, SinkRefuses, Ends
<1>6. QED
  BY <1>2, <1>3, <1>4, <1>5 DEF TakeEvent

\* What an access unit does.
LEMMA PushCases ==
  ASSUME Pushes, loop # "done"
  PROVE  /\ UNCHANGED <<state, sunk, written, child, inside, out, pump>>
         /\ \/ loop' = "done" /\ terminal' = "fatal" /\ UNCHANGED <<pending, units>>
            \/ /\ Head(units) # Err /\ pending # <<>>
               /\ pending' = Tail(pending) /\ units' = Tail(units)
               /\ UNCHANGED <<loop, terminal>>
BY DEF Pushes, Fails, SinkRefuses, Ends, childVars

LEMMA NoChildStays ==
  ASSUME TypeOK, MainStages, NoChild, Next
  PROVE  NoChild'
<1> SUFFICES ASSUME backend' # "x264" \/ ~state'.open
             PROVE  /\ loop' \in {"none", "idle", "done"} /\ ~state'.frame /\ ~state'.fresh
                    /\ child' = "none" /\ ~pump'
                    /\ inside' = <<>> /\ out' = <<>> /\ units' = <<>> /\ pending' = <<>>
                    /\ written' = 0
  BY DEF NoChild
<1>1. UNCHANGED backend
  BY DEF Next, Source, Scanout, Refused, Update, Dmabuf, Disconnected, Callback, Store, Emit, Record, Raise,
         Main, Registered, EncoderStarts, StartFails, Stops, SourceFailed, SourceClean, SendEos,
         Finalized, GivenUp, MainGoes, Exits, Loop, TakeEvent, TakeUnit, Tick, WriteReturns, WriteFails,
         Drain, ChildEnded, LoopUnchanged, Child, FfmpegReads, FfmpegEmits, FfmpegEnds, FfmpegDies,
         PumpSends, PumpFails, PumpEnds, ChildUnchanged
<1>2. backend # "x264" \/ ~state.open
  BY <1>1, OpenStays
<1>3. /\ loop \in {"none", "idle", "done"} /\ ~state.frame /\ ~state.fresh
      /\ child = "none" /\ ~pump
      /\ inside = <<>> /\ out = <<>> /\ units = <<>> /\ pending = <<>>
      /\ written = 0
  BY <1>2 DEF NoChild
<1>4. CASE Source \/ Main
  BY <1>3, <1>4, OutsideTheLoop DEF childVars
<1>5. CASE TakeEvent
  <2>1. state \in [open : BOOLEAN, frame : BOOLEAN, fresh : BOOLEAN]
    BY DEF TypeOK
  <2>2. CASE ~state.open /\ state' = [state EXCEPT !.open = TRUE]
    <3>1. state'.open /\ ~state'.frame /\ ~state'.fresh
      BY <1>3, <2>1, <2>2
    <3>2. backend # "x264"
      BY <1>1, <3>1
    <3>3. QED
      BY <1>3, <1>5, <2>2, <3>1, <3>2, EventCases DEF childVars, Stages
  <2>3. CASE ~(~state.open /\ state' = [state EXCEPT !.open = TRUE])
    <3>1. /\ loop' \in {loop, "done"} /\ UNCHANGED <<state, pending, written>>
          /\ UNCHANGED <<child, inside, out, pump, units>>
      BY <1>2, <1>5, <2>3, EventCases DEF childVars
    <3>2. QED
      BY <1>3, <3>1
  <2>4. QED
    BY <2>2, <2>3
<1>6. CASE Loop /\ ~TakeEvent
  BY <1>3, <1>6 DEF Loop, TakeUnit, Tick, WriteReturns, WriteFails, Drain, ChildEnded, Looping
<1>7. CASE Child
  BY <1>3, <1>7 DEF Child, FfmpegReads, FfmpegEmits, FfmpegEnds, FfmpegDies, PumpSends, PumpFails, PumpEnds,
                    ChildUnchanged
<1>8. QED
  BY <1>4, <1>5, <1>6, <1>7 DEF Next

\* A step of the loop or of ffmpeg: the loop goes on, or it ends.
LEMMA LoopGoes ==
  ASSUME TypeOK, NoChild, MainStages, Loop \/ Child
  PROVE  /\ UNCHANGED <<call, source, main, stop, exit, backend>> /\ exit = "none"
         /\ loop \notin {"none", "done"} /\ loop' # "none"
         /\ \/ terminal' = terminal /\ loop' # "done"
            \/ terminal' \in {"eos", "fatal"} /\ loop' = "done"
<1>1. CASE TakeEvent
  <2>1. exit = "none"
    BY <1>1 DEF TakeEvent, Looping, Alive
  <2>2. QED
    BY <1>1, <2>1, EventCases DEF Stages, Finishes
<1>2. CASE TakeUnit \/ Drain
  BY <1>2, PushCases DEF TakeUnit, Drain, Looping, Alive, LoopUnchanged, sourceVars, mainVars
<1>3. CASE Tick \/ WriteReturns \/ WriteFails \/ ChildEnded
  BY <1>3 DEF Tick, WriteReturns, WriteFails, ChildEnded, SinksEos, SinkRefuses, Fails, Ends,
              Looping, Alive, LoopUnchanged, sourceVars, mainVars
<1>4. CASE Child
  <2>1. loop \notin {"none", "done"}
    BY <1>4 DEF Child, FfmpegReads, FfmpegEmits, FfmpegEnds, FfmpegDies, PumpSends, PumpFails,
                PumpEnds, Working, NoChild, MainStages
  <2>2. QED
    BY <1>4, <2>1 DEF Child, FfmpegReads, FfmpegEmits, FfmpegEnds, FfmpegDies, PumpSends, PumpFails,
                PumpEnds, Working, Alive, ChildUnchanged, sourceVars, mainVars
<1>5. QED
  BY <1>1, <1>2, <1>3, <1>4 DEF Loop

LEMMA MainStagesStay ==
  ASSUME TypeOK, ErrorFirst, NoChild, MainStages, Next
  PROVE  MainStages'
<1>1. CASE Loop \/ Child
  <2>1. /\ UNCHANGED <<call, source, main, stop, exit, backend>> /\ exit = "none"
        /\ loop \notin {"none", "done"} /\ loop' # "none"
        /\ \/ terminal' = terminal /\ loop' # "done"
           \/ terminal' \in {"eos", "fatal"} /\ loop' = "done"
    BY <1>1, LoopGoes
  <2>2. terminal = "running" /\ stop # "eos"
    BY <2>1 DEF MainStages
  <2>3. QED
    BY <2>1, <2>2 DEF MainStages
<1>2. CASE Source
  <2>1. /\ UNCHANGED <<state, terminal, endedBy, loop, main, stop>> /\ exit = "none" /\ exit' \in {"none", "killed"}
    BY <1>2, OutsideTheLoop
       DEF Source, Scanout, Refused, Update, Dmabuf, Disconnected, Callback, Store, Emit, Record, Raise,
           mainVars, loopVars, Alive
  <2>2. source.term => source'.term
    BY <1>2 DEF Source, Scanout, Refused, Update, Dmabuf, Disconnected, Callback, Store, Emit, Record, Raise,
                TypeOK
  <2>3. QED
    BY <2>1, <2>2 DEF MainStages
<1>3. CASE Registered
  BY <1>3 DEF Registered, MainGoes, Alive, loopVars, sourceVars, MainStages
<1>4. CASE EncoderStarts
  BY <1>4 DEF EncoderStarts, MainGoes, Alive, sourceVars, MainStages
<1>5. CASE StartFails \/ SourceFailed \/ GivenUp
  BY <1>5 DEF StartFails, SourceFailed, GivenUp, Exits, Alive, loopVars, sourceVars, MainStages
<1>6. CASE Finalized
  <2>1. exit' = "ok" => terminal = "eos"
    BY <1>6 DEF Finalized, Exits, TypeOK
  <2>2. QED
    BY <1>6, <2>1 DEF Finalized, Exits, loopVars, sourceVars, MainStages
<1>7. CASE \E why \in {"signal", "term", "duration", "eos", "fatal"} : Stops(why)
  BY <1>7 DEF Stops, MainGoes, Alive, loopVars, sourceVars, MainStages
<1>8. CASE SourceClean
  <2>1. ~Broken
    BY <1>8 DEF SourceClean, Broken
  <2>2. stop # "term" /\ endedBy # "failEos"
    BY <2>1 DEF MainStages, ErrorFirst
  <2>3. QED
    BY <1>8, <2>2 DEF SourceClean, MainGoes, Alive, loopVars, sourceVars, MainStages
<1>9. CASE SendEos
  BY <1>9 DEF SendEos, Alive, loopVars, sourceVars, MainStages
<1>10. QED
  BY <1>1, <1>2, <1>3, <1>4, <1>5, <1>6, <1>7, <1>8, <1>9 DEF Next, Main

-----------------------------------------------------------------------------
(* ffmpeg *)

LEMMA ChildStagesStay ==
  ASSUME TypeOK, NoChild, MainStages, ChildStages, Next
  PROVE  ChildStages'
<1>1. state \in [open : BOOLEAN, frame : BOOLEAN, fresh : BOOLEAN]
  BY DEF TypeOK
<1>2. units \in Seq(Unit)
  BY TypeParts DEF ChildT
<1>3. CASE Source \/ Main
  BY <1>3, OutsideTheLoop DEF childVars, EncoderStarts, ChildStages, MainStages
<1>4. CASE TakeEvent
  <2>1. CASE loop' = "done" /\ UNCHANGED <<state, pending, written, childVars>>
    BY <2>1 DEF childVars, ChildStages
  <2>2. CASE UNCHANGED <<loop, terminal, state, sunk, pending, written, childVars>>
    BY <1>4, <2>2, EventCases DEF childVars, ChildStages
  <2>3. CASE /\ ~state.open /\ state' = [state EXCEPT !.open = TRUE]
             /\ child' = IF backend = "x264" THEN "running" ELSE child
             /\ pump'  = (backend = "x264")
             /\ UNCHANGED <<loop, terminal, sunk, pending, written, inside, out, units>>
    BY <1>1, <1>4, <2>3, EventCases DEF NoChild, ChildStages
  <2>4. CASE Stages
    BY <1>1, <1>4, <2>4, EventCases DEF Stages, childVars, ChildStages
  <2>5. CASE Finishes
    BY <1>1, <1>4, <2>5, EventCases DEF Finishes, childVars, ChildStages
  <2>6. QED
    BY <1>4, <2>1, <2>2, <2>3, <2>4, <2>5, EventCases
<1>5. ASSUME Pushes, units # <<>>, loop \in {"idle", "drain"}, backend' = backend
      PROVE  ChildStages'
  <2>1. CASE loop' = "done"
    BY <1>5, <2>1, PushCases DEF ChildStages
  <2>2. CASE loop' # "done"
    <3>1. /\ Head(units) # Err /\ units' = Tail(units)
          /\ UNCHANGED <<state, loop, child, inside, out, pump>>
      BY <1>5, <2>2, PushCases
    <3>2. Err \in ToSet(units) => Err \in ToSet(units')
      <4>1. \A i \in DOMAIN units : units[i] = Err => i # 1
        BY <3>1, <1>2
      <4>2. \A i \in DOMAIN units : i # 1 => i - 1 \in DOMAIN units' /\ units'[i - 1] = units[i]
        BY <1>2, <1>5, <3>1
      <4>3. QED
        BY <4>1, <4>2 DEF ToSet
    <3>3. QED
      BY <1>5, <3>1, <3>2 DEF ChildStages
  <2>3. QED
    BY <2>1, <2>2
<1>6. CASE TakeUnit
  BY <1>5, <1>6 DEF TakeUnit, Looping, LoopUnchanged
<1>7. CASE Drain
  <2>1. CASE units # <<>>
    BY <1>5, <1>7, <2>1 DEF Drain, Looping, LoopUnchanged
  <2>2. CASE units = <<>>
    BY <1>7, <2>2 DEF Drain, Looping, LoopUnchanged, childVars, ChildStages
  <2>3. QED
    BY <2>1, <2>2
<1>8. CASE Tick
  BY <1>8 DEF Tick, LoopUnchanged, childVars, ChildStages
<1>9. CASE WriteReturns
  BY <1>1, <1>9 DEF WriteReturns, LoopUnchanged, ChildStages
<1>10. CASE WriteFails
  BY <1>10 DEF WriteFails, Fails, Ends, LoopUnchanged, childVars, ChildStages
<1>11. CASE ChildEnded
  BY <1>11 DEF ChildEnded, SinksEos, SinkRefuses, Fails, Ends, LoopUnchanged, childVars, ChildStages
<1>12. CASE FfmpegReads
  BY <1>12 DEF FfmpegReads, ChildUnchanged, ChildStages
<1>13. CASE FfmpegEmits \/ FfmpegEnds \/ FfmpegDies
  BY <1>13 DEF FfmpegEmits, FfmpegEnds, FfmpegDies, ChildUnchanged, ChildStages
<1>14. CASE PumpSends
  <2>1. pump /\ pump' /\ UNCHANGED <<loop, child, inside, state, backend>>
    BY <1>14 DEF PumpSends, ChildUnchanged
  <2>2. QED
    BY <2>1 DEF ChildStages
<1>15. CASE PumpFails
  <2>1. Err \in ToSet(units')
    <3>1. units' = Append(units, Err)
      BY <1>15 DEF PumpFails
    <3>2. Len(units) + 1 \in DOMAIN units' /\ units'[Len(units) + 1] = Err
      BY <1>2, <3>1
    <3>3. QED
      BY <3>2 DEF ToSet
  <2>2. pump /\ UNCHANGED <<loop, child, inside, state, backend>>
    BY <1>15 DEF PumpFails, ChildUnchanged
  <2>3. QED
    BY <2>1, <2>2 DEF ChildStages
<1>16. CASE PumpEnds
  BY <1>16 DEF PumpEnds, ChildUnchanged, ChildStages
<1>17. QED
  BY <1>3, <1>4, <1>6, <1>7, <1>8, <1>9, <1>10, <1>11, <1>12, <1>13, <1>14, <1>15, <1>16
     DEF Next, Loop, Child

LEMMA SequencesType ==
  ASSUME TypeOK
  PROVE  /\ units \in Seq(Unit) /\ out \in Seq(Unit) /\ inside \in Seq(Unit) /\ pending \in Seq(Unit)
         /\ written \in Unit /\ OnTheWay \in Seq(Unit) /\ Expected \in Seq(Unit)
<1>1. /\ units \in Seq(Unit) /\ out \in Seq(Unit) /\ inside \in Seq(Unit) /\ pending \in Seq(Unit)
      /\ written \in Unit
  <2>1. Nat \subseteq Unit
    BY DEF Unit
  <2>2. /\ units \in Seq(Unit) /\ out \in Seq(Nat) /\ inside \in Seq(Nat) /\ pending \in Seq(Nat)
        /\ written \in Nat
    BY TypeParts DEF ChildT, LoopT
  <2>3. QED
    BY <2>1, <2>2, SeqMonotonic
<1>2. QED
  BY <1>1 DEF OnTheWay, Expected

\* TimesInOrder when nothing is wrong yet, and when ffmpeg has failed.
LEMMA InOrder ==
  ASSUME TypeOK, OnTheWay = Expected
  PROVE  TimesInOrder
<1>1. IsPrefix(OnTheWay, Expected)
  BY SequencesType, PrefixByIndex
<1>2. QED
  BY <1>1 DEF TimesInOrder

LEMMA TimesStay ==
  ASSUME TypeOK, TypeOK', NoChild, MainStages, ChildStages, TimesInOrder, Next
  PROVE  TimesInOrder'
<1> SUFFICES ASSUME loop' # "done", Err \notin ToSet(units')
             PROVE  TimesInOrder'
  BY DEF TimesInOrder
<1>1. /\ units \in Seq(Unit) /\ out \in Seq(Unit) /\ inside \in Seq(Unit) /\ pending \in Seq(Unit)
      /\ written \in Unit /\ OnTheWay \in Seq(Unit) /\ Expected \in Seq(Unit)
  BY SequencesType
<1>2. loop # "done"
  BY Frozen DEF loopVars
<1>3. ASSUME OnTheWay' = OnTheWay, Expected' = Expected, Err \notin ToSet(units),
             child' # "failed" => child # "failed"
      PROVE  TimesInOrder'
  BY <1>2, <1>3 DEF TimesInOrder
\* Nothing of the loop's place, the units and the timestamps changes.
<1>4. ASSUME UNCHANGED <<units, out, inside, pending, written>>, child' # "failed" => child # "failed",
             loop' \in {"wrote", "lastWrote"} <=> loop \in {"wrote", "lastWrote"}
      PROVE  TimesInOrder'
  BY <1>3, <1>4 DEF OnTheWay, Expected
<1>5. CASE Source \/ Main
  BY <1>4, <1>5, OutsideTheLoop DEF childVars, EncoderStarts, MainStages
<1>6. CASE TakeEvent
  BY <1>4, <1>6, EventCases DEF childVars, Stages, Finishes, NoChild
<1>7. ASSUME Pushes, units # <<>>, loop \in {"idle", "drain"}
      PROVE  TimesInOrder'
  <2>1. /\ Head(units) # Err /\ pending # <<>> /\ pending' = Tail(pending) /\ units' = Tail(units)
        /\ UNCHANGED <<loop, child, inside, out>>
    BY <1>2, <1>7, PushCases
  <2>2. Err \notin ToSet(units)
    <3>1. \A i \in DOMAIN units : units[i] = Err => i # 1
      BY <2>1, <1>1
    <3>2. \A i \in DOMAIN units : i # 1 => i - 1 \in DOMAIN units' /\ units'[i - 1] = units[i]
      BY <1>1, <1>7, <2>1
    <3>3. QED
      BY <3>1, <3>2 DEF ToSet
  <2>3. OnTheWay' = Tail(OnTheWay) /\ OnTheWay # <<>>
    <3>1. Tail(units) \in Seq(Unit) /\ units \o out \in Seq(Unit)
      BY <1>1, <1>7
    <3>2. Tail(units \o out) = Tail(units) \o out /\ units \o out # <<>>
      BY <1>1, <1>7, ConcatTail
    <3>3. Tail((units \o out) \o inside) = Tail(units \o out) \o inside /\ (units \o out) \o inside # <<>>
      BY <1>1, <3>1, <3>2, ConcatTail
    <3>4. QED
      BY <2>1, <3>2, <3>3 DEF OnTheWay
  <2>4. Expected' = Tail(Expected)
    BY <1>7, <2>1 DEF Expected
  <2>5. IsPrefix(OnTheWay, Expected) /\ (child # "failed" => OnTheWay = Expected)
    BY <1>2, <2>2 DEF TimesInOrder
  <2>6. IsPrefix(OnTheWay', Expected')
    BY <1>1, <2>3, <2>4, <2>5, PrefixTail
  <2>7. QED
    BY <2>1, <2>3, <2>4, <2>5, <2>6 DEF TimesInOrder
<1>8. CASE TakeUnit
  BY <1>7, <1>8 DEF TakeUnit, Looping
<1>9. CASE Drain
  <2>1. CASE units # <<>>
    BY <1>7, <1>9, <2>1 DEF Drain, Looping
  <2>2. CASE units = <<>>
    BY <1>4, <1>9, <2>2 DEF Drain, Looping, childVars
  <2>3. QED
    BY <2>1, <2>2
<1>10. CASE Tick
  BY <1>4, <1>10 DEF Tick, Looping, childVars
<1>11. CASE WriteReturns
  <2>1. /\ loop \in {"wrote", "lastWrote"} /\ loop' \notin {"wrote", "lastWrote"}
        /\ pending' = Append(pending, written) /\ UNCHANGED <<inside, out, units>>
        /\ child' # "failed" => child # "failed"
    BY <1>11 DEF WriteReturns
  <2>2. Expected' = Expected /\ OnTheWay' = OnTheWay
    BY <2>1 DEF Expected, OnTheWay
  <2>3. QED
    BY <1>3, <2>1, <2>2
<1>12. CASE WriteFails \/ ChildEnded
  BY <1>12 DEF WriteFails, ChildEnded, SinksEos, SinkRefuses, Fails, Ends
<1>13. CASE FfmpegReads
  <2>1. /\ loop \in {"write", "lastWrite"} /\ loop' \in {"wrote", "lastWrote"} /\ child = "running"
        /\ inside' = Append(inside, written) /\ UNCHANGED <<out, units, pending, written>>
    BY <1>13 DEF FfmpegReads, ChildUnchanged
  <2>2. OnTheWay = Expected
    BY <1>2, <2>1 DEF TimesInOrder
  <2>3. Expected' = Append(Expected, written)
    BY <2>1 DEF Expected
  <2>4. OnTheWay' = Append(OnTheWay, written)
    <3>1. units \o out \in Seq(Unit)
      BY <1>1
    <3>2. (units \o out) \o Append(inside, written) = Append((units \o out) \o inside, written)
      BY <1>1, <3>1, ConcatAppend
    <3>3. QED
      BY <2>1, <3>2 DEF OnTheWay
  <2>5. (OnTheWay = Expected)'
    BY <2>2, <2>3, <2>4
  <2>6. IsPrefix(OnTheWay, Expected)'
    <3>1. OnTheWay' \in Seq(Unit) /\ Expected' \in Seq(Unit)
      BY <1>1, <2>3, <2>4
    <3>2. QED
      BY <2>5, <3>1, PrefixByIndex
  <2>7. QED
    BY <2>5, <2>6 DEF TimesInOrder
\* ffmpeg is lost, and with it the frames in it.
<1>14. ASSUME child' = "failed", inside' = <<>>, UNCHANGED <<loop, units, out, pending, written>>
       PROVE  TimesInOrder'
  <2>1. IsPrefix(OnTheWay, Expected) /\ Expected' = Expected
    BY <1>2, <1>14 DEF TimesInOrder, Expected
  <2>2. units \o out \in Seq(Unit) /\ OnTheWay' = units \o out
    BY <1>1, <1>14, ConcatEmptySeq DEF OnTheWay
  <2>3. IsPrefix(units \o out, Expected)
    BY <1>1, <2>1, <2>2, PrefixConcat DEF OnTheWay
  <2>4. QED
    BY <1>14, <2>1, <2>2, <2>3 DEF TimesInOrder
<1>15. CASE FfmpegEmits
  <2>1. CASE pump
    <3>1. /\ out' = Append(out, Head(inside)) /\ inside' = Tail(inside) /\ inside # <<>>
          /\ UNCHANGED <<units, pending, written, loop, child>>
      BY <1>15, <2>1 DEF FfmpegEmits, ChildUnchanged
    <3>2. OnTheWay' = OnTheWay
      <4>1. Head(inside) \in Unit /\ Tail(inside) \in Seq(Unit) /\ units \o out \in Seq(Unit)
        BY <1>1, <3>1
      <4>2. units \o Append(out, Head(inside)) = Append(units \o out, Head(inside))
        BY <1>1, <4>1, ConcatAppend, SMTT(30)
      <4>3. Append(units \o out, Head(inside)) \o Tail(inside) = (units \o out) \o inside
        BY <1>1, <3>1, <4>1, MoveHead
      <4>4. QED
        BY <3>1, <4>2, <4>3 DEF OnTheWay
    <3>3. QED
      BY <1>3, <3>1, <3>2 DEF Expected
  <2>2. CASE ~pump
    BY <1>14, <1>15, <2>2 DEF FfmpegEmits, ChildUnchanged
  <2>3. QED
    BY <2>1, <2>2
<1>16. CASE FfmpegEnds
  BY <1>4, <1>16 DEF FfmpegEnds, ChildUnchanged
<1>17. CASE FfmpegDies
  BY <1>14, <1>17 DEF FfmpegDies, ChildUnchanged
<1>18. CASE PumpSends
  <2>1. /\ units' = Append(units, Head(out)) /\ out' = Tail(out)
        /\ UNCHANGED <<inside, pending, written, loop, child>>
    BY <1>18 DEF PumpSends, ChildUnchanged
  <2>2. out # <<>>
    BY <1>18, <1>1 DEF PumpSends
  <2>3. Append(units, Head(out)) \o Tail(out) = units \o out
    BY <1>1, <2>2, MoveHead
  <2>4. OnTheWay' = OnTheWay /\ Expected' = Expected
    BY <2>1, <2>3 DEF OnTheWay, Expected
  <2>5. Err \notin ToSet(units)
    <3>1. Head(out) \in Unit
      BY <1>1, <2>2
    <3>2. \A i \in DOMAIN units : i \in DOMAIN units' /\ units'[i] = units[i]
      BY <1>1, <2>1, <3>1
    <3>3. QED
      BY <3>2 DEF ToSet
  <2>6. QED
    BY <1>3, <2>1, <2>4, <2>5
<1>19. CASE PumpFails
  <2>1. units' = Append(units, Err) /\ Err \in Unit
    BY <1>19 DEF PumpFails, Unit
  <2>2. Len(units) + 1 \in DOMAIN units' /\ units'[Len(units) + 1] = Err
    BY <1>1, <2>1
  <2>3. QED
    BY <2>2 DEF ToSet
<1>20. CASE PumpEnds
  BY <1>4, <1>20 DEF PumpEnds, ChildUnchanged
<1>21. QED
  BY <1>5, <1>6, <1>8, <1>9, <1>10, <1>11, <1>12, <1>13, <1>15, <1>16, <1>17, <1>18, <1>19, <1>20
     DEF Next, Loop, Child

LEMMA CompleteStays ==
  ASSUME TypeOK, NoChild, MainStages, ChildStages, TimesInOrder, Complete, Next
  PROVE  Complete'
<1>1. CASE loop = "done"
  BY <1>1, Frozen DEF loopVars, Complete
<1>2. CASE loop # "done" /\ (Source \/ Main)
  BY <1>2, OutsideTheLoop DEF Complete
<1>3. CASE loop # "done" /\ TakeEvent
  <2>1. terminal = "running"
    BY <1>3 DEF MainStages
  <2>2. CASE terminal' # "eos"
    BY <2>2 DEF Complete
  <2>3. CASE terminal' = "eos"
    <3>1. /\ UNCHANGED <<state, pending>>
          /\ state.open => backend = "openh264" /\ sunk' = TRUE
      BY <1>3, <2>1, <2>3, EventCases DEF Stages, Finishes
    <3>2. QED
      BY <3>1 DEF Complete, NoChild
  <2>4. QED
    BY <2>2, <2>3
<1>4. CASE loop # "done" /\ ChildEnded
  <2>1. terminal = "running" /\ loop = "wait"
    BY <1>4 DEF MainStages, ChildEnded, Looping
  <2>2. CASE child = "ok" /\ SinksEos /\ terminal' = "eos"
    <3>1. backend = "x264" /\ state.open
      BY <2>1 DEF NoChild
    <3>2. units = <<>> /\ Err \notin ToSet(units)
      BY <2>1 DEF ChildStages, ToSet
    <3>3. out = <<>> /\ inside = <<>> /\ ~state.fresh
      BY <2>1, <2>2, <3>1, <3>2 DEF ChildStages
    <3>4. pending = OnTheWay
      BY <2>1, <2>2, <3>2 DEF TimesInOrder, Expected
    <3>5. OnTheWay = <<>>
      BY <3>2, <3>3 DEF OnTheWay
    <3>6. sunk' = TRUE /\ UNCHANGED <<state, pending>>
      BY <2>2 DEF SinksEos, SinkRefuses, Ends
    <3>7. QED
      BY <3>3, <3>4, <3>5, <3>6 DEF Complete
  <2>3. CASE ~(child = "ok" /\ SinksEos /\ terminal' = "eos")
    BY <1>4, <2>1, <2>3 DEF ChildEnded, Fails, Ends, Complete
  <2>4. QED
    BY <2>2, <2>3
<1>5. CASE loop # "done" /\ ~ChildEnded /\ ~TakeEvent /\ (Loop \/ Child)
  <2>1. terminal = "running"
    BY <1>5 DEF MainStages
  <2>2. terminal' # "eos"
    BY <1>5, <2>1, PushCases
       DEF Loop, TakeUnit, Tick, WriteReturns, WriteFails, Drain, Fails, Ends,
           Child, FfmpegReads, FfmpegEmits, FfmpegEnds, FfmpegDies, PumpSends, PumpFails, PumpEnds,
           ChildUnchanged
  <2>3. QED
    BY <2>2 DEF Complete
<1>6. QED
  BY <1>1, <1>2, <1>3, <1>4, <1>5 DEF Next

-----------------------------------------------------------------------------
(* The inductive invariant *)

LEMMA InitIInv == Init => IInv
<1> SUFFICES ASSUME Init PROVE IInv
  OBVIOUS
<1>1. TypeOK
  BY InitTypes
<1>2. ErrorFirst /\ FirstEvent
  BY DEF Init, ErrorFirst, FirstEvent
<1>3. NoChild /\ ChildStages /\ MainStages /\ Complete
  BY DEF Init, NoChild, ChildStages, MainStages, Complete
<1>4. OnTheWay = Expected
  BY DEF Init, OnTheWay, Expected
<1>5. QED
  BY <1>1, <1>2, <1>3, <1>4, InOrder DEF IInv

LEMMA NextIInv == IInv /\ [Next]_vars => IInv'
<1> SUFFICES ASSUME IInv, [Next]_vars PROVE IInv'
  OBVIOUS
<1>1. TypeOK'
  BY NextTypes DEF IInv
<1>2. CASE Next
  BY <1>1, <1>2, ErrorFirstStays, FirstEventStays, NoChildStays, ChildStagesStay, MainStagesStay,
     TimesStay, CompleteStays DEF IInv
<1>3. CASE UNCHANGED vars
  <2>1. UNCHANGED <<call, surface, source, chan, main, stop, exit, backend>>
    BY <1>3 DEF vars, sourceVars, mainVars
  <2>2. UNCHANGED <<loop, state, terminal, endedBy, sunk, pending, written, child, inside, out, pump, units>>
    BY <1>3 DEF vars, loopVars, childVars
  <2>3. ErrorFirst' /\ FirstEvent' /\ NoChild' /\ ChildStages' /\ MainStages' /\ Complete'
    BY <2>1, <2>2 DEF IInv, ErrorFirst, Broken, FirstEvent, NoChild, ChildStages, MainStages, Complete
  <2>4. TimesInOrder'
    BY <2>2 DEF IInv, TimesInOrder, OnTheWay, Expected
  <2>5. QED
    BY <1>1, <2>3, <2>4 DEF IInv
<1>4. QED
  BY <1>2, <1>3

LEMMA Inductive == Spec => []IInv
BY InitIInv, NextIInv, PTL DEF Spec

-----------------------------------------------------------------------------
\* Every variable keeps its type: no queue of the recorder, bounded or not, is ever longer
\* than its capacity or read when it is empty (the source's channel, the pump's channel, the
\* pipe), whatever their capacities.
THEOREM TypeCorrect == Spec => []TypeOK
<1>1. IInv => TypeOK
  BY DEF IInv
<1> QED
  BY <1>1, Inductive, PTL

\* The loop never meets a Frame before the Reset that opens its state, for any capacity of
\* the channel and however many events find it full (emit_event, ensure_x264_state,
\* encode_shared_frame).
THEOREM ResetFirst == Spec => []ResetComesFirst
<1>1. IInv => ResetComesFirst
  BY DEF IInv, FirstEvent, ResetComesFirst
<1> QED
  BY <1>1, Inductive, PTL

\* An access unit is given the timestamp of the frame it was made from, for any lookahead of
\* ffmpeg and any capacity of the pipe and the channel between the two (write_latest_frame,
\* push_access_unit, pump_x264_output).
THEOREM TimesMatch == Spec => []TimesInOrder
<1>1. IInv => TimesInOrder
  BY DEF IInv
<1> QED
  BY <1>1, Inductive, PTL

\* A process that exits with status 0 has completed the file, or has never had a Reset and
\* has taken no frame, in which case the file has no end; no error of the source was what
\* stopped it. There is nothing in between, wherever ffmpeg, the pump or a sink may fail
\* (run_with_backend, X264State::finish).
THEOREM SuccessIsNeverPartial == Spec => []SuccessIsCompleteOrEmpty
<1>1. IInv => SuccessIsCompleteOrEmpty
  BY DEF IInv, Complete, NoChild, MainStages, SuccessIsCompleteOrEmpty
<1> QED
  BY <1>1, Inductive, PTL

-----------------------------------------------------------------------------
(***************************************************************************)
(* RecorderOutput: what becomes of the stream the pump reads. The theorems *)
(* rest on what it assumes of its constants: the ranges of the numbers     *)
(* (Parameters), that the encoder emits pictures as libx264 makes them     *)
(* (AsEncoded) and, for the packetizer, that no two units have one         *)
(* timestamp (DistinctTimes).                                              *)
(***************************************************************************)

-----------------------------------------------------------------------------
(* Induction along a range, and the function that the loop over the NALs computes *)

Before == {ij \in Nat \X Nat : ij[1] < ij[2]}

LEMMA BeforeIsWellFounded == IsWellFoundedOn(Before, Nat)
<1>1. Before = OpToRel(<, Nat)
  BY Zenon DEF Before, OpToRel
<1>2. QED
  BY <1>1, NatLessThanWellFounded, Zenon

\* A set that has 0 and, with each i below n, i + 1, has all of 0 .. n.
LEMMA UpTo ==
  ASSUME NEW n \in Nat, NEW S,
         0 \in S,
         \A i \in 1 .. n : i - 1 \in S => i \in S
  PROVE  0 .. n \subseteq S
<1> DEFINE T == (0 .. n) \ S
<1>1. SUFFICES ASSUME T # {} PROVE FALSE
  OBVIOUS
<1>2. T \subseteq Nat
  OBVIOUS
<1>3. PICK i \in T : \A j \in T : ~ (<<j, i>> \in Before)
  <2> HIDE DEF T
  <2>1. QED
    BY <1>1, <1>2, BeforeIsWellFounded, WFMin
<1>4. i \in 1 .. n /\ i - 1 \in 0 .. n
  OBVIOUS
<1>5. <<i - 1, i>> \in Before
  BY <1>4 DEF Before
<1>6. i - 1 \in S
  BY <1>3, <1>4, <1>5
<1>7. QED
  BY <1>4, <1>6

\* A function that is defined along 0 .. n by its value at 0 and a step exists.
LEMMA ScannedStep ==
  ASSUME NEW b, NEW n \in Nat, Len(b) = n
  PROVE  /\ Scanned(b)[0] = [start |-> 0, vcl |-> FALSE, units |-> <<>>, keep |-> 0]
         /\ \A i \in 1 .. n : Scanned(b)[i] =
              IF IsNalStart(b, i) THEN Scan(b, Scanned(b)[i - 1], i)
              ELSE Scanned(b)[i - 1]
<1> DEFINE s0 == [start |-> 0, vcl |-> FALSE, units |-> <<>>, keep |-> 0]
           Next1(a, i) == IF IsNalStart(b, i) THEN Scan(b, a, i) ELSE a
           Is(f, k) == f = [i \in 0 .. k |-> IF i = 0 THEN s0 ELSE Next1(f[i - 1], i)]
           S == {k \in Nat : \E f : Is(f, k)}
<1> HIDE DEF s0, Next1
<1>1. 0 \in S
  <2>1. Is([i \in 0 .. 0 |-> s0], 0)
    OBVIOUS
  <2>2. QED
    BY <2>1
<1>2. ASSUME NEW k \in 1 .. n, k - 1 \in S PROVE k \in S
  <2>1. PICK f : Is(f, k - 1)
    BY <1>2
  <2> DEFINE g == [i \in 0 .. k |-> IF i = k THEN Next1(f[k - 1], k) ELSE f[i]]
  <2>2. \A i \in 0 .. k - 1 : f[i] = IF i = 0 THEN s0 ELSE Next1(f[i - 1], i)
    BY <2>1
  <2>3. \A i \in 0 .. k : g[i] = IF i = 0 THEN s0 ELSE Next1(g[i - 1], i)
    <3>1. \A i \in 0 .. k - 1 : g[i] = f[i]
      OBVIOUS
    <3>2. g[k] = Next1(f[k - 1], k)
      OBVIOUS
    <3> HIDE DEF g
    <3>3. QED
      BY <2>2, <3>1, <3>2
  <2>4. Is(g, k)
    <3>1. g = [i \in 0 .. k |-> g[i]]
      OBVIOUS
    <3> HIDE DEF g
    <3>2. QED
      BY <2>3, <3>1
  <2>5. k \in Nat
    OBVIOUS
  <2>6. QED
    BY <2>4, <2>5
<1>3. n \in S
  <2> HIDE DEF S
  <2>1. 0 .. n \subseteq S
    BY <1>1, <1>2, UpTo
  <2>2. QED
    BY <2>1
<1>4. PICK f : Is(f, n)
  BY <1>3
<1>5. Is(Scanned(b), n)
  <2>1. Scanned(b) = CHOOSE f1 : Is(f1, n)
    BY DEF Scanned, Next1, s0
  <2> HIDE DEF Is
  <2>2. QED
    BY <1>4, <2>1
<1>6. Scanned(b)[0] = s0 /\ \A i \in 1 .. n : Scanned(b)[i] = Next1(Scanned(b)[i - 1], i)
  BY <1>5
<1>7. QED
  BY <1>6 DEF s0, Next1

-----------------------------------------------------------------------------
(* A stream and its units *)

\* F is the sequences of T one after the other; T[k] ends at e[k].
Joined(F, T, e) ==
  /\ e \in [0 .. Len(T) -> Nat] /\ e[0] = 0 /\ e[Len(T)] = Len(F)
  /\ \A k \in 1 .. Len(T) : /\ e[k] = e[k - 1] + Len(T[k])
                            /\ \A o \in 1 .. Len(T[k]) : F[e[k - 1] + o] = T[k][o]

\* A stream is joined one unit after the other.
LEMMA FlattenStep ==
  ASSUME NEW S, NEW T \in Seq(Seq(S)), T # <<>>
  PROVE  \E f : /\ f[1] = T[1]
                /\ \A i \in 2 .. Len(T) : f[i] = f[i - 1] \o T[i]
                /\ FlattenSeq(T) = f[Len(T)]
<1> DEFINE n == Len(T)
           More(a, i) == a \o T[i]
           At(i) == T[i]
           Is(f, k) == f = [i \in 1 .. k |-> IF i = 1 THEN At(i) ELSE More(f[i - 1], i)]
           K == {k \in 0 .. n : k = 0 \/ \E f : Is(f, k)}
<1>0. n \in Nat \ {0}
  OBVIOUS
<1> HIDE DEF n, More, At
<1>1. 0 \in K
  BY <1>0
<1>2. ASSUME NEW k \in 1 .. n, k - 1 \in K PROVE k \in K
  <2>1. CASE k = 1
    <3> DEFINE g == [i \in 1 .. 1 |-> At(1)]
    <3>1. Is(g, 1)
      OBVIOUS
    <3> HIDE DEF g
    <3>2. QED
      BY <1>0, <2>1, <3>1
  <2>2. CASE k # 1
    <3>1. PICK f : Is(f, k - 1)
      <4> HIDE DEF Is
      <4>1. QED
        BY <1>2, <2>2
    <3> DEFINE g == [i \in 1 .. k |-> IF i = k THEN More(f[k - 1], k) ELSE f[i]]
    <3>2. \A i \in 1 .. k - 1 : f[i] = IF i = 1 THEN At(i) ELSE More(f[i - 1], i)
      BY <3>1
    <3>3. \A i \in 1 .. k : g[i] = IF i = 1 THEN At(i) ELSE More(g[i - 1], i)
      <4>1. \A i \in 1 .. k - 1 : g[i] = f[i]
        OBVIOUS
      <4>2. g[k] = More(f[k - 1], k)
        OBVIOUS
      <4> HIDE DEF g
      <4>3. ASSUME NEW i \in 1 .. k - 1
            PROVE  g[i] = IF i = 1 THEN At(i) ELSE More(g[i - 1], i)
        <5>1. i # 1 => i - 1 \in 1 .. k - 1
          OBVIOUS
        <5>2. QED
          BY <3>2, <4>1, <5>1
      <4>4. g[k] = IF k = 1 THEN At(k) ELSE More(g[k - 1], k)
        <5>1. k - 1 \in 1 .. k - 1
          BY <2>2
        <5>2. QED
          BY <2>2, <4>1, <4>2, <5>1
      <4>5. \A i \in 1 .. k : i \in 1 .. k - 1 \/ i = k
        OBVIOUS
      <4>6. QED
        BY <4>3, <4>4, <4>5
    <3>4. Is(g, k)
      <4>1. g = [i \in 1 .. k |-> g[i]]
        OBVIOUS
      <4> HIDE DEF g
      <4>2. QED
        BY <3>3, <4>1
    <3>5. k \in 0 .. n
      BY <1>0
    <3>6. QED
      BY <3>4, <3>5
  <2>3. QED
    BY <2>1, <2>2
<1>3. n \in K
  <2> HIDE DEF K
  <2>1. 0 .. n \subseteq K
    BY <1>0, <1>1, <1>2, UpTo
  <2>2. QED
    BY <1>0, <2>1
<1>4. PICK f : Is(f, n)
  BY <1>0, <1>3
<1> DEFINE F == CHOOSE f1 : Is(f1, n)
<1>5. Is(F, n)
  <2> HIDE DEF Is
  <2>1. QED
    BY <1>4
<1>6. FlattenSeq(T) = F[n]
  BY <1>0 DEF FlattenSeq, n, More, At
<1> HIDE DEF F
<1>7. F[1] = At(1) /\ \A i \in 2 .. n : F[i] = More(F[i - 1], i)
  <2>1. \A i \in 1 .. n : F[i] = IF i = 1 THEN At(i) ELSE More(F[i - 1], i)
    BY <1>5
  <2>2. 1 \in 1 .. n /\ \A i \in 2 .. n : i \in 1 .. n /\ i # 1
    BY <1>0
  <2>3. QED
    BY <2>1, <2>2
<1>8. QED
  BY <1>6, <1>7 DEF n, More, At

\* The encoder's stream is its units, each behind the one before.
LEMMA FlattenJoined ==
  ASSUME NEW S, NEW T \in Seq(Seq(S))
  PROVE  FlattenSeq(T) \in Seq(S) /\ \E e : Joined(FlattenSeq(T), T, e)
<1> DEFINE n == Len(T)
<1>1. CASE T = <<>>
  <2>1. FlattenSeq(T) = <<>> /\ Len(T) = 0
    BY <1>1 DEF FlattenSeq
  <2>2. Joined(<<>>, T, [k \in 0 .. 0 |-> 0])
    BY <2>1 DEF Joined
  <2>3. QED
    BY <2>1, <2>2
<1>2. CASE T # <<>>
  <2>1. PICK f : /\ f[1] = T[1]
                 /\ \A i \in 2 .. n : f[i] = f[i - 1] \o T[i]
                 /\ FlattenSeq(T) = f[n]
    BY <1>2, FlattenStep
  <2>2. n \in Nat \ {0} /\ \A k \in 1 .. n : T[k] \in Seq(S)
    BY <1>2
  <2> HIDE DEF n
  <2>3. \A k \in 1 .. n : f[k] \in Seq(S)
    <3> DEFINE K == {k \in 0 .. n : k = 0 \/ f[k] \in Seq(S)}
    <3>1. 0 \in K
      BY <2>2
    <3>2. ASSUME NEW k \in 1 .. n, k - 1 \in K PROVE k \in K
      <4>1. CASE k = 1
        BY <2>1, <2>2, <4>1
      <4>2. CASE k # 1
        <5>1. f[k - 1] \in Seq(S) /\ k \in 2 .. n /\ T[k] \in Seq(S)
          BY <2>2, <3>2, <4>2
        <5>2. f[k] = f[k - 1] \o T[k]
          BY <2>1, <5>1
        <5>3. f[k] \in Seq(S)
          BY <5>1, <5>2, ConcatProperties
        <5>4. QED
          BY <2>2, <5>3
      <4>3. QED
        BY <4>1, <4>2
    <3>3. 0 .. n \subseteq K
      <4> HIDE DEF K
      <4>1. QED
        BY <2>2, <3>1, <3>2, UpTo
    <3>4. QED
      BY <2>2, <3>3
  <2> DEFINE e == [k \in 0 .. n |-> IF k = 0 THEN 0 ELSE Len(f[k])]
  <2>4. ASSUME NEW k \in 1 .. n
        PROVE  /\ e[k] = e[k - 1] + Len(T[k])
               /\ \A o \in 1 .. Len(T[k]) : f[k][e[k - 1] + o] = T[k][o]
    <3>1. CASE k = 1
      BY <2>1, <2>2, <2>3, <3>1
    <3>2. CASE k # 1
      <4>1. k - 1 \in 1 .. n /\ k \in 2 .. n /\ T[k] \in Seq(S) /\ f[k - 1] \in Seq(S)
        BY <2>2, <2>3, <3>2
      <4>2. f[k] = f[k - 1] \o T[k]
        BY <2>1, <4>1
      <4>3. Len(f[k]) = Len(f[k - 1]) + Len(T[k]) /\ Len(f[k - 1]) \in Nat /\ Len(T[k]) \in Nat
        BY <4>1, <4>2, ConcatProperties, LenProperties
      <4>4. \A o \in 1 .. Len(T[k]) : f[k][Len(f[k - 1]) + o] = T[k][o]
        <5>1. ASSUME NEW o \in 1 .. Len(T[k]) PROVE f[k][Len(f[k - 1]) + o] = T[k][o]
          <6>1. /\ Len(f[k - 1]) + o \in 1 .. Len(f[k - 1]) + Len(T[k])
                /\ ~(Len(f[k - 1]) + o <= Len(f[k - 1]))
                /\ Len(f[k - 1]) + o - Len(f[k - 1]) = o
            <7> DEFINE x == Len(f[k - 1])
                       y == Len(T[k])
            <7>1. x \in Nat /\ y \in Nat /\ o \in 1 .. y
              BY <4>3
            <7> HIDE DEF x, y
            <7>2. x + o \in 1 .. x + y /\ ~(x + o <= x) /\ x + o - x = o
              BY <7>1
            <7>3. QED
              BY <7>2 DEF x, y
          <6>2. QED
            BY <4>1, <4>2, <6>1, ConcatProperties
        <5>2. QED
          BY <5>1
      <4>5. e[k] = Len(f[k]) /\ e[k - 1] = Len(f[k - 1])
        BY <2>2, <4>1
      <4> HIDE DEF e
      <4>6. QED
        BY <4>3, <4>4, <4>5
    <3>3. QED
      BY <3>1, <3>2
  <2>5. e \in [0 .. n -> Nat] /\ e[0] = 0 /\ e[n] = Len(f[n])
    BY <2>2, <2>3
  <2> DEFINE Ext(k) == \A j \in 1 .. k : \A p \in 1 .. e[j] : f[k][p] = f[j][p]
  <2>6. \A k \in 1 .. n : \A p \in 1 .. e[k - 1] : k > 1 => f[k][p] = f[k - 1][p]
    <3>1. ASSUME NEW k \in 2 .. n, NEW p \in 1 .. e[k - 1] PROVE f[k][p] = f[k - 1][p]
      <4>0. k - 1 \in 1 .. n /\ k \in 1 .. n
        BY <2>2
      <4>1. T[k] \in Seq(S) /\ f[k - 1] \in Seq(S) /\ f[k] = f[k - 1] \o T[k]
        BY <2>1, <2>2, <2>3, <4>0
      <4>2. e[k - 1] = Len(f[k - 1])
        BY <2>2, <4>0
      <4>3. p \in 1 .. Len(f[k - 1]) + Len(T[k]) /\ p <= Len(f[k - 1])
        <5>1. Len(f[k - 1]) \in Nat /\ Len(T[k]) \in Nat /\ p \in 1 .. Len(f[k - 1])
          BY <4>1, <4>2, LenProperties
        <5> DEFINE x == Len(f[k - 1])
                   y == Len(T[k])
        <5>2. x \in Nat /\ y \in Nat /\ p \in 1 .. x
          BY <5>1
        <5> HIDE DEF e, x, y
        <5>3. p \in 1 .. x + y /\ p <= x
          BY <5>2
        <5>4. QED
          BY <5>3 DEF x, y
      <4>4. QED
        BY <4>1, <4>3, ConcatProperties
    <3>2. ASSUME NEW k \in 1 .. n, k > 1 PROVE k \in 2 .. n
      BY <2>2, <3>2
    <3> HIDE DEF e
    <3>3. QED
      BY <3>1, <3>2
  <2> HIDE DEF e
  <2>7. \A k \in 0 .. n : e[k] \in Nat
    BY <2>5
  <2>8. \A k \in 1 .. n : e[k - 1] <= e[k]
    <3>1. ASSUME NEW k \in 1 .. n PROVE e[k - 1] <= e[k]
      <4>1. e[k] = e[k - 1] + Len(T[k]) /\ Len(T[k]) \in Nat /\ e[k - 1] \in Nat
        BY <2>2, <2>4, <2>7, SMTT(30)
      <4>2. QED
        BY <4>1
    <3>2. QED
      BY <3>1
  <2>9. \A k \in 1 .. n : Ext(k) /\ \A j \in 0 .. k : e[j] <= e[k]
    <3> DEFINE K == {k \in 0 .. n : k > 0 => Ext(k) /\ \A j \in 0 .. k : e[j] <= e[k]}
    <3>1. 0 \in K
      BY <2>2
    <3>2. ASSUME NEW k \in 1 .. n, k - 1 \in K PROVE k \in K
      <4>1. \A j \in 0 .. k : e[j] <= e[k]
        <5>1. ASSUME NEW j \in 0 .. k PROVE e[j] <= e[k]
          <6>1. j = k \/ j = k - 1 \/ (k - 1 > 0 /\ j \in 0 .. k - 1)
            BY <2>2
          <6>2. e[j] \in Nat /\ e[k] \in Nat /\ e[k - 1] \in Nat /\ e[k - 1] <= e[k]
            BY <2>2, <2>7, <2>8
          <6>3. k - 1 > 0 /\ j \in 0 .. k - 1 => e[j] <= e[k - 1]
            BY <3>2
          <6>4. QED
            BY <6>1, <6>2, <6>3
        <5>2. QED
          BY <5>1
      <4>2. ASSUME NEW j \in 1 .. k, NEW p \in 1 .. e[j] PROVE f[k][p] = f[j][p]
        <5>1. CASE j = k
          BY <5>1
        <5>2. CASE j # k
          <6>1. k > 1 /\ k - 1 > 0 /\ j \in 1 .. k - 1 /\ j \in 0 .. k - 1
            BY <2>2, <5>2
          <6>2. f[k - 1][p] = f[j][p] /\ e[j] <= e[k - 1]
            BY <3>2, <6>1
          <6>3. e[j] \in Nat /\ e[k - 1] \in Nat
            BY <2>2, <2>7, <6>1
          <6>4. p \in 1 .. e[k - 1]
            BY <6>2, <6>3
          <6>5. QED
            BY <2>6, <6>1, <6>2, <6>4
        <5>3. QED
          BY <5>1, <5>2
      <4>3. QED
        BY <2>2, <4>1, <4>2
    <3>3. 0 .. n \subseteq K
      <4> HIDE DEF K
      <4>1. QED
        BY <2>2, <3>1, <3>2, UpTo
    <3>4. QED
      <4>1. ASSUME NEW k \in 1 .. n PROVE k \in K /\ k > 0
        BY <2>2, <3>3
      <4>2. QED
        BY <4>1
  <2>10. ASSUME NEW k \in 1 .. n, NEW o \in 1 .. Len(T[k]) PROVE f[n][e[k - 1] + o] = T[k][o]
    <3>1. /\ e[k] = e[k - 1] + Len(T[k]) /\ Len(T[k]) \in Nat /\ e[k - 1] \in Nat
          /\ f[k][e[k - 1] + o] = T[k][o]
      BY <2>2, <2>4, <2>7, SMTT(30)
    <3>2. e[k - 1] + o \in 1 .. e[k]
      BY <3>1
    <3>3. QED
      BY <2>2, <2>9, <3>1, <3>2, SMTT(30)
  <2>11. Joined(f[n], T, e)
    <3>1. \A k \in 1 .. n : /\ e[k] = e[k - 1] + Len(T[k])
                            /\ \A o \in 1 .. Len(T[k]) : f[n][e[k - 1] + o] = T[k][o]
      BY <2>4, <2>10
    <3>2. QED
      BY <2>5, <3>1 DEF Joined, n
  <2>12. QED
    BY <2>1, <2>2, <2>3, <2>11
<1>3. QED
  BY <1>1, <1>2

Marks(e, n) == /\ e \in [0 .. n -> Nat] /\ e[0] = 0
               /\ \A k \in 1 .. n : e[k - 1] < e[k]

\* Ends of units rise.
LEMMA MarksRise ==
  ASSUME NEW n \in Nat, NEW e, Marks(e, n), NEW j \in 0 .. n, NEW k \in 0 .. n, j < k
  PROVE  e[j] < e[k]
<1> DEFINE K == {i \in 0 .. n : \A m \in 0 .. n : m < i => e[m] < e[i]}
<1>1. 0 \in K
  OBVIOUS
<1>2. ASSUME NEW i \in 1 .. n, i - 1 \in K PROVE i \in K
  <2>1. i - 1 \in 0 .. n /\ i \in 0 .. n
    OBVIOUS
  <2>2. e[i - 1] \in Nat /\ e[i] \in Nat /\ e[i - 1] < e[i]
    BY <2>1 DEF Marks
  <2>3. ASSUME NEW m \in 0 .. n, m < i PROVE e[m] < e[i]
    <3>1. m = i - 1 \/ m < i - 1
      BY <2>3
    <3>2. m < i - 1 => e[m] < e[i - 1]
      BY <1>2
    <3>3. e[m] \in Nat
      BY DEF Marks
    <3>4. QED
      BY <2>2, <3>1, <3>2, <3>3
  <2>4. QED
    BY <2>1, <2>3
<1>3. 0 .. n \subseteq K
  <2> HIDE DEF K
  <2>1. QED
    BY <1>1, <1>2, UpTo
<1>4. QED
  BY <1>3

\* Each place is in a unit.
LEMMA MarksAt ==
  ASSUME NEW n \in Nat, NEW e, Marks(e, n), NEW p \in 1 .. e[n]
  PROVE  \E k \in 1 .. n : e[k - 1] < p /\ p <= e[k]
<1> DEFINE K == {i \in 0 .. n : p <= e[i] => \E k \in 1 .. n : e[k - 1] < p /\ p <= e[k]}
<1>0. n \in 0 .. n /\ e[n] \in Nat /\ p \in Nat /\ 1 <= p /\ p <= e[n]
  BY DEF Marks
<1>1. 0 \in K
  BY <1>0 DEF Marks
<1>2. ASSUME NEW i \in 1 .. n, i - 1 \in K PROVE i \in K
  <2>1. i - 1 \in 0 .. n /\ i \in 0 .. n
    OBVIOUS
  <2>2. e[i - 1] \in Nat
    BY <2>1 DEF Marks
  <2>3. p <= e[i - 1] \/ e[i - 1] < p
    BY <1>0, <2>2
  <2>4. QED
    BY <1>2, <2>1, <2>3
<1>3. 0 .. n \subseteq K
  <2> HIDE DEF K
  <2>1. QED
    BY <1>1, <1>2, UpTo
<1>4. QED
  BY <1>0, <1>3

\* What bytes a start code has.
LEMMA CodeAt ==
  ASSUME NEW b \in Seq(STRING), NEW i \in 1 .. Len(b)
  PROVE  /\ StartCodeLen(b, i) \in {0, 3, 4}
         /\ StartCodeLen(b, i) = 4 <=>
              i + 3 <= Len(b) /\ b[i] = "0" /\ b[i + 1] = "0" /\ b[i + 2] = "0" /\ b[i + 3] = "1"
         /\ StartCodeLen(b, i) = 3 <=>
              i + 2 <= Len(b) /\ b[i] = "0" /\ b[i + 1] = "0" /\ b[i + 2] = "1"
<1> DEFINE Four  == i + 3 <= Len(b) /\ SubSeq(b, i, i + 3) = <<"0", "0", "0", "1">>
           Three == i + 2 <= Len(b) /\ SubSeq(b, i, i + 2) = <<"0", "0", "1">>
           Token == STRING \cup {"0", "1"}
<1>1. Four <=> i + 3 <= Len(b) /\ b[i] = "0" /\ b[i + 1] = "0" /\ b[i + 2] = "0" /\ b[i + 3] = "1"
  <2> SUFFICES ASSUME i + 3 <= Len(b)
               PROVE  SubSeq(b, i, i + 3) = <<"0", "0", "0", "1">> <=>
                        b[i] = "0" /\ b[i + 1] = "0" /\ b[i + 2] = "0" /\ b[i + 3] = "1"
    OBVIOUS
  <2> DEFINE s == SubSeq(b, i, i + 3)
             t == <<"0", "0", "0", "1">>
  <2>1. /\ s \in Seq(STRING) /\ Len(s) = 4
        /\ s[1] = b[i] /\ s[2] = b[i + 1] /\ s[3] = b[i + 2] /\ s[4] = b[i + 3]
    OBVIOUS
  <2>2. t \in Seq(Token) /\ Len(t) = 4 /\ t[1] = "0" /\ t[2] = "0" /\ t[3] = "0" /\ t[4] = "1"
    OBVIOUS
  <2>5. s \in Seq(Token)
    BY <2>1
  <2> HIDE DEF s, t
  <2>3. (s[1] = t[1] /\ s[2] = t[2] /\ s[3] = t[3] /\ s[4] = t[4]) => s = t
    <3>1. 1 .. Len(s) = {1, 2, 3, 4}
      BY <2>1
    <3>2. QED
      BY <2>1, <2>2, <2>5, <3>1, SeqEqual
  <2>4. QED
    BY <2>1, <2>2, <2>3 DEF s, t
<1>2. Three <=> i + 2 <= Len(b) /\ b[i] = "0" /\ b[i + 1] = "0" /\ b[i + 2] = "1"
  <2> SUFFICES ASSUME i + 2 <= Len(b)
               PROVE  SubSeq(b, i, i + 2) = <<"0", "0", "1">> <=>
                        b[i] = "0" /\ b[i + 1] = "0" /\ b[i + 2] = "1"
    OBVIOUS
  <2> DEFINE s == SubSeq(b, i, i + 2)
             t == <<"0", "0", "1">>
  <2>1. /\ s \in Seq(STRING) /\ Len(s) = 3
        /\ s[1] = b[i] /\ s[2] = b[i + 1] /\ s[3] = b[i + 2]
    OBVIOUS
  <2>2. t \in Seq(Token) /\ Len(t) = 3 /\ t[1] = "0" /\ t[2] = "0" /\ t[3] = "1"
    OBVIOUS
  <2>5. s \in Seq(Token)
    BY <2>1
  <2> HIDE DEF s, t
  <2>3. (s[1] = t[1] /\ s[2] = t[2] /\ s[3] = t[3]) => s = t
    <3>1. 1 .. Len(s) = {1, 2, 3}
      BY <2>1
    <3>2. QED
      BY <2>1, <2>2, <2>5, <3>1, SeqEqual
  <2>4. QED
    BY <2>1, <2>2, <2>3 DEF s, t
<1>3. StartCodeLen(b, i) = CASE Four -> 4 [] Three -> 3 [] OTHER -> 0
  BY DEF StartCodeLen
<1>4. "0" # "1"
  OBVIOUS
<1>5. ~(Four /\ Three)
  BY <1>1, <1>2, <1>4
<1> HIDE DEF Four, Three
<1>6. /\ Four => StartCodeLen(b, i) = 4
      /\ Three => StartCodeLen(b, i) = 3
      /\ ~Four /\ ~Three => StartCodeLen(b, i) = 0
  BY <1>3, <1>5
<1>7. QED
  BY <1>1, <1>2, <1>5, <1>6

LongAt(b, i) ==
  i + 4 <= Len(b) /\ b[i] = "0" /\ b[i + 1] = "0" /\ b[i + 2] = "0" /\ b[i + 3] = "1"
ShortAt(b, i) ==
  /\ i + 3 <= Len(b) /\ b[i] = "0" /\ b[i + 1] = "0" /\ b[i + 2] = "1"
  /\ i > 1 => b[i - 1] # "0"

\* nal_start_offsets finds a code of four bytes, or one of three that is in no longer one.
LEMMA StartIs ==
  ASSUME NEW b \in Seq(STRING), NEW i \in 1 .. Len(b)
  PROVE  /\ IsNalStart(b, i) <=> LongAt(b, i) \/ ShortAt(b, i)
         /\ LongAt(b, i) => NalType(b, i) = b[i + 4]
         /\ ShortAt(b, i) => NalType(b, i) = b[i + 3]
         /\ ~(LongAt(b, i) /\ ShortAt(b, i))
<1> DEFINE c == StartCodeLen(b, i)
           d == StartCodeLen(b, i - 1)
<1>0. Len(b) \in Nat /\ i \in Nat
  OBVIOUS
<1>1. /\ c \in {0, 3, 4}
      /\ c = 4 <=> i + 3 <= Len(b) /\ b[i] = "0" /\ b[i + 1] = "0" /\ b[i + 2] = "0" /\ b[i + 3] = "1"
      /\ c = 3 <=> i + 2 <= Len(b) /\ b[i] = "0" /\ b[i + 1] = "0" /\ b[i + 2] = "1"
  BY CodeAt
<1>2. i > 1 => (d = 4 <=> i + 2 <= Len(b) /\ b[i - 1] = "0" /\ b[i] = "0" /\ b[i + 1] = "0" /\ b[i + 2] = "1")
  <2>1. i > 1 => i - 1 \in 1 .. Len(b)
    BY <1>0
  <2>2. i - 1 + 3 = i + 2 /\ i - 1 + 1 = i /\ i - 1 + 2 = i + 1
    BY <1>0
  <2>3. QED
    BY <2>1, <2>2, CodeAt
<1>3. IsNalStart(b, i) <=> c > 0 /\ i + c <= Len(b) /\ (i > 1 => d # 4)
  BY DEF IsNalStart
<1>4. NalType(b, i) = b[i + c]
  BY DEF NalType
<1>5. "0" # "1"
  OBVIOUS
<1> HIDE DEF c, d
<1>6. LongAt(b, i) <=> c = 4 /\ i + c <= Len(b)
  BY <1>0, <1>1 DEF LongAt
<1>7. ShortAt(b, i) <=> c = 3 /\ i + c <= Len(b) /\ (i > 1 => d # 4)
  BY <1>0, <1>1, <1>2 DEF ShortAt
<1>8. c = 4 => (i > 1 => d # 4)
  BY <1>1, <1>2, <1>5
<1>9. c > 0 <=> c = 3 \/ c = 4
  BY <1>1
<1>10. QED
  BY <1>3, <1>4, <1>6, <1>7, <1>8, <1>9

\* What a buffer that is the beginning of a stream shows of the stream's NALs.
LEMMA StartsOfPrefix ==
  ASSUME NEW F \in Seq(STRING), NEW b \in Seq(STRING), Len(b) <= Len(F),
         \A j \in 1 .. Len(b) : b[j] = F[j], NEW i \in 1 .. Len(b)
  PROVE  /\ IsNalStart(b, i) =>
              /\ IsNalStart(F, i) /\ i + 3 <= Len(b)
              /\ NalType(b, i) = NalType(F, i)
         /\ IsNalStart(F, i) /\ i + 4 <= Len(b) => IsNalStart(b, i)
<1>0. Len(b) \in Nat /\ Len(F) \in Nat /\ i \in Nat /\ i \in 1 .. Len(F)
  OBVIOUS
<1>1. /\ i + 4 <= Len(b) => b[i + 1] = F[i + 1] /\ b[i + 2] = F[i + 2] /\ b[i + 3] = F[i + 3] /\ b[i + 4] = F[i + 4]
      /\ i + 3 <= Len(b) => b[i + 1] = F[i + 1] /\ b[i + 2] = F[i + 2] /\ b[i + 3] = F[i + 3]
      /\ b[i] = F[i]
      /\ i > 1 => b[i - 1] = F[i - 1]
  <2>1. /\ i + 4 <= Len(b) => /\ i + 1 \in 1 .. Len(b) /\ i + 2 \in 1 .. Len(b)
                              /\ i + 3 \in 1 .. Len(b) /\ i + 4 \in 1 .. Len(b)
        /\ i + 3 <= Len(b) => i + 1 \in 1 .. Len(b) /\ i + 2 \in 1 .. Len(b) /\ i + 3 \in 1 .. Len(b)
        /\ i > 1 => i - 1 \in 1 .. Len(b)
    BY <1>0
  <2>2. QED
    BY <2>1
<1>2. /\ LongAt(b, i) => LongAt(F, i) /\ b[i + 4] = F[i + 4] /\ i + 3 <= Len(b)
      /\ ShortAt(b, i) => ShortAt(F, i) /\ b[i + 3] = F[i + 3] /\ i + 3 <= Len(b)
      /\ LongAt(F, i) /\ i + 4 <= Len(b) => LongAt(b, i)
      /\ ShortAt(F, i) /\ i + 4 <= Len(b) => ShortAt(b, i)
  <2>1. LongAt(b, i) => LongAt(F, i) /\ b[i + 4] = F[i + 4] /\ i + 3 <= Len(b)
    BY <1>0, <1>1 DEF LongAt
  <2>2. ShortAt(b, i) => ShortAt(F, i) /\ b[i + 3] = F[i + 3] /\ i + 3 <= Len(b)
    BY <1>0, <1>1 DEF ShortAt
  <2>3. LongAt(F, i) /\ i + 4 <= Len(b) => LongAt(b, i)
    BY <1>0, <1>1 DEF LongAt
  <2>4. ShortAt(F, i) /\ i + 4 <= Len(b) => ShortAt(b, i)
    <3>1. i + 4 <= Len(b) => i + 3 <= Len(b)
      BY <1>0
    <3>2. QED
      BY <1>1, <3>1 DEF ShortAt
  <2>5. QED
    BY <2>1, <2>2, <2>3, <2>4
<1>3. /\ IsNalStart(b, i) <=> LongAt(b, i) \/ ShortAt(b, i)
      /\ LongAt(b, i) => NalType(b, i) = b[i + 4]
      /\ ShortAt(b, i) => NalType(b, i) = b[i + 3]
  BY StartIs
<1>4. /\ IsNalStart(F, i) <=> LongAt(F, i) \/ ShortAt(F, i)
      /\ LongAt(F, i) => NalType(F, i) = F[i + 4]
      /\ ShortAt(F, i) => NalType(F, i) = F[i + 3]
  BY <1>0, StartIs
<1>5. QED
  BY <1>2, <1>3, <1>4

\* A NAL of a unit is a NAL of the stream, and one of the stream is one of its unit: a
\* start code does not reach from one unit into the next.
LEMMA StartsOfUnit ==
  ASSUME NEW F \in Seq(STRING), NEW T \in Seq(Seq(STRING)), NEW e, Joined(F, T, e),
         \A k \in 1 .. Len(T) : IsPicture(T[k]),
         NEW k \in 1 .. Len(T), NEW o \in 1 .. Len(T[k])
  PROVE  /\ e[k - 1] + o \in 1 .. Len(F)
         /\ IsNalStart(F, e[k - 1] + o) <=> IsNalStart(T[k], o)
         /\ IsNalStart(T[k], o) => NalType(F, e[k - 1] + o) = NalType(T[k], o)
<1> DEFINE u == T[k]
           d == e[k - 1]
           n == Len(T)
           l == Len(u)
           p == d + o
<1>0. n \in Nat /\ u \in Seq(STRING) /\ l \in Nat /\ o \in 1 .. l /\ k - 1 \in 0 .. n /\ k \in 0 .. n
  OBVIOUS
<1>1. /\ d \in Nat /\ e[k] = d + l /\ \A j \in 1 .. l : F[d + j] = u[j]
      /\ u[l] \notin {"0", "1"}
      /\ e[n] = Len(F) /\ e[k] \in Nat /\ Len(F) \in Nat
  <2>1. /\ e \in [0 .. n -> Nat] /\ e[n] = Len(F) /\ e[k] = d + l
        /\ \A j \in 1 .. l : F[d + j] = u[j]
    BY DEF Joined
  <2>2. u[l] \notin {"0", "1"}
    BY DEF IsPicture
  <2>3. d \in Nat /\ e[k] \in Nat
    BY <1>0, <2>1
  <2>4. Len(F) \in Nat
    BY LenProperties
  <2> HIDE DEF d, u, l, n
  <2>5. QED
    BY <2>1, <2>2, <2>3, <2>4
<1>2. e[k] <= Len(F)
  <2>1. Marks(e, n)
    <3>1. ASSUME NEW j \in 1 .. n PROVE e[j - 1] < e[j]
      <4>1. T[j] \in Seq(STRING) /\ T[j] # <<>>
        BY DEF IsPicture
      <4>2. Len(T[j]) \in Nat \ {0}
        BY <4>1
      <4>3. e[j] = e[j - 1] + Len(T[j]) /\ e[j - 1] \in Nat
        <5>1. j - 1 \in 0 .. Len(T)
          BY <1>0
        <5>2. e[j - 1] \in Nat
          BY <5>1 DEF Joined
        <5>3. QED
          BY <5>2 DEF Joined
      <4>4. QED
        BY <4>2, <4>3
    <3>2. QED
      BY <3>1 DEF Joined, Marks
  <2>2. k < n => e[k] < e[n]
    BY <1>0, <2>1, MarksRise
  <2>3. k = n \/ k < n
    BY <1>0
  <2>4. QED
    BY <1>1, <2>2, <2>3
<1>3. p > 1 /\ o = 1 => F[p - 1] # "0"
  <2>1. SUFFICES ASSUME p > 1, o = 1 PROVE F[p - 1] # "0"
    OBVIOUS
  <2>2. d > 0 /\ p - 1 = d
    <3>1. d \in Nat /\ d + 1 > 1
      BY <1>1, <2>1
    <3> HIDE DEF d
    <3>2. QED
      BY <2>1, <3>1
  <2>3. k # 1
    BY <2>2 DEF Joined
  <2>4. k - 1 \in 1 .. n /\ k - 1 - 1 \in 0 .. n
    BY <1>0, <2>3
  <2> DEFINE w == T[k - 1]
             m == Len(w)
  <2>5. w \in Seq(STRING) /\ w # <<>> /\ w[m] \notin {"0", "1"}
    BY <2>4 DEF IsPicture
  <2>6. m \in Nat \ {0}
    BY <2>5
  <2>7. d = e[k - 1 - 1] + m /\ \A j \in 1 .. m : F[e[k - 1 - 1] + j] = w[j]
    BY <2>4 DEF Joined
  <2> HIDE DEF d, w, m, p
  <2>8. F[d] = w[m]
    BY <2>6, <2>7
  <2>9. QED
    BY <2>2, <2>5, <2>8
<1> HIDE DEF u, d, n, l
<1>4. p \in 1 .. Len(F) /\ p \in Nat
  BY <1>0, <1>1, <1>2
<1>5. F[p] = u[o]
  BY <1>0, <1>1
<1>6. /\ o + 1 <= l => F[p + 1] = u[o + 1]
      /\ o + 2 <= l => F[p + 2] = u[o + 2]
      /\ o + 3 <= l => F[p + 3] = u[o + 3]
      /\ o + 4 <= l => F[p + 4] = u[o + 4]
      /\ o > 1 => F[p - 1] = u[o - 1]
  <2>1. ASSUME NEW x \in -1 .. 4, o + x \in 1 .. l PROVE F[p + x] = u[o + x]
    <3>1. F[d + (o + x)] = u[o + x]
      BY <1>1, <2>1
    <3>2. d + (o + x) = p + x
      BY <1>0, <1>1
    <3>3. QED
      BY <3>1, <3>2
  <2>2. /\ o + 1 <= l => o + 1 \in 1 .. l
        /\ o + 2 <= l => o + 2 \in 1 .. l
        /\ o + 3 <= l => o + 3 \in 1 .. l
        /\ o + 4 <= l => o + 4 \in 1 .. l
        /\ o > 1 => o + (-1) \in 1 .. l
        /\ o + (-1) = o - 1 /\ p + (-1) = p - 1
    BY <1>0, <1>4
  <2>3. -1 \in -1 .. 4 /\ 1 \in -1 .. 4 /\ 2 \in -1 .. 4 /\ 3 \in -1 .. 4 /\ 4 \in -1 .. 4
    OBVIOUS
  <2> HIDE DEF p
  <2>4. QED
    BY <2>1, <2>2, <2>3
<1>7. o = l \/ o + 1 = l \/ o + 2 = l \/ o + 3 = l \/ o + 4 <= l
  BY <1>0
<1>8. /\ o + 4 <= l => o + 3 <= l /\ o + 2 <= l /\ o + 1 <= l
      /\ o + 3 <= l => o + 2 <= l /\ o + 1 <= l
      /\ o + 2 <= l => o + 1 <= l
      /\ o + 3 = l => o + 3 <= l
      /\ o + 2 = l => o + 2 <= l
      /\ o + 1 = l => o + 1 <= l
  BY <1>0
<1>9. /\ o + 4 <= l => p + 4 <= Len(F)
      /\ o + 3 <= l => p + 3 <= Len(F)
      /\ o > 1 <=> o # 1
      /\ o > 1 => p > 1
  BY <1>0, <1>1, <1>2
<1> HIDE DEF p
<1>10. LongAt(F, p) <=> LongAt(u, o)
  <2>1. LongAt(u, o) => LongAt(F, p)
    BY <1>5, <1>6, <1>8, <1>9 DEF LongAt, l
  <2>2. LongAt(F, p) => o + 4 <= l
    BY <1>1, <1>5, <1>6, <1>7, <1>8 DEF LongAt
  <2>3. LongAt(F, p) => LongAt(u, o)
    BY <1>5, <1>6, <1>8, <2>2 DEF LongAt, l
  <2>4. QED
    BY <2>1, <2>3
<1>11. ShortAt(F, p) <=> ShortAt(u, o)
  <2>1. ShortAt(u, o) => ShortAt(F, p)
    BY <1>3, <1>5, <1>6, <1>8, <1>9 DEF ShortAt, l, p
  <2>2. ShortAt(F, p) => o + 3 <= l
    BY <1>1, <1>5, <1>6, <1>7, <1>8 DEF ShortAt
  <2>3. ShortAt(F, p) => ShortAt(u, o)
    BY <1>5, <1>6, <1>8, <1>9, <2>2 DEF ShortAt, l
  <2>4. QED
    BY <2>1, <2>3
<1>12. /\ IsNalStart(u, o) <=> LongAt(u, o) \/ ShortAt(u, o)
       /\ LongAt(u, o) => NalType(u, o) = u[o + 4]
       /\ ShortAt(u, o) => NalType(u, o) = u[o + 3]
  BY <1>0, StartIs DEF l
<1>13. /\ IsNalStart(F, p) <=> LongAt(F, p) \/ ShortAt(F, p)
       /\ LongAt(F, p) => NalType(F, p) = F[p + 4]
       /\ ShortAt(F, p) => NalType(F, p) = F[p + 3]
  BY <1>4, StartIs
<1>14. /\ LongAt(u, o) => F[p + 4] = u[o + 4]
       /\ ShortAt(u, o) => F[p + 3] = u[o + 3]
  BY <1>6 DEF LongAt, ShortAt, l
<1>15. QED
  BY <1>4, <1>10, <1>11, <1>12, <1>13, <1>14 DEF p, d, u

\* Where the units of a stream end, and what their NALs are: each begins with one that
\* is no slice, its last is its only slice.
Cuts(F, e, n) ==
  /\ Marks(e, n) /\ e[n] = Len(F)
  /\ \A k \in 1 .. n :
       /\ IsNalStart(F, e[k - 1] + 1)
       /\ NalType(F, e[k - 1] + 1) \in {"aud", "sei", "sps", "pps"}
       /\ \E v \in e[k - 1] + 1 .. e[k] :
            /\ IsNalStart(F, v)
            /\ \A p \in e[k - 1] + 1 .. e[k] :
                 IsNalStart(F, p) => p <= v /\ (IsVcl(NalType(F, p)) <=> p = v)

\* A stream of pictures is cut where its units end.
LEMMA JoinedCuts ==
  ASSUME NEW F \in Seq(STRING), NEW T \in Seq(Seq(STRING)), NEW e, Joined(F, T, e),
         \A k \in 1 .. Len(T) : IsPicture(T[k])
  PROVE  Cuts(F, e, Len(T))
<1> DEFINE n == Len(T)
<1>1. Marks(e, n) /\ \A k \in 1 .. n : Len(T[k]) \in Nat \ {0}
  <2>1. ASSUME NEW j \in 1 .. n PROVE e[j - 1] < e[j] /\ Len(T[j]) \in Nat \ {0}
    <3>1. T[j] \in Seq(STRING) /\ T[j] # <<>>
      BY DEF IsPicture
    <3>2. Len(T[j]) \in Nat \ {0}
      BY <3>1
    <3>3. e[j] = e[j - 1] + Len(T[j]) /\ e[j - 1] \in Nat
      <4>1. j - 1 \in 0 .. Len(T)
        OBVIOUS
      <4>2. e[j - 1] \in Nat
        BY <4>1 DEF Joined
      <4>3. QED
        BY <4>2 DEF Joined
    <3>4. QED
      BY <3>2, <3>3
  <2>2. QED
    BY <2>1 DEF Joined, Marks
<1>2. ASSUME NEW k \in 1 .. n
      PROVE  /\ IsNalStart(F, e[k - 1] + 1)
             /\ NalType(F, e[k - 1] + 1) \in {"aud", "sei", "sps", "pps"}
             /\ \E v \in e[k - 1] + 1 .. e[k] :
                  /\ IsNalStart(F, v)
                  /\ \A p \in e[k - 1] + 1 .. e[k] :
                       IsNalStart(F, p) => p <= v /\ (IsVcl(NalType(F, p)) <=> p = v)
  <2> DEFINE u == T[k]
             d == e[k - 1]
  <2>1. Len(u) \in Nat \ {0} /\ e[k] = d + Len(u) /\ d \in Nat
    <3>1. k - 1 \in 0 .. n
      OBVIOUS
    <3>2. d \in Nat
      BY <3>1 DEF Joined
    <3>3. QED
      BY <1>1, <3>2 DEF Joined
  <2>2. \A o \in 1 .. Len(u) :
          /\ IsNalStart(F, d + o) <=> IsNalStart(u, o)
          /\ IsNalStart(u, o) => NalType(F, d + o) = NalType(u, o)
    BY StartsOfUnit
  <2>3. PICK slice \in 1 .. Len(u) :
          /\ IsNalStart(u, slice)
          /\ \A i \in 1 .. Len(u) : IsNalStart(u, i) =>
               i <= slice /\ (IsVcl(NalType(u, i)) <=> i = slice)
    <3>1. IsPicture(u)
      OBVIOUS
    <3>2. DOMAIN u = 1 .. Len(u)
      <4>1. u \in Seq(STRING)
        OBVIOUS
      <4>2. QED
        BY <4>1
    <3> HIDE DEF u
    <3>3. \A i : i \in NalStarts(u) <=> i \in 1 .. Len(u) /\ IsNalStart(u, i)
      BY <3>2 DEF NalStarts
    <3>4. PICK w \in NalStarts(u) : \A i \in NalStarts(u) :
            i <= w /\ (IsVcl(NalType(u, i)) <=> i = w)
      BY <3>1 DEF IsPicture
    <3>5. w \in 1 .. Len(u) /\ IsNalStart(u, w)
      BY <3>3, <3>4
    <3>6. ASSUME NEW i \in 1 .. Len(u), IsNalStart(u, i)
          PROVE  i <= w /\ (IsVcl(NalType(u, i)) <=> i = w)
      <4>1. i \in NalStarts(u)
        BY <3>3, <3>6
      <4>2. QED
        BY <3>4, <4>1
    <3>7. QED
      BY <3>5, <3>6
  <2>4. IsNalStart(u, 1) /\ NalType(u, 1) \in {"aud", "sei", "sps", "pps"}
    BY DEF IsPicture
  <2>5. 1 \in 1 .. Len(u)
    BY <2>1
  <2> HIDE DEF u, d
  <2>6. IsNalStart(F, d + 1) /\ NalType(F, d + 1) \in {"aud", "sei", "sps", "pps"}
    BY <2>2, <2>4, <2>5
  <2>7. d + slice \in d + 1 .. e[k] /\ IsNalStart(F, d + slice)
    BY <2>1, <2>2, <2>3
  <2>8. ASSUME NEW p \in d + 1 .. e[k], IsNalStart(F, p)
        PROVE  p <= d + slice /\ (IsVcl(NalType(F, p)) <=> p = d + slice)
    <3>1. p - d \in 1 .. Len(u) /\ d + (p - d) = p
      BY <2>1
    <3>2. IsNalStart(u, p - d) /\ NalType(F, p) = NalType(u, p - d)
      BY <2>2, <2>8, <3>1
    <3>3. p - d <= slice /\ (IsVcl(NalType(u, p - d)) <=> p - d = slice)
      BY <2>3, <3>1, <3>2
    <3>4. p <= d + slice /\ (p - d = slice <=> p = d + slice)
      BY <2>1, <3>3
    <3>5. QED
      BY <3>2, <3>3, <3>4
  <2>9. QED
    BY <2>6, <2>7, <2>8 DEF d
<1>3. e[n] = Len(F)
  BY DEF Joined
<1> HIDE DEF n
<1>4. QED
  BY <1>1, <1>2, <1>3 DEF Cuts, n

-----------------------------------------------------------------------------
(* The loop over the NALs *)

Acc == [start : Nat, vcl : BOOLEAN, units : Seq(Seq(STRING)), keep : Nat]

\* What the loop knows at i, in the k-th unit.
InUnit(b, e, k, i, a) ==
  /\ a \in Acc
  /\ a.start = e[k - 1] + 1 /\ a.start <= i
  /\ a.keep = IF k = 1 THEN 0 ELSE e[k - 1] + 1
  /\ a.units = [j \in 1 .. k - 1 |-> SubSeq(b, e[j - 1] + 1, e[j])]
  /\ a.vcl <=> \E p \in e[k - 1] + 1 .. i : IsNalStart(b, p) /\ IsVcl(NalType(b, p))
  /\ \A p \in 1 .. i : IsNalStart(b, p) => p <= e[k]

ScanInv(b, e, n, i, a) ==
  \/ /\ a = [start |-> 0, vcl |-> FALSE, units |-> <<>>, keep |-> 0]
     /\ \A p \in 1 .. i : ~IsNalStart(b, p)
  \/ \E k \in 1 .. n : InUnit(b, e, k, i, a)

\* What one NAL changes in what the loop knows.
LEMMA ScanFields ==
  ASSUME NEW b, NEW a \in Acc, NEW i \in Nat
  PROVE  /\ StartsUnit(b, i, a.vcl) =>
              Scan(b, a, i) = [start |-> i, vcl |-> IsVcl(NalType(b, i)), keep |-> i,
                                   units |-> Append(a.units, SubSeq(b, a.start, i - 1))]
         /\ ~StartsUnit(b, i, a.vcl) =>
              /\ Scan(b, a, i) \in Acc
              /\ Scan(b, a, i).start = IF a.start = 0 THEN i ELSE a.start
              /\ Scan(b, a, i).vcl = (a.vcl \/ IsVcl(NalType(b, i)))
              /\ Scan(b, a, i).keep = a.keep /\ Scan(b, a, i).units = a.units
<1>1. StartsUnit(b, i, a.vcl) =>
              Scan(b, a, i) = [start |-> i, vcl |-> IsVcl(NalType(b, i)), keep |-> i,
                                   units |-> Append(a.units, SubSeq(b, a.start, i - 1))]
  BY DEF Scan
<1>2. SUFFICES ASSUME ~StartsUnit(b, i, a.vcl)
               PROVE  /\ Scan(b, a, i) \in Acc
                      /\ Scan(b, a, i).start = IF a.start = 0 THEN i ELSE a.start
                      /\ Scan(b, a, i).vcl = (a.vcl \/ IsVcl(NalType(b, i)))
                      /\ Scan(b, a, i).keep = a.keep /\ Scan(b, a, i).units = a.units
  BY <1>1
<1> DEFINE v == IsVcl(NalType(b, i))
           s == IF a.start = 0 THEN i ELSE a.start
           w == (a.vcl \/ v)
<1>3. v \in BOOLEAN /\ w \in BOOLEAN
  BY DEF IsVcl
<1>4. s \in Nat
  BY DEF Acc
<1>5. Scan(b, a, i) = [a EXCEPT !.start = s, !.vcl = w]
  BY <1>2 DEF Scan
<1> HIDE DEF v, s, w
<1>6. QED
  <2> DEFINE c == [a EXCEPT !.start = s, !.vcl = w]
  <2>1. c \in Acc /\ c.start = s /\ c.vcl = w /\ c.keep = a.keep /\ c.units = a.units
    BY <1>3, <1>4 DEF Acc
  <2> HIDE DEF c
  <2>2. Scan(b, a, i) = c
    BY <1>5 DEF c
  <2>3. QED
    BY <2>1, <2>2 DEF s, w, v

\* b is the beginning of F.
Begins(b, F) == Len(b) <= Len(F) /\ \A j \in 1 .. Len(b) : b[j] = F[j]

\* A NAL of the stream that begins before one the buffer shows is shown too.
LEMMA EarlierStart ==
  ASSUME NEW F \in Seq(STRING), NEW b \in Seq(STRING), Begins(b, F),
         NEW i \in 1 .. Len(b), IsNalStart(b, i),
         NEW p \in 1 .. i, IsNalStart(F, p)
  PROVE  IsNalStart(b, p)
<1>1. i + 3 <= Len(b)
  BY StartsOfPrefix DEF Begins
<1>2. p = i \/ p + 4 <= Len(b)
  BY <1>1
<1>3. p \in 1 .. Len(b)
  OBVIOUS
<1>4. QED
  BY <1>2, <1>3, StartsOfPrefix DEF Begins

\* The unit a shown NAL is in begins with a NAL that is shown.
LEMMA StartInUnit ==
  ASSUME NEW F \in Seq(STRING), NEW b \in Seq(STRING), Begins(b, F),
         NEW n \in Nat, NEW e, Cuts(F, e, n),
         NEW i \in 1 .. Len(b), IsNalStart(b, i)
  PROVE  \E k \in 1 .. n : /\ e[k - 1] < i /\ i <= e[k]
                           /\ e[k - 1] \in Nat /\ e[k] \in Nat
                           /\ \A j \in 1 .. k : IsNalStart(b, e[j - 1] + 1) /\ e[j - 1] + 1 <= i
                           /\ IsNalStart(F, i) /\ NalType(b, i) = NalType(F, i)
<1>1. i \in 1 .. e[n]
  BY DEF Cuts, Begins
<1>2. PICK k \in 1 .. n : e[k - 1] < i /\ i <= e[k]
  BY <1>1, MarksAt DEF Cuts
<1>3. k - 1 \in 0 .. n /\ k \in 0 .. n
  OBVIOUS
<1>4. e[k - 1] \in Nat /\ e[k] \in Nat
  BY <1>3 DEF Cuts, Marks
<1>5. ASSUME NEW j \in 1 .. k PROVE IsNalStart(b, e[j - 1] + 1) /\ e[j - 1] + 1 <= i
  <2>1. j - 1 \in 0 .. n /\ j \in 1 .. n /\ (j - 1 = k - 1 \/ j - 1 < k - 1)
    OBVIOUS
  <2>2. e[j - 1] \in Nat /\ e[j - 1] <= e[k - 1]
    <3>1. e[j - 1] \in Nat
      BY <2>1 DEF Cuts, Marks
    <3>2. j - 1 < k - 1 => e[j - 1] < e[k - 1]
      BY <1>3, <2>1, MarksRise DEF Cuts
    <3>3. QED
      BY <1>4, <2>1, <3>1, <3>2
  <2>3. e[j - 1] + 1 \in 1 .. i
    BY <1>2, <1>4, <2>2, SMTT(30)
  <2>4. IsNalStart(F, e[j - 1] + 1)
    BY <2>1 DEF Cuts
  <2>5. QED
    BY <2>3, <2>4, EarlierStart
<1>6. IsNalStart(F, i) /\ NalType(b, i) = NalType(F, i)
  BY StartsOfPrefix DEF Begins
<1>7. QED
  BY <1>2, <1>4, <1>5, <1>6

\* One NAL, or a byte at which none begins, keeps the loop's invariant.
LEMMA ScanStep ==
  ASSUME NEW F \in Seq(STRING), NEW b \in Seq(STRING), Begins(b, F),
         NEW n \in Nat, NEW e, Cuts(F, e, n),
         NEW i \in 1 .. Len(b), NEW a, ScanInv(b, e, n, i - 1, a)
  PROVE  ScanInv(b, e, n, i, IF IsNalStart(b, i) THEN Scan(b, a, i) ELSE a)
<1> DEFINE s0 == [start |-> 0, vcl |-> FALSE, units |-> <<>>, keep |-> 0]
<1>0. i \in Nat /\ i - 1 \in Nat /\ \A p \in 1 .. i : p \in 1 .. i - 1 \/ p = i
  OBVIOUS
<1>1. CASE ~IsNalStart(b, i)
  <2>1. CASE a = s0 /\ \A p \in 1 .. i - 1 : ~IsNalStart(b, p)
    BY <1>0, <1>1, <2>1 DEF ScanInv
  <2>2. CASE \E k \in 1 .. n : InUnit(b, e, k, i - 1, a)
    <3>1. PICK k \in 1 .. n : InUnit(b, e, k, i - 1, a)
      BY <2>2
    <3>2. e[k - 1] \in Nat
      <4>1. k - 1 \in 0 .. n
        OBVIOUS
      <4>2. QED
        BY <4>1 DEF Cuts, Marks
    <3>3. a.start <= i /\ \A p \in e[k - 1] + 1 .. i : p \in e[k - 1] + 1 .. i - 1 \/ p = i
      BY <1>0, <3>1, <3>2 DEF InUnit
    <3>4. \A p \in e[k - 1] + 1 .. i - 1 : p \in e[k - 1] + 1 .. i
      BY <1>0, <3>2
    <3>5. a.vcl <=> \E p \in e[k - 1] + 1 .. i : IsNalStart(b, p) /\ IsVcl(NalType(b, p))
      BY <1>1, <3>1, <3>3, <3>4 DEF InUnit
    <3>6. \A p \in 1 .. i : IsNalStart(b, p) => p <= e[k]
      BY <1>0, <1>1, <3>1 DEF InUnit
    <3>7. InUnit(b, e, k, i, a)
      BY <3>1, <3>3, <3>5, <3>6 DEF InUnit
    <3>8. QED
      BY <1>1, <3>7 DEF ScanInv
  <2>3. QED
    BY <2>1, <2>2 DEF ScanInv
<1>2. CASE IsNalStart(b, i)
  <2>0. SUFFICES ScanInv(b, e, n, i, Scan(b, a, i))
    BY <1>2
  <2>1. PICK kk \in 1 .. n :
          /\ e[kk - 1] < i /\ i <= e[kk]
          /\ e[kk - 1] \in Nat /\ e[kk] \in Nat
          /\ \A j \in 1 .. kk : IsNalStart(b, e[j - 1] + 1) /\ e[j - 1] + 1 <= i
          /\ IsNalStart(F, i) /\ NalType(b, i) = NalType(F, i)
    BY <1>2, StartInUnit
  <2> DEFINE t == NalType(b, i)
             c == Scan(b, a, i)
  <2>t. IsVcl(t) \in BOOLEAN
    BY DEF IsVcl
  <2>2. CASE a = s0 /\ \A p \in 1 .. i - 1 : ~IsNalStart(b, p)
    <3>1. e[0] = 0
      BY DEF Cuts, Marks
    <3>2. IsNalStart(b, 1)
      <4>1. 1 \in 1 .. kk /\ 1 - 1 = 0
        OBVIOUS
      <4>2. IsNalStart(b, e[1 - 1] + 1)
        BY <2>1, <4>1
      <4>3. e[1 - 1] + 1 = 1
        BY <3>1, <4>1
      <4>4. QED
        BY <4>2, <4>3
    <3>3. i = 1
      BY <1>0, <2>2, <3>2
    <3>4. kk = 1
      <4>1. e[kk - 1] = 0
        BY <2>1, <3>3
      <4>2. kk - 1 > 0 => e[0] < e[kk - 1]
        <5>1. kk - 1 \in 0 .. n /\ 0 \in 0 .. n
          OBVIOUS
        <5>2. QED
          BY <5>1, MarksRise DEF Cuts
      <4>3. QED
        BY <3>1, <4>1, <4>2
    <3>5. a \in Acc /\ a.start = 0 /\ a.vcl = FALSE /\ a.units = <<>> /\ a.keep = 0
      BY <2>2 DEF Acc
    <3>6. ~StartsUnit(b, i, a.vcl)
      BY <3>5 DEF StartsUnit
    <3>7. c \in Acc /\ c.start = i /\ c.vcl = (a.vcl \/ IsVcl(t)) /\ c.keep = 0 /\ c.units = <<>>
      BY <1>0, <3>5, <3>6, ScanFields
    <3>8. c.vcl <=> IsVcl(t)
      BY <2>t, <3>5, <3>7
    <3> HIDE DEF c
    <3>9. c.vcl <=> \E p \in e[1 - 1] + 1 .. i : IsNalStart(b, p) /\ IsVcl(NalType(b, p))
      <4>1. e[1 - 1] + 1 .. i = {i}
        BY <3>1, <3>3
      <4>2. QED
        BY <1>2, <3>8, <4>1
    <3>10. c.units = [j \in 1 .. 1 - 1 |-> SubSeq(b, e[j - 1] + 1, e[j])]
      <4>1. 1 .. 1 - 1 = {}
        OBVIOUS
      <4>2. QED
        BY <3>7, <4>1
    <3>11. InUnit(b, e, 1, i, c)
      <4>1. \A p \in 1 .. i : IsNalStart(b, p) => p <= e[1]
        BY <2>1, <3>3, <3>4
      <4>2. c.start = e[1 - 1] + 1 /\ c.start <= i
        BY <3>1, <3>3, <3>7
      <4>3. QED
        BY <3>7, <3>9, <3>10, <4>1, <4>2 DEF InUnit
    <3>12. QED
      BY <3>4, <3>11 DEF ScanInv, c
  <2>3. CASE \E k \in 1 .. n : InUnit(b, e, k, i - 1, a)
    <3>1. PICK k \in 1 .. n : InUnit(b, e, k, i - 1, a)
      BY <2>3
    <3>2. /\ a \in Acc /\ a.start = e[k - 1] + 1 /\ a.start <= i - 1
          /\ a.keep = IF k = 1 THEN 0 ELSE e[k - 1] + 1
          /\ a.units = [j \in 1 .. k - 1 |-> SubSeq(b, e[j - 1] + 1, e[j])]
          /\ a.vcl <=> \E p \in e[k - 1] + 1 .. i - 1 : IsNalStart(b, p) /\ IsVcl(NalType(b, p))
          /\ \A p \in 1 .. i - 1 : IsNalStart(b, p) => p <= e[k]
      BY <3>1 DEF InUnit
    <3>3. k - 1 \in 0 .. n /\ k \in 0 .. n /\ kk - 1 \in 0 .. n /\ kk \in 0 .. n
      OBVIOUS
    <3>4. e[k - 1] \in Nat /\ e[k] \in Nat /\ e[k - 1] < e[k] /\ e[k - 1] < i
      <4>1. e[k - 1] \in Nat /\ e[k] \in Nat /\ e[k - 1] < e[k]
        <5>1. e \in [0 .. n -> Nat] /\ \A j \in 1 .. n : e[j - 1] < e[j]
          BY DEF Cuts, Marks
        <5> HIDE DEF t, c
        <5>2. QED
          BY <3>3, <5>1
      <4>2. e[k - 1] + 1 <= i - 1
        BY <3>2
      <4> HIDE DEF t, c
      <4>3. QED
        BY <1>0, <4>1, <4>2
    <3>5. PICK v \in e[k - 1] + 1 .. e[k] :
            /\ IsNalStart(F, v)
            /\ \A p \in e[k - 1] + 1 .. e[k] :
                 IsNalStart(F, p) => p <= v /\ (IsVcl(NalType(F, p)) <=> p = v)
      BY DEF Cuts
    <3>6. CASE kk <= k
      <4>1. k = kk
        <5>1. kk < k => e[kk] <= e[k - 1]
          <6>1. kk < k => kk = k - 1 \/ kk < k - 1
            OBVIOUS
          <6>2. kk < k - 1 => e[kk] < e[k - 1]
            BY <3>3, MarksRise DEF Cuts
          <6>3. e[kk] \in Nat
            BY <2>1
          <6>4. kk = k - 1 => e[kk] = e[k - 1]
            OBVIOUS
          <6>5. kk < k - 1 => e[kk] <= e[k - 1]
            BY <3>4, <6>2, <6>3
          <6>6. e[kk] <= e[kk]
            BY <6>3
          <6> HIDE DEF t, c
          <6>7. QED
            BY <6>1, <6>4, <6>5, <6>6
        <5>2. QED
          BY <1>0, <2>1, <3>4, <3>6, <5>1
      <4>2. i \in e[k - 1] + 1 .. e[k]
        BY <1>0, <2>1, <3>4, <4>1
      <4>3. i <= v
        BY <2>1, <3>5, <4>2
      <4>4. ~a.vcl
        <5>1. SUFFICES ASSUME NEW p \in e[k - 1] + 1 .. i - 1,
                              IsNalStart(b, p), IsVcl(NalType(b, p))
                       PROVE  FALSE
          BY <3>2
        <5>2. p \in 1 .. Len(b) /\ p \in e[k - 1] + 1 .. e[k] /\ p < i
          BY <1>0, <3>4, <4>2, SMTT(30)
        <5>3. IsNalStart(F, p) /\ NalType(b, p) = NalType(F, p)
          BY <5>1, <5>2, StartsOfPrefix DEF Begins
        <5>4. p = v
          BY <3>5, <5>1, <5>2, <5>3
        <5>5. QED
          BY <1>0, <3>4, <4>3, <5>2, <5>4
      <4>5. a.vcl = FALSE
        BY <3>2, <4>4 DEF Acc
      <4>6. ~StartsUnit(b, i, a.vcl)
        BY <4>5 DEF StartsUnit
      <4>7. /\ c \in Acc /\ c.start = IF a.start = 0 THEN i ELSE a.start
            /\ c.vcl = (a.vcl \/ IsVcl(t)) /\ c.keep = a.keep /\ c.units = a.units
        BY <1>0, <3>2, <4>6, ScanFields
      <4>8. c.vcl <=> IsVcl(t)
        BY <2>t, <4>5, <4>7
      <4> HIDE DEF c
      <4>9. c.start = a.start /\ c.start <= i
        BY <1>0, <3>2, <3>4, <4>7
      <4>10. c.vcl <=> \E p \in e[k - 1] + 1 .. i : IsNalStart(b, p) /\ IsVcl(NalType(b, p))
        <5>1. \A p \in e[k - 1] + 1 .. i : p \in e[k - 1] + 1 .. i - 1 \/ p = i
          BY <1>0, <3>4
        <5>2. i \in e[k - 1] + 1 .. i
          BY <1>0, <3>4
        <5>3. \A p \in e[k - 1] + 1 .. i - 1 : ~(IsNalStart(b, p) /\ IsVcl(NalType(b, p)))
          BY <3>2, <4>4
        <5>4. QED
          BY <1>2, <4>8, <5>1, <5>2, <5>3
      <4>11. \A p \in 1 .. i : IsNalStart(b, p) => p <= e[k]
        BY <1>0, <3>2, <4>2
      <4>12. InUnit(b, e, k, i, c)
        BY <3>2, <4>7, <4>9, <4>10, <4>11 DEF InUnit
      <4>13. QED
        BY <4>12 DEF ScanInv, c
    <3>7. CASE kk > k
      <4>1. k + 1 \in 1 .. kk /\ k + 1 - 1 = k /\ k + 1 \in 1 .. n
        BY <3>7
      <4>2. IsNalStart(b, e[k] + 1) /\ e[k] + 1 <= i
        <5>0. \A j \in 1 .. kk : IsNalStart(b, e[j - 1] + 1) /\ e[j - 1] + 1 <= i
          BY <2>1
        <5> HIDE DEF t, c
        <5>1. \A j \in 1 .. kk : j - 1 = k => IsNalStart(b, e[k] + 1) /\ e[k] + 1 <= i
          BY <5>0
        <5>2. QED
          BY <4>1, <5>1
      <4>3. i = e[k] + 1
        <5>1. e[k] + 1 \in 1 .. i
          BY <3>4, <4>2
        <5>2. e[k] + 1 \in 1 .. i - 1 => FALSE
          BY <3>2, <3>4, <4>2
        <5>3. QED
          BY <1>0, <5>1, <5>2
      <4>4. t \in {"aud", "sei", "sps", "pps"}
        <5>0. \A j \in 1 .. n : NalType(F, e[j - 1] + 1) \in {"aud", "sei", "sps", "pps"}
          BY DEF Cuts
        <5>1. \A j \in 1 .. n : j - 1 = k => NalType(F, e[k] + 1) \in {"aud", "sei", "sps", "pps"}
          BY <5>0
        <5>2. QED
          BY <2>1, <4>1, <4>3, <5>1
      <4>5. a.vcl
        <5>1. v \in 1 .. i /\ v \in e[k - 1] + 1 .. i - 1
          BY <1>0, <3>4, <4>3, SMTT(30)
        <5>2. IsNalStart(b, v)
          BY <1>2, <3>5, <5>1, EarlierStart
        <5>3. v \in 1 .. Len(b)
          BY <5>1
        <5>4. NalType(b, v) = NalType(F, v)
          BY <5>2, <5>3, StartsOfPrefix, SMTT(30) DEF Begins
        <5>5. IsVcl(NalType(F, v))
          BY <3>5
        <5>6. QED
          BY <3>2, <5>1, <5>2, <5>4, <5>5
      <4>6. StartsUnit(b, i, a.vcl)
        BY <4>4, <4>5 DEF StartsUnit
      <4>7. c = [start |-> i, vcl |-> IsVcl(t), keep |-> i,
                 units |-> Append(a.units, SubSeq(b, a.start, i - 1))]
        BY <1>0, <3>2, <4>6, ScanFields
      <4> HIDE DEF c
      <4>8. c.start = i /\ (c.vcl <=> IsVcl(t)) /\ c.keep = i
            /\ c.units = Append(a.units, SubSeq(b, a.start, i - 1))
        BY <4>7
      <4>9. SubSeq(b, a.start, i - 1) \in Seq(STRING)
        <5>1. a.start \in 1 .. Len(b) + 1 /\ i - 1 \in 0 .. Len(b)
          <6>1. a.start \in Nat /\ a.start >= 1 /\ a.start <= i - 1
            BY <3>2, <3>4, SMTT(30)
          <6>2. PICK l \in Nat : l = Len(b)
            BY LenProperties
          <6>3. i \in 1 .. l
            BY <6>2
          <6>4. QED
            BY <1>0, <6>1, <6>2, <6>3
        <5>2. QED
          BY <5>1
      <4>10. c \in Acc
        <5>1. Append(a.units, SubSeq(b, a.start, i - 1)) \in Seq(Seq(STRING))
          <6>1. a.units \in Seq(Seq(STRING))
            BY <3>2 DEF Acc
          <6>2. QED
            BY <4>9, <6>1, AppendProperties
        <5>2. QED
          BY <1>0, <2>t, <4>7, <5>1 DEF Acc
      <4>11. c.units = [j \in 1 .. k + 1 - 1 |-> SubSeq(b, e[j - 1] + 1, e[j])]
        <5> DEFINE At(j) == SubSeq(b, e[j - 1] + 1, e[j])
        <5>1. SubSeq(b, a.start, i - 1) = At(k)
          <6>1. i - 1 = e[k] /\ a.start = e[k - 1] + 1
            BY <3>2, <3>4, <4>3
          <6>2. QED
            BY <6>1
        <5>2. a.units = [j \in 1 .. k - 1 |-> At(j)]
          BY <3>2
        <5> HIDE DEF At
        <5>3. Append([j \in 1 .. k - 1 |-> At(j)], At(k)) = [j \in 1 .. k |-> At(j)]
          <6> DEFINE s == [j \in 1 .. k - 1 |-> At(j)]
                     u == Append(s, At(k))
          <6>0. k - 1 \in Nat /\ k - 1 + 1 = k /\ \A j \in 1 .. k : j \in 1 .. k - 1 \/ j = k
            OBVIOUS
          <6>1. Len(s) = k - 1
            BY <6>0
          <6>2. s \in Seq(Seq(STRING)) /\ At(k) \in Seq(STRING)
            <7>1. a.units \in Seq(Seq(STRING))
              BY <3>2 DEF Acc
            <7>2. QED
              BY <4>9, <5>1, <5>2, <7>1
          <6>3. \A j \in 1 .. k - 1 : s[j] = At(j)
            OBVIOUS
          <6> HIDE DEF s
          <6>4. /\ u \in Seq(Seq(STRING)) /\ Len(u) = k /\ u[k] = At(k)
                /\ \A j \in 1 .. k - 1 : u[j] = s[j]
            BY <6>0, <6>1, <6>2, AppendProperties
          <6> HIDE DEF u
          <6>5. u = [j \in 1 .. Len(u) |-> u[j]]
            <7>1. u \in [1 .. Len(u) -> Seq(STRING)]
              BY <6>4, LenProperties
            <7>2. QED
              BY <7>1
          <6>6. u = [j \in 1 .. k |-> At(j)]
            BY <6>0, <6>3, <6>4, <6>5
          <6>7. QED
            BY <6>6 DEF u, s
        <5>4. QED
          BY <4>1, <4>8, <5>1, <5>2, <5>3 DEF At
      <4>12. c.vcl <=> \E p \in e[k + 1 - 1] + 1 .. i : IsNalStart(b, p) /\ IsVcl(NalType(b, p))
        <5>1. e[k + 1 - 1] + 1 .. i = {i}
          BY <1>0, <4>1, <4>3
        <5>2. QED
          BY <1>2, <4>8, <5>1
      <4>13. \A p \in 1 .. i : IsNalStart(b, p) => p <= e[k + 1]
        <5>1. e[k + 1] \in Nat /\ e[k] < e[k + 1]
          <6>1. k + 1 \in 0 .. n
            BY <4>1
          <6>2. e[k + 1 - 1] < e[k + 1]
            BY <4>1 DEF Cuts, Marks
          <6>3. QED
            BY <4>1, <6>1, <6>2 DEF Cuts, Marks
        <5>2. i <= e[k + 1]
          BY <3>4, <4>3, <5>1, SMTT(30)
        <5>3. QED
          BY <1>0, <5>1, <5>2
      <4>14. c.start = e[k + 1 - 1] + 1 /\ c.start <= i /\ c.keep = e[k + 1 - 1] + 1 /\ k + 1 # 1
        BY <1>0, <4>1, <4>3, <4>8
      <4>15. InUnit(b, e, k + 1, i, c)
        BY <4>10, <4>11, <4>12, <4>13, <4>14 DEF InUnit
      <4>16. QED
        BY <4>1, <4>15 DEF ScanInv, c
    <3>8. QED
      BY <3>6, <3>7
  <2>4. QED
    BY <2>2, <2>3 DEF ScanInv
<1>3. QED
  BY <1>1, <1>2

\* The loop's invariant at the end of the buffer.
LEMMA ScanClaim ==
  ASSUME NEW F \in Seq(STRING), NEW b \in Seq(STRING), Begins(b, F),
         NEW n \in Nat, NEW e, Cuts(F, e, n)
  PROVE  ScanInv(b, e, n, Len(b), Scanned(b)[Len(b)])
<1> DEFINE l == Len(b)
           s == Scanned(b)
           K == {i \in 0 .. l : ScanInv(b, e, n, i, s[i])}
<1>0. l \in Nat
  OBVIOUS
<1>1. /\ s[0] = [start |-> 0, vcl |-> FALSE, units |-> <<>>, keep |-> 0]
      /\ \A i \in 1 .. l : s[i] = IF IsNalStart(b, i) THEN Scan(b, s[i - 1], i) ELSE s[i - 1]
  BY <1>0, ScannedStep
<1> HIDE DEF s
<1>2. 0 \in K
  <2>1. ScanInv(b, e, n, 0, s[0])
    BY <1>1 DEF ScanInv
  <2>2. QED
    BY <1>0, <2>1
<1>3. ASSUME NEW i \in 1 .. l, i - 1 \in K PROVE i \in K
  <2>1. ScanInv(b, e, n, i - 1, s[i - 1])
    BY <1>3
  <2>2. i \in 1 .. Len(b)
    OBVIOUS
  <2>3. ScanInv(b, e, n, i, IF IsNalStart(b, i) THEN Scan(b, s[i - 1], i) ELSE s[i - 1])
    BY <2>1, <2>2, ScanStep
  <2>4. ScanInv(b, e, n, i, s[i])
    BY <1>1, <2>3
  <2>5. QED
    BY <1>0, <2>4
<1>4. 0 .. l \subseteq K
  <2> HIDE DEF K, l
  <2>1. QED
    BY <1>0, <1>2, <1>3, UpTo
<1>5. QED
  BY <1>0, <1>4 DEF s

LEMMA MaxOfTwo ==
  ASSUME NEW x \in Nat, NEW y \in Nat
  PROVE  Max({x, y}) = IF x >= y THEN x ELSE y
<1>1. Max({x, y}) = CHOOSE m \in {x, y} : \A w \in {x, y} : m >= w
  BY DEF Max
<1> DEFINE P(m) == m \in {x, y} /\ \A w \in {x, y} : m >= w
           z == IF x >= y THEN x ELSE y
<1>2. P(z)
  OBVIOUS
<1>3. \A m : P(m) => m = z
  OBVIOUS
<1> HIDE DEF P, z
<1>4. (CHOOSE m : P(m)) = z
  BY <1>2, <1>3
<1>5. QED
  BY <1>1, <1>4 DEF P, z

\* The units of b and F that are cut where T's are, are T's.
LEMMA UnitOf ==
  ASSUME NEW F \in Seq(STRING), NEW T \in Seq(Seq(STRING)), NEW e, Joined(F, T, e),
         NEW b \in Seq(STRING), Begins(b, F), NEW k \in 1 .. Len(T), e[k] <= Len(b)
  PROVE  SubSeq(b, e[k - 1] + 1, e[k]) = T[k]
<1> DEFINE u == T[k]
           w == SubSeq(b, e[k - 1] + 1, e[k])
<1>1. u \in Seq(STRING) /\ Len(u) \in Nat
  OBVIOUS
<1>2. e[k - 1] \in Nat /\ e[k] = e[k - 1] + Len(u)
  <2>1. k - 1 \in 0 .. Len(T)
    OBVIOUS
  <2>2. e[k - 1] \in Nat
    BY <2>1 DEF Joined
  <2>3. QED
    BY <2>2 DEF Joined
<1>3. \A o \in 1 .. Len(u) : F[e[k - 1] + o] = u[o]
  BY DEF Joined
<1> HIDE DEF u
<1> DEFINE d == e[k - 1]
           z == e[k]
           l == Len(b)
<1>4. d \in Nat /\ z = d + Len(u) /\ z <= l /\ l \in Nat
  BY <1>2
<1>5. w = SubSeq(b, d + 1, z)
  OBVIOUS
<1> HIDE DEF d, z, w
<1>6. w \in Seq(STRING) /\ Len(w) = Len(u) /\ \A o \in 1 .. Len(u) : w[o] = b[d + o]
  <2>1. d + 1 \in 1 .. l + 1 /\ z \in d .. l
    BY <1>1, <1>4
  <2>2. w \in Seq(STRING)
    BY <1>4, <1>5, <2>1
  <2>3. Len(w) = IF d + 1 <= z THEN z - (d + 1) + 1 ELSE 0
    BY <1>4, <1>5, <2>1, SubSeqProperties
  <2>4. Len(w) = Len(u)
    BY <1>1, <1>4, <2>3
  <2>5. ASSUME NEW o \in 1 .. Len(u) PROVE w[o] = b[d + o]
    <3>1. o \in 1 .. z - (d + 1) + 1 /\ d + 1 + o - 1 = d + o
      BY <1>1, <1>4
    <3>2. w[o] = b[d + 1 + o - 1]
      BY <1>1, <1>4, <1>5, <2>1, <3>1, SubSeqProperties
    <3>3. QED
      BY <3>1, <3>2
  <2>6. QED
    BY <2>2, <2>4, <2>5
<1>7. ASSUME NEW o \in 1 .. Len(u) PROVE w[o] = u[o]
  <2>1. d + o \in 1 .. l
    BY <1>1, <1>4
  <2>2. b[d + o] = F[d + o]
    BY <2>1 DEF Begins
  <2>3. F[d + o] = u[o]
    BY <1>3 DEF d
  <2>4. QED
    BY <1>6, <2>2, <2>3
<1>8. w = u
  BY <1>1, <1>6, <1>7, SeqEqual
<1>9. QED
  BY <1>8 DEF w, u

\* The first m units of T.
FirstOf(found, T, m) ==
  found \in Seq(Seq(STRING)) /\ Len(found) = m /\ \A j \in 1 .. m : found[j] = T[j]

\* The parser has found the first units of T and kept the rest of the buffer.
PartOf(d, T, e, b) ==
  \E m \in 0 .. Len(T) : /\ FirstOf(d.units, T, m)
                         /\ e[m] \in 0 .. Len(b) /\ d.keep = SubSeq(b, e[m] + 1, Len(b))

\* Units that the parser can rely on.
Pictures(T) == \A k \in 1 .. Len(T) : IsPicture(T[k])

\* drain_complete gives out the units that are complete and keeps the rest; at the end
\* of the stream it gives out all.
LEMMA Drained ==
  ASSUME NEW F \in Seq(STRING), NEW T \in Seq(Seq(STRING)), NEW e, Joined(F, T, e), Pictures(T),
         NEW b \in Seq(STRING), Begins(b, F)
  PROVE  /\ PartOf(DrainComplete(b, FALSE), T, e, b)
         /\ b = F => FirstOf(DrainComplete(b, TRUE).units, T, Len(T))
<1> DEFINE n == Len(T)
           l == Len(b)
           a == Scanned(b)[l]
           part == DrainComplete(b, FALSE)
           all == DrainComplete(b, TRUE)
<1>0. n \in Nat /\ l \in Nat
  OBVIOUS
<1>1. Cuts(F, e, n)
  BY JoinedCuts DEF Pictures
<1>2. ScanInv(b, e, n, l, a)
  BY <1>0, <1>1, ScanClaim
<1>3. /\ part.units = a.units /\ part.keep = SubSeq(b, Max({1, a.keep}), l)
      /\ all.units = IF a.start = 0 THEN a.units ELSE Append(a.units, SubSeq(b, a.start, l))
  BY DEF DrainComplete
<1>4. /\ e[0] = 0 /\ e[n] = Len(F) /\ Len(F) \in Nat /\ l <= Len(F)
      /\ \A k \in 0 .. n : e[k] \in Nat
  <2>1. e[0] = 0 /\ e[n] = Len(F) /\ e \in [0 .. n -> Nat]
    BY <1>1 DEF Cuts, Marks
  <2>2. Len(F) \in Nat /\ l <= Len(F)
    BY DEF Begins
  <2> HIDE DEF n, l
  <2>3. QED
    BY <2>1, <2>2
<1> HIDE DEF a, part, all, n, l
<1>5. CASE /\ a = [start |-> 0, vcl |-> FALSE, units |-> <<>>, keep |-> 0]
           /\ \A p \in 1 .. l : ~IsNalStart(b, p)
  <2>1. a.start = 0 /\ a.units = <<>> /\ a.keep = 0
    BY <1>5
  <2>2. part.keep = SubSeq(b, e[0] + 1, l)
    <3>1. Max({1, 0}) = 1
      BY MaxOfTwo
    <3>2. QED
      <4>1. part.keep = SubSeq(b, Max({1, 0}), l)
        BY <1>3, <2>1
      <4>2. e[0] + 1 = 1
        BY <1>4
      <4>3. QED
        BY <3>1, <4>1, <4>2
  <2>3. part.units \in Seq(Seq(STRING)) /\ Len(part.units) = 0 /\ 0 \in 0 .. n /\ e[0] \in 0 .. l
    BY <1>0, <1>3, <1>4, <2>1
  <2>4. ASSUME b = F PROVE n = 0
    <3>1. SUFFICES ASSUME n # 0 PROVE FALSE
      OBVIOUS
    <3>2. 1 \in 1 .. n /\ n \in 0 .. n /\ 0 \in 0 .. n
      BY <1>0, <3>1
    <3>3. e[0] < e[n]
      BY <1>0, <1>1, <3>1, <3>2, MarksRise DEF Cuts
    <3>4. IsNalStart(F, e[1 - 1] + 1)
      BY <1>1, <3>2 DEF Cuts
    <3>5. e[1 - 1] + 1 = 1 /\ 1 \in 1 .. l
      BY <1>4, <2>4, <3>3 DEF l
    <3>6. QED
      BY <1>5, <2>4, <3>4, <3>5
  <2>5. b = F => all.units \in Seq(Seq(STRING)) /\ Len(all.units) = n /\ \A j \in 1 .. n : all.units[j] = T[j]
    <3>1. SUFFICES ASSUME b = F
                   PROVE  all.units \in Seq(Seq(STRING)) /\ Len(all.units) = n
                          /\ \A j \in 1 .. n : all.units[j] = T[j]
      OBVIOUS
    <3>2. all.units = <<>> /\ n = 0
      BY <1>3, <2>1, <2>4, <3>1
    <3>3. QED
      BY <3>2
  <2>6. \A j \in 1 .. 0 : part.units[j] = T[j]
    OBVIOUS
  <2>7. QED
    BY <2>2, <2>3, <2>5, <2>6 DEF part, all, n, l, PartOf, FirstOf
<1>6. CASE \E k \in 1 .. n : InUnit(b, e, k, l, a)
  <2>1. PICK k \in 1 .. n : InUnit(b, e, k, l, a)
    BY <1>6
  <2>2. /\ a.start = e[k - 1] + 1 /\ a.start <= l
        /\ a.keep = IF k = 1 THEN 0 ELSE e[k - 1] + 1
        /\ a.units = [j \in 1 .. k - 1 |-> SubSeq(b, e[j - 1] + 1, e[j])]
        /\ a.units \in Seq(Seq(STRING))
        /\ \A p \in 1 .. l : IsNalStart(b, p) => p <= e[k]
    BY <2>1 DEF InUnit, Acc
  <2>3. k - 1 \in 0 .. n /\ k \in 0 .. n /\ k - 1 \in Nat
    BY <1>0
  <2>4. e[k - 1] \in Nat /\ e[k] \in Nat /\ e[k - 1] \in 0 .. l
    BY <1>0, <1>4, <2>2, <2>3
  <2>5. part.keep = SubSeq(b, e[k - 1] + 1, l)
    <3>1. CASE k = 1
      <4>1. Max({1, 0}) = 1 /\ e[k - 1] + 1 = 1
        BY <1>4, <3>1, MaxOfTwo
      <4>2. QED
        BY <1>3, <2>2, <3>1, <4>1
    <3>2. CASE k # 1
      <4>1. Max({1, e[k - 1] + 1}) = e[k - 1] + 1
        <5>1. PICK y \in Nat : y = e[k - 1] + 1
          BY <2>4
        <5>2. Max({1, y}) = IF 1 >= y THEN 1 ELSE y
          BY MaxOfTwo
        <5>3. y >= 1
          BY <2>4, <5>1
        <5>4. Max({1, y}) = y
          BY <5>2, <5>3
        <5>5. QED
          BY <5>1, <5>4
      <4>2. QED
        BY <1>3, <2>2, <3>2, <4>1
    <3>3. QED
      BY <3>1, <3>2
  <2>6. Len(a.units) = k - 1
    BY <2>2, <2>3
  <2>7. \A j \in 1 .. k - 1 : a.units[j] = T[j]
    <3>1. ASSUME NEW j \in 1 .. k - 1 PROVE a.units[j] = T[j]
      <4>1. j \in 1 .. n /\ j \in 0 .. n /\ (j < k - 1 \/ j = k - 1)
        BY <1>0
      <4>2. j < k - 1 => e[j] < e[k - 1]
        BY <1>0, <1>1, <2>3, <4>1, MarksRise DEF Cuts
      <4>3. e[j] \in Nat
        BY <1>4, <4>1
      <4>4. e[j] <= l
        <5>1. j = k - 1 => e[j] = e[k - 1]
          OBVIOUS
        <5>2. e[k - 1] \in Nat /\ e[k - 1] <= l
          BY <2>4
        <5> DEFINE x == e[j]
                   y == e[k - 1]
        <5>3. x \in Nat /\ y \in Nat /\ l \in Nat /\ y <= l /\ (x = y \/ x < y)
          BY <1>0, <4>1, <4>2, <4>3, <5>1, <5>2
        <5> HIDE DEF x, y
        <5>4. x <= l
          BY <5>3
        <5>5. QED
          BY <5>4 DEF x
      <4>5. SubSeq(b, e[j - 1] + 1, e[j]) = T[j]
        BY <4>1, <4>4, UnitOf DEF n, l
      <4>6. QED
        BY <2>2, <4>5
    <3>2. QED
      BY <3>1
  <2>8. ASSUME b = F
        PROVE  all.units \in Seq(Seq(STRING)) /\ Len(all.units) = n /\ \A j \in 1 .. n : all.units[j] = T[j]
    <3>1. l = e[n]
      BY <1>4, <2>8 DEF l
    <3>2. k = n
      <4>1. SUFFICES ASSUME k < n PROVE FALSE
        BY <1>0
      <4>2. k + 1 \in 1 .. n /\ k + 1 - 1 = k /\ n \in 0 .. n
        BY <1>0, <4>1
      <4>3. e[k] < e[n]
        BY <1>0, <1>1, <2>3, <4>1, <4>2, MarksRise DEF Cuts
      <4>4. \A j \in 1 .. n : j - 1 = k => IsNalStart(F, e[k] + 1)
        BY <1>1 DEF Cuts
      <4>5. IsNalStart(F, e[k] + 1)
        BY <4>2, <4>4
      <4>6. e[k] + 1 \in 1 .. l
        BY <1>0, <2>4, <3>1, <4>3, SMTT(30)
      <4>7. QED
        BY <2>2, <2>4, <2>8, <4>5, <4>6
    <3>3. SubSeq(b, a.start, l) = T[n]
      <4>1. n \in 1 .. Len(T) /\ e[n] <= Len(b)
        BY <1>0, <3>1, <3>2 DEF n, l
      <4>2. SubSeq(b, e[n - 1] + 1, e[n]) = T[n]
        BY <4>1, UnitOf
      <4>3. QED
        BY <2>2, <3>1, <3>2, <4>2
    <3>4. T[n] \in Seq(STRING)
      <4>1. n \in 1 .. Len(T)
        BY <3>2 DEF n
      <4>2. QED
        BY <4>1
    <3>5. all.units = Append(a.units, T[n])
      <4>1. a.start # 0
        BY <2>2, <2>4
      <4>2. QED
        BY <1>3, <3>3, <4>1
    <3>6. /\ all.units \in Seq(Seq(STRING)) /\ Len(all.units) = k - 1 + 1 /\ all.units[k - 1 + 1] = T[n]
          /\ \A j \in 1 .. k - 1 : all.units[j] = a.units[j]
      <4> DEFINE q == a.units
                 r == all.units
      <4>1. q \in Seq(Seq(STRING)) /\ Len(q) = k - 1 /\ r = Append(q, T[n])
        BY <2>2, <2>6, <3>5
      <4> HIDE DEF q, r
      <4>2. r \in Seq(Seq(STRING)) /\ Len(r) = k - 1 + 1 /\ r[k - 1 + 1] = T[n]
        BY <3>4, <4>1, AppendProperties
      <4>3. \A j \in 1 .. k - 1 : r[j] = q[j]
        BY <3>4, <4>1, AppendProperties
      <4>4. QED
        BY <4>2, <4>3 DEF q, r
    <3>7. k - 1 + 1 = n /\ \A j \in 1 .. n : j \in 1 .. k - 1 \/ j = n
      BY <1>0, <3>2
    <3>8. QED
      BY <2>7, <3>6, <3>7
  <2>9. /\ part.units \in Seq(Seq(STRING)) /\ Len(part.units) = k - 1
        /\ \A j \in 1 .. k - 1 : part.units[j] = T[j]
    BY <1>3, <2>2, <2>6, <2>7
  <2>10. QED
    BY <2>3, <2>4, <2>5, <2>8, <2>9 DEF part, all, n, l, PartOf, FirstOf
<1>7. QED
  BY <1>2, <1>5, <1>6 DEF ScanInv

-----------------------------------------------------------------------------
(* The parser: what is read is split where a unit ends *)

\* t is what is behind the first d of the l elements of s.
IsFrom(t, S, s, l, d) ==
  t \in Seq(S) /\ Len(t) = l - d /\ \A j \in 1 .. l - d : t[j] = s[d + j]

\* What SubSeq leaves of a sequence behind its first d elements.
LEMMA FromOn ==
  ASSUME NEW S, NEW s \in Seq(S), NEW l, l = Len(s), NEW d \in 0 .. l,
         NEW t, t = SubSeq(s, d + 1, l)
  PROVE  t \in Seq(S) /\ Len(t) = l - d /\ \A j \in 1 .. l - d : t[j] = s[d + j]
<1>0. l \in Nat
  OBVIOUS
<1>1. t \in Seq(S)
  OBVIOUS
<1>2. Len(t) = IF d + 1 <= l THEN l - (d + 1) + 1 ELSE 0
  OBVIOUS
<1>3. Len(t) = l - d
  BY <1>0, <1>2
<1>4. ASSUME NEW j \in 1 .. l - d PROVE t[j] = s[d + j]
  OBVIOUS
<1>5. QED
  BY <1>1, <1>3, <1>4

LEMMA SubSeqIsFrom ==
  ASSUME NEW S, NEW s \in Seq(S), NEW l \in Nat, l = Len(s), NEW d \in 0 .. l
  PROVE  IsFrom(SubSeq(s, d + 1, l), S, s, l, d)
<1>1. PICK t : t = SubSeq(s, d + 1, l)
  OBVIOUS
<1>2. t \in Seq(S) /\ Len(t) = l - d /\ \A j \in 1 .. l - d : t[j] = s[d + j]
  BY <1>1, FromOn
<1>3. QED
  BY <1>1, <1>2 DEF IsFrom

\* b begins F, and what b keeps behind a place, with z, is what F has behind it.
SplitsOff(b, F, z) ==
  /\ Begins(b, F)
  /\ \A d \in 0 .. Len(b) : SubSeq(b, d + 1, Len(b)) \o z = SubSeq(F, d + 1, Len(F))

\* What a read puts behind the buffer begins what is left, and what it keeps, with what
\* has not been read, is the rest of it.
LEMMA ReadSplit ==
  ASSUME NEW S, NEW x \in Seq(S), NEW y \in Seq(S), NEW n \in 1 .. Len(y),
         NEW b, b = x \o SubSeq(y, 1, n)
  PROVE  b \in Seq(S) /\ SplitsOff(b, x \o y, SubSeq(y, n + 1, Len(y)))
<1> DEFINE p == Len(x)
           q == Len(y)
           F == x \o y
           h == SubSeq(y, 1, n)
           t == SubSeq(y, n + 1, q)
<1>0. p \in Nat /\ q \in Nat /\ n \in 1 .. q /\ n \in Nat /\ n <= q
  OBVIOUS
<1>1. F \in Seq(S) /\ Len(F) = p + q /\ \A j \in 1 .. p + q : F[j] = IF j <= p THEN x[j] ELSE y[j - p]
  BY ConcatProperties
<1>2. h \in Seq(S) /\ Len(h) = n /\ \A j \in 1 .. n : h[j] = y[j]
  OBVIOUS
<1>3. t \in Seq(S) /\ Len(t) = q - n /\ \A j \in 1 .. q - n : t[j] = y[n + j]
  OBVIOUS
<1> HIDE DEF p, q, F, h, t
<1>4. b \in Seq(S) /\ Len(b) = p + n /\ \A j \in 1 .. p + n : b[j] = IF j <= p THEN x[j] ELSE h[j - p]
  BY <1>2, ConcatProperties DEF p, h
<1>5. \A j \in 1 .. p + n : b[j] = F[j]
  <2>1. ASSUME NEW j \in 1 .. p + n PROVE b[j] = F[j]
    <3>1. j \in 1 .. p + q /\ (j <= p \/ j - p \in 1 .. n)
      BY <1>0
    <3>2. QED
      BY <1>1, <1>2, <1>4, <3>1
  <2>2. QED
    BY <2>1
<1>6. ASSUME NEW d \in 0 .. p + n PROVE SubSeq(b, d + 1, p + n) \o t = SubSeq(F, d + 1, p + q)
  <2> DEFINE k == SubSeq(b, d + 1, p + n)
             G == SubSeq(F, d + 1, p + q)
             H == k \o t
  <2>0. d \in Nat /\ d <= p + n /\ d <= p + q /\ p + n - d \in Nat /\ p + q - d \in Nat
        /\ p + n - d + (q - n) = p + q - d
    BY <1>0
  <2>k. k = SubSeq(b, d + 1, p + n) /\ G = SubSeq(F, d + 1, p + q)
    OBVIOUS
  <2> HIDE DEF k, G
  <2>1. k \in Seq(S) /\ Len(k) = p + n - d /\ \A j \in 1 .. p + n - d : k[j] = b[d + j]
    <3>1. PICK l \in Nat : l = p + n
      BY <1>0
    <3>2. d \in 0 .. l /\ b \in Seq(S) /\ l = Len(b) /\ k = SubSeq(b, d + 1, l)
      BY <1>4, <2>k, <3>1
    <3>3. k \in Seq(S) /\ Len(k) = l - d /\ \A j \in 1 .. l - d : k[j] = b[d + j]
      BY <3>1, <3>2, SubSeqIsFrom DEF IsFrom
    <3>4. l - d = p + n - d
      BY <1>0, <2>0, <3>1
    <3>5. QED
      BY <3>3, <3>4, Zenon
  <2>2. G \in Seq(S) /\ Len(G) = p + q - d /\ \A j \in 1 .. p + q - d : G[j] = F[d + j]
    <3>1. PICK l \in Nat : l = p + q
      BY <1>0
    <3>2. d \in 0 .. l /\ F \in Seq(S) /\ l = Len(F) /\ G = SubSeq(F, d + 1, l)
      BY <1>0, <1>1, <2>k, <3>1, SMTT(30)
    <3>3. G \in Seq(S) /\ Len(G) = l - d /\ \A j \in 1 .. l - d : G[j] = F[d + j]
      BY <3>1, <3>2, SubSeqIsFrom DEF IsFrom
    <3>4. QED
      BY <1>0, <2>0, <3>1, <3>3
  <2>3. /\ H \in Seq(S) /\ Len(H) = Len(k) + Len(t)
        /\ \A j \in 1 .. Len(k) + Len(t) : H[j] = IF j <= Len(k) THEN k[j] ELSE t[j - Len(k)]
    BY <1>3, <2>1, ConcatProperties
  <2>4. Len(H) = p + q - d
    BY <1>3, <2>0, <2>1, <2>3
  <2>5. \A j \in 1 .. p + q - d : H[j] = IF j <= p + n - d THEN k[j] ELSE t[j - (p + n - d)]
    BY <1>3, <2>0, <2>1, <2>3
  <2> HIDE DEF H
  <2>6. ASSUME NEW j \in 1 .. p + q - d PROVE H[j] = G[j]
    <3>0. PICK i \in Nat : i = d + j
      BY <2>0
    <3>1. i \in 1 .. p + q /\ G[j] = F[i]
      BY <1>0, <2>0, <2>2, <3>0
    <3>2. CASE j <= p + n - d
      <4>1. j \in 1 .. p + n - d /\ i \in 1 .. p + n
        BY <1>0, <2>0, <3>0, <3>2
      <4>2. H[j] = b[i]
        BY <2>1, <2>5, <3>0, <3>2, <4>1
      <4>3. QED
        BY <1>5, <3>1, <4>1, <4>2
    <3>3. CASE ~(j <= p + n - d)
      <4>0. PICK o \in Int : o = j - (p + n - d)
        BY <2>0
      <4>1. o \in 1 .. q - n /\ n + o = i - p /\ ~(i <= p)
        BY <1>0, <2>0, <3>0, <3>3, <4>0
      <4>2. H[j] = t[o]
        BY <2>5, <3>3, <4>0
      <4>3. t[o] = y[n + o]
        BY <1>3, <4>1
      <4>4. F[i] = y[i - p]
        BY <1>1, <3>1, <4>1
      <4>5. QED
        BY <3>1, <4>1, <4>2, <4>3, <4>4
    <3>4. QED
      BY <3>2, <3>3
  <2>7. H = G
    <3>1. Len(H) = Len(G) /\ \A j \in 1 .. Len(H) : H[j] = G[j]
      BY <2>2, <2>4, <2>6
    <3>2. H \in Seq(S) /\ G \in Seq(S)
      BY <2>2, <2>3 DEF H
    <3>3. QED
      BY <3>1, <3>2, SeqEqual
  <2>8. QED
    BY <2>7 DEF H, G, k
<1>7. p + n <= p + q
  BY <1>0
<1>8. QED
  <2>1. Begins(b, F)
    BY <1>1, <1>4, <1>5, <1>7 DEF Begins
  <2>2. Len(b) = p + n /\ Len(F) = p + q
    BY <1>1, <1>4
  <2>3. \A d \in 0 .. Len(b) : SubSeq(b, d + 1, Len(b)) \o t = SubSeq(F, d + 1, Len(F))
    BY <1>6, <2>2
  <2>4. QED
    BY <1>4, <2>1, <2>3 DEF t, q, F, SplitsOff

\* The rest of a stream, cut where a unit ends, is the rest of its units.
LEMMA JoinedRest ==
  ASSUME NEW S, NEW F \in Seq(S), NEW T \in Seq(Seq(S)), NEW e, Joined(F, T, e),
         Marks(e, Len(T)), NEW m \in 0 .. Len(T)
  PROVE  \E f : Joined(SubSeq(F, e[m] + 1, Len(F)), SubSeq(T, m + 1, Len(T)), f)
<1> DEFINE n == Len(T)
           l == Len(F)
           d == e[m]
           G == SubSeq(F, d + 1, l)
           U == SubSeq(T, m + 1, n)
           f == [k \in 0 .. n - m |-> e[k + m] - d]
<1>0. n \in Nat /\ l \in Nat /\ m \in Nat /\ m <= n /\ n - m \in Nat
  OBVIOUS
<1>1. e \in [0 .. n -> Nat] /\ e[0] = 0 /\ e[n] = l
      /\ \A k \in 1 .. n : /\ e[k] = e[k - 1] + Len(T[k])
                           /\ \A o \in 1 .. Len(T[k]) : F[e[k - 1] + o] = T[k][o]
  BY DEF Joined
<1> HIDE DEF n, l
<1>2. \A k \in 0 .. n - m : /\ k + m \in 0 .. n /\ e[k + m] \in Nat
                            /\ d <= e[k + m] /\ e[k + m] <= l
  <2>1. ASSUME NEW k \in 0 .. n - m
        PROVE  k + m \in 0 .. n /\ e[k + m] \in Nat /\ d <= e[k + m] /\ e[k + m] <= l
    <3>1. k + m \in 0 .. n /\ n \in 0 .. n /\ m \in 0 .. n
          /\ (k + m = m \/ m < k + m) /\ (k + m = n \/ k + m < n)
      BY <1>0
    <3>2. e[k + m] \in Nat /\ d \in Nat /\ l \in Nat
      BY <1>0, <1>1, <3>1
    <3>3. m < k + m => d < e[k + m]
      BY <1>0, <3>1, MarksRise DEF n
    <3>4. k + m < n => e[k + m] < e[n]
      BY <1>0, <3>1, MarksRise DEF n
    <3>5. (k + m = m => e[k + m] = d) /\ (k + m = n => e[k + m] = l)
      BY <1>1
    <3> DEFINE z == e[k + m]
    <3>6. z \in Nat /\ (z = d \/ d < z) /\ (z = l \/ z < l)
      BY <1>1, <3>1, <3>2, <3>3, <3>4, <3>5
    <3> HIDE DEF z, d
    <3>7. d <= z /\ z <= l
      BY <3>2, <3>6
    <3>8. QED
      BY <3>1, <3>2, <3>7 DEF z
  <2>2. QED
    BY <2>1
<1>3. d \in Nat /\ d <= l
  <2>1. 0 \in 0 .. n - m /\ 0 + m = m
    BY <1>0
  <2>2. e[0 + m] \in Nat /\ e[0 + m] <= l
    BY <1>2, <2>1
  <2>3. QED
    BY <2>1, <2>2
<1>4. Len(G) = l - d /\ \A x \in 1 .. l - d : G[x] = F[d + x]
  <2>1. d \in 0 .. l /\ l = Len(F)
    BY <1>0, <1>3 DEF l
  <2> HIDE DEF d
  <2>2. G = SubSeq(F, d + 1, l)
    OBVIOUS
  <2> HIDE DEF G
  <2>3. QED
    BY <2>1, <2>2, FromOn
<1>5. Len(U) = n - m /\ \A k \in 1 .. n - m : U[k] = T[k + m]
  <2>1. \A k \in 1 .. n - m : m + k = k + m
    BY <1>0
  <2>2. U = SubSeq(T, m + 1, n) /\ n = Len(T)
    BY DEF n
  <2> HIDE DEF U
  <2>3. Len(U) = n - m /\ \A k \in 1 .. n - m : U[k] = T[m + k]
    BY <2>2, FromOn, SMTT(30)
  <2>4. QED
    BY <2>1, <2>3
<1>6. f \in [0 .. n - m -> Nat]
  <2>1. ASSUME NEW k \in 0 .. n - m PROVE e[k + m] - d \in Nat
    BY <1>2, <1>3
  <2> HIDE DEF d
  <2>2. QED
    BY <2>1
<1>7. f[0] = 0 /\ f[n - m] = l - d
  <2>1. 0 \in 0 .. n - m /\ n - m \in 0 .. n - m /\ 0 + m = m /\ n - m + m = n
    BY <1>0
  <2>2. f[0] = e[0 + m] - d /\ f[n - m] = e[n - m + m] - d
    BY <2>1
  <2>3. QED
    BY <1>1, <1>3, <2>1, <2>2
<1>8. ASSUME NEW k \in 1 .. n - m
      PROVE  /\ f[k] = f[k - 1] + Len(U[k])
             /\ \A o \in 1 .. Len(U[k]) : G[f[k - 1] + o] = U[k][o]
  <2>1. k \in 0 .. n - m /\ k - 1 \in 0 .. n - m /\ k + m \in 1 .. n /\ k - 1 + m = k + m - 1
    BY <1>0
  <2>2. f[k] = e[k + m] - d /\ f[k - 1] = e[k + m - 1] - d
    BY <2>1
  <2>3. /\ e[k + m] = e[k + m - 1] + Len(T[k + m])
        /\ \A o \in 1 .. Len(T[k + m]) : F[e[k + m - 1] + o] = T[k + m][o]
    BY <1>1, <2>1
  <2>4. /\ e[k + m - 1] \in Nat /\ d <= e[k + m - 1] /\ e[k + m] <= l /\ e[k + m] \in Nat
    BY <1>2, <2>1
  <2>5. T[k + m] \in Seq(S) /\ U[k] = T[k + m]
    BY <1>5, <2>1 DEF n
  <2> DEFINE x == e[k + m - 1]
             w == T[k + m]
             z == e[k + m]
  <2>6. x \in Nat /\ z \in Nat /\ z = x + Len(w) /\ d <= x /\ z <= l /\ Len(w) \in Nat
        /\ f[k] = z - d /\ f[k - 1] = x - d
    BY <2>2, <2>3, <2>4, <2>5
  <2>7. \A o \in 1 .. Len(w) : F[x + o] = w[o]
    BY <2>3
  <2> HIDE DEF x, w, z, f, G, d
  <2>8. f[k] = f[k - 1] + Len(w)
    BY <1>3, <2>6
  <2>9. ASSUME NEW o \in 1 .. Len(w) PROVE G[f[k - 1] + o] = w[o]
    <3>1. x - d + o \in 1 .. l - d /\ d + (x - d + o) = x + o
      BY <1>0, <1>3, <2>6
    <3>2. G[x - d + o] = F[x + o]
      BY <1>4, <3>1
    <3>3. QED
      BY <2>6, <2>7, <3>2
  <2>10. QED
    BY <2>5, <2>8, <2>9 DEF w
<1> HIDE DEF f, G, U, d
<1>9. Joined(G, U, f)
  BY <1>4, <1>5, <1>6, <1>7, <1>8 DEF Joined
<1>10. QED
  BY <1>9 DEF G, U, d, n, l

LEMMA RestOfRest ==
  ASSUME NEW S, NEW s \in Seq(S), NEW l, l = Len(s), NEW c \in 0 .. l, NEW m \in 0 .. l - c,
         NEW t, t = SubSeq(s, c + 1, l), NEW d \in Nat, m = d - c
  PROVE  SubSeq(t, m + 1, Len(t)) = SubSeq(s, d + 1, l)
<1>0. l \in Nat /\ c \in Nat /\ m \in Nat
  OBVIOUS
<1>1. t \in Seq(S) /\ Len(t) = l - c /\ \A j \in 1 .. l - c : t[j] = s[c + j]
  <2>1. IsFrom(SubSeq(s, c + 1, l), S, s, l, c)
    BY <1>0, SubSeqIsFrom
  <2>2. QED
    BY <2>1 DEF IsFrom
<1>2. PICK u : u = SubSeq(t, m + 1, Len(t))
  OBVIOUS
<1>3. m \in 0 .. Len(t)
  BY <1>1
<1>4. u \in Seq(S) /\ Len(u) = Len(t) - m /\ \A j \in 1 .. Len(t) - m : u[j] = t[m + j]
  <2>1. Len(t) \in Nat /\ t \in Seq(S)
    BY <1>1, LenProperties
  <2>2. IsFrom(SubSeq(t, m + 1, Len(t)), S, t, Len(t), m)
    BY <1>3, <2>1, SubSeqIsFrom
  <2>3. IsFrom(u, S, t, Len(t), m)
    BY <1>2, <2>2, Zenon
  <2>4. QED
    BY <2>3 DEF IsFrom
<1>5. d = c + m
  BY <1>0
<1>6. d \in 0 .. l
  BY <1>0, <1>5
<1>7. PICK v : v = SubSeq(s, d + 1, l)
  OBVIOUS
<1>8. v \in Seq(S) /\ Len(v) = l - d /\ \A j \in 1 .. l - d : v[j] = s[d + j]
  BY <1>6, <1>7, FromOn
<1>9. Len(u) = Len(v)
  BY <1>0, <1>1, <1>4, <1>5, <1>8
<1>10. ASSUME NEW j \in 1 .. Len(u) PROVE u[j] = v[j]
  <2>1. PICK i \in Nat : i = m + j
    BY <1>0
  <2>2. j \in 1 .. Len(t) - m /\ i \in 1 .. l - c /\ j \in 1 .. l - d /\ c + i = d + j
    BY <1>0, <1>1, <1>4, <1>5, <2>1
  <2>3. u[j] = t[i] /\ t[i] = s[c + i] /\ v[j] = s[d + j]
    BY <1>1, <1>4, <1>8, <2>1, <2>2
  <2>4. QED
    BY <2>2, <2>3
<1>11. u = v
  BY <1>4, <1>8, <1>9, <1>10, SeqEqual
<1>12. QED
  BY <1>2, <1>7, <1>11

\* The units the parser has not given out yet.
Left == SubSeq(stream, Len(sent) + Len(parsed) + 1, Len(stream))

\* Units that have been given out are the first of the stream, and what is in the buffer
\* and still to be read is the rest of them; nothing is left when the pump has ended.
ParserInv ==
  /\ stream \in Streams /\ times \in Times /\ Len(stream) <= Len(times)
  /\ rest \in Seq(STRING) /\ buffer \in Seq(STRING) /\ reading \in BOOLEAN
  /\ parsed \in Seq(Seq(STRING)) /\ sent \in Seq([unit : Seq(STRING), ts : Nat])
  /\ Len(sent) + Len(parsed) <= Len(stream)
  /\ \A i \in 1 .. Len(sent) : sent[i].unit = stream[i] /\ sent[i].ts = times[i]
  /\ \A i \in 1 .. Len(parsed) : parsed[i] = stream[Len(sent) + i]
  /\ \E e : Joined(buffer \o rest, Left, e)
  /\ ~reading => Len(sent) + Len(parsed) = Len(stream)

\* What the parser keeps, and the channel that holds its units.
pipe == <<stream, times, rest, buffer, reading, parsed, sent>>

\* The types of what the encoder emits.
LEMMA StreamTypes ==
  ASSUME Parameters, AsEncoded, stream \in Streams, times \in Times
  PROVE  /\ stream \in Seq(Seq(STRING)) /\ Len(stream) \in Nat
         /\ \A i \in 1 .. Len(stream) : IsPicture(stream[i])
         /\ times \in Seq(Nat) /\ Len(times) \in Nat
<1>1. stream \in Seq(Seq(STRING)) /\ \A i \in DOMAIN stream : IsPicture(stream[i])
  BY DEF AsEncoded
<1>2. times \in Seq(Nat)
  BY DEF Parameters
<1>3. DOMAIN stream = 1 .. Len(stream)
  BY <1>1
<1>4. Len(stream) \in Nat /\ Len(times) \in Nat
  BY <1>1, <1>2, LenProperties
<1>5. \A i \in 1 .. Len(stream) : IsPicture(stream[i])
  BY <1>1, <1>3
<1>6. QED
  BY <1>1, <1>2, <1>4, <1>5

LEMMA ParserInit ==
  ASSUME Parameters, AsEncoded, OutputInit
  PROVE  ParserInv
<1>1. /\ stream \in Streams /\ times \in Times /\ Len(stream) <= Len(times)
      /\ rest = FlattenSeq(stream) /\ buffer = <<>> /\ reading = TRUE /\ parsed = <<>>
      /\ sent = <<>>
  <2>1. /\ stream \in Streams /\ times \in Times /\ Len(times) >= Len(stream)
        /\ rest = FlattenSeq(stream) /\ buffer = <<>> /\ reading = TRUE /\ parsed = <<>>
        /\ sent = <<>>
    BY DEF OutputInit
  <2>2. Len(stream) <= Len(times)
    BY <2>1, StreamTypes
  <2>3. QED
    BY <2>1, <2>2
<1>2. stream \in Seq(Seq(STRING)) /\ Len(stream) \in Nat
  BY <1>1, StreamTypes
<1>3. PICK e : Joined(FlattenSeq(stream), stream, e)
  BY <1>2, FlattenJoined
<1>4. rest \in Seq(STRING)
  BY <1>1, <1>2, FlattenJoined
<1>5. buffer \o rest = rest
  BY <1>1, <1>4
<1>6. Len(sent) = 0 /\ Len(parsed) = 0
  BY <1>1
<1>7. Left = stream
  <2>1. Left = SubSeq(stream, 1, Len(stream))
    BY <1>6 DEF Left
  <2>2. QED
    BY <1>2, <2>1
<1>8. Joined(buffer \o rest, Left, e)
  BY <1>1, <1>3, <1>5, <1>7
<1>9. QED
  BY <1>1, <1>2, <1>4, <1>6, <1>8 DEF ParserInv

LEMMA MinOfTwo ==
  ASSUME NEW x \in Nat, NEW y \in Nat
  PROVE  Min({x, y}) \in Nat /\ Min({x, y}) <= x /\ Min({x, y}) <= y
<1>1. Min({x, y}) = CHOOSE m \in {x, y} : \A w \in {x, y} : m <= w
  BY DEF Min
<1> DEFINE P(m) == m \in {x, y} /\ \A w \in {x, y} : m <= w
           z == IF x <= y THEN x ELSE y
<1>2. P(z)
  OBVIOUS
<1>3. P(CHOOSE m : P(m))
  <2> HIDE DEF P, z
  <2>1. QED
    BY <1>2
<1>4. QED
  BY <1>1, <1>3

\* The rest of the stream as a sequence of pictures.
LEMMA LeftIs ==
  ASSUME Parameters, AsEncoded, ParserInv
  PROVE  /\ Left \in Seq(Seq(STRING)) /\ Len(Left) = Len(stream) - (Len(sent) + Len(parsed))
         /\ \A j \in 1 .. Len(Left) : /\ Left[j] = stream[Len(sent) + Len(parsed) + j]
                                      /\ IsPicture(Left[j])
<1>1. /\ stream \in Seq(Seq(STRING)) /\ Len(stream) \in Nat
      /\ \A i \in 1 .. Len(stream) : IsPicture(stream[i])
  BY StreamTypes DEF ParserInv
<1>2. Len(sent) \in Nat /\ Len(parsed) \in Nat /\ Len(sent) + Len(parsed) <= Len(stream)
  BY DEF ParserInv
<1>3. PICK c \in Nat : c = Len(sent) + Len(parsed)
  BY <1>2
<1>4. PICK l \in Nat : l = Len(stream)
  BY <1>1
<1>5. c \in 0 .. l
  BY <1>2, <1>3, <1>4
<1>6. Left = SubSeq(stream, c + 1, l)
  BY <1>3, <1>4 DEF Left
<1>7. Left \in Seq(Seq(STRING)) /\ Len(Left) = l - c /\ \A j \in 1 .. l - c : Left[j] = stream[c + j]
  BY <1>1, <1>4, <1>5, <1>6, FromOn
<1>8. ASSUME NEW j \in 1 .. l - c PROVE IsPicture(Left[j])
  <2>1. PICK i \in Nat : i = c + j
    BY <1>3
  <2>2. i \in 1 .. Len(stream) /\ Left[j] = stream[i]
    BY <1>4, <1>5, <1>7, <2>1
  <2>3. QED
    BY <1>1, <2>2
<1>9. QED
  BY <1>3, <1>4, <1>7, <1>8

\* A read gives out units of the stream, whatever it cuts.
LEMMA ParserRead ==
  ASSUME Parameters, AsEncoded, ParserInv, Read
  PROVE  ParserInv'
<1>1. PICK k \in 1 .. Min({ChunkMax, Len(rest)}) :
        LET drained == DrainComplete(buffer \o SubSeq(rest, 1, k), FALSE)
        IN  /\ parsed' = parsed \o drained.units
            /\ buffer' = drained.keep
            /\ rest' = SubSeq(rest, k + 1, Len(rest))
  BY DEF Read
<1>2. reading = TRUE /\ UNCHANGED <<stream, times, reading, sent>>
  BY DEF Read, ParserInv
<1>3. /\ stream \in Streams /\ times \in Times /\ Len(stream) <= Len(times)
      /\ rest \in Seq(STRING) /\ buffer \in Seq(STRING) /\ reading \in BOOLEAN
      /\ parsed \in Seq(Seq(STRING)) /\ sent \in Seq([unit : Seq(STRING), ts : Nat])
      /\ Len(sent) + Len(parsed) <= Len(stream)
      /\ \A i \in 1 .. Len(sent) : sent[i].unit = stream[i] /\ sent[i].ts = times[i]
      /\ \A i \in 1 .. Len(parsed) : parsed[i] = stream[Len(sent) + i]
  BY DEF ParserInv
<1>4. PICK e : Joined(buffer \o rest, Left, e)
  BY DEF ParserInv
<1>5. stream \in Seq(Seq(STRING)) /\ Len(stream) \in Nat
  BY <1>3, StreamTypes
<1>6. /\ Left \in Seq(Seq(STRING)) /\ Len(Left) = Len(stream) - (Len(sent) + Len(parsed))
      /\ \A j \in 1 .. Len(Left) : /\ Left[j] = stream[Len(sent) + Len(parsed) + j]
                                   /\ IsPicture(Left[j])
  BY LeftIs
<1>7. k \in 1 .. Len(rest)
  <2>1. ChunkMax \in Nat /\ Len(rest) \in Nat
    BY <1>3 DEF Parameters
  <2>2. Min({ChunkMax, Len(rest)}) \in Nat /\ Min({ChunkMax, Len(rest)}) <= Len(rest)
    BY <2>1, MinOfTwo
  <2>3. QED
    BY <2>1, <2>2
<1> DEFINE b == buffer \o SubSeq(rest, 1, k)
           F == buffer \o rest
           found == DrainComplete(b, FALSE).units
           keep == DrainComplete(b, FALSE).keep
<1>8. /\ b \in Seq(STRING) /\ Begins(b, F) /\ Len(b) \in Nat
      /\ \A d \in 0 .. Len(b) :
           SubSeq(b, d + 1, Len(b)) \o SubSeq(rest, k + 1, Len(rest)) = SubSeq(F, d + 1, Len(F))
  <2>1. b = buffer \o SubSeq(rest, 1, k) /\ F = buffer \o rest
    OBVIOUS
  <2> HIDE DEF b, F
  <2> DEFINE z == SubSeq(rest, k + 1, Len(rest))
  <2>5. rest \in Seq(STRING) /\ buffer \in Seq(STRING) /\ z = SubSeq(rest, k + 1, Len(rest))
    BY <1>3
  <2> HIDE DEF z
  <2>2. /\ b \in Seq(STRING) /\ Begins(b, F)
        /\ \A d \in 0 .. Len(b) : SubSeq(b, d + 1, Len(b)) \o z = SubSeq(F, d + 1, Len(F))
    <3>1. b \in Seq(STRING) /\ SplitsOff(b, F, z)
      BY <1>7, <2>1, <2>5, ReadSplit
    <3>2. QED
      BY <3>1 DEF SplitsOff
  <2>3. Len(b) \in Nat
    BY <2>2, LenProperties
  <2>4. QED
    BY <2>2, <2>3 DEF z
<1>9. parsed' = parsed \o found /\ buffer' = keep /\ rest' = SubSeq(rest, k + 1, Len(rest))
  BY <1>1
<1>10. F \in Seq(STRING)
  BY <1>3
<1>11. Joined(F, Left, e)
  BY <1>4
<1> HIDE DEF b, F
<1>12. PICK m \in 0 .. Len(Left) :
         /\ found \in Seq(Seq(STRING)) /\ Len(found) = m
         /\ \A j \in 1 .. m : found[j] = Left[j]
         /\ e[m] \in 0 .. Len(b)
         /\ keep = SubSeq(b, e[m] + 1, Len(b))
  <2>1. Pictures(Left)
    BY <1>6 DEF Pictures
  <2>2. PartOf(DrainComplete(b, FALSE), Left, e, b)
    BY <1>6, <1>8, <1>10, <1>11, <2>1, Drained
  <2>3. QED
    BY <2>2 DEF PartOf, FirstOf
<1> HIDE DEF found, keep
<1>13. PICK c \in Nat : c = Len(sent) + Len(parsed)
  BY <1>3
<1>14. m \in Nat /\ Len(parsed) \in Nat /\ Len(sent) \in Nat /\ c + m <= Len(stream) /\ c <= Len(stream)
  BY <1>3, <1>5, <1>6, <1>13
<1>15. /\ parsed' \in Seq(Seq(STRING)) /\ Len(parsed') = Len(parsed) + m
       /\ \A i \in 1 .. Len(parsed) + m :
            parsed'[i] = IF i <= Len(parsed) THEN parsed[i] ELSE found[i - Len(parsed)]
  <2>1. parsed \in Seq(Seq(STRING)) /\ found \in Seq(Seq(STRING)) /\ Len(found) = m
    BY <1>3, <1>12
  <2>2. /\ parsed \o found \in Seq(Seq(STRING)) /\ Len(parsed \o found) = Len(parsed) + Len(found)
        /\ \A i \in 1 .. Len(parsed) + Len(found) :
             (parsed \o found)[i] = IF i <= Len(parsed) THEN parsed[i] ELSE found[i - Len(parsed)]
    BY <2>1, ConcatProperties
  <2>3. QED
    BY <1>9, <2>1, <2>2
<1>16. ASSUME NEW i \in 1 .. Len(parsed') PROVE parsed'[i] = stream[Len(sent) + i]
  <2>0. i \in 1 .. Len(parsed) + m /\ i \in Nat
    BY <1>14, <1>15
  <2>1. CASE i <= Len(parsed)
    <3>1. i \in 1 .. Len(parsed) /\ parsed'[i] = parsed[i]
      BY <1>14, <1>15, <2>0, <2>1
    <3>2. QED
      BY <1>3, <3>1
  <2>2. CASE ~(i <= Len(parsed))
    <3>1. PICK j \in Nat : j = i - Len(parsed)
      <4>1. Len(parsed) \in Nat /\ i \in Nat
        BY <1>14, <2>0
      <4>2. i - Len(parsed) \in Nat
        BY <2>2, <4>1
      <4>3. QED
        BY <4>2
    <3>2. j \in 1 .. m /\ j \in 1 .. Len(Left) /\ Len(sent) + Len(parsed) + j = Len(sent) + i
      <4>1. j \in 1 .. m
        BY <1>14, <2>0, <2>2, <3>1
      <4>2. Len(Left) \in Nat /\ m <= Len(Left)
        BY <1>6
      <4>3. QED
        BY <1>14, <2>0, <3>1, <4>1, <4>2
    <3>3. parsed'[i] = found[j] /\ found[j] = Left[j]
      BY <1>12, <1>15, <2>0, <2>2, <3>1, <3>2
    <3>4. Left[j] = stream[Len(sent) + Len(parsed) + j]
      BY <1>6, <3>2
    <3>5. QED
      BY <3>2, <3>3, <3>4
  <2>3. QED
    BY <2>1, <2>2
<1>17. Left' = SubSeq(Left, m + 1, Len(Left))
  <2>1. PICK l \in Nat : l = Len(stream)
    BY <1>5
  <2>2. c \in 0 .. l /\ m \in 0 .. l - c /\ Left = SubSeq(stream, c + 1, l)
    BY <1>13, <1>14, <2>1 DEF Left
  <2>3. PICK d \in Nat : d = c + m
    BY <1>14
  <2>4. SubSeq(Left, m + 1, Len(Left)) = SubSeq(stream, d + 1, l)
    <3>1. m = d - c
      BY <1>14, <2>3
    <3>2. QED
      <4>1. stream \in Seq(Seq(STRING)) /\ d \in Nat
        BY <1>5, <2>3
      <4>2. \A t : t = SubSeq(stream, c + 1, l) => SubSeq(t, m + 1, Len(t)) = SubSeq(stream, d + 1, l)
        BY <2>1, <2>2, <3>1, <4>1, RestOfRest, SMTT(30)
      <4>3. QED
        BY <2>2, <4>2, Zenon
  <2>5. Left' = SubSeq(stream, Len(sent) + Len(parsed') + 1, l)
    BY <1>2, <2>1 DEF Left
  <2>6. Len(sent) + Len(parsed') = d
    BY <1>13, <1>14, <1>15, <2>3
  <2>7. QED
    BY <2>4, <2>5, <2>6
<1>18. buffer' \o rest' = SubSeq(F, e[m] + 1, Len(F))
  BY <1>8, <1>9, <1>12
<1>19. \E f : Joined(buffer' \o rest', Left', f)
  <2>1. Marks(e, Len(Left))
    BY <1>6, <1>10, <1>11, JoinedCuts DEF Cuts
  <2>2. \E f : Joined(SubSeq(F, e[m] + 1, Len(F)), SubSeq(Left, m + 1, Len(Left)), f)
    BY <1>6, <1>10, <1>11, <2>1, JoinedRest
  <2>3. QED
    BY <1>17, <1>18, <2>2
<1>20. buffer' \in Seq(STRING) /\ rest' \in Seq(STRING)
  <2>1. keep \in Seq(STRING)
    BY <1>8, <1>12
  <2>2. SubSeq(rest, k + 1, Len(rest)) \in Seq(STRING)
    BY <1>3, <1>7
  <2>3. QED
    BY <1>9, <2>1, <2>2
<1>21. Len(sent) + Len(parsed') <= Len(stream)
  BY <1>13, <1>14, <1>15
<1>22. QED
  BY <1>2, <1>3, <1>15, <1>16, <1>19, <1>20, <1>21 DEF ParserInv

\* The end gives out the last of them.
LEMMA ParserReadEnd ==
  ASSUME Parameters, AsEncoded, ParserInv, ReadEnd
  PROVE  ParserInv'
<1> DEFINE found == DrainComplete(buffer, TRUE).units
<1>1. /\ rest = <<>> /\ parsed' = parsed \o found /\ buffer' = <<>> /\ reading' = FALSE
      /\ UNCHANGED <<stream, times, rest, sent>>
  BY DEF ReadEnd
<1>2. /\ stream \in Streams /\ times \in Times /\ Len(stream) <= Len(times)
      /\ rest \in Seq(STRING) /\ buffer \in Seq(STRING)
      /\ parsed \in Seq(Seq(STRING)) /\ sent \in Seq([unit : Seq(STRING), ts : Nat])
      /\ Len(sent) + Len(parsed) <= Len(stream)
      /\ \A i \in 1 .. Len(sent) : sent[i].unit = stream[i] /\ sent[i].ts = times[i]
      /\ \A i \in 1 .. Len(parsed) : parsed[i] = stream[Len(sent) + i]
  BY DEF ParserInv
<1>3. PICK e : Joined(buffer \o rest, Left, e)
  BY DEF ParserInv
<1>4. stream \in Seq(Seq(STRING)) /\ Len(stream) \in Nat
  BY <1>2, StreamTypes
<1>5. /\ Left \in Seq(Seq(STRING)) /\ Len(Left) = Len(stream) - (Len(sent) + Len(parsed))
      /\ \A j \in 1 .. Len(Left) : /\ Left[j] = stream[Len(sent) + Len(parsed) + j]
                                   /\ IsPicture(Left[j])
  BY LeftIs
<1>6. buffer \o rest = buffer
  BY <1>1, <1>2
<1>7. FirstOf(found, Left, Len(Left))
  <2>1. Pictures(Left) /\ Begins(buffer, buffer) /\ Joined(buffer, Left, e)
    <3>1. Begins(buffer, buffer)
      <4>1. Len(buffer) \in Nat
        BY <1>2
      <4>2. QED
        BY <4>1 DEF Begins
    <3>2. QED
      BY <1>3, <1>5, <1>6, <3>1 DEF Pictures
  <2>2. QED
    BY <1>2, <1>5, <2>1, Drained
<1> HIDE DEF found
<1>8. PICK m \in Nat : m = Len(Left)
  <2>1. Len(Left) \in Nat
    BY <1>5, LenProperties
  <2>2. QED
    BY <2>1
<1>9. found \in Seq(Seq(STRING)) /\ Len(found) = m /\ \A j \in 1 .. m : found[j] = Left[j]
  BY <1>7, <1>8 DEF FirstOf
<1>10. /\ parsed' \in Seq(Seq(STRING)) /\ Len(parsed') = Len(parsed) + m
       /\ \A i \in 1 .. Len(parsed) + m :
            parsed'[i] = IF i <= Len(parsed) THEN parsed[i] ELSE found[i - Len(parsed)]
  <2>1. parsed \in Seq(Seq(STRING)) /\ found \in Seq(Seq(STRING)) /\ Len(found) = m
    BY <1>2, <1>9
  <2>2. /\ parsed \o found \in Seq(Seq(STRING)) /\ Len(parsed \o found) = Len(parsed) + Len(found)
        /\ \A i \in 1 .. Len(parsed) + Len(found) :
             (parsed \o found)[i] = IF i <= Len(parsed) THEN parsed[i] ELSE found[i - Len(parsed)]
    BY <2>1, ConcatProperties
  <2>3. QED
    BY <1>1, <2>1, <2>2
<1>11. Len(parsed) \in Nat /\ Len(sent) \in Nat /\ m = Len(stream) - (Len(sent) + Len(parsed))
  BY <1>2, <1>5, <1>8
<1>12. ASSUME NEW i \in 1 .. Len(parsed') PROVE parsed'[i] = stream[Len(sent) + i]
  <2>0. i \in 1 .. Len(parsed) + m /\ i \in Nat
    BY <1>10, <1>11
  <2>1. CASE i <= Len(parsed)
    <3>1. i \in 1 .. Len(parsed)
      BY <1>11, <2>0, <2>1
    <3>3. parsed'[i] = parsed[i]
      BY <1>10, <2>0, <2>1
    <3>4. QED
      BY <1>2, <3>1, <3>3
  <2>2. CASE ~(i <= Len(parsed))
    <3>1. PICK j \in Nat : j = i - Len(parsed)
      BY <1>11, <2>0, <2>2
    <3>2. j \in 1 .. m /\ Len(sent) + Len(parsed) + j = Len(sent) + i
      BY <1>11, <2>0, <2>2, <3>1
    <3>3. parsed'[i] = found[j] /\ found[j] = Left[j]
      BY <1>9, <1>10, <2>0, <2>2, <3>1, <3>2
    <3>4. Left[j] = stream[Len(sent) + Len(parsed) + j]
      BY <1>5, <1>8, <3>2
    <3>5. QED
      BY <3>2, <3>3, <3>4
  <2>3. QED
    BY <2>1, <2>2
<1>13. Len(sent) + Len(parsed') = Len(stream) /\ Len(sent) + Len(parsed') <= Len(stream)
  BY <1>4, <1>10, <1>11
<1>14. \E f : Joined(buffer' \o rest', Left', f)
  <2>1. buffer' \o rest' = <<>>
    BY <1>1
  <2>2. Left' = <<>>
    <3>1. Left' = SubSeq(stream, Len(stream) + 1, Len(stream))
      BY <1>1, <1>13 DEF Left
    <3>2. QED
      BY <1>4, <3>1
  <2>3. Joined(<<>>, <<>>, [k \in 0 .. 0 |-> 0])
    BY DEF Joined
  <2>4. QED
    BY <2>1, <2>2, <2>3
<1>15. buffer' \in Seq(STRING) /\ rest' \in Seq(STRING) /\ reading' \in BOOLEAN
  BY <1>1, <1>2
<1>16. QED
  BY <1>1, <1>2, <1>10, <1>12, <1>13, <1>14, <1>15 DEF ParserInv

\* push_access_unit takes the next unit of the stream, with its timestamp.
LEMMA ParserPush ==
  ASSUME Parameters, AsEncoded, ParserInv, Push
  PROVE  /\ ParserInv'
         /\ Len(sent) + 1 \in 1 .. Len(times) /\ Len(sent) + 1 \in 1 .. Len(stream)
         /\ sent' = Append(sent, [unit |-> stream[Len(sent) + 1], ts |-> times[Len(sent) + 1]])
         /\ Head(parsed) = stream[Len(sent) + 1]
<1> DEFINE c == Len(sent)
           r == [unit |-> Head(parsed), ts |-> times[c + 1]]
<1>1. /\ parsed # <<>> /\ parsed' = Tail(parsed) /\ sent' = Append(sent, r)
      /\ UNCHANGED <<stream, times, rest, buffer, reading>>
  BY DEF Push
<1>2. /\ stream \in Streams /\ times \in Times /\ Len(stream) <= Len(times)
      /\ rest \in Seq(STRING) /\ buffer \in Seq(STRING) /\ reading \in BOOLEAN
      /\ parsed \in Seq(Seq(STRING)) /\ sent \in Seq([unit : Seq(STRING), ts : Nat])
      /\ Len(sent) + Len(parsed) <= Len(stream)
      /\ \A i \in 1 .. Len(sent) : sent[i].unit = stream[i] /\ sent[i].ts = times[i]
      /\ \A i \in 1 .. Len(parsed) : parsed[i] = stream[Len(sent) + i]
      /\ \E e : Joined(buffer \o rest, Left, e)
      /\ ~reading => Len(sent) + Len(parsed) = Len(stream)
  BY DEF ParserInv
<1>3. stream \in Seq(Seq(STRING)) /\ Len(stream) \in Nat /\ times \in Seq(Nat) /\ Len(times) \in Nat
  BY <1>2, StreamTypes
<1>4. /\ Head(parsed) = parsed[1] /\ Tail(parsed) \in Seq(Seq(STRING))
      /\ Len(parsed) \in Nat \ {0} /\ Len(Tail(parsed)) = Len(parsed) - 1
      /\ \A i \in 1 .. Len(Tail(parsed)) : Tail(parsed)[i] = parsed[i + 1]
  BY <1>1, <1>2, HeadTailProperties
<1>5. c \in Nat /\ c + 1 \in 1 .. Len(times) /\ c + 1 \in 1 .. Len(stream) /\ 1 \in 1 .. Len(parsed)
  <2>1. c \in Nat
    BY <1>2, LenProperties
  <2> HIDE DEF c
  <2>2. c + Len(parsed) <= Len(stream)
    BY <1>2 DEF c
  <2>3. Len(parsed) \in Nat \ {0} /\ Len(stream) \in Nat /\ Len(times) \in Nat /\ Len(stream) <= Len(times)
    BY <1>2, <1>3, <1>4
  <2>4. QED
    BY <2>1, <2>2, <2>3
<1>6. Head(parsed) = stream[c + 1]
  BY <1>2, <1>4, <1>5
<1>7. r.unit = stream[c + 1] /\ r.ts = times[c + 1] /\ r \in [unit : Seq(STRING), ts : Nat]
  <2>1. stream[c + 1] \in Seq(STRING) /\ times[c + 1] \in Nat
    BY <1>3, <1>5
  <2>2. QED
    BY <1>6, <2>1
<1>8. r = [unit |-> stream[c + 1], ts |-> times[c + 1]]
  BY <1>6
<1> HIDE DEF r
<1>9. /\ sent' \in Seq([unit : Seq(STRING), ts : Nat]) /\ Len(sent') = c + 1 /\ sent'[c + 1] = r
      /\ \A i \in 1 .. c : sent'[i] = sent[i]
  BY <1>1, <1>2, <1>7, AppendProperties
<1>10. ASSUME NEW i \in 1 .. Len(sent') PROVE sent'[i].unit = stream[i] /\ sent'[i].ts = times[i]
  <2>1. i \in 1 .. c \/ i = c + 1
    BY <1>5, <1>9
  <2>2. QED
    BY <1>2, <1>7, <1>9, <2>1
<1>11. Len(parsed') \in Nat /\ Len(sent') + Len(parsed') = c + Len(parsed)
  BY <1>1, <1>4, <1>5, <1>9
<1>12. ASSUME NEW i \in 1 .. Len(parsed') PROVE parsed'[i] = stream[Len(sent') + i]
  <2>1. PICK j \in Nat : j = i + 1
    OBVIOUS
  <2>2. j \in 1 .. Len(parsed) /\ c + j = Len(sent') + i /\ parsed'[i] = parsed[j]
    BY <1>1, <1>4, <1>5, <1>9, <2>1
  <2>3. parsed[j] = stream[c + j]
    BY <1>2, <2>2
  <2>4. QED
    BY <2>2, <2>3
<1>13. Left' = Left
  BY <1>1, <1>11 DEF Left
<1>14. ParserInv'
  <2>1. parsed' \in Seq(Seq(STRING))
    BY <1>1, <1>4
  <2>2. Len(sent') + Len(parsed') <= Len(stream)
    BY <1>2, <1>11
  <2>3. ~reading => Len(sent') + Len(parsed') = Len(stream)
    BY <1>2, <1>11
  <2>4. \E e : Joined(buffer' \o rest', Left', e)
    BY <1>1, <1>2, <1>13
  <2> HIDE DEF c
  <2>5. QED
    BY <1>1, <1>2, <1>9, <1>10, <1>12, <2>1, <2>2, <2>3, <2>4 DEF ParserInv
<1>15. QED
  BY <1>1, <1>5, <1>6, <1>8, <1>14

LEMMA ParserElse ==
  ASSUME ParserInv, UNCHANGED pipe
  PROVE  ParserInv'
<1>1. UNCHANGED <<stream, times, rest, buffer, reading, parsed, sent>>
  BY DEF pipe
<1>2. Left' = Left
  BY <1>1 DEF Left
<1>3. QED
  BY <1>1, <1>2 DEF ParserInv

\* The actions that leave the parser and its channel alone.
LEMMA PipeAlone ==
  ASSUME Format \/ Eos \/ Capture \/ NextEvent \/ UNCHANGED outputVars
  PROVE  UNCHANGED pipe
<1>1. CASE Format
  BY <1>1 DEF Format, parserVars, pipe
<1>2. CASE Eos
  BY <1>2 DEF Eos, parserVars, pipe
<1>3. CASE Capture
  BY <1>3 DEF Capture, parserVars, pipe
<1>4. CASE NextEvent
  BY <1>4 DEF NextEvent, parserVars, pipe
<1>5. CASE UNCHANGED outputVars
  BY <1>5 DEF outputVars, parserVars, pipe
<1>6. QED
  BY <1>1, <1>2, <1>3, <1>4, <1>5

LEMMA ParserStep ==
  ASSUME Parameters, AsEncoded, ParserInv, [OutputNext]_(outputVars)
  PROVE  ParserInv'
<1>1. CASE Read
  BY <1>1, ParserRead
<1>2. CASE ReadEnd
  BY <1>2, ParserReadEnd
<1>3. CASE Push
  BY <1>3, ParserPush
<1>4. CASE Format \/ Eos \/ Capture \/ NextEvent \/ UNCHANGED outputVars
  BY <1>4, PipeAlone, ParserElse
<1>5. QED
  BY <1>1, <1>2, <1>3, <1>4 DEF OutputNext

LEMMA ParserAlways ==
  ASSUME Parameters, AsEncoded
  PROVE  OutputSpec => []ParserInv
<1>1. OutputInit => ParserInv
  BY ParserInit
<1>2. ParserInv /\ [OutputNext]_(outputVars) => ParserInv'
  BY ParserStep
<1>3. QED
  BY <1>1, <1>2, PTL DEF OutputSpec

LEMMA ParserIsPrefix ==
  ASSUME Parameters, AsEncoded, ParserInv
  PROVE  ParsesAsEncoded
<1> DEFINE given == [i \in DOMAIN sent |-> sent[i].unit]
           found == given \o parsed
           c == Len(sent)
           q == Len(parsed)
<1>1. /\ sent \in Seq([unit : Seq(STRING), ts : Nat]) /\ parsed \in Seq(Seq(STRING))
      /\ c + q <= Len(stream)
      /\ \A i \in 1 .. c : sent[i].unit = stream[i]
      /\ \A i \in 1 .. q : parsed[i] = stream[c + i]
      /\ ~reading => c + q = Len(stream)
  BY DEF ParserInv
<1>2. stream \in Seq(Seq(STRING)) /\ Len(stream) \in Nat
  BY StreamTypes DEF ParserInv
<1>3. c \in Nat /\ q \in Nat /\ DOMAIN sent = 1 .. c
  BY <1>1
<1>4. given \in Seq(Seq(STRING)) /\ Len(given) = c /\ \A i \in 1 .. c : given[i] = sent[i].unit
  <2>1. \A i \in 1 .. c : sent[i].unit \in Seq(STRING)
    <3>1. ASSUME NEW i \in 1 .. c PROVE sent[i].unit \in Seq(STRING)
      <4>1. sent[i] \in [unit : Seq(STRING), ts : Nat]
        <5>1. sent \in Seq([unit : Seq(STRING), ts : Nat]) /\ i \in 1 .. Len(sent)
          BY <1>1
        <5>2. QED
          BY <5>1, ElementOfSeq
      <4>2. QED
        BY <4>1
    <3>2. QED
      BY <3>1
  <2>2. given = [i \in 1 .. c |-> sent[i].unit]
    BY <1>3
  <2>3. QED
    BY <1>3, <2>1, <2>2
<1> HIDE DEF given, c
<1>5. /\ found \in Seq(Seq(STRING)) /\ Len(found) = c + q
      /\ \A i \in 1 .. c + q : found[i] = IF i <= c THEN given[i] ELSE parsed[i - c]
  <2>1. Len(parsed) = q
    OBVIOUS
  <2> HIDE DEF q
  <2>2. /\ found \in Seq(Seq(STRING)) /\ Len(found) = Len(given) + Len(parsed)
        /\ \A i \in 1 .. Len(given) + Len(parsed) :
             found[i] = IF i <= Len(given) THEN given[i] ELSE parsed[i - Len(given)]
    <3>1. given \in Seq(Seq(STRING)) /\ parsed \in Seq(Seq(STRING)) /\ found = given \o parsed
      BY <1>1, <1>4
    <3> HIDE DEF found
    <3>2. QED
      BY <3>1, ConcatProperties
  <2> HIDE DEF found
  <2>3. QED
    BY <1>4, <2>1, <2>2
<1> HIDE DEF found, q
<1>6. ASSUME NEW i \in 1 .. c + q PROVE found[i] = stream[i]
  <2>1. CASE i <= c
    <3>1. i \in 1 .. c
      BY <1>3, <2>1
    <3>2. found[i] = given[i]
      BY <1>5, <2>1
    <3>3. QED
      BY <1>1, <1>4, <3>1, <3>2
  <2>2. CASE ~(i <= c)
    <3>1. PICK j \in Nat : j = i - c
      BY <1>3, <2>2
    <3>2. j \in 1 .. q /\ c + j = i
      BY <1>3, <2>2, <3>1
    <3>3. found[i] = parsed[j] /\ parsed[j] = stream[c + j]
      BY <1>1, <1>5, <2>2, <3>1, <3>2
    <3>4. QED
      BY <3>2, <3>3
  <2>3. QED
    BY <2>1, <2>2
<1>7. IsPrefix(found, stream)
  BY <1>1, <1>2, <1>3, <1>5, <1>6, SMTT(30) DEF IsPrefix
<1>8. ~reading => found = stream
  BY <1>1, <1>2, <1>5, <1>6, SeqEqual
<1>9. QED
  BY <1>7, <1>8 DEF ParsesAsEncoded, found, given

\* Wherever the reads cut ffmpeg's output, the parser gives out the encoder's access
\* units, each once, in order, and all of them once the stream has ended
\* (AnnexBAccessUnitParser, pump_x264_output).
THEOREM ParserParsesAsEncoded == OutputSpec => []ParsesAsEncoded
<1>1. ParserInv => ParsesAsEncoded
  BY ParserIsPrefix, ParameterAssumption, EncoderAssumption
<1>2. OutputSpec => []ParserInv
  BY ParserAlways, ParameterAssumption, EncoderAssumption
<1>3. QED
  BY <1>1, <1>2, PTL

-----------------------------------------------------------------------------
(* The MP4 sink *)

\* The units from the first key frame on are the samples.
Keys(s) == {i \in DOMAIN s : IsKeyframe(s[i].unit)}
SampleCount(s) == IF Keys(s) = {} THEN 0 ELSE Len(s) - Min(Keys(s)) + 1

Mp4Type == [ready : BOOLEAN, base : Nat \cup {None}, pending : Nat \cup {None},
            last : Nat, samples : Seq([start : Nat, duration : Nat]), ended : BOOLEAN]

\* The i-th sample lasts something, and until the next one begins.
Follows(m, i) ==
  LET s    == m.samples[i]
      next == IF i < Len(m.samples) THEN m.samples[i + 1].start ELSE m.pending
  IN  /\ s.duration > 0
      /\ next # None => \/ next = s.start + s.duration
                        \/ s.duration = MaxU32 /\ next > s.start + MaxU32

\* The sink is ready from the first key frame on, then a sample waits until the end.
Mp4Inv ==
  /\ mp4 \in Mp4Type /\ phase \in {"new", "format", "eos", "failed"}
  /\ mp4.ended <=> phase = "eos"
  /\ phase = "new" => sent = <<>>
  /\ mp4.ready => mp4.base # None
  /\ mp4.ready /\ ~mp4.ended => mp4.pending # None
  /\ ~mp4.ready => mp4.pending = None /\ mp4.samples = <<>>
  /\ mp4.ended => mp4.pending = None
  /\ \A i \in 1 .. Len(mp4.samples) : Follows(mp4, i)
  /\ phase # "failed" =>
       /\ mp4.ready <=> Keys(sent) # {}
       /\ Len(mp4.samples) + (IF mp4.pending = None THEN 0 ELSE 1) = SampleCount(sent)

\* One more unit is one more sample, from the first key frame on.
LEMMA KeysAppend ==
  ASSUME NEW S, NEW s \in Seq(S), NEW r \in S
  PROVE  /\ Keys(s) = {} /\ ~IsKeyframe(r.unit) =>
              Keys(Append(s, r)) = {} /\ SampleCount(Append(s, r)) = 0
         /\ Keys(s) = {} /\ IsKeyframe(r.unit) =>
              Keys(Append(s, r)) # {} /\ SampleCount(Append(s, r)) = 1
         /\ Keys(s) # {} =>
              Keys(Append(s, r)) # {} /\ SampleCount(Append(s, r)) = SampleCount(s) + 1
<1> DEFINE n == Len(s)
           t == Append(s, r)
<1>1. /\ n \in Nat /\ t \in Seq(S) /\ Len(t) = n + 1 /\ t[n + 1] = r
      /\ \A i \in 1 .. n : t[i] = s[i]
      /\ DOMAIN s = 1 .. n /\ DOMAIN t = 1 .. n + 1
  <2>1. t \in Seq(S) /\ Len(t) = n + 1 /\ t[n + 1] = r /\ \A i \in 1 .. n : t[i] = s[i]
    BY AppendProperties
  <2> HIDE DEF t
  <2>2. QED
    BY <2>1
<1> HIDE DEF n, t
<1>2. \A i : i \in Keys(s) <=> i \in 1 .. n /\ IsKeyframe(s[i].unit)
  BY <1>1 DEF Keys
<1>3. \A i : i \in Keys(t) <=> i \in 1 .. n + 1 /\ IsKeyframe(t[i].unit)
  BY <1>1 DEF Keys
<1>4. \A i \in Nat : i \in Keys(t) <=> i \in Keys(s) \/ (i = n + 1 /\ IsKeyframe(r.unit))
  <2>1. ASSUME NEW i \in 1 .. n PROVE i \in Keys(t) <=> i \in Keys(s)
    <3>1. i \in 1 .. n + 1 /\ t[i] = s[i]
      BY <1>1
    <3>2. QED
      BY <1>2, <1>3, <3>1
  <2>2. n + 1 \in Keys(t) <=> IsKeyframe(r.unit)
    <3>1. n + 1 \in 1 .. n + 1
      BY <1>1
    <3>2. QED
      BY <1>1, <1>3, <3>1
  <2>3. ASSUME NEW i \in Nat, i \notin 1 .. n, i # n + 1 PROVE i \notin Keys(t) /\ i \notin Keys(s)
    <3>1. i \notin 1 .. n + 1
      BY <1>1, <2>3
    <3>2. QED
      BY <1>2, <1>3, <2>3, <3>1
  <2>4. n + 1 \notin Keys(s)
    <3>1. n + 1 \notin 1 .. n
      BY <1>1
    <3>2. QED
      BY <1>2, <3>1
  <2>5. QED
    BY <2>1, <2>2, <2>3, <2>4
<1>5. Keys(s) \subseteq 1 .. n /\ Keys(t) \subseteq 1 .. n + 1 /\ Keys(s) \subseteq Nat /\ Keys(t) \subseteq Nat
  <2>1. Keys(s) \subseteq 1 .. n /\ Keys(t) \subseteq 1 .. n + 1
    BY <1>2, <1>3
  <2>2. 1 .. n \subseteq Nat /\ 1 .. n + 1 \subseteq Nat
    BY <1>1
  <2>3. QED
    BY <2>1, <2>2
<1>6. \A K : Min(K) = CHOOSE x \in K : \A y \in K : x <= y
  BY DEF Min
<1>7. CASE Keys(s) = {}
  <2>1. CASE ~IsKeyframe(r.unit)
    <3>1. Keys(t) = {}
      BY <1>4, <1>5, <1>7, <2>1
    <3>2. QED
      BY <1>7, <2>1, <3>1 DEF SampleCount, t
  <2>2. CASE IsKeyframe(r.unit)
    <3>1. Keys(t) = {n + 1}
      <4>1. n + 1 \in Nat
        BY <1>1
      <4>2. \A i \in Nat : i \in Keys(t) <=> i = n + 1
        BY <1>4, <1>7, <2>2
      <4>3. QED
        BY <1>5, <4>1, <4>2
    <3>2. Min({n + 1}) = n + 1
      <4>1. n + 1 <= n + 1
        BY <1>1
      <4>2. (CHOOSE x \in {n + 1} : \A y \in {n + 1} : x <= y) = n + 1
        BY <4>1
      <4>3. QED
        BY <1>6, <4>2
    <3>3. SampleCount(t) = 1
      <4>1. SampleCount(t) = Len(t) - Min({n + 1}) + 1
        BY <3>1 DEF SampleCount
      <4>2. QED
        BY <1>1, <3>2, <4>1
    <3>4. QED
      BY <1>7, <2>2, <3>1, <3>3 DEF t
  <2>3. QED
    BY <2>1, <2>2
<1>8. CASE Keys(s) # {}
  <2> DEFINE P(K, x) == x \in K /\ \A y \in K : x <= y
             m == Min(Keys(s))
  <2>1. P(Keys(s), m)
    <3>1. \E x : P(Keys(s), x)
      <4>1. PICK x \in Keys(s) : \A y \in Keys(s) : ~ (<<y, x>> \in Before)
        BY <1>5, <1>8, BeforeIsWellFounded, WFMin
      <4>2. ASSUME NEW y \in Keys(s) PROVE x <= y
        <5>1. x \in Nat /\ y \in Nat
          BY <1>5
        <5>2. ~(y < x)
          BY <4>1, <5>1 DEF Before
        <5>3. QED
          BY <5>1, <5>2
      <4>3. QED
        BY <4>2
    <3>2. m = CHOOSE x : P(Keys(s), x)
      BY <1>6
    <3> HIDE DEF P, m
    <3>3. QED
      BY <3>1, <3>2
  <2>2. m \in 1 .. n /\ m \in Nat
    BY <1>5, <2>1
  <2> HIDE DEF m
  <2>3. P(Keys(t), m)
    <3>1. m \in Keys(t)
      BY <1>4, <2>1, <2>2
    <3>2. ASSUME NEW y \in Keys(t) PROVE m <= y
      <4>1. y \in Nat
        BY <1>5
      <4>2. y \in Keys(s) \/ y = n + 1
        BY <1>4, <4>1
      <4>3. QED
        BY <1>1, <2>1, <2>2, <4>2
    <3>3. QED
      BY <3>1, <3>2
  <2>4. \A x : P(Keys(t), x) => x = m
    <3>1. ASSUME NEW x, P(Keys(t), x) PROVE x = m
      <4>1. x \in Nat /\ x <= m /\ m <= x
        BY <1>5, <2>3, <3>1
      <4>2. QED
        BY <2>2, <4>1
    <3>2. QED
      BY <3>1
  <2>5. Min(Keys(t)) = m
    <3>1. Min(Keys(t)) = CHOOSE x : P(Keys(t), x)
      BY <1>6
    <3> HIDE DEF P
    <3>2. QED
      BY <2>3, <2>4, <3>1
  <2>6. Keys(t) # {}
    BY <2>3
  <2>7. SampleCount(t) = Len(t) - m + 1 /\ SampleCount(s) = n - m + 1
    BY <1>8, <2>5, <2>6 DEF SampleCount, m, n
  <2>8. SampleCount(t) = SampleCount(s) + 1
    BY <1>1, <2>2, <2>7
  <2>9. QED
    BY <1>8, <2>6, <2>8 DEF t
<1>9. QED
  BY <1>7, <1>8

LEMMA DivNat ==
  ASSUME NEW x \in Nat, NEW n \in Nat \ {0}
  PROVE  x \div n \in Nat
OBVIOUS

\* A sample's start is a number, behind the sample that waits.
LEMMA StartTimeIs ==
  ASSUME Parameters, mp4 \in Mp4Type, NEW ts \in Nat
  PROVE  /\ StartTime(ts) \in Nat
         /\ mp4.pending # None => StartTime(ts) > mp4.pending
<1> DEFINE base == IF mp4.base = None THEN ts ELSE mp4.base
           d == IF ts > base THEN ts - base ELSE 0
           ticks == d \div NsPerTick
<1>1. mp4.base \in Nat \cup {None} /\ mp4.pending \in Nat \cup {None}
  BY DEF Mp4Type
<1>2. base \in Nat
  BY <1>1
<1> HIDE DEF base
<1>3. d \in Nat
  BY <1>2
<1> HIDE DEF d
<1>4. ticks \in Nat
  BY <1>3, DivNat DEF Parameters
<1>5. StartTime(ts) = IF mp4.pending = None THEN ticks ELSE Max({ticks, mp4.pending + 1})
  BY DEF StartTime, ticks, d, base
<1> HIDE DEF ticks
<1>6. CASE mp4.pending = None
  BY <1>4, <1>5, <1>6
<1>7. CASE mp4.pending # None
  <2>1. PICK y \in Nat : y = mp4.pending + 1
    BY <1>1, <1>7
  <2>2. Max({ticks, y}) = IF ticks >= y THEN ticks ELSE y
    BY <1>4, MaxOfTwo
  <2>3. StartTime(ts) = Max({ticks, y})
    BY <1>5, <1>7, <2>1
  <2>4. StartTime(ts) \in Nat /\ StartTime(ts) >= y
    BY <1>4, <2>2, <2>3
  <2>5. QED
    BY <1>1, <1>7, <2>1, <2>4
<1>8. QED
  BY <1>6, <1>7

\* A sample that is written takes its place between the one before and what waits.
LEMMA FollowsAppend ==
  ASSUME Parameters, NEW m \in Mp4Type, NEW m2 \in Mp4Type, NEW dur \in Nat, dur > 0,
         \A i \in 1 .. Len(m.samples) : Follows(m, i), m.pending # None,
         m2.samples = Append(m.samples, Sample(m.pending, dur)),
         \/ m2.pending = None
         \/ m2.pending = m.pending + dur
         \/ dur = MaxU32 /\ m2.pending > m.pending + MaxU32
  PROVE  /\ \A i \in 1 .. Len(m2.samples) : Follows(m2, i)
         /\ Len(m2.samples) = Len(m.samples) + 1
<1> DEFINE s == m.samples
           t == m2.samples
           x == Sample(m.pending, dur)
           n == Len(s)
<1>1. s \in Seq([start : Nat, duration : Nat]) /\ m.pending \in Nat
  BY DEF Mp4Type
<1>2. x \in [start : Nat, duration : Nat] /\ x.start = m.pending /\ x.duration = dur
  BY <1>1 DEF Sample
<1>3. t = Append(s, x)
  OBVIOUS
<1> HIDE DEF s, t, x
<1>4. Len(t) = n + 1 /\ t[n + 1] = x /\ \A i \in 1 .. n : t[i] = s[i]
  BY <1>1, <1>2, <1>3, AppendProperties
<1>5. n \in Nat
  BY <1>1
<1> HIDE DEF n
<1>6. ASSUME NEW i \in 1 .. n PROVE Follows(m2, i)
  <2>1. Follows(m, i)
    BY DEF n, s
  <2>2. i < Len(t) /\ t[i] = s[i]
    BY <1>4, <1>5
  <2>3. t[i + 1].start = IF i < n THEN s[i + 1].start ELSE m.pending
    <3>1. i < n => i + 1 \in 1 .. n
      BY <1>5
    <3>2. ~(i < n) => i + 1 = n + 1
      BY <1>5
    <3>3. QED
      BY <1>2, <1>4, <3>1, <3>2
  <2>4. QED
    BY <2>1, <2>2, <2>3 DEF Follows, n, s, t
<1>7. Follows(m2, n + 1)
  <2>1. ~(n + 1 < Len(t)) /\ t[n + 1] = x
    BY <1>4, <1>5
  <2>2. \/ m2.pending = None
        \/ m2.pending = x.start + x.duration
        \/ x.duration = MaxU32 /\ m2.pending > x.start + MaxU32
    BY <1>2
  <2>3. x.duration > 0
    BY <1>2
  <2>4. QED
    BY <2>1, <2>2, <2>3 DEF Follows, t
<1>8. \A i \in 1 .. n + 1 : i \in 1 .. n \/ i = n + 1
  BY <1>5
<1>9. QED
  BY <1>4, <1>6, <1>7, <1>8 DEF n, s, t

\* What write_unit makes of the sink, once it is ready or with a key frame.
LEMMA Mp4UnitIs ==
  ASSUME Parameters, Mp4Inv, ~mp4.ended, NEW ts \in Nat, NEW m, m = Mp4Unit(ts)
  PROVE  /\ m \in Mp4Type /\ m.ready = TRUE /\ m.base # None /\ m.pending # None
         /\ m.ended = mp4.ended
         /\ \A i \in 1 .. Len(m.samples) : Follows(m, i)
         /\ Len(m.samples) = Len(mp4.samples) + (IF mp4.pending = None THEN 0 ELSE 1)
<1> DEFINE start == StartTime(ts)
           p == mp4.pending
           dur == IF start - p > MaxU32 THEN MaxU32 ELSE start - p
           base == IF mp4.base = None THEN ts ELSE mp4.base
           samples == IF p = None THEN mp4.samples ELSE Append(mp4.samples, Sample(p, dur))
           last == IF p = None THEN mp4.last ELSE dur
<1>0. None \notin Nat /\ MaxU32 \in Nat \ {0}
  BY DEF Parameters
<1>1. mp4 \in Mp4Type /\ \A i \in 1 .. Len(mp4.samples) : Follows(mp4, i)
  BY DEF Mp4Inv
<1>2. start \in Nat /\ (p # None => start > p)
  BY <1>1, StartTimeIs
<1>3. p \in Nat \cup {None} /\ mp4.base \in Nat \cup {None} /\ mp4.last \in Nat
      /\ mp4.samples \in Seq([start : Nat, duration : Nat]) /\ mp4.ended \in BOOLEAN
  BY <1>1 DEF Mp4Type
<1>4. m = [mp4 EXCEPT !.ready = TRUE, !.base = base, !.pending = start, !.samples = samples, !.last = last]
  BY <1>1 DEF Mp4Unit, Mp4Type
<1> HIDE DEF start, p
<1>5. p # None => dur \in Nat /\ dur > 0 /\ (start = p + dur \/ (dur = MaxU32 /\ start > p + MaxU32))
  BY <1>0, <1>2, <1>3
<1>6. base \in Nat /\ last \in Nat
  BY <1>3, <1>5
<1> HIDE DEF dur
<1>7. samples \in Seq([start : Nat, duration : Nat])
  <2>1. CASE p = None
    BY <1>3, <2>1
  <2>2. CASE p # None
    <3>1. Sample(p, dur) \in [start : Nat, duration : Nat]
      BY <1>3, <1>5, <2>2 DEF Sample
    <3>2. Append(mp4.samples, Sample(p, dur)) \in Seq([start : Nat, duration : Nat])
      BY <1>3, <3>1, AppendProperties
    <3>3. QED
      BY <2>2, <3>2
  <2>3. QED
    BY <2>1, <2>2
<1> HIDE DEF base, samples, last
<1>8. /\ m \in Mp4Type /\ m.ready = TRUE /\ m.base = base /\ m.pending = start
      /\ m.ended = mp4.ended /\ m.samples = samples
  BY <1>1, <1>2, <1>4, <1>6, <1>7 DEF Mp4Type
<1>9. m.base # None /\ m.pending # None
  BY <1>0, <1>2, <1>6, <1>8
<1>10. CASE p = None
  <2>1. mp4.samples = <<>>
    BY <1>10 DEF Mp4Inv, p
  <2>2. m.samples = <<>>
    BY <1>8, <1>10, <2>1 DEF samples
  <2>3. Len(m.samples) = 0 /\ Len(mp4.samples) = 0
    BY <2>1, <2>2
  <2>4. QED
    BY <1>8, <1>9, <1>10, <2>3 DEF p
<1>11. CASE p # None
  <2>1. m.samples = Append(mp4.samples, Sample(mp4.pending, dur)) /\ mp4.pending # None
    BY <1>8, <1>11 DEF samples, p
  <2>2. m.pending = mp4.pending + dur \/ (dur = MaxU32 /\ m.pending > mp4.pending + MaxU32)
    BY <1>5, <1>8, <1>11 DEF p
  <2>3. dur \in Nat /\ dur > 0
    BY <1>5, <1>11
  <2>4. /\ \A i \in 1 .. Len(m.samples) : Follows(m, i)
        /\ Len(m.samples) = Len(mp4.samples) + 1
    BY <1>1, <1>8, <2>1, <2>2, <2>3, FollowsAppend
  <2>5. QED
    BY <1>8, <1>9, <1>11, <2>4 DEF p
<1>12. QED
  BY <1>10, <1>11

\* What finish makes of it.
LEMMA Mp4FinishIs ==
  ASSUME Parameters, Mp4Inv, ~mp4.ended, NEW m, m = Mp4Finish
  PROVE  /\ m \in Mp4Type /\ m.ready = mp4.ready /\ m.base = mp4.base /\ m.pending = None
         /\ m.ended = TRUE
         /\ \A i \in 1 .. Len(m.samples) : Follows(m, i)
         /\ Len(m.samples) = Len(mp4.samples) + (IF mp4.pending = None THEN 0 ELSE 1)
         /\ mp4.samples = <<>> /\ mp4.pending = None => m.samples = <<>>
<1> DEFINE p == mp4.pending
           dur == Max({mp4.last, 1})
           samples == IF p = None THEN mp4.samples ELSE Append(mp4.samples, Sample(p, dur))
<1>0. None \notin Nat
  BY DEF Parameters
<1>1. mp4 \in Mp4Type /\ \A i \in 1 .. Len(mp4.samples) : Follows(mp4, i)
  BY DEF Mp4Inv
<1>2. /\ p \in Nat \cup {None} /\ mp4.last \in Nat /\ mp4.ready \in BOOLEAN
      /\ mp4.base \in Nat \cup {None}
      /\ mp4.samples \in Seq([start : Nat, duration : Nat])
  BY <1>1 DEF Mp4Type
<1>3. dur \in Nat /\ dur > 0
  <2>1. dur = IF mp4.last >= 1 THEN mp4.last ELSE 1
    BY <1>2, MaxOfTwo
  <2>2. QED
    BY <1>2, <2>1
<1>4. m = [mp4 EXCEPT !.ended = TRUE, !.pending = None, !.samples = samples]
  BY <1>1 DEF Mp4Finish, Mp4Type
<1> HIDE DEF p, dur
<1>5. samples \in Seq([start : Nat, duration : Nat])
  <2>1. CASE p = None
    BY <1>2, <2>1
  <2>2. CASE p # None
    <3>1. Sample(p, dur) \in [start : Nat, duration : Nat]
      BY <1>2, <1>3, <2>2 DEF Sample
    <3>2. Append(mp4.samples, Sample(p, dur)) \in Seq([start : Nat, duration : Nat])
      BY <1>2, <3>1, AppendProperties
    <3>3. QED
      BY <2>2, <3>2
  <2>3. QED
    BY <2>1, <2>2
<1> HIDE DEF samples
<1>6. /\ m \in Mp4Type /\ m.ready = mp4.ready /\ m.base = mp4.base /\ m.pending = None
      /\ m.ended = TRUE /\ m.samples = samples
  BY <1>1, <1>4, <1>5 DEF Mp4Type
<1>7. CASE p = None
  <2>1. mp4.samples = <<>>
    BY <1>7 DEF Mp4Inv, p
  <2>2. m.samples = <<>>
    BY <1>6, <1>7, <2>1 DEF samples
  <2>3. Len(m.samples) = 0 /\ Len(mp4.samples) = 0
    BY <2>1, <2>2
  <2>4. QED
    BY <1>6, <1>7, <2>2, <2>3 DEF p
<1>8. CASE p # None
  <2>1. m.samples = Append(mp4.samples, Sample(mp4.pending, dur)) /\ mp4.pending # None
    BY <1>6, <1>8 DEF samples, p
  <2>2. /\ \A i \in 1 .. Len(m.samples) : Follows(m, i)
        /\ Len(m.samples) = Len(mp4.samples) + 1
    BY <1>1, <1>3, <1>6, <2>1, FollowsAppend
  <2>3. QED
    BY <1>6, <1>8, <2>2 DEF p
<1>9. QED
  BY <1>7, <1>8

LEMMA Mp4Init ==
  ASSUME Parameters, OutputInit
  PROVE  Mp4Inv
<1>1. /\ sent = <<>> /\ phase = "new"
      /\ mp4 = [ready |-> FALSE, base |-> None, pending |-> None, last |-> FirstLast,
                samples |-> <<>>, ended |-> FALSE]
  BY DEF OutputInit
<1>2. FirstLast \in Nat
  BY DEF Parameters
<1>3. mp4 \in Mp4Type
  BY <1>1, <1>2 DEF Mp4Type
<1>4. /\ mp4.ready = FALSE /\ mp4.pending = None /\ mp4.samples = <<>> /\ mp4.ended = FALSE
      /\ mp4.base = None
  BY <1>1
<1>5. Keys(sent) = {} /\ SampleCount(sent) = 0
  BY <1>1 DEF Keys, SampleCount
<1>6. Len(mp4.samples) = 0
  BY <1>4
<1>7. QED
  BY <1>1, <1>3, <1>4, <1>5, <1>6 DEF Mp4Inv

LEMMA Mp4Push ==
  ASSUME Parameters, AsEncoded, ParserInv, Mp4Inv, Push
  PROVE  Mp4Inv'
<1> DEFINE unit == Head(parsed)
           ts == times[Len(sent) + 1]
           r == [unit |-> unit, ts |-> ts]
           key == IsKeyframe(unit)
<1>1. /\ phase = "format"
      /\ sent' = Append(sent, r)
      /\ \/ /\ mp4' = IF mp4.ready \/ key THEN Mp4Unit(ts) ELSE mp4
            /\ phase' = phase
         \/ phase' = "failed" /\ mp4' = mp4
  BY DEF Push, Failed
<1>2. ts \in Nat /\ sent \in Seq([unit : Seq(STRING), ts : Nat]) /\ unit \in Seq(STRING)
  <2>1. Len(sent) + 1 \in 1 .. Len(times) /\ times \in Seq(Nat)
    BY ParserPush, StreamTypes DEF ParserInv
  <2>2. Len(sent) + 1 \in 1 .. Len(stream) /\ unit = stream[Len(sent) + 1] /\ stream \in Seq(Seq(STRING))
    BY ParserPush, StreamTypes DEF ParserInv
  <2>3. QED
    BY <2>1, <2>2, ElementOfSeq DEF ParserInv
<1>3. r \in [unit : Seq(STRING), ts : Nat] /\ r.unit = unit
  BY <1>2
<1>4. key \in BOOLEAN
  BY DEF IsKeyframe
<1>5. /\ Keys(sent) = {} /\ ~key => Keys(sent') = {} /\ SampleCount(sent') = 0
      /\ Keys(sent) = {} /\ key => Keys(sent') # {} /\ SampleCount(sent') = 1
      /\ Keys(sent) # {} => Keys(sent') # {} /\ SampleCount(sent') = SampleCount(sent) + 1
  <2> HIDE DEF r, key
  <2>1. /\ Keys(sent) = {} /\ ~IsKeyframe(r.unit) => Keys(sent') = {} /\ SampleCount(sent') = 0
        /\ Keys(sent) = {} /\ IsKeyframe(r.unit) => Keys(sent') # {} /\ SampleCount(sent') = 1
        /\ Keys(sent) # {} => Keys(sent') # {} /\ SampleCount(sent') = SampleCount(sent) + 1
    BY <1>1, <1>2, <1>3, KeysAppend
  <2>2. QED
    BY <1>3, <2>1 DEF key
<1> HIDE DEF unit, ts, r, key
<1>6. /\ mp4 \in Mp4Type
      /\ mp4.ended <=> phase = "eos"
      /\ mp4.ready => mp4.base # None
      /\ mp4.ready /\ ~mp4.ended => mp4.pending # None
      /\ ~mp4.ready => mp4.pending = None /\ mp4.samples = <<>>
      /\ mp4.ended => mp4.pending = None
      /\ \A i \in 1 .. Len(mp4.samples) : Follows(mp4, i)
      /\ mp4.ready <=> Keys(sent) # {}
      /\ Len(mp4.samples) + (IF mp4.pending = None THEN 0 ELSE 1) = SampleCount(sent)
  BY <1>1 DEF Mp4Inv
<1>7. ~mp4.ended /\ mp4.ready \in BOOLEAN /\ mp4.ended \in BOOLEAN
  BY <1>1, <1>6 DEF Mp4Type
<1>8. CASE phase' = "failed" /\ mp4' = mp4
  <2>1. phase' = "failed" /\ mp4' = mp4
    BY <1>8
  <2>2. \A i \in 1 .. Len(mp4'.samples) : Follows(mp4', i)
    BY <1>6, <2>1
  <2>3. (\A i \in 1 .. Len(mp4.samples) : Follows(mp4, i))'
    BY <2>2 DEF Follows
  <2>4. QED
    BY <1>6, <1>7, <2>1, <2>3 DEF Mp4Inv
<1>9. CASE phase' = phase /\ mp4' = IF mp4.ready \/ key THEN Mp4Unit(ts) ELSE mp4
  <2>1. CASE mp4.ready \/ key
    <3>1. mp4' = Mp4Unit(ts)
      BY <1>9, <2>1
    <3>2. /\ mp4' \in Mp4Type /\ mp4'.ready = TRUE /\ mp4'.base # None /\ mp4'.pending # None
          /\ mp4'.ended = mp4.ended
          /\ \A i \in 1 .. Len(mp4'.samples) : Follows(mp4', i)
          /\ Len(mp4'.samples) = Len(mp4.samples) + (IF mp4.pending = None THEN 0 ELSE 1)
      BY <1>2, <1>7, <3>1, Mp4UnitIs
    <3>3. (\A i \in 1 .. Len(mp4.samples) : Follows(mp4, i))'
      BY <3>2 DEF Follows
    <3>4. Keys(sent') # {}
      BY <1>4, <1>5, <1>6, <1>7, <2>1
    <3>5. Len(mp4'.samples) + 1 = SampleCount(sent')
      <4>1. CASE Keys(sent) # {}
        <5>1. mp4.pending # None
          BY <1>6, <1>7, <4>1
        <5>2. Len(mp4.samples) + 1 = SampleCount(sent)
          BY <1>6, <5>1
        <5>3. Len(mp4.samples) \in Nat
          BY <1>6 DEF Mp4Type
        <5>4. QED
          BY <1>5, <3>2, <4>1, <5>1, <5>2, <5>3
      <4>2. CASE Keys(sent) = {}
        <5>1. mp4.pending = None /\ mp4.samples = <<>> /\ ~mp4.ready
          BY <1>6, <4>2
        <5>2. key
          BY <2>1, <5>1
        <5>3. Len(mp4.samples) = 0
          BY <5>1
        <5>4. QED
          BY <1>5, <3>2, <4>2, <5>1, <5>2, <5>3
      <4>3. QED
        BY <4>1, <4>2
    <3>6. phase' = "format" /\ ~mp4'.ended
      BY <1>1, <1>7, <1>9, <3>2
    <3>7. QED
      BY <3>2, <3>3, <3>4, <3>5, <3>6 DEF Mp4Inv
  <2>2. CASE ~(mp4.ready \/ key)
    <3>1. mp4' = mp4 /\ phase' = "format" /\ ~mp4.ready /\ ~key
      BY <1>1, <1>9, <2>2
    <3>2. Keys(sent) = {} /\ Keys(sent') = {} /\ SampleCount(sent') = 0
      BY <1>5, <1>6, <3>1
    <3>3. mp4.pending = None /\ mp4.samples = <<>> /\ Len(mp4.samples) = 0
      <4>1. mp4.pending = None /\ mp4.samples = <<>>
        BY <1>6, <3>1
      <4>2. QED
        BY <4>1
    <3>4. (\A i \in 1 .. Len(mp4.samples) : Follows(mp4, i))'
      BY <3>1, <3>3
    <3>5. QED
      BY <1>6, <1>7, <3>1, <3>2, <3>3, <3>4 DEF Mp4Inv
  <2>3. QED
    BY <2>1, <2>2
<1>10. QED
  BY <1>1, <1>8, <1>9

LEMMA Mp4Eos ==
  ASSUME Parameters, Mp4Inv, Eos
  PROVE  Mp4Inv'
<1>1. /\ phase = "format" /\ sent' = sent
      /\ \/ phase' = "eos" /\ mp4' = Mp4Finish
         \/ phase' = "failed" /\ mp4' = mp4
  BY DEF Eos, Failed
<1>2. /\ mp4 \in Mp4Type
      /\ mp4.ended <=> phase = "eos"
      /\ mp4.ready => mp4.base # None
      /\ mp4.ready /\ ~mp4.ended => mp4.pending # None
      /\ ~mp4.ready => mp4.pending = None /\ mp4.samples = <<>>
      /\ mp4.ended => mp4.pending = None
      /\ \A i \in 1 .. Len(mp4.samples) : Follows(mp4, i)
      /\ mp4.ready <=> Keys(sent) # {}
      /\ Len(mp4.samples) + (IF mp4.pending = None THEN 0 ELSE 1) = SampleCount(sent)
  BY <1>1 DEF Mp4Inv
<1>3. ~mp4.ended
  BY <1>1, <1>2
<1>4. CASE phase' = "eos" /\ mp4' = Mp4Finish
  <2>1. /\ mp4' \in Mp4Type /\ mp4'.ready = mp4.ready /\ mp4'.base = mp4.base /\ mp4'.pending = None
        /\ mp4'.ended = TRUE
        /\ \A i \in 1 .. Len(mp4'.samples) : Follows(mp4', i)
        /\ Len(mp4'.samples) = Len(mp4.samples) + (IF mp4.pending = None THEN 0 ELSE 1)
        /\ mp4.samples = <<>> /\ mp4.pending = None => mp4'.samples = <<>>
    BY <1>3, <1>4, Mp4FinishIs
  <2>2. (\A i \in 1 .. Len(mp4.samples) : Follows(mp4, i))'
    BY <2>1 DEF Follows
  <2>3. Keys(sent)' = Keys(sent) /\ SampleCount(sent)' = SampleCount(sent)
    BY <1>1 DEF Keys, SampleCount
  <2>4. Len(mp4'.samples) + 0 = SampleCount(sent)
    <3>1. mp4.samples \in Seq([start : Nat, duration : Nat])
      BY <1>2 DEF Mp4Type
    <3>2. PICK n \in Nat : n = Len(mp4.samples)
      BY <3>1
    <3>3. PICK w \in {0, 1} : w = IF mp4.pending = None THEN 0 ELSE 1
      OBVIOUS
    <3>4. Len(mp4'.samples) = n + w /\ n + w = SampleCount(sent)
      BY <1>2, <2>1, <3>2, <3>3
    <3>5. QED
      BY <3>4
  <2>5. QED
    BY <1>2, <1>4, <2>1, <2>2, <2>3, <2>4 DEF Mp4Inv
<1>5. CASE phase' = "failed" /\ mp4' = mp4
  <2>1. (\A i \in 1 .. Len(mp4.samples) : Follows(mp4, i))'
    BY <1>2, <1>5 DEF Follows
  <2>2. QED
    BY <1>2, <1>3, <1>5, <2>1 DEF Mp4Inv
<1>6. QED
  BY <1>1, <1>4, <1>5

LEMMA Mp4Format ==
  ASSUME Mp4Inv, Format
  PROVE  Mp4Inv'
<1>1. phase = "new" /\ phase' \in {"format", "failed"} /\ mp4' = mp4 /\ sent' = sent
  BY DEF Format, Failed
<1>2. (\A i \in 1 .. Len(mp4.samples) : Follows(mp4, i))'
  BY <1>1 DEF Follows, Mp4Inv
<1>3. Keys(sent)' = Keys(sent) /\ SampleCount(sent)' = SampleCount(sent)
  BY <1>1 DEF Keys, SampleCount
<1>4. QED
  BY <1>1, <1>2, <1>3 DEF Mp4Inv

LEMMA Mp4Else ==
  ASSUME Mp4Inv, UNCHANGED <<mp4, phase, sent>>
  PROVE  Mp4Inv'
<1>1. (\A i \in 1 .. Len(mp4.samples) : Follows(mp4, i))'
  BY DEF Follows, Mp4Inv
<1>2. Keys(sent)' = Keys(sent) /\ SampleCount(sent)' = SampleCount(sent)
  BY DEF Keys, SampleCount
<1>3. QED
  BY <1>1, <1>2 DEF Mp4Inv

LEMMA Mp4Step ==
  ASSUME Parameters, AsEncoded, ParserInv, Mp4Inv, [OutputNext]_(outputVars)
  PROVE  Mp4Inv'
<1>1. CASE Push
  BY <1>1, Mp4Push
<1>2. CASE Eos
  BY <1>2, Mp4Eos
<1>3. CASE Format
  BY <1>3, Mp4Format
<1>4. CASE Read
  BY <1>4, Mp4Else DEF Read
<1>5. CASE ReadEnd
  BY <1>5, Mp4Else DEF ReadEnd
<1>6. CASE Capture
  BY <1>6, Mp4Else DEF Capture
<1>7. CASE NextEvent
  BY <1>7, Mp4Else DEF NextEvent
<1>8. CASE UNCHANGED outputVars
  BY <1>8, Mp4Else DEF outputVars
<1>9. QED
  BY <1>1, <1>2, <1>3, <1>4, <1>5, <1>6, <1>7, <1>8 DEF OutputNext

LEMMA Mp4Always ==
  ASSUME Parameters, AsEncoded
  PROVE  OutputSpec => []Mp4Inv
<1>1. OutputInit => Mp4Inv
  BY Mp4Init
<1>2. ParserInv /\ Mp4Inv /\ [OutputNext]_(outputVars) => Mp4Inv'
  BY Mp4Step
<1>3. OutputSpec => []ParserInv
  BY ParserAlways
<1>4. QED
  BY <1>1, <1>2, <1>3, PTL DEF OutputSpec

LEMMA Mp4IsFollowed ==
  ASSUME Mp4Inv
  PROVE  SamplesFollow
<1>1. DOMAIN mp4.samples = 1 .. Len(mp4.samples)
  <2>1. mp4.samples \in Seq([start : Nat, duration : Nat])
    BY DEF Mp4Inv, Mp4Type
  <2>2. QED
    BY <2>1
<1>2. \A i \in DOMAIN mp4.samples : Follows(mp4, i)
  BY <1>1 DEF Mp4Inv
<1>3. phase # "failed" => Len(mp4.samples) + (IF mp4.pending = None THEN 0 ELSE 1) = SampleCount(sent)
  BY DEF Mp4Inv
<1>4. mp4.ended => mp4.pending = None
  BY DEF Mp4Inv
<1>5. QED
  BY <1>2, <1>3, <1>4 DEF SamplesFollow, Follows, SampleCount, Keys

\* Each sample of the file ends where the next begins, none lasts nothing, and no unit
\* from the first key frame on is without one, whatever the timestamps (write_unit,
\* sample_start_time, finish).
THEOREM Mp4SamplesFollow == OutputSpec => []SamplesFollow
<1>1. Mp4Inv => SamplesFollow
  BY Mp4IsFollowed
<1>2. OutputSpec => []Mp4Inv
  BY Mp4Always, ParameterAssumption, EncoderAssumption
<1>3. QED
  BY <1>1, <1>2, PTL

-----------------------------------------------------------------------------
(* The live output and its packetizer *)

LiveType == [revision : Nat, format : BOOLEAN, unit : Nat \cup {None}, eos : BOOLEAN]

\* The snapshot shows the last unit that all sinks took.
LiveInv ==
  /\ live \in LiveType
  /\ live.eos <=> phase = "eos"
  /\ live.eos \/ live.unit # None => live.format
  /\ phase \in {"format", "eos"} => live.format
  /\ live.format => phase # "new"
  /\ phase # "failed" /\ sent # <<>> => live.unit # None
  /\ live.unit # None => \E j \in 1 .. Len(sent) : /\ live.unit = times[j]
                                                   /\ phase # "failed" => j = Len(sent)

\* What a packetizer that has seen this much has given out, of the first n units.
Good(g, format, unit, eos, n) ==
  /\ g \in Seq(Packets)
  /\ format <=> g # <<>>
  /\ eos \/ unit # None => format
  /\ \A i \in 1 .. Len(g) : /\ g[i].kind = "started" <=> i = 1
                            /\ g[i].kind = "eos" <=> i = Len(g) /\ eos
                            /\ g[i].kind = "sample" => \E j \in 1 .. n : g[i].ts = times[j]
  /\ \A i \in 2 .. Len(g) : \A j, k \in DOMAIN times :
       g[i - 1].kind = "sample" /\ g[i].kind = "sample" /\ g[i - 1].ts = times[j] /\ g[i].ts = times[k]
         => j < k
  /\ unit = None => Len(g) <= 1 \/ (eos /\ Len(g) <= 2)
  /\ unit # None => /\ ~eos => Len(g) >= 2 /\ g[Len(g)].ts = unit
                    /\ eos => Len(g) >= 3 /\ g[Len(g) - 1].ts = unit

PacketizerType ==
  [revision : Nat, format : BOOLEAN, unit : Nat \cup {None}, eos : BOOLEAN,
   pending : Seq(Packets), given : Seq(Packets)]

\* The packetizer is never ahead of the snapshot, and has given out, or is about to,
\* what it has seen there.
PacketInv ==
  /\ packetizer \in PacketizerType
  /\ packetizer.format => live.format
  /\ packetizer.eos => live.eos /\ packetizer.unit = live.unit
  /\ packetizer.unit # None => live.unit # None
  /\ \A j, k \in DOMAIN times : packetizer.unit = times[j] /\ live.unit = times[k] => j <= k
  /\ Good(packetizer.given \o packetizer.pending,
          packetizer.format, packetizer.unit, packetizer.eos, Len(sent))

\* The start alone.
LEMMA GoodStarted ==
  ASSUME Parameters, NEW n
  PROVE  Good(<<[kind |-> "started", ts |-> None]>>, TRUE, None, FALSE, n)
<1> DEFINE x == [kind |-> "started", ts |-> None]
           g == <<x>>
<1>1. x \in Packets /\ x.kind = "started"
  BY DEF Packets
<1> HIDE DEF x
<1>2. g \in Seq(Packets) /\ Len(g) = 1 /\ g[1] = x /\ g # <<>>
  BY <1>1
<1> HIDE DEF g
<1>3. 1 .. Len(g) = {1} /\ 2 .. Len(g) = {}
  BY <1>2
<1>4. \A i \in 1 .. Len(g) : g[i].kind = "started" /\ i = 1
  BY <1>1, <1>2, <1>3
<1>5. "started" # "eos" /\ "started" # "sample"
  OBVIOUS
<1>6. Good(g, TRUE, None, FALSE, n)
  BY <1>2, <1>3, <1>4, <1>5 DEF Good
<1>7. QED
  BY <1>6 DEF g, x

\* A unit behind older ones.
LEMMA GoodSample ==
  ASSUME Parameters, NEW g, NEW unit, NEW n, Good(g, TRUE, unit, FALSE, n),
         NEW v \in Nat, NEW k \in 1 .. n, k \in DOMAIN times, v = times[k],
         \A i, j \in DOMAIN times : times[i] = times[j] => i = j,
         \A j \in DOMAIN times : unit = times[j] => j < k,
         unit \in Nat \cup {None}
  PROVE  Good(Append(g, [kind |-> "sample", ts |-> v]), TRUE, v, FALSE, n)
<1> DEFINE x == [kind |-> "sample", ts |-> v]
           h == Append(g, x)
           l == Len(g)
<1>0. None \notin Nat
  BY DEF Parameters
<1>1. x \in Packets /\ x.kind = "sample" /\ x.ts = v
  BY DEF Packets
<1> HIDE DEF x
<1>2. /\ g \in Seq(Packets) /\ g # <<>>
      /\ \A i \in 1 .. l : /\ g[i].kind = "started" <=> i = 1
                           /\ g[i].kind # "eos"
                           /\ g[i].kind = "sample" => \E j \in 1 .. n : g[i].ts = times[j]
      /\ \A i \in 2 .. l : \A i1, i2 \in DOMAIN times :
           g[i - 1].kind = "sample" /\ g[i].kind = "sample" /\ g[i - 1].ts = times[i1] /\ g[i].ts = times[i2]
             => i1 < i2
      /\ unit = None => l <= 1
      /\ unit # None => l >= 2 /\ g[l].ts = unit
  BY DEF Good
<1>3. l \in Nat \ {0}
  BY <1>2
<1>4. /\ h \in Seq(Packets) /\ Len(h) = l + 1 /\ h[l + 1] = x
      /\ \A i \in 1 .. l : h[i] = g[i]
  BY <1>1, <1>2, AppendProperties
<1> HIDE DEF h, l
<1>5. h # <<>>
  <2>1. Len(h) # 0
    BY <1>3, <1>4
  <2>2. QED
    BY <2>1
<1>6. "sample" # "started" /\ "sample" # "eos"
  OBVIOUS
<1>7. ASSUME NEW i \in 1 .. l + 1
      PROVE  /\ h[i].kind = "started" <=> i = 1
             /\ h[i].kind # "eos"
             /\ h[i].kind = "sample" => \E j \in 1 .. n : h[i].ts = times[j]
  <2>1. i \in 1 .. l \/ i = l + 1
    BY <1>3
  <2>2. CASE i \in 1 .. l
    BY <1>2, <1>4, <2>2, SMTT(30)
  <2>3. CASE i = l + 1
    <3>1. i # 1 /\ h[i] = x
      BY <1>3, <1>4, <2>3
    <3>2. QED
      BY <1>1, <1>6, <3>1
  <2>4. QED
    BY <2>1, <2>2, <2>3
<1>8. ASSUME NEW i \in 2 .. l + 1, NEW i1 \in DOMAIN times, NEW i2 \in DOMAIN times,
             h[i - 1].kind = "sample", h[i].kind = "sample",
             h[i - 1].ts = times[i1], h[i].ts = times[i2]
      PROVE  i1 < i2
  <2>1. i \in 2 .. l \/ i = l + 1
    BY <1>3
  <2>2. CASE i \in 2 .. l
    <3>1. h[i] = g[i] /\ h[i - 1] = g[i - 1]
      BY <1>3, <1>4, <2>2
    <3>2. QED
      BY <1>2, <1>8, <2>2, <3>1
  <2>3. CASE i = l + 1
    <3>1. h[i] = x /\ h[i - 1] = g[l] /\ i - 1 = l /\ l \in 1 .. l
      BY <1>3, <1>4, <2>3
    <3>2. l # 1
      BY <1>2, <1>6, <1>8, <3>1
    <3>3. unit # None
      BY <1>2, <1>3, <3>2
    <3>4. g[l].ts = unit
      BY <1>2, <3>3
    <3>5. i2 = k
      BY <1>1, <1>8, <3>1
    <3>6. i1 < k
      BY <1>8, <3>1, <3>4
    <3>7. QED
      BY <3>5, <3>6
  <2>4. QED
    BY <2>1, <2>2, <2>3
<1>9. v # None /\ Len(h) >= 2 /\ h[Len(h)].ts = v
  BY <1>0, <1>1, <1>3, <1>4
<1>10. Good(h, TRUE, v, FALSE, n)
  BY <1>4, <1>5, <1>7, <1>8, <1>9 DEF Good
<1>11. QED
  BY <1>10 DEF h, x

\* The end behind all units.
LEMMA GoodEos ==
  ASSUME Parameters, NEW g, NEW unit, NEW n, Good(g, TRUE, unit, FALSE, n)
  PROVE  Good(Append(g, [kind |-> "eos", ts |-> None]), TRUE, unit, TRUE, n)
<1> DEFINE x == [kind |-> "eos", ts |-> None]
           h == Append(g, x)
           l == Len(g)
<1>1. x \in Packets /\ x.kind = "eos"
  BY DEF Packets
<1> HIDE DEF x
<1>2. /\ g \in Seq(Packets) /\ g # <<>>
      /\ \A i \in 1 .. l : /\ g[i].kind = "started" <=> i = 1
                           /\ g[i].kind # "eos"
                           /\ g[i].kind = "sample" => \E j \in 1 .. n : g[i].ts = times[j]
      /\ \A i \in 2 .. l : \A i1, i2 \in DOMAIN times :
           g[i - 1].kind = "sample" /\ g[i].kind = "sample" /\ g[i - 1].ts = times[i1] /\ g[i].ts = times[i2]
             => i1 < i2
      /\ unit = None => l <= 1
      /\ unit # None => l >= 2 /\ g[l].ts = unit
  BY DEF Good
<1>3. l \in Nat \ {0}
  BY <1>2
<1>4. /\ h \in Seq(Packets) /\ Len(h) = l + 1 /\ h[l + 1] = x
      /\ \A i \in 1 .. l : h[i] = g[i]
  BY <1>1, <1>2, AppendProperties
<1> HIDE DEF h, l
<1>5. h # <<>>
  <2>1. Len(h) # 0
    BY <1>3, <1>4
  <2>2. QED
    BY <2>1
<1>6. "eos" # "started" /\ "sample" # "eos"
  OBVIOUS
<1>7. ASSUME NEW i \in 1 .. l + 1
      PROVE  /\ h[i].kind = "started" <=> i = 1
             /\ h[i].kind = "eos" <=> i = l + 1
             /\ h[i].kind = "sample" => \E j \in 1 .. n : h[i].ts = times[j]
  <2>1. (i \in 1 .. l /\ i # l + 1) \/ i = l + 1
    BY <1>3
  <2>2. CASE i \in 1 .. l /\ i # l + 1
    BY <1>2, <1>4, <2>2
  <2>3. CASE i = l + 1
    <3>1. i # 1 /\ h[i] = x
      BY <1>3, <1>4, <2>3
    <3>2. QED
      BY <1>1, <1>6, <2>3, <3>1
  <2>4. QED
    BY <2>1, <2>2, <2>3
<1>8. ASSUME NEW i \in 2 .. l + 1, NEW i1 \in DOMAIN times, NEW i2 \in DOMAIN times,
             h[i - 1].kind = "sample", h[i].kind = "sample",
             h[i - 1].ts = times[i1], h[i].ts = times[i2]
      PROVE  i1 < i2
  <2>1. i \in 2 .. l \/ i = l + 1
    BY <1>3
  <2>2. CASE i \in 2 .. l
    <3>1. h[i] = g[i] /\ h[i - 1] = g[i - 1]
      BY <1>3, <1>4, <2>2
    <3>2. QED
      BY <1>2, <1>8, <2>2, <3>1
  <2>3. CASE i = l + 1
    BY <1>1, <1>4, <1>6, <1>8, <2>3
  <2>4. QED
    BY <2>1, <2>2, <2>3
<1>9. /\ unit = None => Len(h) <= 2
      /\ unit # None => Len(h) >= 3 /\ h[Len(h) - 1].ts = unit
  <2>1. unit # None => l + 1 - 1 = l /\ l \in 1 .. l /\ l + 1 >= 3
    BY <1>2, <1>3
  <2>2. unit # None => h[l + 1 - 1] = g[l]
    BY <1>4, <2>1
  <2>3. QED
    BY <1>2, <1>3, <1>4, <2>1, <2>2
<1>10. Good(h, TRUE, unit, TRUE, n)
  BY <1>4, <1>5, <1>7, <1>8, <1>9 DEF Good
<1>11. QED
  BY <1>10 DEF h, x

\* More units do not make it worse.
LEMMA GoodMore ==
  ASSUME NEW g, NEW format, NEW unit, NEW eos, NEW n \in Nat, NEW m \in Nat, n <= m,
         Good(g, format, unit, eos, n)
  PROVE  Good(g, format, unit, eos, m)
<1>1. 1 .. n \subseteq 1 .. m
  OBVIOUS
<1>2. ASSUME NEW i \in 1 .. Len(g), g[i].kind = "sample" PROVE \E j \in 1 .. m : g[i].ts = times[j]
  BY <1>1, <1>2 DEF Good
<1>3. QED
  BY <1>2 DEF Good

\* A snapshot with a new format, unit or end.
LEMMA LiveChanges ==
  ASSUME live \in LiveType, NEW ts \in Nat, NEW new
  PROVE  /\ new = [live EXCEPT !.format = TRUE, !.revision = @ + 1] =>
              /\ new \in LiveType /\ new.format = TRUE /\ new.unit = live.unit /\ new.eos = live.eos
         /\ new = [live EXCEPT !.unit = ts, !.revision = @ + 1] =>
              /\ new \in LiveType /\ new.format = live.format /\ new.unit = ts /\ new.eos = live.eos
         /\ new = [live EXCEPT !.eos = TRUE, !.revision = @ + 1] =>
              /\ new \in LiveType /\ new.format = live.format /\ new.unit = live.unit /\ new.eos = TRUE
<1>1. live \in [revision : Nat, format : BOOLEAN, unit : Nat \cup {None}, eos : BOOLEAN]
  BY DEF LiveType
<1>2. PICK n \in Nat : n = live.revision + 1
  BY <1>1
<1>3. ASSUME new = [live EXCEPT !.format = TRUE, !.revision = n]
      PROVE  /\ new \in LiveType /\ new.format = TRUE /\ new.unit = live.unit /\ new.eos = live.eos
  BY <1>1, <1>3 DEF LiveType
<1>4. ASSUME new = [live EXCEPT !.unit = ts, !.revision = n]
      PROVE  /\ new \in LiveType /\ new.format = live.format /\ new.unit = ts /\ new.eos = live.eos
  BY <1>1, <1>4 DEF LiveType
<1>5. ASSUME new = [live EXCEPT !.eos = TRUE, !.revision = n]
      PROVE  /\ new \in LiveType /\ new.format = live.format /\ new.unit = live.unit /\ new.eos = TRUE
  BY <1>1, <1>5 DEF LiveType
<1>6. QED
  BY <1>2, <1>3, <1>4, <1>5

LEMMA LiveInit ==
  ASSUME OutputInit
  PROVE  LiveInv
<1>1. /\ sent = <<>> /\ phase = "new"
      /\ live = [revision |-> 0, format |-> FALSE, unit |-> None, eos |-> FALSE]
  BY DEF OutputInit
<1>2. live \in LiveType
  BY <1>1 DEF LiveType
<1>3. live.format = FALSE /\ live.unit = None /\ live.eos = FALSE
  BY <1>1
<1>4. QED
  BY <1>1, <1>2, <1>3 DEF LiveInv

LEMMA LiveFormat ==
  ASSUME LiveInv, Mp4Inv, Format
  PROVE  LiveInv'
<1>1. /\ phase = "new" /\ sent' = sent /\ times' = times
      /\ \/ phase' = "format" /\ live' = [live EXCEPT !.format = TRUE, !.revision = @ + 1]
         \/ phase' = "failed" /\ live' = live
  BY DEF Format, Failed
<1>2. /\ live \in LiveType /\ sent = <<>>
      /\ live.eos = FALSE /\ live.unit = None /\ live.format = FALSE
  BY <1>1 DEF LiveInv, Mp4Inv, LiveType
<1>3. CASE phase' = "format" /\ live' = [live EXCEPT !.format = TRUE, !.revision = @ + 1]
  <2>1. /\ live' \in LiveType
        /\ live'.eos = FALSE /\ live'.unit = None /\ live'.format = TRUE
    <3>1. /\ live' \in LiveType /\ live'.format = TRUE /\ live'.unit = live.unit /\ live'.eos = live.eos
      BY <1>2, <1>3, LiveChanges
    <3>2. QED
      BY <1>2, <3>1
  <2>2. QED
    BY <1>1, <1>2, <1>3, <2>1 DEF LiveInv
<1>4. CASE phase' = "failed" /\ live' = live
  BY <1>1, <1>2, <1>4 DEF LiveInv
<1>5. QED
  BY <1>1, <1>3, <1>4

LEMMA LivePush ==
  ASSUME Parameters, AsEncoded, ParserInv, LiveInv, Push
  PROVE  /\ LiveInv'
         /\ live' = live \/ /\ live.eos = FALSE /\ live'.eos = FALSE /\ live'.format = live.format
                            /\ live'.unit = times[Len(sent) + 1] /\ live'.unit # None
         /\ Len(sent') = Len(sent) + 1 /\ Len(sent) \in Nat /\ Len(sent') <= Len(times')
         /\ times' = times
<1> DEFINE n == Len(sent)
           ts == times[n + 1]
<1>1. /\ phase = "format" /\ times' = times
      /\ \/ phase' = phase /\ live' = [live EXCEPT !.unit = ts, !.revision = @ + 1]
         \/ phase' = "failed" /\ live' = live
  BY DEF Push, Failed
<1>2. /\ sent \in Seq([unit : Seq(STRING), ts : Nat])
      /\ n + 1 \in 1 .. Len(times) /\ times \in Seq(Nat) /\ Len(times) \in Nat
      /\ n + 1 \in 1 .. Len(stream) /\ stream \in Seq(Seq(STRING))
      /\ sent' = Append(sent, [unit |-> stream[n + 1], ts |-> ts])
  BY ParserPush, StreamTypes DEF ParserInv
<1>3. ts \in Nat /\ ts # None
  BY <1>2, ElementOfSeq DEF Parameters
<1>4. n \in Nat
  BY <1>2
<1>5. sent' # <<>> /\ Len(sent') = n + 1
  <2>1. stream[n + 1] \in Seq(STRING)
    BY <1>2, ElementOfSeq
  <2>2. [unit |-> stream[n + 1], ts |-> ts] \in [unit : Seq(STRING), ts : Nat]
    BY <1>3, <2>1
  <2> DEFINE r == [unit |-> stream[n + 1], ts |-> ts]
  <2>3. sent' = Append(sent, r) /\ r \in [unit : Seq(STRING), ts : Nat]
    BY <1>2, <2>2
  <2> HIDE DEF r
  <2>4. sent \in Seq([unit : Seq(STRING), ts : Nat])
    BY <1>2
  <2>5. Append(sent, r) # <<>> /\ Len(Append(sent, r)) = Len(sent) + 1
    BY <2>3, <2>4, AppendProperties, SMTT(30)
  <2>6. QED
    BY <2>3, <2>5
<1> HIDE DEF n, ts
<1>6. /\ live \in LiveType /\ live.eos = FALSE /\ live.format = TRUE
      /\ live.unit # None => \E j \in 1 .. n : live.unit = times[j]
  BY <1>1 DEF LiveInv, LiveType, n
<1>7. n + 1 \in 1 .. n + 1 /\ 1 .. n \subseteq 1 .. n + 1
  BY <1>4
<1>8. CASE phase' = phase /\ live' = [live EXCEPT !.unit = ts, !.revision = @ + 1]
  <2>1. live' \in LiveType /\ live'.eos = FALSE /\ live'.format = TRUE /\ live'.unit = ts
    <3>1. /\ live' \in LiveType /\ live'.format = live.format /\ live'.unit = ts /\ live'.eos = live.eos
      BY <1>3, <1>6, <1>8, LiveChanges
    <3>2. QED
      BY <1>6, <3>1
  <2>2. \E j \in 1 .. Len(sent') : live'.unit = times'[j] /\ j = Len(sent')
    BY <1>1, <1>5, <1>7, <2>1 DEF ts
  <2>3. LiveInv'
    BY <1>1, <1>3, <1>8, <2>1, <2>2 DEF LiveInv
  <2>4. /\ live.eos = FALSE /\ live'.eos = FALSE /\ live'.format = live.format
        /\ live'.unit = times[Len(sent) + 1] /\ live'.unit # None
    BY <1>3, <1>6, <2>1 DEF n, ts
  <2>5. Len(sent') = Len(sent) + 1 /\ Len(sent) \in Nat /\ Len(sent') <= Len(times') /\ times' = times
    BY <1>1, <1>2, <1>4, <1>5 DEF n
  <2>6. QED
    BY <2>3, <2>4, <2>5
<1>9. CASE phase' = "failed" /\ live' = live
  <2>1. live'.unit # None => \E j \in 1 .. Len(sent') : live'.unit = times'[j]
    BY <1>1, <1>5, <1>6, <1>7, <1>9
  <2>2. LiveInv'
    BY <1>6, <1>9, <2>1 DEF LiveInv
  <2>3. QED
    BY <1>1, <1>2, <1>4, <1>5, <1>9, <2>2 DEF n
<1>10. QED
  BY <1>1, <1>8, <1>9

LEMMA LiveEos ==
  ASSUME LiveInv, Eos
  PROVE  LiveInv' /\ live'.unit = live.unit /\ live'.format = live.format /\ live.eos = FALSE
         /\ sent' = sent /\ times' = times
<1>1. /\ phase = "format" /\ sent' = sent /\ times' = times
      /\ \/ phase' = "eos" /\ live' = [live EXCEPT !.eos = TRUE, !.revision = @ + 1]
         \/ phase' = "failed" /\ live' = live
  BY DEF Eos, Failed
<1>2. /\ live \in LiveType /\ live.eos = FALSE /\ live.format = TRUE
      /\ sent # <<>> => live.unit # None
      /\ live.unit # None => \E j \in 1 .. Len(sent) : live.unit = times[j] /\ j = Len(sent)
  BY <1>1 DEF LiveInv, LiveType
<1>3. CASE phase' = "eos" /\ live' = [live EXCEPT !.eos = TRUE, !.revision = @ + 1]
  <2>1. /\ live' \in LiveType /\ live'.eos = TRUE /\ live'.format = TRUE
        /\ live'.unit = live.unit
    <3>1. /\ live' \in LiveType /\ live'.format = live.format /\ live'.unit = live.unit /\ live'.eos = TRUE
      BY <1>2, <1>3, LiveChanges
    <3>2. QED
      BY <1>2, <3>1
  <2>2. LiveInv'
    BY <1>1, <1>2, <1>3, <2>1 DEF LiveInv
  <2>3. QED
    BY <1>1, <1>2, <2>1, <2>2
<1>4. CASE phase' = "failed" /\ live' = live
  BY <1>1, <1>2, <1>4 DEF LiveInv
<1>5. QED
  BY <1>1, <1>3, <1>4

LEMMA LiveElse ==
  ASSUME LiveInv, UNCHANGED <<live, phase, sent, times>>
  PROVE  LiveInv'
BY DEF LiveInv

LEMMA LiveStep ==
  ASSUME Parameters, AsEncoded, ParserInv, Mp4Inv, LiveInv, [OutputNext]_(outputVars)
  PROVE  LiveInv'
<1>1. CASE Push
  BY <1>1, LivePush
<1>2. CASE Eos
  BY <1>2, LiveEos
<1>3. CASE Format
  BY <1>3, LiveFormat
<1>4. CASE Read
  BY <1>4, LiveElse DEF Read
<1>5. CASE ReadEnd
  BY <1>5, LiveElse DEF ReadEnd
<1>6. CASE Capture
  BY <1>6, LiveElse DEF Capture
<1>7. CASE NextEvent
  BY <1>7, LiveElse DEF NextEvent
<1>8. CASE UNCHANGED outputVars
  BY <1>8, LiveElse DEF outputVars
<1>9. QED
  BY <1>1, <1>2, <1>3, <1>4, <1>5, <1>6, <1>7, <1>8 DEF OutputNext

LEMMA LiveAlways ==
  ASSUME Parameters, AsEncoded
  PROVE  OutputSpec => []LiveInv
<1>1. OutputInit => LiveInv
  BY LiveInit
<1>2. ParserInv /\ Mp4Inv /\ LiveInv /\ [OutputNext]_(outputVars) => LiveInv'
  BY LiveStep
<1>3. OutputSpec => []ParserInv
  BY ParserAlways
<1>4. OutputSpec => []Mp4Inv
  BY Mp4Always
<1>5. QED
  BY <1>1, <1>2, <1>3, <1>4, PTL DEF OutputSpec

LEMMA PacketInit ==
  ASSUME Parameters, OutputInit
  PROVE  PacketInv
<1>1. /\ live = [revision |-> 0, format |-> FALSE, unit |-> None, eos |-> FALSE]
      /\ packetizer = [revision |-> 0, format |-> FALSE, unit |-> None, eos |-> FALSE,
                       pending |-> <<>>, given |-> <<>>]
      /\ times \in Times
  BY DEF OutputInit
<1>2. times \in Seq(Nat) /\ None \notin Nat
  BY <1>1 DEF Parameters
<1>3. packetizer \in PacketizerType
  BY <1>1 DEF PacketizerType
<1>4. /\ packetizer.format = FALSE /\ packetizer.eos = FALSE /\ packetizer.unit = None
      /\ packetizer.given = <<>> /\ packetizer.pending = <<>>
      /\ live.unit = None
  BY <1>1
<1>5. \A j \in DOMAIN times : times[j] # None
  BY <1>2
<1>6. Good(<<>>, FALSE, None, FALSE, Len(sent))
  <2>1. <<>> \in Seq(Packets) /\ Len(<<>>) = 0
    OBVIOUS
  <2>2. 1 .. 0 = {} /\ 2 .. 0 = {}
    OBVIOUS
  <2>3. QED
    BY <2>1, <2>2 DEF Good
<1>7. packetizer.given \o packetizer.pending = <<>>
  BY <1>4
<1>8. QED
  BY <1>3, <1>4, <1>5, <1>6, <1>7 DEF PacketInv

\* What the sinks are given does not disturb what the packetizer has seen.
LEMMA PacketSteady ==
  ASSUME PacketInv, UNCHANGED <<packetizer, times>>,
         Len(sent) \in Nat, Len(sent)' \in Nat, Len(sent) <= Len(sent)',
         live.format => live'.format,
         live.unit # None => live'.unit # None,
         packetizer.eos => live'.eos /\ live'.unit = live.unit,
         \A j, k \in DOMAIN times : packetizer.unit = times[j] /\ live'.unit = times[k] => j <= k
  PROVE  PacketInv'
<1>1. /\ packetizer \in PacketizerType
      /\ packetizer.format => live'.format
      /\ packetizer.eos => live'.eos /\ packetizer.unit = live'.unit
      /\ packetizer.unit # None => live'.unit # None
      /\ Good(packetizer.given \o packetizer.pending,
              packetizer.format, packetizer.unit, packetizer.eos, Len(sent))
  BY DEF PacketInv
<1>2. Good(packetizer.given \o packetizer.pending,
           packetizer.format, packetizer.unit, packetizer.eos, Len(sent)')
  BY <1>1, GoodMore
<1>3. Good(packetizer.given \o packetizer.pending,
           packetizer.format, packetizer.unit, packetizer.eos, Len(sent))'
  <2>1. packetizer' = packetizer /\ times' = times
    OBVIOUS
  <2>2. \A h, f, u, e, n : Good(h, f, u, e, n)' <=> Good(h, f, u, e, n)
    BY <2>1 DEF Good
  <2>3. QED
    BY <1>2, <2>1, <2>2, Zenon
<1>4. QED
  BY <1>1, <1>3 DEF PacketInv, PacketizerType, Packets

LEMMA PacketElse ==
  ASSUME PacketInv, sent \in Seq([unit : Seq(STRING), ts : Nat]),
         UNCHANGED <<packetizer, live, sent, times>>
  PROVE  PacketInv'
<1>1. Len(sent) \in Nat /\ Len(sent)' = Len(sent)
  OBVIOUS
<1>2. /\ packetizer.eos => live.eos /\ packetizer.unit = live.unit
      /\ \A j, k \in DOMAIN times : packetizer.unit = times[j] /\ live.unit = times[k] => j <= k
  BY DEF PacketInv
<1>3. QED
  BY <1>1, <1>2, PacketSteady

LEMMA PacketFormat ==
  ASSUME PacketInv, LiveInv, Mp4Inv, Format
  PROVE  PacketInv'
<1>1. /\ phase = "new" /\ UNCHANGED <<sent, times, packetizer>>
      /\ \/ live' = [live EXCEPT !.format = TRUE, !.revision = @ + 1]
         \/ live' = live
  BY DEF Format, Failed
<1>2. live \in LiveType /\ sent = <<>>
  BY <1>1 DEF LiveInv, Mp4Inv
<1>3. /\ live'.unit = live.unit /\ live'.eos = live.eos
      /\ live.format => live'.format
  <2>1. CASE live' = [live EXCEPT !.format = TRUE, !.revision = @ + 1]
    <3>1. 0 \in Nat
      OBVIOUS
    <3>2. live' \in LiveType /\ live'.format = TRUE /\ live'.unit = live.unit /\ live'.eos = live.eos
      BY <1>2, <2>1, <3>1, LiveChanges
    <3>3. QED
      BY <3>2
  <2>2. CASE live' = live
    BY <2>2
  <2>3. QED
    BY <1>1, <2>1, <2>2
<1>4. Len(sent) = 0 /\ Len(sent)' = 0
  BY <1>1, <1>2
<1>5. /\ packetizer.eos => live.eos
      /\ \A j, k \in DOMAIN times : packetizer.unit = times[j] /\ live.unit = times[k] => j <= k
  BY DEF PacketInv
<1>6. QED
  BY <1>1, <1>3, <1>4, <1>5, PacketSteady

LEMMA PacketEos ==
  ASSUME PacketInv, LiveInv, ParserInv, Eos
  PROVE  PacketInv'
<1>1. UNCHANGED <<sent, times, packetizer>>
  BY DEF Eos
<1>2. live'.unit = live.unit /\ live'.format = live.format /\ live.eos = FALSE
  BY LiveEos
<1>3. Len(sent) \in Nat /\ Len(sent)' = Len(sent)
  BY <1>1 DEF ParserInv
<1>4. /\ packetizer.eos => live.eos
      /\ \A j, k \in DOMAIN times : packetizer.unit = times[j] /\ live.unit = times[k] => j <= k
  BY DEF PacketInv
<1>5. ~packetizer.eos
  BY <1>2, <1>4
<1>6. QED
  BY <1>1, <1>2, <1>3, <1>4, <1>5, PacketSteady

LEMMA PacketPush ==
  ASSUME Parameters, AsEncoded, DistinctTimes, ParserInv, LiveInv, PacketInv, Push
  PROVE  PacketInv'
<1> DEFINE n == Len(sent)
<1>1. /\ live' = live \/ /\ live.eos = FALSE /\ live'.eos = FALSE /\ live'.format = live.format
                         /\ live'.unit = times[n + 1] /\ live'.unit # None
      /\ Len(sent') = n + 1 /\ n \in Nat /\ Len(sent') <= Len(times')
      /\ times' = times
  BY LivePush
<1>2. phase = "format" /\ packetizer' = packetizer
  BY DEF Push
<1>3. times \in Seq(Nat) /\ times \in Times /\ n + 1 \in 1 .. Len(times)
  BY ParserPush, StreamTypes DEF ParserInv
<1>4. DOMAIN times = 1 .. Len(times) /\ None \notin Nat /\ \A j \in DOMAIN times : times[j] \in Nat
  BY <1>3 DEF Parameters
<1>5. \A i, j \in DOMAIN times : times[i] = times[j] => i = j
  BY <1>3 DEF DistinctTimes
<1>6. live.unit # None => \E j \in 1 .. n : live.unit = times[j] /\ j = n
  BY <1>2 DEF LiveInv
<1>7. /\ packetizer.eos => live.eos /\ packetizer.unit = live.unit
      /\ packetizer.unit # None => live.unit # None
      /\ \A j, k \in DOMAIN times : packetizer.unit = times[j] /\ live.unit = times[k] => j <= k
  BY DEF PacketInv
<1> HIDE DEF n
<1>8. ASSUME NEW j \in DOMAIN times, NEW k \in DOMAIN times,
             packetizer.unit = times[j], live'.unit = times[k]
      PROVE  j <= k
  <2>1. CASE live' = live
    BY <1>7, <1>8, <2>1
  <2>2. CASE live'.unit = times[n + 1]
    <3>1. k = n + 1
      BY <1>3, <1>4, <1>5, <1>8, <2>2
    <3>2. packetizer.unit # None
      BY <1>4, <1>8
    <3>3. live.unit = times[n] /\ n \in 1 .. n
      BY <1>6, <1>7, <3>2
    <3>4. n \in DOMAIN times
      BY <1>1, <1>3, <1>4, <3>3
    <3>5. j <= n
      BY <1>7, <1>8, <3>3, <3>4
    <3>6. j \in Nat
      BY <1>4, <1>8
    <3>7. QED
      BY <1>1, <3>1, <3>5, <3>6
  <2>3. QED
    BY <1>1, <2>1, <2>2
<1>9. Len(sent) \in Nat /\ Len(sent)' \in Nat /\ Len(sent) <= Len(sent)'
  BY <1>1 DEF n
<1>10. /\ live.format => live'.format
       /\ live.unit # None => live'.unit # None
       /\ packetizer.eos => live'.eos /\ live'.unit = live.unit
  BY <1>1, <1>7
<1>11. QED
  BY <1>1, <1>2, <1>8, <1>9, <1>10, PacketSteady

\* A packet is behind the others.
LEMMA JoinOne ==
  ASSUME NEW S, NEW g \in Seq(S), NEW x \in S
  PROVE  g \o <<x>> = Append(g, x) /\ <<x>> \in Seq(S) /\ g \o <<>> = g /\ <<>> \in Seq(S)
BY AppendIsConcat, ConcatEmptySeq

LEMMA HeadJoinsTail ==
  ASSUME NEW S, NEW g \in Seq(S), NEW p \in Seq(S), p # <<>>
  PROVE  Append(g, Head(p)) \o Tail(p) = g \o p
<1> DEFINE h == Head(p)
           t == Tail(p)
<1>1. h \in S /\ t \in Seq(S)
  BY HeadTailProperties
<1>2. p = <<h>> \o t
  OBVIOUS
<1> HIDE DEF h, t
<1>3. <<h>> \in Seq(S) /\ Append(g, h) = g \o <<h>>
  BY <1>1, JoinOne
<1>4. (g \o <<h>>) \o t = g \o (<<h>> \o t)
  BY <1>1, <1>3, ConcatAssociative
<1>5. Append(g, h) \o t = g \o p
  BY <1>2, <1>3, <1>4
<1>6. QED
  BY <1>5 DEF h, t

JoinsThree(v, w, x) == v \o (w \o x) = (v \o w) \o x
JoinsFour(v, w, x, y) == v \o ((w \o x) \o y) = ((v \o w) \o x) \o y

LEMMA JoinThree ==
  ASSUME NEW S, NEW v \in Seq(S), NEW w \in Seq(S), NEW x \in Seq(S)
  PROVE  JoinsThree(v, w, x)
<1>1. v \o (w \o x) = (v \o w) \o x
  BY ConcatAssociative, SMTT(30)
<1>2. QED
  BY <1>1 DEF JoinsThree

LEMMA JoinFour ==
  ASSUME NEW S, NEW v \in Seq(S), NEW w \in Seq(S), NEW x \in Seq(S), NEW y \in Seq(S)
  PROVE  JoinsFour(v, w, x, y)
<1> DEFINE wx == w \o x
<1>1. wx \in Seq(S)
  BY ConcatProperties
<1>2. v \o wx = (v \o w) \o x
  <2>1. JoinsThree(v, w, x)
    BY JoinThree
  <2>2. QED
    BY <2>1, Zenon DEF JoinsThree
<1> HIDE DEF wx
<1>3. JoinsThree(v, wx, y)
  BY <1>1, JoinThree
<1>4. v \o (wx \o y) = ((v \o w) \o x) \o y
  BY <1>2, <1>3 DEF JoinsThree
<1>5. QED
  BY <1>4 DEF wx, JoinsFour

LEMMA PacketNextEvent ==
  ASSUME PacketInv, NextEvent
  PROVE  PacketInv'
<1> DEFINE g == packetizer.given
           p == packetizer.pending
<1>1. /\ p # <<>> /\ UNCHANGED <<live, sent, times>>
      /\ packetizer' = [packetizer EXCEPT !.pending = Tail(p), !.given = Append(g, Head(p))]
  BY DEF NextEvent, PacketInv, PacketizerType
<1>2. packetizer \in PacketizerType
  BY DEF PacketInv
<1>3. g \in Seq(Packets) /\ p \in Seq(Packets)
  BY <1>2 DEF PacketizerType
<1> HIDE DEF g, p
<1>4. PICK t \in Seq(Packets) : t = Tail(p)
  BY <1>1, <1>3, HeadTailProperties
<1>5. PICK a \in Seq(Packets) : a = Append(g, Head(p))
  <2>1. Head(p) \in Packets
    BY <1>1, <1>3, HeadTailProperties
  <2>2. QED
    BY <1>3, <2>1, AppendProperties
<1>6. packetizer' = [packetizer EXCEPT !.pending = t, !.given = a]
  BY <1>1, <1>4, <1>5
<1>7. /\ packetizer' \in PacketizerType /\ packetizer'.pending = t /\ packetizer'.given = a
      /\ packetizer'.format = packetizer.format /\ packetizer'.unit = packetizer.unit
      /\ packetizer'.eos = packetizer.eos
  BY <1>2, <1>6 DEF PacketizerType
<1>8. a \o t = g \o p
  BY <1>1, <1>3, <1>4, <1>5, HeadJoinsTail
<1>9. Good(packetizer.given \o packetizer.pending,
           packetizer.format, packetizer.unit, packetizer.eos, Len(sent))
  BY DEF PacketInv
<1>10. Good(packetizer'.given \o packetizer'.pending,
            packetizer'.format, packetizer'.unit, packetizer'.eos, Len(sent'))
  BY <1>1, <1>7, <1>8, <1>9 DEF g, p
<1>11. Good(packetizer.given \o packetizer.pending,
            packetizer.format, packetizer.unit, packetizer.eos, Len(sent))'
  <2>1. \A h, f, u, e, n : Good(h, f, u, e, n)' <=> Good(h, f, u, e, n)
    BY <1>1 DEF Good
  <2>2. QED
    BY <1>10, <2>1, Zenon
<1>12. (packetizer \in PacketizerType)'
  BY <1>7 DEF PacketizerType, Packets
<1>13. QED
  BY <1>1, <1>7, <1>11, <1>12 DEF PacketInv

\* Captured is put behind the rest piece by piece.
LEMMA CapturedJoins ==
  ASSUME NEW g, g \in Seq(Packets), Started \in Seq(Packets),
         NewUnit \in Seq(Packets), Ended \in Seq(Packets)
  PROVE  /\ Captured \in Seq(Packets)
         /\ g \o Captured = ((g \o Started) \o NewUnit) \o Ended
<1>1. Captured = (Started \o NewUnit) \o Ended
  BY DEF Captured
<1>2. JoinsFour(g, Started, NewUnit, Ended)
  BY JoinFour
<1>3. Captured \in Seq(Packets)
  <2>1. Started \o NewUnit \in Seq(Packets)
    BY ConcatProperties
  <2>2. QED
    BY <1>1, <2>1, ConcatProperties
<1>4. QED
  BY <1>1, <1>2, <1>3 DEF JoinsFour

\* What a look at the snapshot adds, to packets that are all given out.
LEMMA CapturedIsGood ==
  ASSUME Parameters, DistinctTimes, ParserInv, times \in Seq(Nat), Len(sent) <= Len(times),
         LiveInv, PacketInv, packetizer.pending = <<>>
  PROVE  /\ Captured \in Seq(Packets)
         /\ Good(packetizer.given \o Captured, live.format, live.unit, live.eos, Len(sent))
<1> DEFINE g == packetizer.given
           n == Len(sent)
           P == Packets
<1>1. /\ packetizer.unit \in Nat \cup {None} /\ g \in Seq(P)
      /\ packetizer.format \in BOOLEAN /\ packetizer.eos \in BOOLEAN
      /\ packetizer.format => live.format
      /\ packetizer.eos => live.eos /\ packetizer.unit = live.unit
      /\ packetizer.unit # None => live.unit # None
      /\ \A j, k \in DOMAIN times : packetizer.unit = times[j] /\ live.unit = times[k] => j <= k
      /\ Good(g, packetizer.format, packetizer.unit, packetizer.eos, n)
  <2>1. packetizer \in PacketizerType
    BY DEF PacketInv
  <2>2. g \in Seq(P) /\ packetizer.unit \in Nat \cup {None}
        /\ packetizer.format \in BOOLEAN /\ packetizer.eos \in BOOLEAN
    BY <2>1 DEF PacketizerType
  <2>3. g \o packetizer.pending = g
    BY <2>2
  <2>4. QED
    BY <2>2, <2>3 DEF PacketInv
<1>2. /\ live \in LiveType /\ live.format \in BOOLEAN /\ live.eos \in BOOLEAN
      /\ live.unit \in Nat \cup {None}
      /\ live.eos \/ live.unit # None => live.format
      /\ live.unit # None => \E j \in 1 .. n : live.unit = times[j]
  BY DEF LiveInv, LiveType
<1>3. packetizer.eos \/ packetizer.unit # None => packetizer.format
  BY <1>1 DEF Good
<1>4. None \notin Nat /\ n \in Nat /\ DOMAIN times = 1 .. Len(times)
      /\ \A i, j \in DOMAIN times : times[i] = times[j] => i = j
  BY DEF Parameters, DistinctTimes, ParserInv
<1> HIDE DEF n
<1>5. CASE ~live.format
  <2>1. Started = <<>> /\ NewUnit = <<>> /\ Ended = <<>>
    BY <1>2, <1>5 DEF Started, NewUnit, Ended
  <2>2. Captured = <<>>
    BY <2>1 DEF Captured
  <2>3. g \o Captured = g
    BY <1>1, <2>2
  <2>4. /\ packetizer.format = live.format /\ packetizer.unit = live.unit
        /\ packetizer.eos = live.eos
    BY <1>1, <1>2, <1>3, <1>5
  <2>5. QED
    BY <1>1, <2>2, <2>3, <2>4 DEF n
<1>6. CASE live.format
  <2> DEFINE a == g \o Started
             b == a \o NewUnit
             c == b \o Ended
  <2>1. Started \in Seq(P) /\ a \in Seq(P) /\ Good(a, TRUE, packetizer.unit, packetizer.eos, n)
    <3>1. CASE packetizer.format
      <4>1. Started = <<>>
        BY <3>1 DEF Started
      <4>2. a = g
        BY <1>1, <4>1
      <4>3. QED
        <5>1. packetizer.format = TRUE
          BY <1>1, <3>1
        <5>2. Good(g, TRUE, packetizer.unit, packetizer.eos, n)
          BY <1>1, <5>1, Zenon
        <5>3. <<>> \in Seq(P)
          OBVIOUS
        <5> HIDE DEF a
        <5>4. QED
          BY <1>1, <4>1, <4>2, <5>2, <5>3, Zenon
    <3>2. CASE ~packetizer.format
      <4> DEFINE x == [kind |-> "started", ts |-> None]
      <4>1. Started = <<x>> /\ x \in P
        BY <1>6, <3>2 DEF Started, Packet, Packets
      <4>2. g = <<>> /\ packetizer.unit = None /\ packetizer.eos = FALSE
        BY <1>1, <1>3, <3>2 DEF Good
      <4>3. Good(<<x>>, TRUE, None, FALSE, n)
        BY GoodStarted
      <4> HIDE DEF x
      <4>4. a = <<x>> /\ <<x>> \in Seq(P)
        BY <4>1, <4>2
      <4> HIDE DEF a
      <4>5. QED
        BY <4>1, <4>2, <4>3, <4>4
    <3>3. QED
      BY <3>1, <3>2, Zenon
  <2> HIDE DEF a
  <2>2. NewUnit \in Seq(P) /\ b \in Seq(P) /\ Good(b, TRUE, live.unit, packetizer.eos, n)
    <3>1. CASE live.unit \in {None, packetizer.unit}
      <4>1. live.unit = packetizer.unit
        BY <1>1, <3>1
      <4>2. NewUnit = <<>>
        BY <3>1 DEF NewUnit
      <4>3. b = a
        BY <2>1, <4>2
      <4>4. QED
        <5>1. <<>> \in Seq(P)
          OBVIOUS
        <5> HIDE DEF b
        <5>2. QED
          BY <2>1, <4>1, <4>2, <4>3, <5>1, Zenon
    <3>2. CASE live.unit \notin {None, packetizer.unit}
      <4> DEFINE x == [kind |-> "sample", ts |-> live.unit]
      <4>1. NewUnit = <<x>> /\ live.unit \in Nat
        BY <1>2, <3>2 DEF NewUnit, Packet
      <4>2. packetizer.eos = FALSE
        BY <1>1, <3>2
      <4>3. PICK k \in 1 .. n : live.unit = times[k]
        BY <1>2, <3>2
      <4>4. k \in DOMAIN times
        BY <1>4, <4>3 DEF n
      <4>5. ASSUME NEW j \in DOMAIN times, packetizer.unit = times[j] PROVE j < k
        <5>1. j <= k
          BY <1>1, <4>3, <4>4, <4>5
        <5>2. j # k
          BY <3>2, <4>3, <4>5
        <5>3. QED
          BY <1>4, <4>3, <4>5, <5>1, <5>2
      <4>6. Good(Append(a, x), TRUE, live.unit, FALSE, n)
        <5>1. PICK v \in Nat : v = live.unit
          BY <4>1
        <5>2. Good(a, TRUE, packetizer.unit, FALSE, n)
          BY <2>1, <4>2
        <5>3. v = times[k]
          BY <4>3, <5>1
        <5>4. Good(Append(a, [kind |-> "sample", ts |-> v]), TRUE, v, FALSE, n)
          BY <1>1, <1>4, <4>4, <4>5, <5>2, <5>3, GoodSample
        <5>5. QED
          BY <5>1, <5>4
      <4>7. x \in P
        BY <4>1 DEF Packets
      <4> HIDE DEF x
      <4>8. b = Append(a, x) /\ <<x>> \in Seq(P) /\ Append(a, x) \in Seq(P)
        BY <2>1, <4>1, <4>7, JoinOne, AppendProperties
      <4> HIDE DEF b
      <4>9. QED
        BY <4>1, <4>2, <4>6, <4>8
    <3>3. QED
      BY <3>1, <3>2, Zenon
  <2> HIDE DEF b
  <2>3. Ended \in Seq(P) /\ Good(c, TRUE, live.unit, live.eos, n)
    <3>1. CASE live.eos /\ ~packetizer.eos
      <4> DEFINE x == [kind |-> "eos", ts |-> None]
      <4>1. Ended = <<x>> /\ x \in P
        BY <3>1 DEF Ended, Packet, Packets
      <4>2. Good(Append(b, x), TRUE, live.unit, TRUE, n)
        <5>1. Good(b, TRUE, live.unit, FALSE, n)
          BY <1>1, <2>2, <3>1
        <5>2. QED
          BY <5>1, GoodEos
      <4> HIDE DEF x
      <4>3. c = Append(b, x) /\ <<x>> \in Seq(P)
        BY <2>2, <4>1, JoinOne
      <4> HIDE DEF c
      <4>4. live.eos = TRUE
        BY <1>2, <3>1
      <4>5. QED
        BY <4>1, <4>2, <4>3, <4>4
    <3>2. CASE ~(live.eos /\ ~packetizer.eos)
      <4>1. Ended = <<>> /\ live.eos = packetizer.eos
        BY <1>1, <1>2, <3>2 DEF Ended
      <4>2. c = b
        BY <2>2, <4>1
      <4>3. QED
        <5>1. <<>> \in Seq(P)
          OBVIOUS
        <5> HIDE DEF c
        <5>2. QED
          BY <2>2, <4>1, <4>2, <5>1, Zenon
    <3>3. QED
      BY <3>1, <3>2, Zenon
  <2> HIDE DEF c
  <2>4. Captured \in Seq(P) /\ g \o Captured = c
    <3>1. g \in Seq(P) /\ Started \in Seq(P) /\ NewUnit \in Seq(P) /\ Ended \in Seq(P)
      BY <1>1, <2>1, <2>2, <2>3
    <3>2. Captured \in Seq(P) /\ g \o Captured = ((g \o Started) \o NewUnit) \o Ended
      BY <3>1, CapturedJoins
    <3>3. QED
      BY <3>2 DEF a, b, c
  <2>5. live.format = TRUE
    BY <1>2, <1>6
  <2>6. QED
    BY <2>3, <2>4, <2>5 DEF n
<1>7. QED
  BY <1>2, <1>5, <1>6

LEMMA PacketCapture ==
  ASSUME Parameters, AsEncoded, DistinctTimes, ParserInv, LiveInv, PacketInv, Capture
  PROVE  PacketInv'
<1>1. /\ packetizer.pending = <<>> /\ UNCHANGED <<live, sent, times>>
      /\ packetizer' = [packetizer EXCEPT !.revision = live.revision, !.format = live.format,
                                          !.unit = live.unit, !.eos = live.eos,
                                          !.pending = Captured]
  BY DEF Capture
<1>2. times \in Seq(Nat) /\ times \in Times /\ Len(sent) <= Len(times)
  <2>1. /\ stream \in Streams /\ times \in Times /\ Len(stream) <= Len(times)
        /\ parsed \in Seq(Seq(STRING)) /\ sent \in Seq([unit : Seq(STRING), ts : Nat])
        /\ Len(sent) + Len(parsed) <= Len(stream)
    BY DEF ParserInv
  <2>2. times \in Seq(Nat) /\ Len(times) \in Nat /\ Len(stream) \in Nat
    BY <2>1, StreamTypes
  <2>3. Len(sent) \in Nat /\ Len(parsed) \in Nat
    BY <2>1
  <2>4. QED
    BY <2>1, <2>2, <2>3
<1>3. /\ Captured \in Seq(Packets)
      /\ Good(packetizer.given \o Captured, live.format, live.unit, live.eos, Len(sent))
  BY <1>1, <1>2, CapturedIsGood
<1>4. PICK c \in Seq(Packets) : c = Captured
  BY <1>3
<1>5. packetizer \in PacketizerType /\ live \in LiveType
  BY DEF PacketInv, LiveInv
<1>6. /\ packetizer' \in PacketizerType /\ packetizer'.pending = c
      /\ packetizer'.given = packetizer.given
      /\ packetizer'.format = live.format /\ packetizer'.unit = live.unit
      /\ packetizer'.eos = live.eos
  BY <1>1, <1>4, <1>5 DEF PacketizerType, LiveType
<1>7. Good(packetizer'.given \o packetizer'.pending,
           packetizer'.format, packetizer'.unit, packetizer'.eos, Len(sent'))
  BY <1>1, <1>3, <1>4, <1>6, Zenon
<1>8. Good(packetizer.given \o packetizer.pending,
           packetizer.format, packetizer.unit, packetizer.eos, Len(sent))'
  <2>1. \A h, f, u, e, n : Good(h, f, u, e, n)' <=> Good(h, f, u, e, n)
    BY <1>1 DEF Good
  <2>2. QED
    BY <1>7, <2>1, Zenon
<1>9. (packetizer \in PacketizerType)'
  BY <1>6 DEF PacketizerType, Packets
<1>10. \A j, k \in DOMAIN times : live.unit = times[j] /\ live.unit = times[k] => j <= k
  <2>1. DOMAIN times = 1 .. Len(times)
    BY <1>2
  <2>2. \A j, k \in DOMAIN times : times[j] = times[k] => j = k
    BY <1>2 DEF DistinctTimes
  <2>3. \A j \in DOMAIN times : j <= j
    BY <2>1
  <2>4. QED
    BY <2>2, <2>3
<1>11. QED
  BY <1>1, <1>6, <1>8, <1>9, <1>10 DEF PacketInv

LEMMA PacketStep ==
  ASSUME Parameters, AsEncoded, DistinctTimes, ParserInv, Mp4Inv, LiveInv, PacketInv,
         [OutputNext]_(outputVars)
  PROVE  PacketInv'
<1>0. sent \in Seq([unit : Seq(STRING), ts : Nat])
  BY DEF ParserInv
<1>1. CASE Push
  BY <1>1, PacketPush
<1>2. CASE Eos
  BY <1>2, PacketEos
<1>3. CASE Format
  BY <1>3, PacketFormat
<1>4. CASE Read
  BY <1>0, <1>4, PacketElse DEF Read
<1>5. CASE ReadEnd
  BY <1>0, <1>5, PacketElse DEF ReadEnd
<1>6. CASE Capture
  BY <1>6, PacketCapture
<1>7. CASE NextEvent
  BY <1>7, PacketNextEvent
<1>8. CASE UNCHANGED outputVars
  BY <1>0, <1>8, PacketElse DEF outputVars
<1>9. QED
  BY <1>1, <1>2, <1>3, <1>4, <1>5, <1>6, <1>7, <1>8 DEF OutputNext

LEMMA PacketAlways ==
  ASSUME Parameters, AsEncoded, DistinctTimes
  PROVE  OutputSpec => []PacketInv
<1>1. OutputInit => PacketInv
  BY PacketInit
<1>2. ParserInv /\ Mp4Inv /\ LiveInv /\ PacketInv /\ [OutputNext]_(outputVars) => PacketInv'
  BY PacketStep
<1>3. OutputSpec => []ParserInv
  BY ParserAlways
<1>4. OutputSpec => []Mp4Inv
  BY Mp4Always
<1>5. OutputSpec => []LiveInv
  BY LiveAlways
<1>6. QED
  BY <1>1, <1>2, <1>3, <1>4, <1>5, PTL DEF OutputSpec

\* A unit is found by its timestamp.
LEMMA SentAt ==
  ASSUME Parameters, AsEncoded, DistinctTimes, ParserInv, NEW j \in 1 .. Len(sent)
  PROVE  /\ (CHOOSE i \in DOMAIN sent : sent[i].ts = times[j]) = j
         /\ sent[j].ts = times[j] /\ j \in DOMAIN times /\ j \in Nat
<1>1. /\ stream \in Streams /\ times \in Times /\ Len(stream) <= Len(times)
      /\ parsed \in Seq(Seq(STRING)) /\ sent \in Seq([unit : Seq(STRING), ts : Nat])
      /\ Len(sent) + Len(parsed) <= Len(stream)
      /\ \A i \in 1 .. Len(sent) : sent[i].ts = times[i]
  BY DEF ParserInv
<1>2. times \in Seq(Nat) /\ Len(times) \in Nat /\ Len(stream) \in Nat
  BY <1>1, StreamTypes
<1>3. Len(sent) \in Nat /\ Len(parsed) \in Nat
  BY <1>1
<1>4. DOMAIN sent = 1 .. Len(sent) /\ DOMAIN times = 1 .. Len(times)
  BY <1>1, <1>2
<1>5. Len(sent) <= Len(times)
  BY <1>1, <1>2, <1>3
<1>6. 1 .. Len(sent) \subseteq 1 .. Len(times)
  BY <1>2, <1>3, <1>5
<1>7. \A i \in 1 .. Len(sent) : sent[i].ts = times[j] => i = j
  BY <1>1, <1>4, <1>6 DEF DistinctTimes
<1>8. sent[j].ts = times[j]
  BY <1>1
<1>9. (CHOOSE i \in DOMAIN sent : sent[i].ts = times[j]) = j
  BY <1>4, <1>7, <1>8
<1>10. QED
  BY <1>4, <1>6, <1>8, <1>9

LEMMA PacketsAreInOrder ==
  ASSUME Parameters, AsEncoded, DistinctTimes, ParserInv, Mp4Inv, LiveInv, PacketInv
  PROVE  PacketsInOrder
<1> DEFINE g == packetizer.given \o packetizer.pending
           n == Len(sent)
           At(ts) == CHOOSE i \in DOMAIN sent : sent[i].ts = ts
<1>1. /\ g \in Seq(Packets)
      /\ \A i \in 1 .. Len(g) : /\ g[i].kind = "started" <=> i = 1
                                /\ g[i].kind = "eos" <=> i = Len(g) /\ packetizer.eos
                                /\ g[i].kind = "sample" => \E j \in 1 .. n : g[i].ts = times[j]
      /\ \A i \in 2 .. Len(g) : \A j, k \in DOMAIN times :
           g[i - 1].kind = "sample" /\ g[i].kind = "sample" /\ g[i - 1].ts = times[j] /\ g[i].ts = times[k]
             => j < k
      /\ packetizer.unit # None /\ packetizer.eos => g[Len(g) - 1].ts = packetizer.unit
  BY DEF PacketInv, Good
<1>2. /\ packetizer.eos => live.eos /\ packetizer.unit = live.unit
      /\ live.eos => phase = "eos" /\ mp4.ended
      /\ phase = "eos" /\ sent # <<>> => live.unit # None
      /\ phase = "eos" /\ live.unit # None => live.unit = times[n] /\ n \in 1 .. n
  BY DEF PacketInv, LiveInv, Mp4Inv
<1>3. n \in Nat /\ sent \in Seq([unit : Seq(STRING), ts : Nat])
  BY DEF ParserInv
<1>4. \A j \in 1 .. n : At(times[j]) = j /\ sent[j].ts = times[j] /\ j \in DOMAIN times /\ j \in Nat
  BY SentAt
<1> HIDE DEF g, n, At
<1>5. DOMAIN g = 1 .. Len(g) /\ Len(g) \in Nat
  BY <1>1
<1>6. ASSUME NEW i \in 1 .. Len(g), g[i].kind = "sample", i > 2
      PROVE  At(g[i - 1].ts) < At(g[i].ts)
  <2>1. i \in 2 .. Len(g) /\ i - 1 \in 1 .. Len(g) /\ i - 1 # 1 /\ i - 1 # Len(g)
    BY <1>5, <1>6
  <2>2. PICK h \in 1 .. Len(g) : h = i - 1
    BY <2>1
  <2>3. g[h] \in Packets
    BY <1>1, <2>2, ElementOfSeq
  <2>4. g[h].kind = "sample"
    <3>1. g[h].kind \in {"started", "sample", "eos"}
      BY <2>3 DEF Packets
    <3>2. g[h].kind # "started" /\ g[h].kind # "eos"
      BY <1>1, <2>1, <2>2
    <3>3. QED
      BY <3>1, <3>2
  <2>5. PICK j \in 1 .. n : g[h].ts = times[j]
    BY <1>1, <2>2, <2>4
  <2>6. PICK k \in 1 .. n : g[i].ts = times[k]
    BY <1>1, <1>6
  <2>7. At(times[j]) = j /\ j \in DOMAIN times /\ j \in Nat
    BY <1>4, <2>5
  <2>8. At(times[k]) = k /\ k \in DOMAIN times /\ k \in Nat
    BY <1>4, <2>6
  <2>9. j < k
    BY <1>1, <1>6, <2>1, <2>2, <2>4, <2>5, <2>6, <2>7, <2>8
  <2>10. At(g[i - 1].ts) = At(times[j]) /\ At(g[i].ts) = At(times[k])
    BY <2>2, <2>5, <2>6
  <2>11. QED
    BY <2>7, <2>8, <2>9, <2>10
<1>7. ASSUME NEW i \in 1 .. Len(g), g[i].kind = "eos"
      PROVE  /\ i = Len(g) /\ mp4.ended
             /\ sent # <<>> => g[i - 1].ts = Last(sent).ts
  <2>1. i = Len(g) /\ packetizer.eos
    BY <1>1, <1>7
  <2>2. phase = "eos" /\ mp4.ended
    BY <1>2, <2>1
  <2>3. ASSUME sent # <<>> PROVE g[i - 1].ts = Last(sent).ts
    <3>1. live.unit = times[n] /\ n \in 1 .. n /\ packetizer.unit # None
      BY <1>2, <2>1, <2>2, <2>3
    <3>2. g[i - 1].ts = times[n]
      BY <1>1, <1>2, <2>1, <3>1
    <3>3. sent[n].ts = times[n]
      BY <1>4, <3>1
    <3>4. Last(sent) = sent[n]
      BY Zenon DEF Last, n
    <3>5. QED
      BY <3>2, <3>3, <3>4
  <2>4. QED
    BY <2>1, <2>2, <2>3
<1>8. \A i \in DOMAIN g :
        /\ g[i].kind = "started" <=> i = 1
        /\ g[i].kind = "sample" /\ i > 2 => At(g[i - 1].ts) < At(g[i].ts)
        /\ g[i].kind = "eos" =>
             /\ i = Len(g) /\ mp4.ended
             /\ sent # <<>> => g[i - 1].ts = Last(sent).ts
  BY <1>1, <1>5, <1>6, <1>7, Zenon
<1>9. QED
  BY <1>8 DEF PacketsInOrder, g, At

\* However late the packetizer looks at the snapshot, the start comes before any unit,
\* units come in the order they were made and none twice, and the end comes last, after
\* the last unit, when the file is complete (capture_pending_from_snapshot).
THEOREM PacketizerPacketsInOrder == OutputSpec => []PacketsInOrder
<1>1. ParserInv /\ Mp4Inv /\ LiveInv /\ PacketInv => PacketsInOrder
  BY PacketsAreInOrder, ParameterAssumption, EncoderAssumption, TimesAssumption
<1>2. OutputSpec => []ParserInv
  BY ParserAlways, ParameterAssumption, EncoderAssumption
<1>3. OutputSpec => []Mp4Inv
  BY Mp4Always, ParameterAssumption, EncoderAssumption
<1>4. OutputSpec => []LiveInv
  BY LiveAlways, ParameterAssumption, EncoderAssumption
<1>5. OutputSpec => []PacketInv
  BY PacketAlways, ParameterAssumption, EncoderAssumption, TimesAssumption
<1>6. QED
  BY <1>1, <1>2, <1>3, <1>4, <1>5, PTL

\* codec_config is a flag.
LEMMA ConfigAlways ==
  OutputSpec => [](config \in BOOLEAN)
<1>1. OutputInit => config \in BOOLEAN
  BY DEF OutputInit
<1>2. config \in BOOLEAN /\ [OutputNext]_(outputVars) => (config \in BOOLEAN)'
  <2> SUFFICES ASSUME config \in BOOLEAN, [OutputNext]_(outputVars)
               PROVE  config' \in BOOLEAN
    OBVIOUS
  <2>1. config' = config \/ \E unit : config' = (config \/ HasConfig(unit))
    BY DEF OutputNext, Format, Push, Eos, Read, ReadEnd, Capture,
           NextEvent, outputVars
  <2>2. QED
    BY <2>1, Zenon
<1>3. QED
  BY <1>1, <1>2, PTL DEF OutputSpec

\* The parser, the sinks and the packetizer keep their types: timestamps, sample times
\* and durations are never negative (AnnexBAccessUnitParser, Mp4Sink, LiveOutputSink).
THEOREM OutputTypeCorrect == OutputSpec => []OutputTypeOK
<1>1. ParserInv /\ Mp4Inv /\ LiveInv /\ PacketInv /\ config \in BOOLEAN => OutputTypeOK
  BY DEF ParserInv, Mp4Inv, Mp4Type, LiveInv, LiveType, PacketInv, PacketizerType, OutputTypeOK, Packets
<1>2. OutputSpec => []ParserInv
  BY ParserAlways, ParameterAssumption, EncoderAssumption
<1>3. OutputSpec => []Mp4Inv
  BY Mp4Always, ParameterAssumption, EncoderAssumption
<1>4. OutputSpec => []LiveInv
  BY LiveAlways, ParameterAssumption, EncoderAssumption
<1>5. OutputSpec => []PacketInv
  BY PacketAlways, ParameterAssumption, EncoderAssumption, TimesAssumption
<1>6. OutputSpec => [](config \in BOOLEAN)
  BY ConfigAlways
<1>7. QED
  BY <1>1, <1>2, <1>3, <1>4, <1>5, <1>6, PTL
=============================================================================
