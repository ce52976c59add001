-------------------------- MODULE RecorderPipeline --------------------------
(***************************************************************************)
(* The recorder from QEMU's callbacks to the end of the process:           *)
(* qemu_source.rs, the event loops of encoder.rs and run_with_backend of   *)
(* lib.rs.                                                                 *)
(*                                                                         *)
(* Four threads of control meet.  The two listeners store the surface and  *)
(* try to send events on a bounded channel; an event that finds it full is *)
(* dropped.  The encoder's loop takes events, and in the x264 case writes  *)
(* frames to an ffmpeg child and takes its access units, which a pump task *)
(* reads from the child's stdout.  The main task waits for a reason to     *)
(* stop, looks for errors of the source and finalizes the encoder.         *)
(*                                                                         *)
(* Of a surface only the parity of its dimensions is kept; a frame written *)
(* to ffmpeg, and the access unit it becomes, is its timestamp in periods. *)
(***************************************************************************)
EXTENDS Naturals, Sequences, SequencesExt

CONSTANTS Backends,    \* encoders that select_backend may find
          ChanCap,     \* events in the source's channel (2)
          UnitCap,     \* access units in the pump's channel (16)
          PipeCap,     \* access units in ffmpeg's stdout and in the parser
          Inside,      \* frames that ffmpeg holds (its pipe and lookahead)
          Err,         \* what the pump sends when it cannot read or parse
          FfmpegFails, \* may ffmpeg, or reading from it, fail?
          SinkFails,   \* may a sink fail?
          MaxCalls,    \* bound: callbacks of QEMU
          MaxFrames    \* bound: frames written to ffmpeg

ASSUME BackendAssumption == Backends \subseteq {"openh264", "x264"}
ASSUME CapAssumption == /\ ChanCap \in Nat \ {0} /\ UnitCap \in Nat \ {0}
                        /\ PipeCap \in Nat /\ PipeCap >= 2 /\ Inside \in Nat \ {0}
ASSUME ErrAssumption == Err \notin Nat
ASSUME FaultAssumption == FfmpegFails \in BOOLEAN /\ SinkFails \in BOOLEAN
ASSUME BoundAssumption == MaxCalls \in Nat /\ MaxFrames \in Nat

VARIABLES
  call,      \* listener -> the step its callback takes next, or "idle"
  surface,   \* listener -> has it had a scanout? (cpu_surface, current_scanout)
  shared,    \* the shared frame: absent, or of even or odd dimensions
  chan,      \* FrameEvents
  source,    \* non_shareable_path_detected, fatal_error, SIGTERM raised
  calls,
  main,      \* run_with_backend: where it is
  stop,      \* StopReason
  exit,      \* how the process ended
  backend,
  loop,      \* the event loop: what it awaits
  state,     \* the encoder state: opened, frame staged, is it unwritten?
  terminal,  \* EncoderTerminal
  endedBy,   \* ghost: the event that ended the loop
  sunk,      \* have the sinks got Eos?
  child,     \* ffmpeg
  inside,    \* frames in ffmpeg
  out,       \* access units in its stdout and in the parser
  pump,      \* is pump_x264_output running?
  units,     \* the pump's channel
  pending,   \* pending_timestamps
  written    \* frames written (next_ts_ns in periods)

sourceVars == <<call, surface, shared, source, calls>>
mainVars   == <<main, stop, exit>>
loopVars   == <<loop, state, terminal, endedBy, sunk, pending, written>>
childVars  == <<child, inside, out, pump, units>>
vars == <<sourceVars, chan, mainVars, backend, loopVars, childVars>>

Listener == {"base", "map"}
Events   == {"reset", "oddReset", "frame", "eos", "failEos"}
Steps    == {"idle", "store", "oddStore", "paint", "reset", "oddReset", "frame",
             "fatal", "flag", "failEos", "term", "eos"}

TypeOK ==
  /\ call \in [Listener -> Steps] /\ surface \in [Listener -> BOOLEAN]
  /\ shared \in {"none", "even", "odd"}
  /\ calls \in Nat
  /\ chan \in Seq(Events) /\ Len(chan) <= ChanCap
  /\ source \in [flag : BOOLEAN, fatal : BOOLEAN, term : BOOLEAN]
  /\ main \in {"registering", "armed", "running", "stopped", "sending", "finalizing"}
  /\ stop \in {"none", "signal", "term", "duration", "eos", "fatal"}
  /\ exit \in {"none", "ok", "preflight", "dirty", "internal", "killed"}
  /\ backend \in Backends
  /\ loop \in {"none", "idle", "write", "wrote", "lastWrite", "lastWrote", "drain",
               "wait", "done"}
  /\ state \in [open : BOOLEAN, frame : BOOLEAN, fresh : BOOLEAN]
  /\ terminal \in {"running", "eos", "fatal"}
  /\ endedBy \in {"none", "eos", "failEos"}
  /\ sunk \in BOOLEAN
  /\ child \in {"none", "running", "closing", "ok", "failed"}
  /\ inside \in Seq(Nat) /\ Len(inside) <= Inside
  /\ out \in Seq(Nat) /\ Len(out) <= PipeCap
  /\ pump \in BOOLEAN
  /\ units \in Seq(Nat \cup {Err}) /\ Len(units) <= UnitCap
  /\ pending \in Seq(Nat) /\ written \in Nat

Init ==
  /\ call = [l \in Listener |-> "idle"] /\ surface = [l \in Listener |-> FALSE]
  /\ shared = "none" /\ calls = 0
  /\ chan = <<>>
  /\ source = [flag |-> FALSE, fatal |-> FALSE, term |-> FALSE]
  /\ main = "registering" /\ stop = "none" /\ exit = "none"
  /\ backend \in Backends
  /\ loop = "none" /\ state = [open |-> FALSE, frame |-> FALSE, fresh |-> FALSE]
  /\ terminal = "running" /\ endedBy = "none"
  /\ sunk = FALSE
  /\ child = "none" /\ inside = <<>> /\ out = <<>> /\ pump = FALSE /\ units = <<>>
  /\ pending = <<>> /\ written = 0

Alive == exit = "none"

-----------------------------------------------------------------------------
(* The source: a callback is a chain of steps, between which the other     *)
(* threads run.                                                            *)

\* What comes after a step: handle_scanout ends with a Frame, replace_scanout
\* with the Reset; fail() and mark_non_shareable() record, emit Eos and raise.
After(l, s) ==
  CASE s = "store"                                   -> "reset"
    [] s = "oddStore"                                -> "oddReset"
    [] s \in {"reset", "oddReset"} /\ l = "base"     -> "frame"
    [] s = "paint"                                   -> "frame"
    [] s \in {"fatal", "flag"}                       -> "failEos"
    [] s = "failEos"                                 -> "term"
    [] OTHER                                         -> "idle"

\* A callback arrives and begins with step s.
Callback(l, s) ==
  /\ Alive /\ call[l] = "idle" /\ calls < MaxCalls /\ calls' = calls + 1
  /\ call' = [call EXCEPT ![l] = s]
  /\ UNCHANGED <<shared, source, chan, mainVars, backend, loopVars, childVars>>

\* scanout, scanout_map: a surface of even or of odd dimensions.
Scanout(l) ==
  /\ \E s \in {"store", "oddStore"} : Callback(l, s)
  /\ surface' = [surface EXCEPT ![l] = TRUE]

\* A surface or an update that the source refuses.
Refused(l) == Callback(l, "fatal") /\ UNCHANGED surface

\* Mutant: an update needs no surface.
UpdateUnchecked(l) == Callback(l, "paint") /\ UNCHANGED surface

\* update, update_map; without a surface they are dropped.
Update(l) == surface[l] /\ Callback(l, "paint") /\ UNCHANGED surface

\* scanout_dmabuf, update_dmabuf; ignored before detection is armed.
Dmabuf == main # "registering" /\ Callback("base", "flag") /\ UNCHANGED surface

Disconnected == Callback("base", "eos") /\ UNCHANGED surface

Proceed(l) == call' = [call EXCEPT ![l] = After(l, call[l])] /\ UNCHANGED <<surface, calls>>

\* The surface is stored, or painted into.
Store(l) ==
  /\ Alive /\ call[l] \in {"store", "oddStore", "paint"}
  /\ shared' = CASE call[l] = "store"    -> "even"
                 [] call[l] = "oddStore" -> "odd"
                 [] OTHER                -> shared
  /\ Proceed(l)
  /\ UNCHANGED <<source, chan, mainVars, backend, loopVars, childVars>>

\* Mutant: one event too many.
EmitOneMore(l) ==
  /\ Alive /\ call[l] \in Events
  /\ chan' = IF loop # "done" /\ Len(chan) <= ChanCap THEN Append(chan, call[l]) ELSE chan
  /\ Proceed(l)
  /\ UNCHANGED <<shared, source, mainVars, backend, loopVars, childVars>>

\* emit_event: the channel is open, full or closed.
Emit(l) ==
  /\ Alive /\ call[l] \in Events
  /\ chan' = IF loop # "done" /\ Len(chan) < ChanCap THEN Append(chan, call[l]) ELSE chan
  /\ Proceed(l)
  /\ UNCHANGED <<shared, source, mainVars, backend, loopVars, childVars>>

Record(l) ==
  /\ Alive /\ call[l] \in {"fatal", "flag"}
  /\ source' = IF call[l] = "flag" THEN [source EXCEPT !.flag = TRUE]
                                   ELSE [source EXCEPT !.fatal = TRUE]
  /\ Proceed(l)
  /\ UNCHANGED <<shared, chan, mainVars, backend, loopVars, childVars>>

\* raise_sigterm: before the main task waits for it, SIGTERM kills.
Raise(l) ==
  /\ Alive /\ call[l] = "term"
  /\ source' = [source EXCEPT !.term = TRUE]
  /\ exit' = IF main \in {"registering", "armed"} THEN "killed" ELSE exit
  /\ Proceed(l)
  /\ UNCHANGED <<shared, chan, main, stop, backend, loopVars, childVars>>

-----------------------------------------------------------------------------
(* run_with_backend *)

MainGoes(to) ==
  /\ Alive /\ main' = to
  /\ UNCHANGED <<sourceVars, chan, backend, childVars>>

Exits(how) ==
  /\ Alive /\ exit' = how
  /\ UNCHANGED <<sourceVars, chan, main, stop, backend, loopVars, childVars>>

\* register: both listeners are installed and detection is armed.
Registered == main = "registering" /\ MainGoes("armed") /\ UNCHANGED <<stop, exit, loopVars>>

EncoderStarts ==
  /\ main = "armed" /\ MainGoes("running")
  /\ loop' = "idle"
  /\ UNCHANGED <<stop, exit, state, terminal, endedBy, sunk, pending, written>>

\* Registration, the output file or the encoder fails.
StartFails == main \in {"registering", "armed"} /\ Exits("internal")

\* One branch of the select is ready.
Stops(why) ==
  /\ main = "running" /\ MainGoes("stopped")
  /\ why = "term" => source.term
  /\ why \in {"eos", "fatal"} => terminal = why
  /\ stop' = why
  /\ UNCHANGED <<exit, loopVars>>

\* An error of the source ends the run at once (shutdown_now).
SourceFailed ==
  /\ main = "stopped" /\ (source.flag \/ source.fatal)
  /\ Exits(IF source.flag THEN "preflight" ELSE "internal")

SourceClean ==
  /\ main = "stopped" /\ ~source.flag /\ ~source.fatal
  /\ MainGoes("sending") /\ UNCHANGED <<stop, exit, loopVars>>

\* send_eos: waits for room, without a limit.
SendEos ==
  /\ Alive /\ main = "sending"
  /\ Len(chan) < ChanCap \/ loop = "done"
  /\ chan' = IF loop = "done" THEN chan ELSE Append(chan, "eos")
  /\ main' = "finalizing"
  /\ UNCHANGED <<sourceVars, stop, exit, backend, loopVars, childVars>>

Finalized ==
  /\ main = "finalizing" /\ terminal # "running"
  /\ Exits(CASE stop = "fatal"                       -> "internal"
             [] stop # "fatal" /\ terminal = "fatal" -> "dirty"
             [] OTHER                                -> "ok")

\* Five seconds are over, or a second SIGINT comes.
GivenUp == main = "finalizing" /\ Exits("dirty")

-----------------------------------------------------------------------------
(* The event loops *)

Looping(pc) == Alive /\ loop = pc

\* The loop returns with terminal state t.
Ends(t) == loop' = "done" /\ terminal' = t

LoopUnchanged == UNCHANGED <<sourceVars, mainVars, backend>>

\* A sink refuses an event: the encoder is lost.
SinkRefuses ==
  /\ SinkFails /\ Ends("fatal")
  /\ UNCHANGED <<state, sunk, pending, written, childVars>>

\* ensure_openh264_state, ensure_x264_state: only the first Reset opens the
\* state; ffmpeg may not start.
Opens ==
  \/ /\ state.open
     /\ UNCHANGED <<loop, terminal, state, sunk, pending, written, childVars>>
  \/ /\ ~state.open
     /\ state' = [state EXCEPT !.open = TRUE]
     /\ child' = IF backend = "x264" THEN "running" ELSE child
     /\ pump'  = (backend = "x264")
     /\ UNCHANGED <<loop, terminal, sunk, pending, written, inside, out, units>>
  \/ ~state.open /\ SinkRefuses
  \/ /\ ~state.open /\ backend = "x264" /\ FfmpegFails /\ Ends("fatal")
     /\ UNCHANGED <<state, sunk, pending, written, childVars>>

\* encode_shared_frame: the encoder may give nothing.
Encodes ==
  \/ UNCHANGED <<loop, terminal, state, sunk, pending, written, childVars>>
  \/ SinkRefuses

\* update_frame: the shared frame is copied.
Stages ==
  /\ state' = [state EXCEPT !.frame = TRUE, !.fresh = TRUE]
  /\ UNCHANGED <<loop, terminal, sunk, pending, written, childVars>>

Fails == Ends("fatal") /\ UNCHANGED <<state, sunk, pending, written, childVars>>

\* Without a state a frame is ignored; openh264 leaves out one within the fps limit
\* before it looks at the shared frame.
TakesFrame ==
  \/ /\ ~state.open \/ backend = "openh264"
     /\ UNCHANGED <<loop, terminal, state, sunk, pending, written, childVars>>
  \/ state.open /\ shared # "even" /\ Fails
  \/ /\ state.open /\ shared = "even"
     /\ IF backend = "x264" THEN Stages ELSE Encodes

\* Mutant: the frame staged last is forgotten.
FinishesWithoutLast ==
  /\ loop' = "drain" /\ child' = (IF child = "running" THEN "closing" ELSE child)
  /\ UNCHANGED <<terminal, state, sunk, pending, written, inside, out, pump, units>>

\* X264State::finish up to the end of stdin.
Finishes ==
  IF state.frame /\ state.fresh
  THEN loop' = "lastWrite" /\ UNCHANGED <<terminal, state, sunk, pending, written, childVars>>
  ELSE /\ loop' = "drain" /\ child' = (IF child = "running" THEN "closing" ELSE child)
       /\ UNCHANGED <<terminal, state, sunk, pending, written, inside, out, pump, units>>

\* The sinks get Eos, and with it the file its end.
SinksEos ==
  \/ /\ sunk' = TRUE /\ Ends("eos")
     /\ UNCHANGED <<state, pending, written, childVars>>
  \/ SinkRefuses

TakesEos ==
  \/ /\ ~state.open /\ Ends("eos")
     /\ UNCHANGED <<state, sunk, pending, written, childVars>>
  \/ state.open /\ backend = "openh264" /\ SinksEos
  \/ state.open /\ backend = "x264" /\ Finishes

\* The loop prefers events to access units and those to its ticker.
TakeEvent ==
  /\ Looping("idle") /\ chan # <<>>
  /\ chan' = Tail(chan)
  /\ LET e == Head(chan)
     IN  /\ endedBy' = IF e \in {"eos", "failEos"} THEN e ELSE endedBy
         /\ CASE e = "reset"    -> Opens
              [] e = "oddReset" -> Fails
              [] e = "frame"    -> TakesFrame
              [] OTHER          -> TakesEos
  /\ LoopUnchanged

\* Mutant: an access unit takes the newest timestamp.
PushesNewest ==
  IF Head(units) = Err \/ pending = <<>>
  THEN Fails
  ELSE \/ /\ pending' = Front(pending)
          /\ units' = Tail(units)
          /\ UNCHANGED <<loop, terminal, state, sunk, written, child, inside, out, pump>>
       \/ SinkRefuses

\* push_access_unit: the unit gets the oldest timestamp.
Pushes ==
  IF Head(units) = Err \/ pending = <<>>
  THEN Fails
  ELSE \/ /\ pending' = Tail(pending)
          /\ units' = Tail(units)
          /\ UNCHANGED <<loop, terminal, state, sunk, written, child, inside, out, pump>>
       \/ SinkRefuses

TakeUnit ==
  /\ Looping("idle") /\ chan = <<>> /\ units # <<>>
  /\ Pushes
  /\ UNCHANGED <<chan, endedBy>> /\ LoopUnchanged

\* Mutant: the ticker comes before the access units.
TickFirst ==
  /\ Looping("idle") /\ chan = <<>> /\ pump
  /\ state.frame /\ written < MaxFrames
  /\ loop' = "write"
  /\ UNCHANGED <<chan, terminal, endedBy, state, sunk, pending, written, childVars>>
  /\ LoopUnchanged

\* write_latest_frame begins; a closed channel of access units is always
\* ready, and the ticker is not polled any more.
Tick ==
  /\ Looping("idle") /\ chan = <<>> /\ units = <<>> /\ pump
  /\ state.frame /\ written < MaxFrames
  /\ loop' = "write"
  /\ UNCHANGED <<chan, terminal, endedBy, state, sunk, pending, written, childVars>>
  /\ LoopUnchanged

\* write_all has returned; after the last frame stdin is closed.
WriteReturns ==
  /\ Alive /\ loop \in {"wrote", "lastWrote"}
  /\ pending' = Append(pending, written)
  /\ written' = written + 1
  /\ state' = [state EXCEPT !.fresh = FALSE]
  /\ loop'  = IF loop = "wrote" THEN "idle" ELSE "drain"
  /\ child' = IF loop = "lastWrote" /\ child = "running" THEN "closing" ELSE child
  /\ UNCHANGED <<chan, terminal, endedBy, sunk, inside, out, pump, units>> /\ LoopUnchanged

WriteFails ==
  /\ Alive /\ loop \in {"write", "lastWrite"} /\ child = "failed"
  /\ Fails
  /\ UNCHANGED <<chan, endedBy>> /\ LoopUnchanged

\* The rest of finish(): access units until the channel closes, then the child.
Drain ==
  /\ Looping("drain")
  /\ \/ units # <<>> /\ Pushes
     \/ /\ units = <<>> /\ ~pump
        /\ loop' = "wait"
        /\ UNCHANGED <<terminal, state, sunk, pending, written, childVars>>
  /\ UNCHANGED <<chan, endedBy>> /\ LoopUnchanged

ChildEnded ==
  /\ Looping("wait") /\ child \in {"ok", "failed"}
  /\ IF child = "ok" THEN SinksEos ELSE Fails
  /\ UNCHANGED <<chan, endedBy>> /\ LoopUnchanged

-----------------------------------------------------------------------------
(* ffmpeg and the pump *)

Working == Alive /\ loop # "done"

ChildUnchanged ==
  UNCHANGED <<sourceVars, chan, mainVars, backend, state, terminal, endedBy, sunk,
              pending, written>>

\* The frame that is being written has been read.
FfmpegReads ==
  /\ Working /\ child = "running" /\ Len(inside) < Inside
  /\ loop \in {"write", "lastWrite"}
  /\ loop' = IF loop = "write" THEN "wrote" ELSE "lastWrote"
  /\ inside' = Append(inside, written)
  /\ UNCHANGED <<child, out, pump, units>> /\ ChildUnchanged

\* A unit is written to stdout; nobody reads it any more when the pump is gone.
FfmpegEmits ==
  /\ Working /\ child \in {"running", "closing"} /\ inside # <<>>
  /\ IF pump
     THEN /\ Len(out) < PipeCap
          /\ out' = Append(out, Head(inside)) /\ inside' = Tail(inside)
          /\ UNCHANGED child
     ELSE child' = "failed" /\ inside' = <<>> /\ UNCHANGED out
  /\ UNCHANGED <<loop, pump, units>> /\ ChildUnchanged

FfmpegEnds ==
  /\ Working /\ child = "closing" /\ inside = <<>>
  /\ child' = "ok"
  /\ UNCHANGED <<loop, inside, out, pump, units>> /\ ChildUnchanged

FfmpegDies ==
  /\ Working /\ FfmpegFails /\ child \in {"running", "closing"}
  /\ child' = "failed" /\ inside' = <<>>
  /\ UNCHANGED <<loop, out, pump, units>> /\ ChildUnchanged

\* An access unit is complete when the next one begins, or at the end.
PumpSends ==
  /\ Working /\ pump /\ Len(units) < UnitCap
  /\ Len(out) >= 2 \/ (out # <<>> /\ child \in {"ok", "failed"})
  /\ units' = Append(units, Head(out)) /\ out' = Tail(out)
  /\ UNCHANGED <<loop, child, inside, pump>> /\ ChildUnchanged

PumpFails ==
  /\ Working /\ FfmpegFails /\ pump /\ Len(units) < UnitCap
  /\ units' = Append(units, Err) /\ pump' = FALSE /\ out' = <<>>
  /\ UNCHANGED <<loop, child, inside>> /\ ChildUnchanged

PumpEnds ==
  /\ Working /\ pump /\ out = <<>> /\ child \in {"ok", "failed"}
  /\ pump' = FALSE
  /\ UNCHANGED <<loop, child, inside, out, units>> /\ ChildUnchanged

-----------------------------------------------------------------------------
Source ==
  \/ \E l \in Listener :
        \/ Scanout(l) \/ Refused(l) \/ Update(l)
        \/ Store(l) \/ Emit(l) \/ Record(l) \/ Raise(l)
  \/ Dmabuf \/ Disconnected

Main ==
  \/ Registered \/ EncoderStarts \/ StartFails
  \/ \E why \in {"signal", "term", "duration", "eos", "fatal"} : Stops(why)
  \/ SourceFailed \/ SourceClean \/ SendEos \/ Finalized \/ GivenUp

Loop == TakeEvent \/ TakeUnit \/ Tick \/ WriteReturns \/ WriteFails \/ Drain \/ ChildEnded

Child ==
  \/ FfmpegReads \/ FfmpegEmits \/ FfmpegEnds \/ FfmpegDies
  \/ PumpSends \/ PumpFails \/ PumpEnds

Next == Source \/ Main \/ Loop \/ Child

\* Room in the channel goes to the sender that waits for it, before emit_event;
\* ffmpeg need not emit what its lookahead may keep.
FfmpegMustEmit == FfmpegEmits /\ (Len(inside) = Inside \/ child = "closing")

Fairness ==
  /\ WF_vars(TakeEvent \/ TakeUnit \/ WriteReturns \/ WriteFails \/ Drain \/ ChildEnded)
  /\ WF_vars(FfmpegReads) /\ WF_vars(FfmpegMustEmit) /\ WF_vars(FfmpegEnds)
  /\ WF_vars(PumpSends) /\ WF_vars(PumpEnds)
  /\ WF_vars(SourceFailed) /\ WF_vars(SourceClean) /\ SF_vars(SendEos) /\ WF_vars(GivenUp)

Spec == Init /\ [][Next]_vars /\ Fairness

-----------------------------------------------------------------------------
\* A Frame never reaches the loop before the Reset that opens its state, however
\* many events the full channel drops: the first event of all finds room, and it
\* is no Frame (emit_event drops silently, encode_shared_frame ignores silently).
ResetComesFirst ==
  \A i \in 1 .. Len(chan) :
    chan[i] = "frame" => state.open \/ loop = "done" \/ \E j \in 1 .. i - 1 : chan[j] # "frame"

\* Access units on their way from ffmpeg, in the order they will be pushed.
OnTheWay == units \o out \o inside

\* The timestamps they wait for.
Expected == IF loop \in {"wrote", "lastWrote"} THEN Append(pending, written) ELSE pending

\* The n-th access unit finds the n-th timestamp: what is on its way is what
\* timestamps wait for, in the same order (write_latest_frame, push_access_unit).
TimesInOrder ==
  loop # "done" /\ Err \notin ToSet(units) =>
    /\ IsPrefix(OnTheWay, Expected)
    /\ child # "failed" => OnTheWay = Expected

\* Exit status 0 means one of two things.  Either the file is complete: every frame
\* written has become a unit, the frame staged last was written, the sinks have ended.
\* Or no Reset ever reached the loop: then no frame was taken, and the sinks get no Eos
\* (finish_openh264_state and finish_x264 of None), so that the file, created before
\* the encoder starts, is never given its end.  Nothing lies between the two, and in
\* neither was an error of the source what stopped the recorder (run_with_backend).
SuccessIsCompleteOrEmpty ==
  exit = "ok" =>
    /\ \/ sunk /\ pending = <<>> /\ ~state.fresh
       \/ ~state.open /\ written = 0 /\ pending = <<>>
    /\ stop # "term" /\ ~(stop = "eos" /\ endedBy = "failEos")

\* "pve-record records a Proxmox VM display and writes H.264 in MP4" (the README of the
\* recorder): a run that reports success leaves a file that was given its end.
SuccessHasFile == exit = "ok" => sunk

\* What the loop waits for comes: no write into ffmpeg, and no draining of it,
\* leaves the loop, the pump and ffmpeg waiting for each other; and once there is
\* a reason to stop, the process ends.
Awaiting == Alive /\ loop \in {"write", "wrote", "lastWrite", "lastWrote", "drain", "wait"}
MovesOn ==
  /\ Awaiting ~> ~Awaiting
  /\ main = "stopped" ~> ~Alive
=============================================================================
