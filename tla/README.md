# pve-computer-use: a verification project in TLA+

pve-computer-use lets an AI agent see and drive Proxmox VE guests. A Node or Bun
process (the MCP server, or the skill library) keeps VNC and serial sessions
over WebSockets, calls the PVE REST API, and runs OCR worker processes; a
separate Rust recorder captures a guest's display to video. This directory holds
TLA+ models of the stateful parts, the TLC runs that check them on small
instances, and TLAPS proofs for every instance.

Contents: [1 inventory](#1-inventory), [2 plan](#2-plan),
[3 modules](#3-the-modules-and-the-code), [4 runs](#4-runs-and-what-they-show),
[5 fairness](#5-fairness), [6 proofs](#6-proofs),
[7 disagreements](#7-where-the-code-and-its-words-disagree),
[8 limits](#8-what-is-not-modelled).

To run: `tlc -config MCVncSessions.cfg MCVncSessions` and the like;
`tlapm VncSessions_proofs.tla` and the seven other `_proofs` modules. Every run ends
in less than five minutes with two workers; the longest proofs (`OcrPool_proofs`,
`Recorder_proofs`) take some ten minutes each.

## 1. Inventory

Paths are relative to the repository root. Everything but the recorder and the
OCR children runs in one JavaScript thread: what interleaves are the turns of the
event loop, that is, what happens between two `await`s or in one callback.

| Component | State | Operations | Interacts with | Hard behaviour | What makes it correct |
|---|---|---|---|---|---|
| VNC session manager: `src/vnc-session.ts`, `src/state.ts` | `sessions`, `pending` by VM; `activeVmid` | connect, disconnect, disconnectAll, getSession | called by tools and skill; called back by API promises, WebSocket events, timers | concurrent connects share one promise; disconnect during connect; the late `close` of a replaced session | one live session per VM, in the map exactly while it is live; a shared promise is one that still runs |
| VNC handshake: `src/vnc-session.ts` | `ws`, `state`, `_connected`, `recvBuffer`, a 10 s timer | connect, five message handlers, disconnect | PVE API, WebSocket, manager | the server may stop, close or send rubbish at any step; the timer races | every connect returns; success means a live session; a failed one leaves no socket |
| RFB update stream and framebuffer: `src/vnc-session.ts`, `src/framebuffer.ts` | framebuffer, `updateSeq`, `dirtyRects`, continuous-updates flag, waiters | handleFramebufferUpdate, consumeDirtyRects, waitForUpdate, requestFullUpdate | server's bytes; screenshots, OCR, waits | messages in pieces are parsed again from the start; the accumulator's cap; lost wake-ups; starvation of the request loop | the frame is the server's screen; no painted area is lost; no waiter is overtaken |
| Terminal sessions: `src/terminal-session.ts`, `src/tools/serial.ts` | `sessions` by VM, `ws`, `authenticated`, `_connected`, xterm screen, `activeTermVmid` | connect, disconnect, sendInput, readScreen, waitForText | PVE API, termproxy, WebSocket | no shared connect; registered before connected; 500 ms settling | one live session per VM; success only for an accepted login; every connect returns |
| PVE authentication: `src/pve-auth.ts`, `PveApiClient.request` | `currentTicket`, `refreshTimer` | getTicket, forceRefresh, authenticate, destroy; request with 403 retry | PVE server, every API call | concurrent authentications, replies out of order, a failed refresh, expiry | no expired ticket in a request; a retry carries a newer ticket; the refresh keeps the ticket valid |
| PVE API operations: `src/pve-api.ts` | none beyond a poll in progress | waitForTask, guestExec, some 25 single requests | authentication, HTTP | a poll counted in requests, another by deadline | a task that ended in time is reported so |
| OCR pool: `src/ocr.ts` | `workers` (busy or not), `waiters`, `bgSpawnTriggered` | ocr, drain, dispatch, background start, shutdown | its clients | lost drain, shutdown during a start | no request starves; every call settles |
| OCR client: `src/ocr-rapidocr.ts`, `ocr/rapidocr_server.py` | `proc`, `ready`, `queue`, `stdoutBuf` | ensureStarted, recognize, abort, shutdown | Python child over pipes | answers carry no id; the late exit of an old child | an answer reaches the request it is for; one live child |
| Held input: `src/tools/timeline.ts`, `src/vnc-session.ts`, `skill/lib/index.ts` | pointer mask, pressed keys, per timeline and per `Vm` | key and pointer down, up, drag, scroll, release at end | VNC session | concurrent timelines; reconnects; exceptions before the release | what the program believes pressed is what the guest has pressed |
| Skill runtime: `skill/lib/index.ts` | `initPromise`, managers, `disposed`, incremental-OCR baseline | ensure, disconnect, waitForScreen, repeat, steps | everything above | disconnect during init; a failed init that stays; baseline of an old session | usable after a failed start; no OCR result skipped |
| Text entry, Windows guests: `src/state.ts`, `src/windows-guest.ts` | cache of guest kinds | typeTextByStrategy, clipboard paste | guest agent, VNC session | fallback after partial success | text typed once |
| Recorder source: `recorder/src/qemu_source.rs` | shared frame, bounded channel of 2 | scanout, update, disable callbacks | QEMU over D-Bus, encoder | a full channel drops any event | a size change is never lost |
| Recorder encoder: `recorder/src/encoder.rs` | encoder state, ffmpeg child, channel of 16 | openh264 loop, x264 loop, EOS | source, ffmpeg, sinks | biased select, pipes that wait for each other, timestamps matched by order | it ends; frames keep their times |
| Recorder sinks: `recorder/src/encoder.rs` | pending sample, snapshot | MP4 sink, fan-out, live output | encoder | rounding to 90 kHz; a coalescing snapshot | times increase; format before unit |
| Recorder life cycle: `recorder/src/lib.rs` | shutdown sources, exit code | run, finalise | all of the recorder | second signal during finalisation | the file is complete, or the code says not |
| MCP tools, guidance, screenshots, screen match, disk configuration, RFB builders, DES, HTTP | none, or a cache by option | single calls, pure functions | above | - | test vectors |

`PROJECT.json` lists the hazards at their lines, with the properties that would
catch them, or why none does.

## 2. Plan

Order: what every tool call depends on first, then what gives wrong answers
silently, then what loses input or video.

| Module | Composes with | State |
|---|---|---|
| `VncSessions`, abstract `OneSessionPerVm` | refinement | modelled, checked, proved |
| `TerminalSessions` | refines the same `OneSessionPerVm` | modelled, checked, proved |
| `RfbStream` | what a connected session of `VncSessions` does | modelled, checked, proved |
| `OcrPool` | pool, clients and children in one module | modelled, checked, proved |
| `PveAuth` | authentication with the request that uses it | modelled, checked, proved |
| `HeldInput` | timelines, skill `Vm`, single tools and the guest of one VM | modelled, checked, proved |
| `RecorderPipeline` | source, channel, encoder loops, ffmpeg child, life cycle | modelled, checked, proved |
| `RecorderOutput` | parser, fan-out, MP4 sink, live output and packetizer | modelled, checked, proved |
| `VmTasks` | tools, skill `Vm` operations, task and guest-agent polling, PVE | modelled, checked, proved |
| `SkillRuntime` | ensure, disconnect, incremental OCR baseline, guest cache | planned |

Abstract specifications: one session per VM (`OneSessionPerVm`, implemented by both
managers); the server's screen (the ghost variable `ideal` of `RfbStream`); a
function from image to text (the ghost outcomes "wrong" and "mixed" of `OcrPool`); the guest's
pressed set (`guest` of `HeldInput`, against the records); the encoder's stream
(`stream` of `RecorderOutput`, against what comes out of the parser); what PVE did
(`jobs` of `VmTasks`, against what a call reports).

Theorems worth proving next: every invariant that a passing run checks is a theorem
now. What is left goes with `SkillRuntime`.

## 3. The modules and the code

An action is one turn of the event loop: it runs from the callback or the
resumed `await` to the next suspension, everything it calls included.

**`VncSessions`**: `sessions`, `pending`, `activeVmid` are the manager's and
state.ts's. A session object has `phase` (which `await` of `connect()` it is in),
`ws` (its WebSocket), `attached` (`this.ws` is set), `conn` (`_connected`), `hs`
(`state`) and `wire` (the message that has arrived). `StartConnect` is
`VncSessionManager.connect` up to its first `await`, `Coalesce` a caller that
gets `pending`, `ReturnExisting` state.ts's shortcut. `ApiAnswers` and `ApiFails`
settle the three API calls; `WsOpens`, `WsErrors`, `WsCloses` are the callbacks;
`Handle...` are the message handlers; `TimesOut` the timer. A session object
that is closed and out of reach is used again for a new one.

**`OneSessionPerVm`**: what a manager promises. A live session is one whose
`_connected` is true. It opens only where none is live, and any may end.

**`TerminalSessions`**: as above, with what differs: the manager registers a session
before it is connected (`Created`), at once when the caller names the node
(`StartConnect`) and otherwise after `findVmNode` (`StartLookup`, `NodeAnswers`);
it shares nothing between callers, and leaves dead entries in its map. `auth` is
"settling" during the 500 ms between termproxy's OK and `resolve()`. `overlapped` is a
history variable, which no guard reads: the VMs for which a call came that disposes of
sessions while a connect of theirs was under way (`Connecting`, `Begins`). `crashed`: the
message callback used `this.ws!` after `disconnect()` (`AcceptedDetached`); nothing
catches the TypeError, so that the process ends and every session with it. The live
sessions it shows `OneSessionPerVm` are those of the VMs that are not overlapped.

**`RfbStream`**: the screen is one row of pixels. `msg` and `got` are the message
that arrives and how many of its rectangles are there; `Chunk` applies all of
them, from the first, because `handleFramebufferUpdate` consumes nothing before
the message is complete. `ideal` applies each rectangle once. `seen` is what a
caller of `consumeDirtyRects` saw last. `asked` and `srvCont` are the server's
side of the request loop. `Rounds` is the loop of `handleFramebufferUpdate`, with the
session after each round. `doubt` is a history variable, which no guard reads: the
pixels that a CopyRect may have got wrong because it was applied again. `Ahead` is
where a message has painted before it is applied again, a copy takes doubt along with
what it reads, and any other paint ends it (`Spread`, `Doubts`).

**`OcrPool`**: `waiters`, `workers`, `bg` and `bgStart` are the pool's; `client`
is `proc`, `ready` (the start it awaits or has awaited) and `queue`; `child` is a
process and the images it has been sent and not answered. The operators on
state records are the functions a turn of the event loop calls one after the
other (`Finally` is the `finally` of `dispatch`, with its `drain()`). A child's
answer to an image goes to the head of its client's queue (`Verdict`). `BootFails` is a
child that reports `ready: false`; its exit comes later. `client[c].robbed` is a history
variable, which no guard reads: the end of one child has cleared a start that was
another child's. "wrong" and "mixed" are the ghost outcomes of a request that got
somebody else's text, from a client that had not been robbed and from one that had.

**`PveAuth`**: a ticket is known by its time of issue. `auth` holds one
authentication per caller, and the timer's. `ServerAnswers` takes a real
password, or a ticket it has not forgotten. Expiry is counted from the arrival
of the reply, as in the code, and so lies up to `Delay` later than the server's.

**`HeldInput`**: what is down in the guest (`guest`), and the records that say so:
one per timeline (`pointerMaskByVm`, `heldKeysByVm`), one for all scripts of the
library (`held` of `skill/lib/index.ts`), none for the single tools. A step is all
that a client does between two awaits: `Steps` is the session it gets
(`getOrConnectVncSession`, `getSession`), and the actions are named for the step
types. Clicks that hold, drags and typing have an await inside and so are two or
more actions (`HoldClick`/`HoldEnds`, `DragBegins`/`DragPoint`/`DragEnds`,
`TypeBegins`/.../`TypeReturns`). `Drop` loses the session at any time; what is sent
on a session that is not connected is dropped (`Live`). `TimelineReleases` and
`TimelineLeaves` are the two values of `release_inputs_at_end`. `abandoned` is a ghost:
what was held when a session was lost at the end, a record forgotten, or a timeline told
to leave it. Text goes by keys
or by the clipboard of a Windows guest: `GuestSets` is the scheduled task, which may
run after the program has stopped waiting for it.

**`RecorderPipeline`**: a callback of QEMU is a chain of steps (`After`): it stores
or paints the surface, then sends one event or two; `Emit` is `emit_event`, which
drops what finds the channel full. `TakeEvent`, `TakeUnit` and `Tick` are the
branches of the biased select, in that order; `Looping("write")` is the loop inside
`write_all`. A frame written to ffmpeg and the access unit it becomes are the
number of the write, so that `TimesInOrder` compares sequences of numbers. A frame that openh264's fps
limit leaves out is left out before the surface is looked at (`TakesFrame`). `PumpSends`
keeps the last unit back until the next begins, as the parser does. `main` is
`run_with_backend`; `exit` is the exit status by its reason.

**`RecorderOutput`**: bytes are tokens, NAL units have a type and a payload of one
or two tokens. `DrainComplete` is the parser (`Scanned`, a recursive
function along the buffer, is its loop over the NALs), `Read` gives it any number of
bytes while the pump runs (`reading`). `IsPicture` says what libx264 makes of a frame. `Mp4Unit` and `Mp4Finish` are the sink's arithmetic
on ticks, with its three corrections (before the base, not after the sample
before, longer than 32 bits). `live` is the snapshot behind the watch channel, and
`Captured` what the packetizer makes of it.

**`VmTasks`**: a call has a plan (the kinds of its steps) and goes through find, ask,
poll and sleep. A request is two actions, so that everything may happen between PVE's
look at the VM (`Serve`, `Refuse`) and the caller's reaction (`Retry`, `Fails`, `OnNode`
... `OnExec`); `LoseAnswer` turns an answer into an error after the fact. `JobEnds` lets
a task or a process end in any way that its kind allows, at any time or never, also
after the caller has given up. `Disturb` is every other user of the VM.

## 4. Runs, and what they show

| Run | Instance | Shows |
|---|---|---|
| `vnc_sessions` | 2 VMs, 2 session objects, 2 callers | map, pending promises and live sessions agree; one session per VM is implemented; every connect returns; a failed one closes its socket |
| `serial_sessions` | 1 VM, 2 session objects, 2 callers that overlap or not | one session per VM is implemented until a call overlaps a connect; what the manager calls connected has a socket; success only after OK; every connect returns or the process is gone |
| `serial_overlap` (violation) | 1 VM, 2 sessions, 2 callers | with overlap two sessions of a VM are live |
| `rfb_stream` | 3 pixels, 2 messages of up to 2 rectangles of 7 kinds, cap 2, 2 waiters | see the properties; any message may arrive in pieces |
| `rfb_copies` (violation) | 3 pixels, paints and scrolls, 2 messages of up to 2 rectangles | a scroll that is applied again leaves another screen than the server's |
| `ocr_pool` | 2 workers, 2 requests, 6 clients, 9 children; starts and spawns may fail | answers go to their requests and a client has one live child, until the end of one child takes another one's start; every call settles unless a spawn that hung is in its way |
| `ocr_mixed` (violation) | 1 worker, 3 requests, starts may fail | after that an answer may go to another request |
| `auth_tickets` | 2 callers, lifetime 5, margin 3, delay 1, 1 failure, 7 ticks | tickets in use are valid, retries carry newer ones, the refresh holds until it fails |
| `held_input` | 1 timeline that types, 2 scripts, 1 tool, 1 key, 1 button, 2 sessions | what is down is known to a run, held by a click or drag in progress, was left by a lost session, or left by a timeline's option; one text per call |
| `recorder_pipeline` | both encoders, 2 listeners with 2 callbacks in all, channel 2, units 1, pipe 2, 1 frame inside ffmpeg, 5 writes | resets first, times in order, success only when complete or without any reset, the loop never stuck, an end after every reason to stop |
| `recorder_output` | no, 1 or 3 pictures, 4 sequences of times, every cut | see the properties; a sink may fail |
| `vm_tasks` | 1 call of 14 kinds, 2 nodes, timeouts of 3 ticks, interval 2 | success is what was done; once and in order; timeouts not early; every call ends |

Why the bounds suffice. *Sessions*: two objects let an old session close while
its successor connects, two callers share or overlap, two VMs let one call
disturb the other (in `vnc_sessions`; serial sessions of two VMs share nothing but
`activeTermVmid`); objects are used again, so behaviours are not bounded. The
safety properties of both managers are also proved for all sizes, and so are those
of the stream, the tickets, held input, the recorder's pipeline and tasks. *Stream*:
`MaxRects` 2 gives a rectangle before and one after any other; three pixels let
two rectangles overlap, be disjoint, and a copy read what it writes; `Cap` 2 is
reached and passed within one message; `MaxSeq` only bounds chunks that complete
no rectangle. *OCR*: two requests use both
workers, or wait for the one that is there while the other starts. `Room` bounds
the numbers of objects; with 6 clients and 9 children it is true in every state, so that
nothing is cut off. A third request, which finds a child that two before it have left
behind, is in `ocr_mixed`, and the proofs hold for any number of all of them. *Tickets*: in `MaxTime` a ticket is issued, is
refreshed and expires; `Delay` 1 separates issue from arrival. Real values are
24 and 1 in units of five minutes; the proofs cover every ratio that satisfies
`TimesAssumption`.

*Held input*: one key and one button suffice, for they are treated one by one; a
timeline, two scripts and a tool are every pair of kinds of record (two timelines
differ as a timeline and a script do), two sessions are a loss and a reconnect.
The same two properties are proved for all sizes. *Recorder*: two callbacks of
different or the same listener emit up to four events into a channel of two, so that
every kind of event is dropped in some behaviour; one place for access units and one
frame inside ffmpeg fill up first, which makes waiting chains as long as they can be;
five writes go round them. *Output*: a key frame with every kind of NAL and two
pictures after it; `MaxU32` 5 and four nanoseconds per tick make each correction of
the times happen. *Tasks*: timeouts that are no multiple of the interval, one poll
and two; the environment may do between two steps whatever other calls could, which
stands for the second call that would be too large a model.

`CHECK_DEADLOCK FALSE` is set where the system may stop: a crashed process
(`TerminalSessions`), a pool after its shutdown or whose requests have all
settled (`OcrPool`), clients that are done (`HeldInput`, `VmTasks`), a recorder that
has ended. `SYMMETRY` is used in runs without liveness only.

## 5. Fairness

Nothing is assumed of callers, users, servers or the order of events. Assumed,
as weak fairness of each process's own step, is only what the platform does:

- an HTTP request settles (fetch has its own limits), a timer that is set fires,
  a WebSocket that is closing closes (the `ws` library destroys it after 30 s);
- an OCR child is located or not, gets ready or ends, answers each image or
  ends, and ends once it was sent SIGTERM. No timer of the code makes up for a
  child that does none of these, nor for a spawn that hung, of which nothing is assumed.
  `Fairness` of `OcrPool` states weak fairness with each action's guard in the place of
  ENABLED: an action ends what enables it, and the requests, each made once, end the
  images a child may be sent. (TLC would compute a whole turn to evaluate ENABLED.)
- the recorder's loop goes on when what it awaits is there; ffmpeg reads what it has
  room for, gives out what its lookahead need not keep, and ends at the end of its
  input; the pump reads and sends. `SendEos` is strongly fair: tokio gives a freed
  slot to the sender that waits for it before `try_send` sees it. Five seconds pass
  (`GivenUp`). QEMU's callbacks are not fair, and neither is a failure;
- in `VmTasks` a request is answered or fails and timers fire. Tasks and processes
  need never end, and nothing another user does is fair.

Handshake messages are *not* fair: `ConnectSettles` rests on the timer alone.

## 6. Proofs

Proved with TLAPS for every value of the constants that satisfies the named
assumptions (`NoVm` is no VM, `NoSession` no session; for `PveAuth` that the
margin is shorter than the lifetime and no authentication takes longer than the
margin).

`VncSessions_proofs`: the inductive invariant is `TypeOK`, `HandshakeInv` and
`RegistryInv`. `HandshakeInv` is about one session at a time: a socket that may
open or carry data is held by its object, and only a session whose connect is
still running gets as far as ServerInit, because what `disconnect()` leaves
behind finds `send()` without a socket. `RegistryInv` relates the sessions to the
manager's two maps: beside the properties the run checks it needs that a VM with
a pending connect has no registered session (`PendingUnregistered`), so that the
one that registers displaces nothing. `LiveIsRegistered` alone is not inductive:
without these facts a reply to an abandoned handshake could make a session live
outside the map. `ManagerImplementsRegistry` shows each step to be a step or a
stutter of `OneSessionPerVm` (an `Open` for `HandleServerInit`, a `Close` for what
disconnects), and `ConnectReturnsLiveSession` is an action property from the same
invariant.

`TerminalSessions_proofs` needs no assumption on how calls overlap. Its inductive
invariant says of one session that it has no socket as long as it waits for the
API, and that `_connected` goes with the socket; and of the map that objects
never used are not in it, so that the entry of a new session is the only one that
changes. `ConnectedSessionsHaveSockets` follows. `SuccessOnlyIfAccepted` is an
action property: among all steps only the end of the 500 ms lets a waiting call
return "ok". The last section is about the VMs that are not overlapped. `AloneInv` adds
that one call connects to such a VM (`OneConnect`), that a session which is being
connected has its caller and a caller its session (`CallerOK`, `EntryOK`), and that
whatever has a socket is the VM's entry, where the next call finds and closes it. From
it `ManagerImplementsRegistry` shows each step to be one of `OneSessionPerVm` or a
stutter, whatever calls for other VMs do, and `TwoLiveOnlyIfOverlapped` that a VM has two
live sessions (section 7) only if calls for it have overlapped.

`PveAuth_proofs`: `TypeOK` and `Timing`, which bounds the distance between the
sending, issue and arrival of an authentication and its ticket's expiry. From
`Timing`, `Delay <= Margin` and the guard of `Usable` follows that a ticket in
use has not been forgotten (`FreshOnUse`); `RetryIsFresh` follows from the
identity of the authentication a 403 starts, whatever else replies meanwhile.

`HeldInput_proofs`: the inductive invariants are made of statements about one thing
at a time. For `HeldIsKnown` it is `EachKnown`: each key and button that is down is
in some record, or is a button while a click or drag is under way, or is abandoned.
`KnownStays` says when that survives a step; each of the twenty-odd actions is then
an instance: it presses nothing unrecorded, or it forgets only what it lifts or
abandons. The step that needs most is `DisconnectVnc`, which forgets the record of
every script. For `TextOnce`, `TextInv` adds that a call which waits for the clipboard
or for its first character has had no text on its session, and that a session number
never comes again (`SessionForward`), so that what was sent on a lost session cannot
arrive later. Both hold for any numbers of timelines, scripts, tools, keys and
buttons; the only assumption is that these sets are disjoint and `Left` is a button.

`HeldIsValid` of `PveAuth` follows from an invariant about the timer: as long as no
authentication has failed, each ticket has a refresh that is set, or under way, early
enough (`Refreshed`). It assumes that the margin is longer than two answers take, for a
refresh may itself wait behind an authentication.

`VmTasks_proofs` holds for any number of calls, where the run has one: `Work` says of
each call that its jobs are those of the steps before the present one, each ended well,
and at most one of the present step; every other call is part of the environment that
this must survive. `Spans` relates the clock of a call to its polls, so that the number
of polls `waitForTask` allows itself spans the timeout also when the interval does not
divide it (`AttemptsSpan`).

`Recorder_proofs`, about `RecorderPipeline`: the inductive invariant says which of the loop, ffmpeg and the
pump can still be running when (`ChildStages`), how the main task and the loop follow each
other (`MainStages`), that a listener ends the recording only after something broke
(`ErrorFirst`), and what precedes a frame in the channel, seen from the listener's call onwards (`FirstEvent`).
`TimesInOrder` is part of it: what is on its way is, in order, what is pending.
`SuccessIsCompleteOrEmpty` follows with `Complete`, which is about a recorder that got a
Reset: without one nothing was written, and nothing more is claimed.

`Recorder_proofs`, about `RecorderOutput`: the theorems rest on what the module assumes
of its constants, which TLC evaluates in the run `recorder_output`: `Parameters` (numbers are numbers),
`AsEncoded` (the stream is pictures as libx264 makes them, of any types, lengths and
payloads; a picture begins with no slice, has one slice, its last NAL, and ends in no
byte of a start code) and, for the packetizer, `DistinctTimes`. Neither the reads nor a
bound on them is among the assumptions.

- The parser. `Joined` relates the bytes to the units and to where each ends. A start
  code that the buffer shows whole is one of the stream's, and one of the stream's is
  one of a unit, for no code reaches over an end (`StartsOfPrefix`, `StartsOfUnit`).
  `ScanInv` is the invariant of the loop over the NALs: in the k-th unit it has given
  out the k - 1 before, remembers where the k-th begins, and has seen a picture just if
  the buffer shows the slice. It is kept by each byte (`ScanStep`), so by all of them
  (`UpTo`). `Drained` is what follows for `drain_complete`, and the inductive invariant
  `ParserInv` says that buffer and unread bytes are always the units not given out yet.
- The MP4 sink. `Mp4Inv` is `SamplesFollow` with what makes it inductive: the sink is
  ready just from the first key frame on, and then a sample waits until the end.
- The packetizer. `LiveInv` says that the snapshot's unit is the last that every sink
  took. `Good` says of what has been given out that it is in order, and what its last
  unit is; `PacketInv` says it of what was given out and what is pending together,
  and that the packetizer is not ahead of the snapshot. A look at the snapshot adds the
  start, a later unit and the end, and each keeps `Good` (`GoodStarted`, `GoodSample`,
  `GoodEos`); returning an event moves it from one part to the other.

`RfbStream_proofs`: rectangles are applied by a recursive function, and what is said of
it is proved by induction along the message (`UpTo`, from the well-foundedness of the
natural numbers; it speaks of sets, so that no operator is a parameter). Session, cap,
cover and the order of frames are kept by each rectangle, hence by any chunk. For
`FaithfulPixels` the invariant `FrameInv` says that the message which is arriving makes
`ideal` of some screen that differs from the client's at most in doubtful pixels and
where the message has painted already (`Strays`). A paint leaves such a difference
behind, a copy takes it along where it reads one, and so does `doubt` (`PaintStrays`,
`StraysAtTheEnd`); a chunk adds to it only where the rectangles it applies paint
(`PrefixStrays`, `Ahead`). No theorem has a hypothesis on how messages are cut.
`RectsAssumption` says that rectangles have places and widths and no screen is empty.

`OcrPool_proofs`: a turn calls several functions one after the other, so what must be
kept is said of the state record they hand on. `Good` holds between any two of them: a
child is what its client's `ready` names, or has been given up (`Kids`, `Owners`); a
client's queue is, entry by entry, what its child was sent and has not answered, some of
them empty because their request was aborted (`Owed`, `Matches`), both as long as the client
has not been robbed (`Knows`); who is in a queue was sent to that client, once (`Sent`); at most one request has a client (`Reqs`); and the
lists of the pool have nobody twice (`Lists`). Each function has a lemma that it keeps
`Good` and takes no more than one free client and child (`SettleGood`, `StartGood`,
`SubmitGood`, `DispatchGood`, `AddWorkerGood`); the loops of `drain()` and
`spawnRemaining()` are recursive functions, and that their rounds keep it is an induction
on the round (`UpTo`). `IInv` adds that who waits is in the pool's queue (`Listed`) and,
after a shutdown, whose end is still awaited (`Ending`). A turn of one child's, such as its
start failing, its exit or an answer, changes one client and one child together; `Pair`
says what of `Good` these two must keep, and `PairGood` that the rest follows. The end
of a child clears its client's `ready`, whose ever that is: if it was another child's,
`robbed` is set in the same turn, and nothing is claimed of who that client's queue and
child belong to any more. `OwnUnlessRobbed` follows because the head of the queue and
the head of what the child owes are the same request or none, `OneChildUnlessRobbed`
from `Kids` and `Owners`. Starts and spawns may fail in any way (`StartsMayFail`,
`SpawnsMayFail`). What robbed clients do is the subject of `ocr_mixed` and of section 7.

Every component that is proved has its type invariant proved.

Only model-checked: liveness and anything with fairness, which is out of this prover's
reach. The properties of section 7 are false, and the theorems say what holds beside
them. An encoder that makes several slices of a
picture is neither modelled nor proved about (section 8).

## 7. Where the code and its words disagree

Three runs find a behaviour of the code against a line of its documentation or its
comments; each finding in `PROJECT.json` quotes both.

| Run | Property | Code | What happens |
|---|---|---|---|
| `serial_overlap` | `OneLivePerVm` | `terminal-session.ts:178` | a session is registered, disposed of by an overlapping connect while it awaits the API, and opens its socket and becomes connected all the same, outside the map |
| `rfb_copies` | `FaithfulFrame` | `vnc-session.ts:542` | a CopyRect in a message that arrives in pieces is applied once for each piece; the framebuffer is not the server's screen until those pixels are painted again |
| `ocr_mixed` | `AnswersOwn` | `ocr-rapidocr.ts:74` | the exit of a child that had reported not to be ready comes after its successor was started and takes the new queue with it; a later request gets the text of an earlier image |

Six more configurations of the same modules each check one property that a line of the
repository promises and the code does not keep; TLC ends them with a counterexample.

| Configuration | Property | Code, and the line it is against | What happens |
|---|---|---|---|
| `MCOcrPoolTwoChildren.cfg` | `OneChild` | `ocr-rapidocr.ts:74`; line 5, "One worker is reused for the lifetime of the process" | the exit that `ocr_mixed` is about makes the client forget its new child too: that one runs on, and the next request starts a second live child |
| `MCOcrPoolSpawnError.cfg` | `OcrSettles` | `ocr-rapidocr.ts:70`; `ocr.ts:127`, "failures self-heal on next dispatch" | a spawn that reports an error emits no 'exit'; `ready` is awaited for ever, by every later call too |
| `MCTerminalSessionsCrash.cfg` | `NeverCrashes` | `terminal-session.ts:199`, `this.ws!` | an OK that was on its way reaches a session whose `ws` is null; the TypeError is caught nowhere (`AcceptedDetached`) |
| `MCPveAuthLockedOut.cfg` | `NeverLockedOut` | `pve-auth.ts:176`; `README.md:128`, "Auth tickets refresh before their 2h expiry" | after one failed refresh in an idle process the ticket expires, is sent as the password, is refused and kept |
| `MCRecorderPipelineNoReset.cfg` | `SuccessHasFile` | `encoder.rs:878`; `recorder/README.md:3`, "writes H.264 in MP4" | without any Reset the sinks get no Eos, the file created at line 370 is never finished (line 483), and `lib.rs:247` exits with status 0 |
| `MCHeldInputText.cfg` | `OwnText` | `windows-guest.ts:219`; line 256, "Set the Windows clipboard to `text`" | the script that waits for the clipboard task ends with status 0 also when it has waited long enough; Ctrl+V pastes whatever the clipboard held |

The passing runs state what holds nevertheless: `OneSessionPerVm` until calls for the VM
overlap, `FaithfulPixels`, `OwnUnlessRobbed`, `OneChildUnlessRobbed`,
`OcrSettlesUnlessHung`, `HeldIsValid` until an authentication fails, `TextOnce`,
`SuccessIsCompleteOrEmpty`.

The models have the behaviours below too, each met while modelling and against no line
precise enough for a run:

- `skill/lib/index.ts:841`, `tools/vnc.ts:164`: scroll() of the library and the single
  tools send mask 0 while the record says a button is held (`Scroll`, `Recorded`).
- `tools/timeline.ts:484`: a timeline lifts what it holds only if a session happens to
  be connected at its end; `disconnectVnc` forgets what is held (`abandoned`).
- `pve-api.ts:387`: `waitForTask` sleeps once more after its last poll and does not
  look again; `waitFor` and `guestExec` do (`Wake`, `OnStatus`, `OnExec`).
- `pve-api.ts:379`: a task that ends with "WARNINGS: n" took effect and is reported as
  failed (`JobEnds` with "warnings").
- `skill/lib/index.ts:697`: `snapshot.ensure` may return while the snapshot it lists
  is still being created by another, and two of them race (`OnList`, `Disturb`).
- `encoder.rs:746`: once ffmpeg or its pump is gone, the closed channel is always
  ready and the ticker never polled; the failure is noticed at the end of the
  recording (`Tick` needs `pump`, `Drain` fails).
- `qemu_source.rs:241`: the Eos of a disconnected display is dropped by a full channel,
  and the recorder goes on without a source (`Disconnected`, `Emit`).
- `qemu_source.rs:588`: SIGTERM raised before `run_with_backend` waits for it ends the
  process with no message (`Raise`).
- `encoder.rs:1183`: x264 timestamps count the ticks that were written, not the time
  at which a frame was shown (`WriteReturns`).
- `terminal-session.ts:201`: serial_connect reports success for a session that
  closed during the 500 ms (`Settles` does not look at `conn`).
- `vnc-session.ts:851`: `waitForUpdate` on a session that has closed waits until
  its timeout, against its comment (`StartWait` needs no open link).
- `vnc-session.ts:824`: after the collapse at the cap the accumulator appends
  again, against its comment (`PushDirty`).
- `ocr-rapidocr.ts:143`: an abort during the start of the worker is lost (the
  "starting" case of `Abort`).
- `ocr-rapidocr.ts:165`, `ocr.ts:123`: a worker being located at the time of
  `shutdownOcr` starts afterwards and is not ended (`Located` after `Shutdown`).
- `pve-auth.ts:174`: the refresh comes a margin of five minutes before the end of
  two hours, not at one hour as line 8 says.

## 8. What is not modelled

In the modelled parts: API tokens (no ticket); the xterm screen and input
encoding of terminal sessions; bell, cut text and encodings the client never
asked for; a size of the pool from the environment; the bytes inside a line of
an OCR child; images, texts and pixels beyond what tells them apart. A 403 retry
reads the ticket in the turn that brought it. A server that puts a CopyRect and a resize
of the desktop into one message (`Updates`) is left out; QEMU sends a resize by itself. The `_connected = true` of the handler that then throws (`AcceptedDetached`) is not
seen: the process ends in the same turn.

`HeldInput`: positions on the screen; two keys of one combination as separate events;
another VM (records are per VM). `RecorderPipeline`: pixels, the pitch checks of a
surface beyond accepted or refused, a second SIGINT told apart from the time limit
(`GivenUp`). `RecorderOutput`: libx264 is called with one slice per picture and access
unit delimiters, so the branch for pictures of several slices is not reached; boxes
of the MP4 file. `VmTasks`: a task that has stopped and has no
`exitstatus`, which `pve-api.ts:380` takes for success and PVE does not produce; what a
request that only reads returns; a process number
that the guest uses again after a restart; two calls of this program at once other
than as `Disturb`.

Parts left out. *Skill runtime*: the start, `disconnect()` during `init()`, the
incremental OCR baseline, `waitForScreen`; next in the plan. *Pure functions* (screen
matching, JPEG encoding, disk configuration, RFB layout, DES): neither state nor
interleaving. *Tools that only read*, guidance, argument parsing, the QMP handshake of
the recorder: one request and a text. *Guest helpers* (`linux.ts`, `darwin.ts`,
`windows.ts`): straight sequences of `Vm` calls. Build, installation and documents do
not run with the system.
