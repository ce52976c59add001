--------------------------- MODULE RecorderOutput ---------------------------
(***************************************************************************)
(* What becomes of the recorder's encoded stream: the Annex B parser that  *)
(* cuts ffmpeg's output into access units however it arrives, the fan-out  *)
(* to the sinks, the MP4 sink with its sample times, and the live output,  *)
(* a snapshot that a packetizer polls from another task (encoder.rs).      *)
(*                                                                         *)
(* The encoder in the process skips the parser, and its timestamps are     *)
(* those of the callbacks, irregular ones; ffmpeg's are regular.           *)
(*                                                                         *)
(* Bytes are tokens: "0" and "1" make start codes, a NAL unit is a token   *)
(* of its type and one of its payload; a slice's payload says whether its  *)
(* first_mb_in_slice is zero ("first").                                    *)
(***************************************************************************)
EXTENDS Integers, Sequences, SequencesExt, FiniteSetsExt

CONSTANTS Streams,    \* what the encoder may emit: sequences of access units
          Times,      \* timestamps it may have: sequences, one for each unit
          ChunkMax,   \* bytes of one read (16384)
          NsPerTick,  \* nanoseconds of an MP4 tick (1e9 / 90000)
          MaxU32,     \* the longest duration (2^32 - 1)
          FirstLast,  \* last_sample_duration at first (90000 / fps)
          SinkMayFail, \* may the MP4 sink fail?
          None

Parameters ==
  /\ None \notin Nat
  /\ NsPerTick \in Nat \ {0} /\ MaxU32 \in Nat \ {0}
  /\ FirstLast \in Nat /\ ChunkMax \in Nat \ {0}
  /\ \A t \in Times : t \in Seq(Nat)

ASSUME ParameterAssumption == Parameters
ASSUME FailAssumption == SinkMayFail \in BOOLEAN

\* The live output knows a unit by its timestamp.
DistinctTimes == \A t \in Times : \A i, j \in DOMAIN t : t[i] = t[j] => i = j

ASSUME TimesAssumption == DistinctTimes

VARIABLES
  stream, times,  \* what the encoder emits in this run
  rest,           \* bytes that have not been read
  buffer,         \* AnnexBAccessUnitParser
  reading,        \* is pump_x264_output running?
  parsed,         \* access units in the channel
  config,         \* codec_config: have parameter sets been seen?
  sent,           \* ghost: the units given to the sinks
  phase,          \* what the sinks have been sent: "new", "format", "eos", "failed"
  mp4,            \* Mp4Sink
  live,           \* LiveOutputSink: the snapshot
  packetizer      \* LivePacketizerAdapter, with what it has given out

parserVars == <<rest, buffer, reading, parsed>>
outputVars == <<stream, times, parserVars, config, sent, phase, mp4, live, packetizer>>

-----------------------------------------------------------------------------
(* The parser *)

\* The bytes at i begin a start code of this length (0: they do not).
StartCodeLen(b, i) ==
  CASE i + 3 <= Len(b) /\ SubSeq(b, i, i + 3) = <<"0", "0", "0", "1">> -> 4
    [] i + 2 <= Len(b) /\ SubSeq(b, i, i + 2) = <<"0", "0", "1">>      -> 3
    [] OTHER                                                           -> 0

\* nal_start_offsets: the three bytes within a longer code are skipped, and a code
\* with nothing behind it does not count yet.
IsNalStart(b, i) ==
  /\ StartCodeLen(b, i) > 0
  /\ i + StartCodeLen(b, i) <= Len(b)
  /\ i > 1 => StartCodeLen(b, i - 1) # 4

NalStarts(b) == {i \in DOMAIN b : IsNalStart(b, i)}

NalType(b, i) == b[i + StartCodeLen(b, i)]
IsVcl(t) == t \in {"idr", "slice"}

\* slice_starts_new_picture. A header that is cut off would be an error, but libx264
\* as it is called makes one slice of a picture, and no slice follows another.
SliceFirst(b, i) == b[i + StartCodeLen(b, i) + 1] = "first"

\* Does the NAL at i begin a new access unit, after one with a picture?
StartsUnit(b, i, vcl) ==
  /\ vcl
  /\ \/ NalType(b, i) \in {"aud", "sei", "sps", "pps"}
     \/ IsVcl(NalType(b, i)) /\ SliceFirst(b, i)

\* drain_complete, one NAL: where the current unit begins, has it a picture, the
\* units that are complete, what is kept.
Scan(b, acc, i) ==
  LET vcl == IsVcl(NalType(b, i))
  IN  IF StartsUnit(b, i, acc.vcl)
      THEN [start |-> i, vcl |-> vcl, keep |-> i,
            units |-> Append(acc.units, SubSeq(b, acc.start, i - 1))]
      ELSE [acc EXCEPT !.start = IF @ = 0 THEN i ELSE @, !.vcl = @ \/ vcl]

\* What the loop over the NALs knows when it has come to each byte.
Scanned(b) ==
  LET after[i \in 0 .. Len(b)] ==
        IF i = 0 THEN [start |-> 0, vcl |-> FALSE, units |-> <<>>, keep |-> 0]
        ELSE IF IsNalStart(b, i) THEN Scan(b, after[i - 1], i) ELSE after[i - 1]
  IN  after

\* Mutant: the unit that the end completes is forgotten.
DrainLosesTail(b, flush) ==
  LET end == Scanned(b)[Len(b)]
  IN  [units |-> end.units, keep |-> IF flush THEN <<>> ELSE SubSeq(b, Max({1, end.keep}), Len(b))]

DrainComplete(b, flush) ==
  LET end == Scanned(b)[Len(b)]
  IN  IF flush
      THEN [keep  |-> <<>>,
            units |-> IF end.start = 0 THEN end.units
                      ELSE Append(end.units, SubSeq(b, end.start, Len(b)))]
      ELSE [keep |-> SubSeq(b, Max({1, end.keep}), Len(b)), units |-> end.units]

\* parse_access_unit: the types of its NALs tell a key frame and its parameter sets.
NalTypes(unit) == {NalType(unit, i) : i \in NalStarts(unit)}
IsKeyframe(unit) == "idr" \in NalTypes(unit)
HasConfig(unit)  == {"sps", "pps"} \subseteq NalTypes(unit)

\* A picture as libx264 makes it: parameter sets, delimiter and the like first, one
\* slice, the last of its NALs, and no zero byte at the end.
IsPicture(u) ==
  /\ u \in Seq(STRING) /\ u # <<>> /\ u[Len(u)] \notin {"0", "1"}
  /\ IsNalStart(u, 1) /\ NalType(u, 1) \in {"aud", "sei", "sps", "pps"}
  /\ \E slice \in NalStarts(u) : \A i \in NalStarts(u) :
       i <= slice /\ (IsVcl(NalType(u, i)) <=> i = slice)

\* What the encoder emits is a sequence of pictures.
AsEncoded == \A s \in Streams : s \in Seq(Seq(STRING)) /\ \A i \in DOMAIN s : IsPicture(s[i])

ASSUME EncoderAssumption == AsEncoded

-----------------------------------------------------------------------------
(* The MP4 sink *)

\* Mutant: two units may fall on one tick.
StartTimeRaw(ts) ==
  LET base == IF mp4.base = None THEN ts ELSE mp4.base
  IN  (IF ts > base THEN ts - base ELSE 0) \div NsPerTick

\* sample_start_time: after the sample that is waiting, whatever the timestamp.
StartTime(ts) ==
  LET base  == IF mp4.base = None THEN ts ELSE mp4.base
      ticks == (IF ts > base THEN ts - base ELSE 0) \div NsPerTick
  IN  IF mp4.pending = None THEN ticks ELSE Max({ticks, mp4.pending + 1})

Sample(start, dur) == [start |-> start, duration |-> dur]

\* Mutant: the duration is what the sample before lasted too little.
Mp4UnitSwapped(ts) ==
  LET start == StartTime(ts)
  IN  [mp4 EXCEPT !.ready   = TRUE,
                  !.base    = IF @ = None THEN ts ELSE @,
                  !.pending = start,
                  !.samples = IF mp4.pending = None THEN @
                              ELSE Append(@, Sample(mp4.pending, mp4.pending - start)),
                  !.last    = @]

\* write_unit: until the first key frame units are left out; a unit's sample is
\* written when the next one tells how long it lasts.
Mp4Unit(ts) ==
  LET start == StartTime(ts)
      dur   == IF start - mp4.pending > MaxU32 THEN MaxU32 ELSE start - mp4.pending
  IN  [mp4 EXCEPT !.ready   = TRUE,
                  !.base    = IF @ = None THEN ts ELSE @,
                  !.pending = start,
                  !.samples = IF mp4.pending = None THEN @ ELSE Append(@, Sample(mp4.pending, dur)),
                  !.last    = IF mp4.pending = None THEN @ ELSE dur]

\* finish: the last sample gets the duration of the one before.
Mp4Finish ==
  [mp4 EXCEPT !.ended   = TRUE,
              !.pending = None,
              !.samples = IF mp4.pending = None THEN @
                          ELSE Append(@, Sample(mp4.pending, Max({mp4.last, 1})))]

-----------------------------------------------------------------------------
(* The fan-out: the MP4 sink first, then the live output; a sink that fails *)
(* ends the loop before the next one hears of the event.                    *)

Failed == phase' = "failed" /\ UNCHANGED <<mp4, live>>

Format ==
  /\ phase = "new"
  /\ \/ /\ phase' = "format"
        /\ live' = [live EXCEPT !.format = TRUE, !.revision = @ + 1]
        /\ UNCHANGED mp4
     \/ SinkMayFail /\ Failed
  /\ UNCHANGED <<stream, times, parserVars, config, sent, packetizer>>

\* push_access_unit
Push ==
  /\ phase = "format" /\ parsed # <<>>
  /\ LET unit == Head(parsed)
         ts   == times[Len(sent) + 1]
     IN  /\ config' = (config \/ HasConfig(unit))
         /\ sent' = Append(sent, [unit |-> unit, ts |-> ts])
         /\ \/ /\ mp4' = IF mp4.ready \/ IsKeyframe(unit) THEN Mp4Unit(ts) ELSE mp4
               /\ mp4.ready \/ ~IsKeyframe(unit) \/ config'
               /\ live' = [live EXCEPT !.unit = ts, !.revision = @ + 1]
               /\ UNCHANGED phase
            \/ ~mp4.ready /\ IsKeyframe(unit) /\ ~config' /\ Failed
            \/ SinkMayFail /\ Failed
  /\ parsed' = Tail(parsed)
  /\ UNCHANGED <<stream, times, rest, buffer, reading, packetizer>>

Eos ==
  /\ phase = "format" /\ ~reading /\ parsed = <<>>
  /\ \/ phase' = "eos" /\ mp4' = Mp4Finish
        /\ live' = [live EXCEPT !.eos = TRUE, !.revision = @ + 1]
     \/ SinkMayFail /\ Failed
  /\ UNCHANGED <<stream, times, parserVars, config, sent, packetizer>>

-----------------------------------------------------------------------------
(* The pump *)

Read ==
  /\ phase = "format" /\ reading
  /\ \E n \in 1 .. Min({ChunkMax, Len(rest)}) :
       LET drained == DrainComplete(buffer \o SubSeq(rest, 1, n), FALSE)
       IN  /\ parsed' = parsed \o drained.units
           /\ buffer' = drained.keep
           /\ rest' = SubSeq(rest, n + 1, Len(rest))
  /\ UNCHANGED <<stream, times, reading, config, sent, phase, mp4, live, packetizer>>

ReadEnd ==
  /\ phase = "format" /\ reading /\ rest = <<>>
  /\ parsed' = parsed \o DrainComplete(buffer, TRUE).units
  /\ buffer' = <<>> /\ reading' = FALSE
  /\ UNCHANGED <<stream, times, rest, config, sent, phase, mp4, live, packetizer>>

-----------------------------------------------------------------------------
(* The packetizer *)

Packet(kind, ts) == <<[kind |-> kind, ts |-> ts]>>
Started == IF live.format /\ ~packetizer.format THEN Packet("started", None) ELSE <<>>
NewUnit == IF live.unit \notin {None, packetizer.unit} THEN Packet("sample", live.unit) ELSE <<>>
Ended   == IF live.eos /\ ~packetizer.eos THEN Packet("eos", None) ELSE <<>>

\* Mutant: the end hides the unit that came with it.
CapturedEosOnly == Started \o (IF live.eos THEN Ended ELSE NewUnit)

\* capture_pending_from_snapshot: what is new in it.
Captured == Started \o NewUnit \o Ended

Capture ==
  /\ packetizer.pending = <<>> /\ live.revision > packetizer.revision
  /\ packetizer' = [packetizer EXCEPT !.revision = live.revision, !.format = live.format,
                                      !.unit = live.unit, !.eos = live.eos,
                                      !.pending = Captured]
  /\ UNCHANGED <<stream, times, parserVars, config, sent, phase, mp4, live>>

\* next_event returns.
NextEvent ==
  /\ packetizer.pending # <<>>
  /\ packetizer' = [packetizer EXCEPT !.pending = Tail(@),
                                      !.given = Append(@, Head(packetizer.pending))]
  /\ UNCHANGED <<stream, times, parserVars, config, sent, phase, mp4, live>>

-----------------------------------------------------------------------------
OutputInit ==
  /\ stream \in Streams /\ times \in {t \in Times : Len(t) >= Len(stream)}
  /\ rest = FlattenSeq(stream) /\ buffer = <<>> /\ reading = TRUE /\ parsed = <<>>
  /\ config = FALSE /\ sent = <<>> /\ phase = "new"
  /\ mp4 = [ready |-> FALSE, base |-> None, pending |-> None, last |-> FirstLast,
            samples |-> <<>>, ended |-> FALSE]
  /\ live = [revision |-> 0, format |-> FALSE, unit |-> None, eos |-> FALSE]
  /\ packetizer = [revision |-> 0, format |-> FALSE, unit |-> None, eos |-> FALSE,
                   pending |-> <<>>, given |-> <<>>]

OutputNext == Format \/ Push \/ Eos \/ Read \/ ReadEnd \/ Capture \/ NextEvent

OutputSpec == OutputInit /\ [][OutputNext]_outputVars

-----------------------------------------------------------------------------
Packets == [kind : {"started", "sample", "eos"}, ts : Nat \cup {None}]

OutputTypeOK ==
  /\ rest \in Seq(STRING) /\ buffer \in Seq(STRING) /\ reading \in BOOLEAN
  /\ parsed \in Seq(Seq(STRING)) /\ config \in BOOLEAN
  /\ sent \in Seq([unit : Seq(STRING), ts : Nat])
  /\ phase \in {"new", "format", "eos", "failed"}
  /\ mp4 \in [ready : BOOLEAN, base : Nat \cup {None}, pending : Nat \cup {None},
             last : Nat, samples : Seq([start : Nat, duration : Nat]), ended : BOOLEAN]
  /\ live \in [revision : Nat, format : BOOLEAN, unit : Nat \cup {None}, eos : BOOLEAN]
  /\ packetizer \in [revision : Nat, format : BOOLEAN, unit : Nat \cup {None}, eos : BOOLEAN,
                    pending : Seq(Packets), given : Seq(Packets)]

\* Wherever the reads cut ffmpeg's output, in a start code or behind a NAL's header,
\* the parser gives the access units the encoder made, each once, all of them in the
\* end (AnnexBAccessUnitParser).
ParsesAsEncoded ==
  LET units == [i \in DOMAIN sent |-> sent[i].unit] \o parsed
  IN  IsPrefix(units, stream) /\ (~reading => units = stream)

\* In the file a sample begins where the one before it ends, none lasts nothing, and
\* there is one for each unit from the first key frame on: timestamps that fall on
\* one tick, go back, or leave a gap no duration can express lose none of them
\* (sample_start_time, write_unit, finish).
SamplesFollow ==
  LET first == {i \in DOMAIN sent : IsKeyframe(sent[i].unit)}
      count == IF first = {} THEN 0 ELSE Len(sent) - Min(first) + 1
  IN  /\ \A i \in DOMAIN mp4.samples :
           LET s    == mp4.samples[i]
               next == IF i < Len(mp4.samples) THEN mp4.samples[i + 1].start ELSE mp4.pending
           IN  /\ s.duration > 0
               /\ next # None => \/ next = s.start + s.duration
                                 \/ s.duration = MaxU32 /\ next > s.start + MaxU32
      /\ phase # "failed" =>
           Len(mp4.samples) + (IF mp4.pending = None THEN 0 ELSE 1) = count
      /\ mp4.ended => mp4.pending = None

\* However late the packetizer looks, it gives out the start of the stream before any
\* unit, units in the order they were made and none twice, and the end last, once,
\* after the last unit and only when the file is complete (capture_pending_from_snapshot).
PacketsInOrder ==
  LET given == packetizer.given \o packetizer.pending
      At(ts) == CHOOSE i \in DOMAIN sent : sent[i].ts = ts
  IN  \A i \in DOMAIN given :
        /\ given[i].kind = "started" <=> i = 1
        /\ given[i].kind = "sample" /\ i > 2 => At(given[i - 1].ts) < At(given[i].ts)
        /\ given[i].kind = "eos" =>
             /\ i = Len(given) /\ mp4.ended
             /\ sent # <<>> => given[i - 1].ts = Last(sent).ts
=============================================================================
