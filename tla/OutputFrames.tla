---------------------------- MODULE OutputFrames ----------------------------
(* output.c: the play-out engine.  The audio callback (ca_render) calls    *)
(* _output_frames under the outputbuf mutex to move frames from outputbuf  *)
(* to the device, and there it starts, pauses, skips, switches the sample  *)
(* rate at a track boundary and fades.  Decoder and controller change the  *)
(* same state under the same mutex: _checkfade, output_flush,              *)
(* output_flush_streaming and the strm commands.                           *)
(*                                                                         *)
(* The unit is the frame.  A frame is <<t, i>>, the i-th frame of track t. *)
(* Gains, sample formats and wall-clock time are abstracted; a format is a *)
(* sample rate or a PCM/DoP format, whose change asks for a delay.         *)
EXTENDS RingOps, Sequences, FiniteSets

CONSTANTS
    Tracks,        \* how many tracks are streamed: 1 .. Tracks
    TrackLen,      \* frames in a track
    BufFrames,     \* size of outputbuf at start: the default, or the user's choice
    DefaultFrames, \* OUTPUTBUF_SIZE, the only size that is enlarged for crossfades
    CrossFrames,   \* OUTPUTBUF_SIZE_CROSSFADE
    Wanted,        \* frame counts the device may ask for in one callback
    MaxSilence,    \* MAX_SILENCE_FRAMES
    Threshold,     \* output.threshold * rate / 10
    Formats,       \* formats of the tracks
    HalfDelay,     \* frames of silence before, and after, a change of format
    FadeFrames,    \* next_sample_rate * fade_secs
    FadeModes,     \* transition types the server asks for
    Counts,        \* pause and skip intervals the server asks for
    Commands,      \* the strm commands the server sends
    Junk,          \* what a slot of fresh memory holds
    Null, Dangling \* pointer values: NULL, and into a block that was freed

FrameBytes == 8    \* BYTES_PER_FRAME

OutputAssumption ==
    /\ Tracks \in Nat /\ TrackLen \in Nat
    /\ BufFrames \in Nat \ {0, 1} /\ DefaultFrames \in Nat /\ CrossFrames \in Nat \ {0, 1}
    /\ Wanted \subseteq Nat \ {0} /\ MaxSilence \in Nat \ {0}
    /\ Threshold \in Nat /\ HalfDelay \in Nat /\ FadeFrames \in Nat
    /\ Counts \subseteq Nat
    /\ FadeModes \subseteq {"NONE", "CROSSFADE", "IN", "OUT", "INOUT"}
    /\ Commands \subseteq {"q", "f", "p", "pause", "a", "u", "at"}
    /\ Null \notin Int /\ Dangling \notin Int /\ Null # Dangling
    /\ Junk \notin Nat \X Nat

VARIABLES
    outputbuf,   \* struct buffer: mem, readp, writep, size
    output,      \* struct outputstate
    cb,          \* the audio callback: pc and the locals of ca_render and _output_frames
    src,         \* the streaming side: track, frames decoded, phase, what was reported
    heard        \* history: what became of the frames

vars == <<outputbuf, output, cb, src, heard>>

LesserOf(a, b) == IF a <= b THEN a ELSE b

BufUsed     == Used(outputbuf.readp, outputbuf.writep, outputbuf.size)
BufWritable == Writable(outputbuf.readp, outputbuf.writep, outputbuf.size)

\* Faulty variant: what lies beyond wrap is read as if it followed.
BufContReadPastWrap == BufUsed

BufContRead == ContRead(outputbuf.readp, outputbuf.writep, outputbuf.size)

\* A pointer of output is a frame's index, or lies inside frame p, past its
\* first byte: then it is never equal to readp or writep.
Inside(p)  == -1 - p
FrameOf(p) == IF p < 0 THEN Inside(p) ELSE p

\* The pointer p is greater than readp; the whole frames up to it may be none.
LiesAhead(p) == IF p < 0 THEN FrameOf(p) >= outputbuf.readp ELSE p > outputbuf.readp
UpTo(p)      == FrameOf(p) - outputbuf.readp

\* The distance of two pointers, one ring apart if they are the other way round.
Ahead(from, to) == IF to >= from THEN to - from ELSE to + outputbuf.size - from

\* k frames of the block b from offset p on: as the ring has them, and as a
\* straight copy has them, which leaves the block when it passes wrap.
RingRun(b, p, k) == {b.mem[(p + j) % b.size] : j \in 0 .. k - 1}
CopyRun(b, p, k) == [j \in 1 .. k |-> IF p + j - 1 < b.size THEN b.mem[p + j - 1] ELSE Junk]

\* The mutex is free unless the callback is inside it.
Unlocked == cb.pc = "idle"

\* The controller is between the two critical sections of strm q, or of a
\* pass that starts the output, and does nothing else.
Busy == src.phase = "flushing" \/ src.start
-----------------------------------------------------------------------------
FreshBuf(n) == [mem |-> [i \in 0 .. n - 1 |-> Junk], readp |-> 0, writep |-> 0, size |-> n]

Idle == [pc |-> "idle", remaining |-> 0, frames |-> 0, size |-> 0, silence |-> TRUE]

\* output_init_common, with no idle timeout.
Init ==
    /\ outputbuf = FreshBuf(BufFrames)
    /\ \E f \in Formats :
         output = [state |-> "STOPPED", count |-> 0, track_start |-> Null, track_started |-> FALSE,
                   delay_active |-> FALSE, format |-> f, next_format |-> f, frames_played |-> 0,
                   fade |-> "INACTIVE", fade_mode |-> "NONE", fade_dir |-> "UP",
                   fade_start |-> 0, fade_end |-> 0]
    /\ cb = Idle
    /\ src = [track |-> 0, pos |-> 0, phase |-> "idle", start |-> FALSE, told |-> TRUE,
              sentSTMu |-> FALSE]
    /\ heard = [last |-> <<0, 0>>, played |-> {}, mixed |-> {}, dropped |-> {}, skipped |-> {},
                announced |-> {}, quiet |-> 0, garbage |-> FALSE, abrupt |-> FALSE,
                overrun |-> FALSE, disturbed |-> FALSE]
-----------------------------------------------------------------------------
(* _checkfade, with the mutex held.                                        *)

FadeLen(o) == IF o.fade_mode = "INOUT" THEN FadeFrames \div 2 ELSE FadeFrames

Wrapped(p, n) == IF p >= n THEN p - n ELSE IF p < 0 THEN p + n ELSE p

\* The output state after a fade of the given direction was scheduled.
Fading(o, dir, start, end) ==
    [o EXCEPT !.fade = "DUE", !.fade_dir = dir, !.fade_start = start, !.fade_end = end]

\* A pointer into the block that _buf_resize frees.
FreedPointers(o) ==
    [o EXCEPT !.track_start = IF @ = Null THEN Null ELSE Dangling]

\* Where a crossfade over the last len frames of b starts.  It takes at most
\* 90% of the block, counted in bytes, which may end inside a frame.
CrossStart(b, len) ==
    LET cap == (b.size * FrameBytes * 9) \div 10 IN
    IF len * FrameBytes <= cap THEN Wrapped(b.writep - len, b.size)
    ELSE IF cap % FrameBytes = 0 THEN Wrapped(b.writep - cap \div FrameBytes, b.size)
         ELSE Inside(Wrapped(b.writep - cap \div FrameBytes - 1, b.size))

\* _checkfade(true) at the start of a track; o and b are output and outputbuf
\* as the codec left them.  The result is the set of possible outcomes.
CheckFadeStart(o, b) ==
    LET used  == Used(b.readp, b.writep, b.size)
        inLen == LesserOf(FadeLen(o), b.size - 1)
        crAt  == CrossStart(b, LesserOf(FadeLen(o), used))
    IN
    CASE FadeLen(o) = 0 -> {[o |-> [o EXCEPT !.fade = "INACTIVE"], b |-> b]}
      [] FadeLen(o) > 0 /\ (o.fade_mode = "IN" \/ (o.fade_mode = "INOUT" /\ used = 0)) ->
           {[o |-> Fading(o, "UP", b.writep, Wrapped(b.writep + inLen, b.size)), b |-> b]}
      [] FadeLen(o) > 0 /\ o.fade_mode = "CROSSFADE" /\ used > 0 /\ o.next_format = o.format ->
           {[o |-> [Fading(o, "CROSS", crAt, b.writep) EXCEPT !.track_start = crAt], b |-> b]}
      [] FadeLen(o) > 0 /\ o.fade_mode = "CROSSFADE" /\ used = 0 /\ b.size = DefaultFrames /\ b.readp = 0 ->
           {[o |-> FreedPointers(o), b |-> FreshBuf(CrossFrames)],   \* _buf_resize succeeds
            [o |-> o, b |-> [b EXCEPT !.readp = 0, !.writep = 0]]}   \* and fails
      [] OTHER -> {[o |-> o, b |-> b]}

\* _checkfade(false) at the end of a track.
CheckFadeEnd(o, b) ==
    LET len == LesserOf(Used(b.readp, b.writep, b.size), FadeLen(o)) IN
    IF FadeLen(o) = 0 THEN [o EXCEPT !.fade = "INACTIVE"]
    ELSE IF o.fade_mode \in {"OUT", "INOUT"}
         THEN Fading(o, "DOWN", Wrapped(b.writep - len, b.size), b.writep)
         ELSE o
-----------------------------------------------------------------------------
(* The audio callback.  It holds the mutex from RenderBegin until its pc   *)
(* is idle again.                                                          *)

\* ca_render asks _output_frames for what the device wants.
RenderBegin == \E wanted \in Wanted :
    /\ Unlocked
    /\ cb' = [cb EXCEPT !.pc = "enter", !.remaining = wanted]
    /\ UNCHANGED <<outputbuf, output, src, heard>>

\* The head of _output_frames ends: it will move up to avail frames out of
\* the buffer, or silence if there are none.
WillPlay(avail) ==
    cb' = LET n == LesserOf(IF avail = 0 THEN MaxSilence ELSE avail, cb.remaining)
          IN  [cb EXCEPT !.pc = "loop", !.silence = (avail = 0), !.frames = n, !.size = n]

\* It will play up to n frames of silence.
WillHush(n) ==
    cb' = LET k == LesserOf(LesserOf(n, MaxSilence), cb.remaining)
          IN  [cb EXCEPT !.pc = "loop", !.silence = TRUE, !.frames = k, !.size = k]

\* Stopped, or buffering below the threshold.
EnterStopped ==
    /\ output.state = "STOPPED" \/ (output.state = "BUFFER" /\ BufUsed <= Threshold)
    /\ WillHush(MaxSilence)
    /\ UNCHANGED <<outputbuf, output, heard>>

\* Running, or buffering and the threshold is met.
EnterRunning ==
    /\ output.state = "RUNNING" \/ (output.state = "BUFFER" /\ BufUsed > Threshold)
    /\ WillPlay(BufUsed)
    /\ output' = [output EXCEPT !.state = "RUNNING"]
    /\ UNCHANGED <<outputbuf, heard>>

\* Faulty variant: the skipped frames are not added to the position.
EnterSkipUncounted ==
    /\ output.state = "SKIP_FRAMES"
    /\ LET skip == LesserOf(BufUsed, output.count) IN
          /\ outputbuf' = [outputbuf EXCEPT !.readp = IncPtr(@, skip, outputbuf.size)]
          /\ output' = [output EXCEPT !.state = "RUNNING"]
          /\ heard' = [heard EXCEPT
                !.skipped = @ \cup RingRun(outputbuf, outputbuf.readp, skip),
                !.last = IF skip = 0 THEN @
                         ELSE outputbuf.mem[(outputbuf.readp + skip - 1) % outputbuf.size],
                !.disturbed = @ \/ (skip > 0 /\ output.fade # "INACTIVE")]
          /\ WillPlay(BufUsed - skip)

\* Skip ahead: consume outputbuf but play nothing.
EnterSkip ==
    /\ output.state = "SKIP_FRAMES"
    /\ LET skip == LesserOf(BufUsed, output.count) IN
          /\ outputbuf' = [outputbuf EXCEPT !.readp = IncPtr(@, skip, outputbuf.size)]
          /\ output' = [output EXCEPT !.state = "RUNNING", !.frames_played = @ + skip]
          /\ heard' = [heard EXCEPT
                !.skipped = @ \cup RingRun(outputbuf, outputbuf.readp, skip),
                !.last = IF skip = 0 THEN @
                         ELSE outputbuf.mem[(outputbuf.readp + skip - 1) % outputbuf.size],
                !.disturbed = @ \/ (skip > 0 /\ output.fade # "INACTIVE")]
          /\ WillPlay(BufUsed - skip)

\* Pause: play silence for the required frames.
EnterPause ==
    /\ output.state = "PAUSE_FRAMES" /\ output.count > 0
    /\ WillHush(output.count)
    /\ output' = [output EXCEPT !.count = @ - cb'.frames]
    /\ UNCHANGED <<outputbuf, heard>>

EnterPauseOver ==
    /\ output.state = "PAUSE_FRAMES" /\ output.count = 0
    /\ WillPlay(BufUsed)
    /\ output' = [output EXCEPT !.state = "RUNNING"]
    /\ UNCHANGED <<outputbuf, heard>>

\* Start at: silence until the clock has got there, which it may have.
EnterStartAt ==
    /\ output.state = "START_AT"
    /\ UNCHANGED <<outputbuf, heard>>
    /\ \/ WillPlay(BufUsed) /\ output' = [output EXCEPT !.state = "RUNNING"]
       \/ WillHush(MaxSilence) /\ UNCHANGED output

RenderEnter ==
    /\ cb.pc = "enter"
    /\ UNCHANGED src
    /\ EnterStopped \/ EnterRunning \/ EnterSkip \/ EnterPause \/ EnterPauseOver \/ EnterStartAt

\* _output_frames returns n frames; ca_render calls it again while it gets
\* some and wants more, then zero-fills the rest.
Return(n) ==
    LET left == cb.remaining - n IN
    cb' = IF left > 0 /\ n > 0
          THEN [Idle EXCEPT !.pc = "enter", !.remaining = left]
          ELSE Idle

\* The loop wrote k frames to the device.
Wrote(k) ==
    IF k > 0 /\ k < cb.size THEN cb' = [cb EXCEPT !.size = @ - k]
    ELSE IF k = 0 THEN Return(cb.frames - cb.size) ELSE Return(cb.frames)

\* One pass of the loop that plays silence.
LoopSilence ==
    /\ cb.silence
    /\ Wrote(cb.size)
    /\ heard' = [heard EXCEPT !.quiet = LesserOf(@ + cb.size, HalfDelay)]
    /\ UNCHANGED <<outputbuf, output>>

AtTrackStart == ~cb.silence /\ output.track_start = outputbuf.readp
NeedsDelay   == HalfDelay > 0 /\ output.format # output.next_format

\* The track start is reached, but the format differs: first play the first
\* half of the delay.
LoopDelay ==
    /\ AtTrackStart /\ NeedsDelay /\ ~output.delay_active
    /\ output' = [output EXCEPT !.state = "PAUSE_FRAMES", !.count = HalfDelay, !.delay_active = TRUE]
    /\ Return(cb.frames - cb.size)
    /\ UNCHANGED <<outputbuf, heard>>

\* The track start is reached: the new track is announced to the controller.
LoopTrackStart ==
    /\ AtTrackStart /\ (NeedsDelay => output.delay_active)
    /\ output' =
         LET o == [output EXCEPT !.frames_played = 0, !.track_started = TRUE,
                                 !.format = output.next_format, !.track_start = Null]
         IN  IF NeedsDelay
             THEN [o EXCEPT !.state = "PAUSE_FRAMES", !.count = HalfDelay, !.delay_active = FALSE]
             ELSE o
    /\ heard' = [heard EXCEPT !.announced = @ \cup {src.track},
                              !.abrupt = @ \/ (NeedsDelay /\ heard.quiet < HalfDelay)]
    /\ Return(cb.frames - cb.size)
    /\ UNCHANGED outputbuf

Before(f, g) == f[1] < g[1] \/ (f[1] = g[1] /\ f[2] < g[2])

\* Hand the device the next frames of buffer b, at most cont of them.
Play(b, o, cont, mixed, dropped) ==
    LET k   == LesserOf(cb.size, cont)
        run == CopyRun(b, b.readp, k)
        prev(j) == IF j = 1 THEN heard.last ELSE run[j - 1]
    IN  /\ outputbuf' = [b EXCEPT !.readp = IncPtr(@, k, b.size)]
        /\ output' = [o EXCEPT !.frames_played = @ + k]
        /\ heard' = [heard EXCEPT
              !.garbage = @ \/ \E j \in 1 .. k : run[j] = Junk \/ ~Before(prev(j), run[j]),
              !.last    = IF k = 0 THEN @ ELSE run[k],
              !.played  = @ \cup {run[j] : j \in 1 .. k},
              !.mixed   = @ \cup mixed, !.dropped = @ \cup dropped,
              !.quiet   = IF k = 0 THEN @ ELSE 0,
              !.overrun = @ \/ (dropped # {} /\ k > ContRead(b.readp, b.writep, b.size)),
              !.disturbed = @ \/ (dropped # {} /\ o.fade_dir # "CROSS")]
        /\ Wrote(k)

\* Faulty variant: the piece is not cut at the track start.
PieceAcross == BufContRead

\* What can be played in one piece: up to wrap, and up to the next track start.
Piece == IF output.track_start \in Int /\ LiesAhead(output.track_start)
         THEN LesserOf(BufContRead, UpTo(output.track_start))
         ELSE BufContRead

\* Faulty variant: the piece is not cut.
CutAtNothing(p) == Piece

\* The piece, cut at p if p lies ahead.
CutAt(p) == IF LiesAhead(p) THEN LesserOf(Piece, UpTo(p)) ELSE Piece

FadeLive == \/ output.fade = "ACTIVE"
            \/ output.fade = "DUE" /\ output.fade_start = outputbuf.readp
FadeCur  == Ahead(output.fade_start, outputbuf.readp)
FadeDur  == Ahead(output.fade_start, output.fade_end)

FadeOff(o) == [o EXCEPT !.fade = "INACTIVE"]
FadeOn(o)  == [o EXCEPT !.fade = "ACTIVE"]

\* No fade, or it starts later.
PlayPlain ==
    /\ ~FadeLive
    /\ Play(outputbuf, output,
            IF output.fade = "DUE" THEN CutAt(output.fade_start) ELSE Piece, {}, {})

\* Inside a fade in or out, which only changes the gain.
PlayFade ==
    /\ FadeLive /\ FadeCur < FadeDur /\ output.fade_dir # "CROSS"
    /\ Play(outputbuf, FadeOn(output), CutAt(output.fade_end), {}, {})

\* Faulty variant: one frame too few is enough to mix in.
PlayCrossShort ==
    /\ FadeLive /\ FadeCur < FadeDur /\ output.fade_dir = "CROSS"
    /\ LET cut == CutAt(output.fade_end) IN
       IF BufUsed >= FadeDur
       THEN Play(outputbuf, FadeOn(output), cut,
                 RingRun(outputbuf, output.fade_end + FadeCur, LesserOf(cb.size, cut)), {})
       ELSE Play(outputbuf, FadeOff(output), cut, {}, {})

\* Faulty variant: a crossfade that lacks frames is not given up.
PlayCrossGoesOn ==
    /\ FadeLive /\ FadeCur < FadeDur /\ output.fade_dir = "CROSS"
    /\ LET cut == CutAt(output.fade_end) IN
       IF BufUsed > FadeDur + cb.size
       THEN Play(outputbuf, FadeOn(output), cut,
                 RingRun(outputbuf, output.fade_end + FadeCur, LesserOf(cb.size, cut)), {})
       ELSE Play(outputbuf, FadeOn(output), cut, {}, {})

\* Inside a crossfade: mix in the frames that lie beyond the fade, if enough
\* of them are there; give the crossfade up otherwise.
PlayCross ==
    /\ FadeLive /\ FadeCur < FadeDur /\ output.fade_dir = "CROSS"
    /\ LET cut == CutAt(output.fade_end) IN
       IF BufUsed > FadeDur + cb.size
       THEN Play(outputbuf, FadeOn(output), cut,
                 RingRun(outputbuf, output.fade_end + FadeCur, LesserOf(cb.size, cut)), {})
       ELSE Play(outputbuf, FadeOff(output), cut, {}, {})

\* A fade out of FADE_INOUT is over: fade in for as long.
PlayTurn ==
    /\ FadeLive /\ FadeCur >= FadeDur /\ output.fade_mode = "INOUT" /\ output.fade_dir = "DOWN"
    /\ LET end == Wrapped(outputbuf.readp + FadeDur, outputbuf.size)
           o   == [FadeOn(output) EXCEPT !.fade_dir = "UP", !.fade_start = outputbuf.readp,
                                         !.fade_end = end]
       IN  Play(outputbuf, o, IF FadeDur > 0 THEN CutAt(end) ELSE Piece, {}, {})

\* A crossfade is over: skip the start of the new track, which was mixed in.
\* The piece was measured before the skip.
PlayCrossDone ==
    /\ FadeLive /\ FadeCur >= FadeDur /\ output.fade_mode = "CROSSFADE"
    /\ IF BufUsed >= FadeDur
       THEN Play([outputbuf EXCEPT !.readp = IncPtr(@, FadeDur, outputbuf.size)], FadeOff(output),
                 Piece, {}, RingRun(outputbuf, outputbuf.readp, FadeDur))
       ELSE Play(outputbuf, FadeOff(output), Piece, {}, {})

\* Any other fade is over.
PlayFadeDone ==
    /\ FadeLive /\ FadeCur >= FadeDur /\ output.fade_mode # "CROSSFADE"
    /\ ~(output.fade_mode = "INOUT" /\ output.fade_dir = "DOWN")
    /\ Play(outputbuf, FadeOff(output), Piece, {}, {})

LoopPlay ==
    /\ ~cb.silence /\ ~AtTrackStart
    /\ PlayPlain \/ PlayFade \/ PlayCross \/ PlayTurn \/ PlayCrossDone \/ PlayFadeDone

RenderLoop ==
    /\ cb.pc = "loop"
    /\ UNCHANGED src
    /\ LoopSilence \/ LoopDelay \/ LoopTrackStart \/ LoopPlay

Render == RenderBegin \/ RenderEnter \/ RenderLoop
-----------------------------------------------------------------------------
(* The streaming side.  The server sends strm s for the next track once    *)
(* the last one is decoded and its start was reported (external: LMS).     *)

StrmS == \E mode \in FadeModes :
    /\ Unlocked /\ ~Busy /\ src.phase = "idle" /\ src.told /\ src.track < Tracks
    /\ src' = [track |-> src.track + 1, pos |-> 0, phase |-> "ready", start |-> FALSE,
               told |-> FALSE, sentSTMu |-> FALSE]
    /\ output' = [output EXCEPT !.fade_mode = mode]
    /\ UNCHANGED <<outputbuf, cb, heard>>

\* The codec decodes k more frames of the track into buffer b.
Filled(b, k) ==
    [b EXCEPT !.mem = [i \in DOMAIN @ |-> IF i >= b.writep /\ i < b.writep + k
                                          THEN <<src.track, src.pos + i - b.writep + 1>> ELSE @[i]],
              !.writep = IncPtr(@, k, b.size)]

\* What becomes of output and outputbuf at the start of a track: _checkfade
\* may schedule a fade, but not if the track holds DoP (_pcm_decode).
Starts(o) ==
    {[o |-> FadeOff(o), b |-> outputbuf]}
    \cup (IF o.fade_mode # "NONE" THEN CheckFadeStart(o, outputbuf) ELSE {[o |-> o, b |-> outputbuf]})

\* The codec's first call marks the track start and may decode frames at once.
TrackStart == \E f \in Formats, k \in 0 .. LesserOf(BufWritable, TrackLen) :
    /\ Unlocked /\ src.phase = "open"
    /\ LET o == [output EXCEPT !.track_start = outputbuf.writep, !.next_format = f] IN
       \E c \in Starts(o) : output' = c.o /\ outputbuf' = Filled(c.b, k)
    /\ src' = [src EXCEPT !.phase = "run", !.pos = k]
    /\ UNCHANGED <<cb, heard>>

\* Its later calls only decode.
Decode == \E k \in 1 .. LesserOf(BufWritable, TrackLen - src.pos) :
    /\ Unlocked /\ src.phase = "run"
    /\ outputbuf' = Filled(outputbuf, k)
    /\ src' = [src EXCEPT !.pos = @ + k]
    /\ UNCHANGED <<output, cb, heard>>

\* The decode thread sees the end of the stream, which may come early.
DecodeEnd ==
    /\ Unlocked /\ src.phase = "run"
    /\ output' = IF output.fade_mode # "NONE" THEN CheckFadeEnd(output, outputbuf) ELSE output
    /\ src' = [src EXCEPT !.phase = "idle"]
    /\ UNCHANGED <<outputbuf, cb, heard>>
-----------------------------------------------------------------------------
(* The controller's critical sections on the outputbuf mutex.              *)

\* The periodic pass of slimproto_run, under the decoder's mutex: start a
\* decoder that is ready, and with autostart the output too.
StartDecoder == \E autostart \in BOOLEAN :
    /\ ~Busy /\ src.phase = "ready"
    /\ src' = [src EXCEPT !.phase = "open", !.start = autostart]
    /\ UNCHANGED <<outputbuf, output, cb, heard>>

\* The same pass under the outputbuf mutex: start the output, pass on a track
\* start, and stop an output that has run dry.  LMS is told of the start of
\* the track it sent last.
ControllerPass ==
    LET state1 == IF src.start /\ output.state = "STOPPED" THEN "BUFFER" ELSE output.state
        dry    == state1 = "RUNNING" /\ ~src.sentSTMu /\ BufUsed = 0 /\ src.phase = "idle"
        begun  == output.track_started /\ src.track \in heard.announced
    IN
    /\ Unlocked /\ src.phase # "flushing"
    /\ output' = [output EXCEPT !.track_started = FALSE, !.state = IF dry THEN "STOPPED" ELSE state1]
    /\ src' = [src EXCEPT !.start = FALSE, !.told = @ \/ begun, !.sentSTMu = @ \/ dry]
    /\ UNCHANGED <<outputbuf, cb, heard>>

\* strm q: decode_flush, then output_flush, whose two sections the callback
\* may come between.
StrmQ ==
    /\ "q" \in Commands /\ Unlocked /\ ~Busy
    /\ outputbuf' = [outputbuf EXCEPT !.readp = 0, !.writep = 0]
    /\ src' = [src EXCEPT !.phase = "flushing", !.told = TRUE]
    /\ UNCHANGED <<output, cb, heard>>

\* Faulty variant: a delay that has begun survives the flush.
OutputFlushKeepsDelay ==
    /\ src.phase = "flushing" /\ Unlocked
    /\ \E f \in Formats :
         output' = [output EXCEPT !.fade = "INACTIVE", !.state = "STOPPED",
                                  !.frames_played = 0, !.format = f]
    /\ src' = [src EXCEPT !.phase = "idle"]
    /\ heard' = [heard EXCEPT !.last = <<src.track + 1, 0>>]
    /\ UNCHANGED <<outputbuf, cb>>

\* The rate becomes the default again if the device could not be opened.  (An
\* output that is off stays off: CoreAudio.)
OutputFlush ==
    /\ src.phase = "flushing" /\ Unlocked
    /\ \E f \in Formats :
         output' = [output EXCEPT !.fade = "INACTIVE", !.state = "STOPPED", !.delay_active = FALSE,
                                  !.frames_played = 0, !.format = f]
    /\ src' = [src EXCEPT !.phase = "idle"]
    /\ heard' = [heard EXCEPT !.last = <<src.track + 1, 0>>]
    /\ UNCHANGED <<outputbuf, cb>>

\* What was written from the track start on is taken back.
TakenBack(b) == IF output.track_start \in Nat THEN [b EXCEPT !.writep = output.track_start] ELSE b

\* strm f: decode_flush, then output_flush_streaming.  It spoils the buffer if
\* the track start is in a freed block or inside a frame.
StrmF ==
    /\ "f" \in Commands /\ Unlocked /\ ~Busy
    /\ outputbuf' = TakenBack(outputbuf)
    /\ output' = [output EXCEPT !.track_start = Null]
    /\ heard' = [heard EXCEPT !.garbage = @ \/ output.track_start \notin Nat \cup {Null}]
    /\ src' = [src EXCEPT !.phase = "idle", !.told = TRUE]
    /\ UNCHANGED cb

\* strm p, a and u: they only set the state and the union of pause_frames,
\* skip_frames and start_at.
SetState(command, state, counts) ==
    /\ command \in Commands /\ Unlocked /\ ~Busy
    /\ \E n \in counts : output' = [output EXCEPT !.state = state, !.count = n]
    /\ UNCHANGED <<outputbuf, cb, src, heard>>

StrmP     == SetState("p", "STOPPED", {0})
StrmPause == SetState("pause", "PAUSE_FRAMES", Counts \ {0})
StrmA     == SetState("a", "SKIP_FRAMES", Counts)
StrmU     == SetState("u", "RUNNING", {0})
StrmAt    == SetState("at", "START_AT", {0})

Controller == StartDecoder \/ ControllerPass \/ StrmQ \/ OutputFlush \/ StrmF \/ StrmP \/ StrmPause \/ StrmA \/ StrmU \/ StrmAt

Next == Render \/ StrmS \/ TrackStart \/ Decode \/ DecodeEnd \/ Controller

Spec == Init /\ [][Next]_vars

(* A server that is not in the way.  The code leaves each of these to it:  *)
(* README.md shows what happens without.                                   *)

StateCommand == StrmP \/ StrmPause \/ StrmA \/ StrmU \/ StrmAt

\* It sends nothing during the first half of a delay, which is kept in the
\* state that the commands overwrite, but strm q, which resets it.
NotInDelay == output.delay_active => ~StateCommand /\ ~StrmF

\* It does not skip while the start of the next track is in the buffer.
NotOverStart == (output.state = "SKIP_FRAMES" => output.track_start = Null)'

\* Between strm q and the next track's start it sends no strm f, which would
\* take back to the start of a track that was flushed.
NotTwice == StrmF => output.track_start = Null \/ BufUsed > 0

NextConsiderate == Next /\ NotInDelay /\ NotOverStart /\ NotTwice

ConsiderateSpec == Init /\ [][NextConsiderate]_vars
-----------------------------------------------------------------------------
States == {"STOPPED", "BUFFER", "RUNNING", "PAUSE_FRAMES", "SKIP_FRAMES", "START_AT"}

\* Pointers stay inside the ring, whichever of callback, decoder and
\* controller moved them last, and the states are those of output_state.
TypeOK ==
    /\ outputbuf.size \in {BufFrames, CrossFrames}
    /\ outputbuf.readp \in 0 .. outputbuf.size - 1
    /\ outputbuf.writep \in 0 .. outputbuf.size - 1
    /\ DOMAIN outputbuf.mem = 0 .. outputbuf.size - 1
    /\ output.state \in States
    /\ output.count \in Nat
    /\ output.track_start \in Int => FrameOf(output.track_start) \in 0 .. outputbuf.size - 1
    /\ output.track_start \in Int \cup {Null, Dangling}
    /\ output.fade \in {"INACTIVE", "DUE", "ACTIVE"}
    /\ cb.pc \in {"idle", "enter", "loop"}
    /\ cb.size <= cb.frames /\ cb.frames <= cb.remaining
    /\ cb.pc = "loop" => cb.size > 0

\* The device is only ever handed the next unread frame: nothing stale,
\* nothing twice, nothing from beyond the buffer, where the pointers stay.  A
\* flush (strm q, f) that moves them under a callback's back would show here.
\* Except after the end of a crossfade, when the piece that was measured before
\* the skip was longer than what the skip left (heard.overrun).
NoGarbage == TypeOK /\ (heard.garbage => heard.overrun)

\* Inside a track no frame is left out, unless the server asked to skip it
\* or a crossfade mixed it in beforehand (_output_frames, "crossfade
\* complete").
NoGap == \A f \in heard.played \ {Junk} :
    f[2] > 1 => <<f[1], f[2] - 1>> \in heard.played \cup heard.skipped
                                       \cup (heard.dropped \cap heard.mixed)

\* A fade that has begun is left at its end: the pieces are cut so that "we
\* get to end of fade at start of chunk" (_output_frames), also when the
\* fade was scheduled late, around the wrap or beside a track start.  (A skip
\* may pass the end, and a fade of no frames is left late: neither is heard.)
FadeOnTime ==
    Unlocked /\ src.phase # "flushing" /\ output.fade = "ACTIVE" /\ heard.skipped = {}
      => FadeCur <= FadeDur \/ FadeDur = 0

\* What the end of a crossfade skips was mixed in before ("skipped
\* crossfaded start", _output_frames).
DroppedWereMixed == heard.dropped \subseteq heard.mixed

\* A crossfade, to its end or given up, costs no track a frame that was not
\* mixed in (_output_frames), whatever the server does meanwhile.  Except after
\* a piece measured before the skip (heard.overrun); and where a skip falls
\* into the fade, or another fade is at its end once the server asked for a
\* crossfade, which then skips frames that it did not mix in (heard.disturbed).
CrossfadeKeeps == heard.overrun \/ heard.disturbed \/ (DroppedWereMixed /\ NoGap)

\* No frame of a track is heard before the track's start was recognised,
\* which is what sends STMs, switches the rate and resets the position: "so
\* we find the next track start at beginning of next chunk" (_output_frames).
PlayedWereAnnounced == \A f \in heard.played \ {Junk} : f[1] \in heard.announced

\* The callback that has music for the device hands it some, or is at the start
\* of a track, which it never passes by unseen: "so we find the next track start
\* at beginning of next chunk" (_output_frames).  It is not true of the code:
\* track_start may be moved back by a length that ends inside a frame (CheckFadeSt).
StartIsFound == cb.pc = "loop" /\ ~cb.silence /\ ~AtTrackStart => Piece > 0

\* The format never changes without the first half of the delay before it:
\* "add silence delay in two halves, before and after track start on rate or
\* pcm-dop change" (_output_frames).
NoAbruptSwitch == ~heard.abrupt

\* frames_played, which LMS is told as the elapsed time, is the position in
\* the track heard, through pauses, skips and delays.
PositionTrue ==
    Unlocked /\ heard.announced # {} /\ (\A t \in heard.announced : t <= heard.last[1])
             /\ heard.last[1] \in heard.announced
      => output.frames_played = heard.last[2]

\* What is told of the track heard is true: that it has begun, and where in it
\* the device is.  (Not so with a crossfade, whose resize loses track_start:
\* MCOutResize.)
TrackIsTrue == output.fade_mode # "CROSSFADE" => PlayedWereAnnounced /\ PositionTrue
=============================================================================
