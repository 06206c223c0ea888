---- MODULE Decoder ----
(***************************************************************************)
(* The decode thread of squeezelite (decode.c) with the processing between *)
(* a codec and the output buffer (process.c, resample.c).                  *)
(*                                                                         *)
(* A track is a sequence of items: tags, headers, packets of sound.  An    *)
(* item has a length in units of the stream buffer and decodes to n        *)
(* frames; the frames of track t are <<t, 1>>, <<t, 2>>, ...  Samples,     *)
(* rates and channels are data: resampling is one frame out for each frame *)
(* in, with Latency frames held back until the drain.                      *)
(*                                                                         *)
(* The modules LibCodecs and FileCodecs say what codec->decode() does; all *)
(* of them run here, with the decode mutex held while pc is not "idle".    *)
(***************************************************************************)
EXTENDS Naturals, Sequences, FiniteSetsExt, SequencesExt

CONSTANTS
    Playlists,  \* sequences of tracks the server may send
    SCap,       \* units in the stream buffer
    OCap,       \* frames in the output buffer
    MinRead,    \* codec->min_read_bytes, in units
    Threshold,  \* stream.threshold, in units
    MinSpace,   \* codec->min_space, in frames; also the frames of the process buffers
    Latency,    \* frames the resampler holds back
    Patience,   \* waits of _write_samples
    Period,     \* frames the device plays during one of them
    MaxPauses   \* pauses in a behaviour

VARIABLES
    playlist, turn,             \* the tracks and which one is open
    sent, live,                 \* units received, and stream.state > DISCONNECT
    taken,                      \* streambuf->readp, counted from the start of the track
    state, newStream, direct,   \* struct decodestate
    pc,                         \* where the decode thread is while it holds the mutex
    lib,                        \* the private state of the codec and its library
    work,                       \* struct processstate, and what the resampler holds
    out, heard,                 \* outputbuf: all that was written, and how much was played
    paused, pauses,
    start,                      \* output.track_start of each track, as a length of out
    lost,                       \* frames given up, by _write_samples or as spoilt or padding
    verdict                     \* how each track ended

streamVars == <<playlist, turn, sent, live>>
playVars == <<heard, paused, pauses>>
decodeVars == <<taken, state, newStream, direct, pc, lib, work, out, start, lost>>
vars == <<streamVars, playVars, decodeVars, verdict>>

Cur == playlist[turn]
Least(a, b) == IF a < b THEN a ELSE b

\* Where the items 1..k of the open track end, and how many frames they decode to.
End(k) == FoldLeft(LAMBDA s, i : s + i.len, 0, SubSeq(Cur.items, 1, k))
Before(k) == FoldLeft(LAMBDA s, i : s + i.n, 0, SubSeq(Cur.items, 1, k))
Frames(a, b) == [i \in 1..(b - a) |-> <<turn, a + i>>]
AllItems == Len(Cur.items)

Used == sent - taken
Item == Cur.items[lib.done + 1]
More == lib.done < AllItems
Sound == Frames(Before(lib.done), Before(lib.done + 1))
ContRead == Least(Used, SCap - ((taken + lib.base) % SCap))
Ended == ~live
Room == OCap - (Len(out) - heard)
ContRoom == Least(Room, OCap - (Len(out) % OCap))

NoWork == [in |-> <<>>, held |-> <<>>, out |-> <<>>, waits |-> 0]

(* The codec's private state as its open leaves it; every codec uses some of the fields.    *)
(* done: items it is through with; part: frames of the next one already handed out;        *)
(* eat: units to pass over; skip, left, pad: frames to drop, to play, to cut (gapless).     *)
Opened(track) ==
    [done |-> 0, part |-> 0, eat |-> 0, tags |-> 1, skip |-> track.open, left |-> 0, pad |-> 0,
     limit |-> FALSE, eos |-> FALSE, empty |-> FALSE, base |-> 0]

Init ==
    /\ playlist \in Playlists /\ turn = 1
    /\ sent = 0 /\ live = TRUE /\ taken = 0
    /\ state = "READY" /\ newStream = TRUE /\ direct = TRUE /\ pc = "idle"
    /\ lib = Opened(playlist[1]) /\ work = NoWork
    /\ out = <<>> /\ heard = 0 /\ paused = FALSE /\ pauses = 0
    /\ start = <<>> /\ lost = {} /\ verdict = <<>>

----------------------------------------------------------------------------
(* The stream thread, the output callback and the controller.  *)

Feed ==
    /\ live /\ sent < Cur.cut /\ Used < SCap /\ pc # "parse"
    /\ sent' = sent + 1
    /\ UNCHANGED <<playlist, turn, live, playVars, decodeVars, verdict>>

\* The stream ends, at its end or before it when the connection is lost (cut).
StreamEnd ==
    /\ live /\ sent = Cur.cut /\ pc # "parse"
    /\ live' = FALSE
    /\ UNCHANGED <<playlist, turn, sent, playVars, decodeVars, verdict>>

Play ==
    /\ ~paused /\ heard < Len(out)
    /\ heard' = heard + 1
    /\ UNCHANGED <<streamVars, paused, pauses, decodeVars, verdict>>

Pause ==
    /\ ~paused /\ pauses < MaxPauses
    /\ paused' = TRUE /\ pauses' = pauses + 1
    /\ UNCHANGED <<streamVars, heard, decodeVars, verdict>>

Unpause ==
    /\ paused /\ paused' = FALSE
    /\ UNCHANGED <<streamVars, heard, pauses, decodeVars, verdict>>

\* The stream has reached its threshold, or has ended.
StartDecoder ==
    /\ sent > Threshold \/ Ended
    /\ pc = "idle" /\ state = "READY" /\ state' = "RUNNING"
    /\ UNCHANGED <<streamVars, playVars, taken, newStream, direct, pc, lib, work, out, start, lost, verdict>>

\* The controller takes note of the end of a track and closes a stream that goes on.
Collect ==
    /\ pc = "idle" /\ state \in {"COMPLETE", "ERROR"}
    /\ verdict' = Append(verdict, state)
    /\ state' = "STOPPED" /\ live' = FALSE
    /\ UNCHANGED <<playlist, turn, sent, playVars, taken, newStream, direct, pc, lib, work, out, start, lost>>

\* Faulty variant: the new codec is opened without a new stream.
CodecOpenSame ==
    /\ turn' = turn + 1
    /\ sent' = 0 /\ taken' = 0 /\ live' = TRUE
    /\ newStream' = newStream /\ direct' = TRUE /\ state' = "READY"
    /\ lib' = Opened(playlist[turn'])
    /\ UNCHANGED <<playlist, pc>>

\* codec_open and the flush of the stream buffer that comes with a new stream.
CodecOpen ==
    /\ turn' = turn + 1
    /\ sent' = 0 /\ taken' = 0 /\ live' = TRUE
    /\ newStream' = TRUE /\ direct' = TRUE /\ state' = "READY"
    /\ lib' = Opened(playlist[turn'])
    /\ UNCHANGED <<playlist, pc>>

\* process_flush: what was to be processed and what the resampler holds is given up.
ProcessFlush == work' = IF direct THEN work ELSE [work EXCEPT !.in = <<>>, !.held = <<>>]

NextTrack ==
    /\ pc = "idle" /\ state = "STOPPED" /\ turn < Len(playlist)
    /\ CodecOpen
    /\ UNCHANGED <<playVars, work, out, start, lost, verdict>>

\* strm q and a new track: decode_flush with process_flush, output_flush, codec_open.
SkipTrack ==
    /\ pc = "idle" /\ turn < Len(playlist) /\ state # "STOPPED"
    /\ verdict' = Append(verdict, "FLUSHED")
    /\ ProcessFlush
    /\ out' = <<>> /\ heard' = 0
    /\ start' = [t \in 1..Len(start) |-> 0]
    /\ CodecOpen
    /\ UNCHANGED <<paused, pauses, lost>>

----------------------------------------------------------------------------
(* A pass of the decode thread. *)

\* Faulty variant: a stream that has ended gets no pass for its last bytes.
MayRunFull ==
    /\ pc = "idle" /\ state = "RUNNING"
    /\ Room > MinSpace /\ Used > MinRead

MayRun ==
    /\ pc = "idle" /\ state = "RUNNING"
    /\ Room > MinSpace
    /\ Used > MinRead \/ Ended

Begins(codec) == MayRun /\ Cur.codec = codec
In(codec, at) == pc = at /\ Cur.codec = codec

\* The frames fs go into the output buffer, or into process.inbuf: over, or after, what is there.
Fresh == IF newStream THEN NoWork ELSE work
Hand(fs) ==
    /\ out' = IF direct' THEN out \o fs ELSE out
    /\ work' = IF direct' THEN Fresh ELSE [Fresh EXCEPT !.in = fs]
HandAfter(fs) ==
    /\ out' = IF direct' THEN out \o fs ELSE out
    /\ work' = IF direct' THEN Fresh ELSE [Fresh EXCEPT !.in = @ \o fs]

\* The codec returns s: what is to be processed is, and the end of the track is drained.
Return(s) ==
    /\ state' = s
    /\ pc' = CASE direct' -> "idle"
               [] ~direct' /\ work'.in # <<>> -> "run"
               [] ~direct' /\ work'.in = <<>> /\ s = "COMPLETE" -> "drain"
               [] OTHER -> "idle"

\* decode_newstream, with track_start: process_newstream decides how the track is processed.
NewStream ==
    /\ newStream' = FALSE
    /\ direct' = (Cur.proc = "none")
    /\ start' = [t \in 1..turn |-> IF t = turn THEN Len(out) ELSE IF t \in DOMAIN start THEN start[t] ELSE 0]

SameStream == UNCHANGED <<newStream, direct, start>>
PassUnchanged == UNCHANGED <<streamVars, playVars, lost, verdict>>

\* A step inside the codec that hands nothing over.
Inside == UNCHANGED <<state, newStream, direct, work, out, start>> /\ PassUnchanged

Held == IF Cur.proc = "resample" THEN Latency ELSE 0

RunSamples ==
    /\ pc = "run"
    /\ LET all == work.held \o work.in
           n == IF Len(all) > Held THEN Len(all) - Held ELSE 0
       IN work' = [in |-> <<>>, out |-> SubSeq(all, 1, n), held |-> SubSeq(all, n + 1, Len(all)), waits |-> 0]
    /\ pc' = "write"
    /\ PassUnchanged /\ SameStream /\ UNCHANGED <<taken, state, lib, out>>

AfterWrite == IF state = "COMPLETE" THEN "drain" ELSE "idle"

\* Faulty variant: what does not fit is written all the same.
WriteSamplesAll ==
    /\ pc = "write"
    /\ out' = out \o work.out /\ work' = [work EXCEPT !.out = <<>>]
    /\ pc' = AfterWrite
    /\ PassUnchanged /\ SameStream /\ UNCHANGED <<taken, state, lib>>

WriteSamples ==
    /\ pc = "write"
    /\ LET f == Least(Room, Len(work.out))
       IN /\ work.out = <<>> \/ f > 0
          /\ out' = out \o SubSeq(work.out, 1, f)
          /\ work' = [work EXCEPT !.out = SubSeq(work.out, f + 1, Len(work.out))]
          /\ pc' = IF f < Len(work.out) THEN "write" ELSE AfterWrite
    /\ PassUnchanged /\ SameStream /\ UNCHANGED <<taken, state, lib>>

\* Faulty variant: O is held during the wait, and the device cannot play.
WaitHolding ==
    /\ pc = "write" /\ work.out # <<>> /\ Room = 0 /\ work.waits < Patience
    /\ work' = [work EXCEPT !.waits = @ + 1]
    /\ PassUnchanged /\ SameStream /\ UNCHANGED <<taken, state, pc, lib, out>>

\* No room: release O for 10 ms, in which the device plays a period.
WaitForSpace ==
    /\ pc = "write" /\ work.out # <<>> /\ Room = 0 /\ work.waits < Patience
    /\ work' = [work EXCEPT !.waits = @ + 1]
    /\ heard' = IF paused THEN heard ELSE Least(heard + Period, Len(out))
    /\ SameStream
    /\ UNCHANGED <<streamVars, paused, pauses, taken, state, pc, lib, out, lost, verdict>>

BailOut ==
    /\ pc = "write" /\ work.out # <<>> /\ Room = 0 /\ work.waits = Patience
    /\ lost' = lost \cup ToSet(work.out)
    /\ work' = [work EXCEPT !.out = <<>>]
    /\ pc' = AfterWrite
    /\ SameStream
    /\ UNCHANGED <<streamVars, playVars, taken, state, lib, out, verdict>>

\* resample_drain: as much of what is held as the process buffer takes.
Drained ==
    LET n == Least(MinSpace, Len(work.held))
    IN [in |-> <<>>, out |-> SubSeq(work.held, 1, n), held |-> SubSeq(work.held, n + 1, Len(work.held)),
        waits |-> 0]

Drain ==
    /\ pc = "drain"
    /\ work' = Drained
    /\ pc' = IF work'.out = <<>> THEN "idle" ELSE "write"
    /\ PassUnchanged /\ SameStream /\ UNCHANGED <<taken, state, lib, out>>

Process == RunSamples \/ WriteSamples \/ WaitForSpace \/ BailOut \/ Drain
Around == Feed \/ StreamEnd \/ Play \/ Pause \/ Unpause \/ StartDecoder \/ Collect \/ NextTrack \/ SkipTrack
====
