------------------------- MODULE OutputFramesProofs -------------------------
(* Proofs about OutputFrames, for any tracks, sizes, formats, delays and    *)
(* commands: the pointers stay inside the ring, a change of format has its  *)
(* silence, and without crossfades the device is handed the next frame,     *)
(* what is told of it is true and fades end on time.                        *)
EXTENDS OutputFrames, TLAPS

(* The invariants, in parts.                                                *)

Frame == Nat \X Nat
Pointer == Int \cup {Null, Dangling}
Pcs == {"idle", "enter", "loop"}
Phases == {"idle", "ready", "open", "run", "flushing"}
Fades == {"INACTIVE", "DUE", "ACTIVE"}
Directions == {"UP", "DOWN", "CROSS"}
Modes == FadeModes \cup {"NONE"}

OutputRecord == [state : States, count : Nat, track_start : Pointer, track_started : BOOLEAN,
                 delay_active : BOOLEAN, format : Formats, next_format : Formats, frames_played : Nat,
                 fade : Fades, fade_mode : Modes, fade_dir : Directions, fade_start : Int, fade_end : Int]
CbRecord == [pc : Pcs, remaining : Nat, frames : Nat, size : Nat, silence : BOOLEAN]
SrcRecord == [track : Nat, pos : Nat, phase : Phases, start : BOOLEAN, told : BOOLEAN, sentSTMu : BOOLEAN]

RingRecord(n) ==
    [mem : [0 .. n - 1 -> Frame \cup {Junk}], readp : 0 .. n - 1, writep : 0 .. n - 1, size : {n}]
RingTyped(b) == b \in RingRecord(BufFrames) \/ b \in RingRecord(CrossFrames)
StartTyped(o, b) == o.track_start \in -b.size .. b.size - 1 \cup {Null, Dangling}
CbTyped ==
    /\ cb \in CbRecord /\ cb.size <= cb.frames /\ cb.frames <= cb.remaining
    /\ IF cb.pc = "loop" THEN cb.size > 0 ELSE cb.size = 0 /\ cb.frames = 0
    /\ cb.pc = "enter" => cb.remaining > 0

HeardTyped ==
    heard \in [last : {heard.last}, played : {heard.played}, mixed : {heard.mixed}, dropped : {heard.dropped},
               skipped : {heard.skipped}, announced : {heard.announced}, quiet : Nat, garbage : BOOLEAN,
               abrupt : BOOLEAN, overrun : BOOLEAN, disturbed : BOOLEAN]

Typed ==
    /\ HeardTyped
    /\ RingTyped(outputbuf) /\ output \in OutputRecord /\ StartTyped(output, outputbuf)
    /\ CbTyped /\ src \in SrcRecord

\* The callback moves music, or is about to.
Moving == cb.pc = "loop" /\ ~cb.silence
\* The start of the track streamed last lies ahead of the callback.
Awaited == ~src.told /\ src.phase \in {"run", "idle"} /\ src.track \notin heard.announced
\* The start of a track that was flushed is still in output.track_start.
Flushed == BufUsed = 0 /\ src.phase # "run" /\ ~Moving

StartInv ==
    /\ \A t \in heard.announced : t \in Nat /\ t <= src.track
    /\ src.phase \in {"ready", "open"} => ~src.told /\ src.track \notin heard.announced
    /\ src.phase = "flushing" => BufUsed = 0 /\ ~Moving
    /\ output.track_start \in Int => Flushed \/ Awaited

\* What is left of the silence before a change of format.
Pending == IF output.state = "PAUSE_FRAMES" THEN output.count ELSE 0
Silence == IF cb.pc = "loop" /\ cb.silence THEN cb.size ELSE 0

DelayInv ==
    /\ ~heard.abrupt
    /\ output.state = "SKIP_FRAMES" => output.track_start = Null
    /\ output.delay_active =>
         /\ heard.quiet + Pending + Silence >= HalfDelay
         /\ Moving => heard.quiet >= HalfDelay
         /\ src.phase # "flushing" => output.track_start = outputbuf.readp /\ Awaited /\ NeedsDelay

\* The i-th unread frame.
Unread(b, i) == b.mem[(b.readp + i - 1) % b.size]
UnreadLen(b) == Used(b.readp, b.writep, b.size)
\* The unread frames come in order, after the frame low and up to the frame high.
Queue(b, low, high) ==
    /\ \A i \in 1 .. UnreadLen(b) :
         Unread(b, i) \in Frame /\ Before(low, Unread(b, i)) /\ ~Before(high, Unread(b, i))
    /\ \A i, j \in 1 .. UnreadLen(b) : i < j => Before(Unread(b, i), Unread(b, j))
\* No frame after this one has been decoded.
Newest == IF src.phase \in {"idle", "flushing"} THEN <<src.track + 1, 0>> ELSE <<src.track, src.pos>>

NoCross ==
    /\ output.fade_mode # "CROSSFADE" /\ output.fade_dir # "CROSS"
    /\ output.track_start \in Nat \cup {Null}

QueueInv ==
    /\ ~heard.garbage /\ heard.last \in Frame /\ ~Before(Newest, heard.last)
    /\ Queue(outputbuf, heard.last, Newest)
    /\ src.phase \in {"ready", "open"} => src.pos = 0
    /\ output.track_start \in Int /\ ~Flushed =>
         Used(outputbuf.readp, output.track_start, outputbuf.size) <= BufUsed

\* The last frame heard, and the frames after it.
At(b, low, i) == IF i = 0 THEN low ELSE Unread(b, i)
\* Each frame is the next one of its track, or the first of another.
Chain(b, low) ==
    /\ \A i, j \in 0 .. UnreadLen(b) :
         i < j /\ At(b, low, i)[1] = At(b, low, j)[1] => At(b, low, j)[2] = At(b, low, i)[2] + (j - i)
    /\ \A i \in 1 .. UnreadLen(b) : At(b, low, i)[1] # At(b, low, i - 1)[1] => At(b, low, i)[2] = 1

\* What was decoded last of the track is the last unread frame.
LastDecoded(f) == f = <<src.track, src.pos>> \/ (f[1] < src.track /\ src.pos = 0)

ChainInv ==
    /\ Chain(outputbuf, heard.last)
    /\ src.phase \in {"ready", "open", "run"} => LastDecoded(At(outputbuf, heard.last, UnreadLen(outputbuf)))

\* How far ahead the start of the next track is.
StartsIn == Used(outputbuf.readp, output.track_start, outputbuf.size)

AnnounceInv ==
    /\ PlayedWereAnnounced
    /\ \A i \in 1 .. UnreadLen(outputbuf) :
         /\ IF output.track_start \in Int /\ i > StartsIn
            THEN Unread(outputbuf, i)[1] = src.track ELSE Unread(outputbuf, i)[1] \in heard.announced
         /\ \A t \in heard.announced : t <= Unread(outputbuf, i)[1]
    /\ src.phase = "run" => src.track \in heard.announced \/ output.track_start \in Int

PlaceInv ==
    /\ heard.last[1] \in heard.announced \/ heard.last[2] = 0
    /\ heard.last[1] \in heard.announced /\ (\A t \in heard.announced : t <= heard.last[1])
         => output.frames_played = heard.last[2]
    /\ (\E t \in heard.announced : t > heard.last[1]) => output.frames_played = 0

GapInv ==
    /\ heard.last[2] = 0 \/ heard.last \in heard.played \cup heard.skipped
    /\ \A f \in heard.played \ {Junk} : f[2] > 1 => <<f[1], f[2] - 1>> \in heard.played \cup heard.skipped
-----------------------------------------------------------------------------
(* Names, and the arithmetic of the ring.                                   *)

LEMMA Names ==
  /\ \A s \in {"STOPPED", "BUFFER", "RUNNING", "PAUSE_FRAMES", "SKIP_FRAMES", "START_AT"} : s \in States
  /\ \A p \in {"idle", "enter", "loop"} : p \in Pcs
  /\ \A p \in {"idle", "ready", "open", "run", "flushing"} : p \in Phases
  /\ \A f \in {"INACTIVE", "DUE", "ACTIVE"} : f \in Fades
  /\ \A d \in {"UP", "DOWN", "CROSS"} : d \in Directions
  /\ "NONE" \in Modes
  BY DEF States, Pcs, Phases, Fades, Directions, Modes

LEMMA ConstantsAre ==
  ASSUME OutputAssumption
  PROVE  /\ Tracks \in Nat /\ TrackLen \in Nat /\ BufFrames \in Nat \ {0, 1} /\ CrossFrames \in Nat \ {0, 1}
         /\ Wanted \subseteq Nat \ {0} /\ MaxSilence \in Nat \ {0} /\ Threshold \in Nat /\ HalfDelay \in Nat
         /\ FadeFrames \in Nat /\ Counts \subseteq Nat /\ Junk \notin Frame
         /\ Null \notin Int /\ Dangling \notin Int /\ Null # Dangling
  BY DEF OutputAssumption, Frame

\* A pointer increment that stays inside the block does not wrap.
LEMMA ModSmall == ASSUME NEW n \in Nat \ {0}, NEW x \in 0 .. n - 1
                  PROVE  x % n = x
  BY SMT

\* A sum of two offsets wraps at most once.
LEMMA ModOnce == ASSUME NEW n \in Nat \ {0}, NEW x \in n .. 2 * n - 1
                 PROVE  x % n = x - n
  BY SMT

LEMMA IncPtrIn ==
  ASSUME NEW n \in Nat \ {0}, NEW p \in Nat, NEW by \in Int
  PROVE  IncPtr(p, by, n) \in 0 .. n - 1
  <1>1. by % n \in 0 .. n - 1
    BY SMT
  <1>2. p + (by % n) \in Nat
    BY <1>1
  <1> QED BY <1>2, SMT DEF IncPtr

\* _buf_inc_readp and _buf_inc_writep by less than a whole block.
LEMMA IncPtrValue ==
  ASSUME NEW n \in Nat \ {0}, NEW p \in 0 .. n - 1, NEW by \in 0 .. n - 1
  PROVE  IncPtr(p, by, n) = IF p + by < n THEN p + by ELSE p + by - n
  <1>1. by % n = by
    BY ModSmall
  <1>2. CASE p + by < n
    BY <1>1, <1>2, ModSmall DEF IncPtr
  <1>3. CASE p + by >= n
    BY <1>1, <1>3, ModOnce DEF IncPtr
  <1> QED BY <1>2, <1>3

LEMMA RingIs ==
  ASSUME OutputAssumption, NEW b, RingTyped(b)
  PROVE  /\ b.size \in Nat \ {0, 1} /\ b.readp \in 0 .. b.size - 1 /\ b.writep \in 0 .. b.size - 1
         /\ b.mem \in [0 .. b.size - 1 -> Frame \cup {Junk}]
         /\ Used(b.readp, b.writep, b.size) \in 0 .. b.size - 1
         /\ Writable(b.readp, b.writep, b.size) \in 0 .. (b.size - 1 - Used(b.readp, b.writep, b.size))
         /\ b.writep + Writable(b.readp, b.writep, b.size) <= b.size
         /\ ContRead(b.readp, b.writep, b.size) \in 0 .. Used(b.readp, b.writep, b.size)
         /\ ContRead(b.readp, b.writep, b.size) <= b.size - b.readp
  <1>1. /\ b.size \in Nat \ {0, 1} /\ b.readp \in 0 .. b.size - 1 /\ b.writep \in 0 .. b.size - 1
        /\ b.mem \in [0 .. b.size - 1 -> Frame \cup {Junk}]
    BY ConstantsAre DEF RingTyped, RingRecord
  <1> DEFINE n == b.size r == b.readp w == b.writep
  <1>2. n \in Nat \ {0, 1} /\ r \in 0 .. n - 1 /\ w \in 0 .. n - 1
    BY <1>1
  <1> HIDE DEF n, r, w
  <1>3. /\ Used(r, w, n) \in 0 .. n - 1
        /\ Writable(r, w, n) \in 0 .. (n - 1 - Used(r, w, n)) /\ w + Writable(r, w, n) <= n
        /\ ContRead(r, w, n) \in 0 .. Used(r, w, n) /\ ContRead(r, w, n) <= n - r
    BY <1>2 DEF Used, Writable, Space, ContWrite, ContRead
  <1> QED BY <1>1, <1>3 DEF n, r, w

\* Moving the pointers of a ring inside its block.
LEMMA MovedIs ==
  ASSUME NEW b, RingTyped(b), NEW r \in 0 .. b.size - 1, NEW w \in 0 .. b.size - 1,
         NEW c, c = [b EXCEPT !.readp = r, !.writep = w]
  PROVE  RingTyped(c) /\ c.readp = r /\ c.writep = w /\ c.size = b.size /\ c.mem = b.mem
  <1>1. ASSUME NEW n, b \in RingRecord(n)
        PROVE  c \in RingRecord(n) /\ c.readp = r /\ c.writep = w /\ c.size = b.size /\ c.mem = b.mem
    BY <1>1 DEF RingRecord
  <1> QED BY <1>1 DEF RingTyped

LEMMA ReadpIs ==
  ASSUME OutputAssumption, NEW b, RingTyped(b), NEW k \in Int,
         NEW c, c = [b EXCEPT !.readp = IncPtr(b.readp, k, b.size)]
  PROVE  /\ RingTyped(c) /\ c.readp = IncPtr(b.readp, k, b.size) /\ c.writep = b.writep
         /\ c.size = b.size /\ c.mem = b.mem
  <1>1. b.size \in Nat \ {0} /\ b.readp \in Nat
    BY RingIs
  <1>2. PICK r \in 0 .. b.size - 1 : r = IncPtr(b.readp, k, b.size)
    BY <1>1, IncPtrIn
  <1>3. c = [b EXCEPT !.readp = r]
    BY <1>2
  <1>4. ASSUME NEW n, b \in RingRecord(n)
        PROVE  c \in RingRecord(n) /\ c.readp = r /\ c.writep = b.writep /\ c.size = b.size /\ c.mem = b.mem
    BY <1>3, <1>4 DEF RingRecord
  <1> QED BY <1>2, <1>4 DEF RingTyped

\* The callback's locals.
LEMMA ReturnIs ==
  ASSUME CbTyped, NEW n \in Nat, n <= cb.remaining, Return(n)
  PROVE  CbTyped' /\ cb'.pc # "loop"
  <1>1. cb.remaining - n \in Nat /\ cb.remaining \in Nat
    BY DEF CbTyped, CbRecord
  <1> DEFINE left == cb.remaining - n
  <1>2. CASE left > 0 /\ n > 0
    <2>1. cb' = [pc |-> "enter", remaining |-> left, frames |-> 0, size |-> 0, silence |-> TRUE]
      BY <1>2 DEF Return, Idle
    <2>2. left \in Nat /\ left > 0
      BY <1>1, <1>2
    <2> HIDE DEF left
    <2> QED BY <2>1, <2>2, Names DEF CbTyped, CbRecord
  <1>3. CASE ~(left > 0 /\ n > 0)
    <2>1. cb' = [pc |-> "idle", remaining |-> 0, frames |-> 0, size |-> 0, silence |-> TRUE]
      BY <1>3 DEF Return, Idle
    <2> QED BY <2>1, Names DEF CbTyped, CbRecord
  <1> QED BY <1>2, <1>3

LEMMA WroteIs ==
  ASSUME CbTyped, cb.pc = "loop", NEW k \in Nat, k <= cb.size, Wrote(k)
  PROVE  CbTyped' /\ (k = cb.size => cb'.pc # "loop") /\ (cb'.pc = "loop" => cb'.silence = cb.silence)
  <1>1. cb \in CbRecord /\ cb.size \in Nat /\ cb.frames \in Nat /\ cb.remaining \in Nat /\ cb.size > 0
        /\ cb.size <= cb.frames /\ cb.frames <= cb.remaining
    BY DEF CbTyped, CbRecord
  <1>2. CASE k > 0 /\ k < cb.size
    <2>1. PICK n \in Nat : n = cb.size - k /\ n > 0 /\ n <= cb.frames
      BY <1>1, <1>2
    <2>2. cb' = [cb EXCEPT !.size = n]
      BY <1>2, <2>1 DEF Wrote
    <2>3. cb' \in CbRecord /\ cb'.size = n /\ cb'.pc = "loop" /\ cb'.frames = cb.frames
          /\ cb'.remaining = cb.remaining /\ cb'.silence = cb.silence
      BY <1>1, <2>1, <2>2 DEF CbRecord
    <2> QED BY <1>1, <1>2, <2>1, <2>3 DEF CbTyped
  <1>3. CASE ~(k > 0 /\ k < cb.size)
    <2>1. Return(cb.frames - cb.size) \/ Return(cb.frames)
      BY <1>3 DEF Wrote
    <2> QED BY <1>1, <2>1, ReturnIs
  <1> QED BY <1>2, <1>3

LEMMA WillIs ==
  ASSUME CbTyped, cb.pc = "enter", NEW n \in Nat, n > 0, n <= cb.remaining, NEW s \in BOOLEAN,
         cb' = [cb EXCEPT !.pc = "loop", !.silence = s, !.frames = n, !.size = n]
  PROVE  CbTyped' /\ cb'.pc = "loop" /\ cb'.silence = s /\ cb'.size = n /\ cb'.frames = n
  <1>1. /\ cb' \in CbRecord /\ cb'.pc = "loop" /\ cb'.silence = s /\ cb'.size = n /\ cb'.frames = n
        /\ cb'.remaining = cb.remaining
    BY Names DEF CbTyped, CbRecord
  <1> QED BY <1>1 DEF CbTyped

LEMMA WillPlayIs ==
  ASSUME OutputAssumption, CbTyped, cb.pc = "enter", NEW avail \in Nat, WillPlay(avail)
  PROVE  CbTyped' /\ cb'.pc = "loop" /\ (cb'.silence <=> avail = 0)
  <1> DEFINE n == LesserOf(IF avail = 0 THEN MaxSilence ELSE avail, cb.remaining)
  <1>1. n \in Nat /\ n > 0 /\ n <= cb.remaining
    BY ConstantsAre DEF LesserOf, CbTyped, CbRecord
  <1>2. PICK s \in BOOLEAN : s = (avail = 0)
    OBVIOUS
  <1>3. cb' = [cb EXCEPT !.pc = "loop", !.silence = s, !.frames = n, !.size = n]
    BY <1>2 DEF WillPlay
  <1> HIDE DEF n
  <1> QED BY <1>1, <1>2, <1>3, WillIs

LEMMA WillHushIs ==
  ASSUME OutputAssumption, CbTyped, cb.pc = "enter", NEW n \in Nat, n > 0, WillHush(n)
  PROVE  /\ CbTyped' /\ cb'.pc = "loop" /\ cb'.silence /\ cb'.size = cb'.frames
         /\ cb'.frames \in Nat /\ cb'.frames <= n
  <1> DEFINE k == LesserOf(LesserOf(n, MaxSilence), cb.remaining)
  <1>1. k \in Nat /\ k > 0 /\ k <= cb.remaining /\ k <= n
    BY ConstantsAre DEF LesserOf, CbTyped, CbRecord
  <1>3. cb' = [cb EXCEPT !.pc = "loop", !.silence = TRUE, !.frames = k, !.size = k]
    BY DEF WillHush
  <1> HIDE DEF k
  <1> QED BY <1>1, <1>3, WillIs

LEMMA UsedAfterWrite ==
  ASSUME NEW n \in Nat \ {0}, NEW r \in 0 .. n - 1, NEW w \in 0 .. n - 1,
         NEW k \in 0 .. Writable(r, w, n)
  PROVE  /\ IncPtr(w, k, n) \in 0 .. n - 1
         /\ Used(r, IncPtr(w, k, n), n) = Used(r, w, n) + k
         /\ w + k <= n
  <1>1. k \in 0 .. n - 1 /\ k <= Space(r, w, n) /\ w + k <= n
    BY DEF Writable, Space, Used, ContWrite
  <1>2. IncPtr(w, k, n) = IF w + k < n THEN w + k ELSE w + k - n
    BY <1>1, IncPtrValue
  <1> QED BY <1>1, <1>2 DEF Used, Space

LEMMA UsedAfterRead ==
  ASSUME NEW n \in Nat \ {0}, NEW r \in 0 .. n - 1, NEW w \in 0 .. n - 1,
         NEW k \in 0 .. Used(r, w, n)
  PROVE  /\ IncPtr(r, k, n) \in 0 .. n - 1
         /\ Used(IncPtr(r, k, n), w, n) = Used(r, w, n) - k
  <1>1. k \in 0 .. n - 1
    BY DEF Used
  <1>2. IncPtr(r, k, n) = IF r + k < n THEN r + k ELSE r + k - n
    BY <1>1, IncPtrValue
  <1> QED BY <1>1, <1>2 DEF Used
-----------------------------------------------------------------------------
(* What the callback does.                                                  *)

LEMMA BeginIs ==
  ASSUME OutputAssumption, Typed, RenderBegin
  PROVE  /\ Typed' /\ cb.pc = "idle" /\ cb'.pc = "enter"
         /\ UNCHANGED <<outputbuf, output, src, heard>>
  <1>1. PICK wanted \in Wanted : cb' = [cb EXCEPT !.pc = "enter", !.remaining = wanted]
    BY DEF RenderBegin
  <1>2. cb.pc = "idle" /\ UNCHANGED <<outputbuf, output, src, heard>>
    BY DEF RenderBegin, Unlocked
  <1>3. wanted \in Nat /\ wanted > 0
    BY ConstantsAre
  <1>4. /\ cb' \in CbRecord /\ cb'.pc = "enter" /\ cb'.remaining = wanted
        /\ cb'.size = cb.size /\ cb'.frames = cb.frames
    BY <1>1, <1>3, Names DEF Typed, CbTyped, CbRecord
  <1>5. CbTyped'
    BY <1>2, <1>3, <1>4 DEF Typed, CbTyped
  <1> QED BY <1>2, <1>4, <1>5 DEF Typed, HeardTyped, StartTyped

\* The head of _output_frames.
EnterSame ==
    /\ outputbuf'.writep = outputbuf.writep /\ outputbuf'.size = outputbuf.size /\ outputbuf'.mem = outputbuf.mem
    /\ output'.track_start = output.track_start /\ output'.delay_active = output.delay_active
    /\ output'.format = output.format /\ output'.next_format = output.next_format
    /\ output'.fade_mode = output.fade_mode /\ output'.fade_dir = output.fade_dir
    /\ heard'.quiet = heard.quiet /\ heard'.announced = heard.announced
    /\ heard'.garbage = heard.garbage /\ heard'.abrupt = heard.abrupt
    /\ src' = src

\* The callback starts on silence or music, and skips n frames before.
EnterSkips(n) ==
    /\ n \in 0 .. BufUsed /\ outputbuf'.readp = IncPtr(outputbuf.readp, n, outputbuf.size)
    /\ n > 0 => output.state = "SKIP_FRAMES"
    /\ heard'.last = IF n = 0 THEN heard.last
                     ELSE outputbuf.mem[(outputbuf.readp + n - 1) % outputbuf.size]
    /\ heard'.played = heard.played /\ heard'.skipped = heard.skipped \cup RingRun(outputbuf, outputbuf.readp, n)
    /\ output'.frames_played = output.frames_played + n

EnterWaits ==
    /\ cb'.pc = "loop"
    /\ ~cb'.silence => BufUsed' > 0
    /\ Pending' + Silence' >= Pending
    /\ Moving' => Pending = 0
    /\ output'.state = "SKIP_FRAMES" => output.state = "SKIP_FRAMES"

\* The state of output changes, and its count.
LEMMA StateIs ==
  ASSUME output \in OutputRecord, NEW s \in States, NEW c \in Nat, NEW f \in Nat,
         output' = [output EXCEPT !.state = s, !.count = c, !.frames_played = f]
  PROVE  /\ output' \in OutputRecord /\ output'.state = s /\ output'.count = c /\ output'.frames_played = f
         /\ output'.track_start = output.track_start /\ output'.delay_active = output.delay_active
         /\ output'.format = output.format /\ output'.next_format = output.next_format
         /\ output'.fade_mode = output.fade_mode /\ output'.fade_dir = output.fade_dir
  BY DEF OutputRecord

LEMMA StayIs ==
  ASSUME OutputAssumption, Typed
  PROVE  /\ IncPtr(outputbuf.readp, 0, outputbuf.size) = outputbuf.readp /\ BufUsed \in Nat
         /\ outputbuf.size \in Nat \ {0} /\ outputbuf.readp \in 0 .. outputbuf.size - 1
         /\ output \in OutputRecord /\ output.count \in Nat /\ output.frames_played \in Nat
  <1>1. /\ outputbuf.size \in Nat \ {0} /\ outputbuf.readp \in 0 .. outputbuf.size - 1
        /\ BufUsed \in Nat
    BY RingIs DEF Typed, BufUsed
  <1>2. IncPtr(outputbuf.readp, 0, outputbuf.size) = outputbuf.readp
    BY <1>1, IncPtrValue
  <1>3. output \in OutputRecord
    BY DEF Typed
  <1>4. output.count \in Nat /\ output.frames_played \in Nat
    BY <1>3 DEF OutputRecord
  <1> QED BY <1>1, <1>2, <1>3, <1>4

LEMMA EnterIs ==
  ASSUME OutputAssumption, Typed, RenderEnter
  PROVE  Typed' /\ EnterSame /\ EnterWaits /\ (\E n \in Nat : EnterSkips(n))
  <1>0. cb.pc = "enter" /\ src' = src /\ CbTyped /\ Silence = 0 /\ ~Moving
    BY DEF RenderEnter, Typed, Silence, Moving
  <1>1. /\ IncPtr(outputbuf.readp, 0, outputbuf.size) = outputbuf.readp /\ BufUsed \in Nat
        /\ outputbuf.size \in Nat \ {0} /\ outputbuf.readp \in 0 .. outputbuf.size - 1
        /\ output \in OutputRecord /\ output.count \in Nat /\ output.frames_played \in Nat
        /\ MaxSilence \in Nat \ {0}
    BY StayIs, ConstantsAre
  <1>2. ASSUME CbTyped', UNCHANGED <<outputbuf, heard>>, EnterWaits,
               NEW s \in States, NEW c \in Nat, output' = [output EXCEPT !.state = s, !.count = c]
        PROVE  Typed' /\ EnterSame /\ (\E n \in Nat : EnterSkips(n))
    <2>5. /\ output' \in OutputRecord /\ output'.frames_played = output.frames_played
          /\ output'.track_start = output.track_start /\ output'.delay_active = output.delay_active
          /\ output'.format = output.format /\ output'.next_format = output.next_format
          /\ output'.fade_mode = output.fade_mode /\ output'.fade_dir = output.fade_dir
      BY <1>1, <1>2 DEF OutputRecord
    <2>1. RingRun(outputbuf, outputbuf.readp, 0) = {}
      BY DEF RingRun
    <2>6. heard' = heard /\ outputbuf' = outputbuf /\ output'.frames_played = output.frames_played + 0
      BY <1>1, <1>2, <2>5
    <2>2. EnterSkips(0)
      BY <1>1, <2>1, <2>6 DEF EnterSkips
    <2>3. EnterSame
      BY <1>0, <1>2, <2>5 DEF EnterSame
    <2>4. Typed'
      BY <1>0, <1>2, <2>5 DEF Typed, HeardTyped, StartTyped
    <2> QED BY <2>2, <2>3, <2>4
  <1>3. CASE EnterStopped
    <2>1. output.state \in {"STOPPED", "BUFFER"} /\ UNCHANGED <<outputbuf, output, heard>>
      BY <1>3 DEF EnterStopped
    <2>2. CbTyped' /\ cb'.pc = "loop" /\ cb'.silence
      BY <1>0, <1>1, <1>3, WillHushIs DEF EnterStopped
    <2>3. EnterWaits
      BY <2>1, <2>2 DEF EnterWaits, Pending, Moving, Silence, CbTyped, CbRecord
    <2>4. output' = [output EXCEPT !.state = output.state, !.count = output.count]
      BY <1>1, <2>1 DEF OutputRecord
    <2>5. output.state \in States
      BY <1>1 DEF OutputRecord
    <2> QED BY <1>1, <1>2, <2>1, <2>2, <2>3, <2>4, <2>5
  <1>4. ASSUME UNCHANGED <<outputbuf, heard>>, WillPlay(BufUsed), output' = [output EXCEPT !.state = "RUNNING"],
               Pending = 0
        PROVE  Typed' /\ EnterSame /\ EnterWaits /\ (\E n \in Nat : EnterSkips(n))
    <2>1. CbTyped' /\ cb'.pc = "loop" /\ (cb'.silence <=> BufUsed = 0)
      BY <1>0, <1>1, <1>4, WillPlayIs
    <2>2. output'.state = "RUNNING"
      BY <1>1, <1>4 DEF OutputRecord
    <2>3. BufUsed' = BufUsed
      BY <1>4 DEF BufUsed
    <2>4. EnterWaits
      BY <1>1, <1>4, <2>1, <2>2, <2>3 DEF EnterWaits, Pending, Moving, Silence, CbTyped, CbRecord
    <2>5. output' = [output EXCEPT !.state = "RUNNING", !.count = output.count]
      BY <1>1, <1>4 DEF OutputRecord
    <2> QED BY <1>1, <1>2, <1>4, <2>1, <2>4, <2>5, Names
  <1>5. CASE EnterRunning
    BY <1>1, <1>4, <1>5 DEF EnterRunning, Pending
  <1>6. CASE EnterPauseOver
    BY <1>1, <1>4, <1>6 DEF EnterPauseOver, Pending
  <1>7. CASE EnterPause
    <2>1. output.state = "PAUSE_FRAMES" /\ output.count > 0 /\ UNCHANGED <<outputbuf, heard>>
          /\ WillHush(output.count) /\ output' = [output EXCEPT !.count = output.count - cb'.frames]
      BY <1>7 DEF EnterPause
    <2>2. CbTyped' /\ cb'.pc = "loop" /\ cb'.silence /\ cb'.size = cb'.frames /\ cb'.frames \in Nat
          /\ cb'.frames <= output.count
      BY <1>0, <1>1, <2>1, WillHushIs
    <2>3. PICK c \in Nat : c = output.count - cb'.frames
      BY <1>1, <2>2
    <2>4. output' = [output EXCEPT !.state = output.state, !.count = c]
      BY <1>1, <2>1, <2>3 DEF OutputRecord
    <2>5. output'.state = "PAUSE_FRAMES" /\ output'.count = c
      BY <1>1, <2>1, <2>4 DEF OutputRecord
    <2>6. EnterWaits
      BY <1>1, <2>1, <2>2, <2>3, <2>5 DEF EnterWaits, Pending, Moving, Silence
    <2> QED BY <1>2, <2>1, <2>2, <2>4, <2>6, Names
  <1>8. CASE EnterStartAt
    <2>1. CASE WillPlay(BufUsed) /\ output' = [output EXCEPT !.state = "RUNNING"]
      BY <1>4, <1>8, <2>1 DEF EnterStartAt, Pending
    <2>2. CASE WillHush(MaxSilence) /\ UNCHANGED output
      <3>1. output.state = "START_AT" /\ UNCHANGED <<outputbuf, output, heard>>
        BY <1>8, <2>2 DEF EnterStartAt
      <3>2. CbTyped' /\ cb'.pc = "loop" /\ cb'.silence
        BY <1>0, <1>1, <2>2, WillHushIs
      <3>3. EnterWaits
        BY <3>1, <3>2 DEF EnterWaits, Pending, Moving, Silence, CbTyped, CbRecord
      <3>4. output' = [output EXCEPT !.state = output.state, !.count = output.count]
        BY <1>1, <3>1 DEF OutputRecord
      <3> QED BY <1>1, <1>2, <3>1, <3>2, <3>3, <3>4, Names
    <2> QED BY <1>8, <2>1, <2>2 DEF EnterStartAt
  <1>9. CASE EnterSkip
    <2> DEFINE skip == LesserOf(BufUsed, output.count)
               disturbed == heard.disturbed \/ (skip > 0 /\ output.fade # "INACTIVE")
    <2>1. /\ output.state = "SKIP_FRAMES"
          /\ outputbuf' = [outputbuf EXCEPT !.readp = IncPtr(outputbuf.readp, skip, outputbuf.size)]
          /\ output' = [output EXCEPT !.state = "RUNNING", !.frames_played = output.frames_played + skip]
          /\ heard' = [heard EXCEPT
                !.skipped = heard.skipped \cup RingRun(outputbuf, outputbuf.readp, skip),
                !.last = IF skip = 0 THEN heard.last
                         ELSE outputbuf.mem[(outputbuf.readp + skip - 1) % outputbuf.size],
                !.disturbed = disturbed]
          /\ WillPlay(BufUsed - skip)
      BY <1>9 DEF EnterSkip
    <2>2. skip \in 0 .. BufUsed /\ disturbed \in BOOLEAN
      BY <1>1 DEF LesserOf, Typed, HeardTyped
    <2> HIDE DEF skip, disturbed
    <2>3. /\ RingTyped(outputbuf') /\ outputbuf'.readp = IncPtr(outputbuf.readp, skip, outputbuf.size)
          /\ outputbuf'.writep = outputbuf.writep /\ outputbuf'.size = outputbuf.size /\ outputbuf'.mem = outputbuf.mem
      BY <2>1, <2>2, ReadpIs DEF Typed
    <2>4. PICK f \in Nat : f = output.frames_played + skip
      BY <1>1, <2>2
    <2>5. output' = [output EXCEPT !.state = "RUNNING", !.count = output.count, !.frames_played = f]
      BY <1>1, <2>1, <2>4 DEF OutputRecord
    <2>6. /\ output' \in OutputRecord /\ output'.state = "RUNNING" /\ output'.frames_played = f
          /\ output'.track_start = output.track_start /\ output'.delay_active = output.delay_active
          /\ output'.format = output.format /\ output'.next_format = output.next_format
          /\ output'.fade_mode = output.fade_mode /\ output'.fade_dir = output.fade_dir
      BY <1>1, <2>5, StateIs, Names
    <2>7. /\ HeardTyped' /\ heard'.quiet = heard.quiet /\ heard'.announced = heard.announced
          /\ heard'.played = heard.played
          /\ heard'.skipped = heard.skipped \cup RingRun(outputbuf, outputbuf.readp, skip)
          /\ heard'.garbage = heard.garbage /\ heard'.abrupt = heard.abrupt
          /\ heard'.last = IF skip = 0 THEN heard.last
                           ELSE outputbuf.mem[(outputbuf.readp + skip - 1) % outputbuf.size]
      BY <2>1, <2>2 DEF Typed, HeardTyped
    <2>8. /\ CbTyped' /\ cb'.pc = "loop" /\ (cb'.silence <=> BufUsed - skip = 0)
      <3>1. BufUsed - skip \in Nat
        BY <1>1, <2>2
      <3> QED BY <1>0, <2>1, <3>1, WillPlayIs
    <2>9. BufUsed' = BufUsed - skip
      <3>1. CASE skip = 0
        BY <1>1, <2>3, <3>1 DEF BufUsed
      <3>2. CASE skip \in 1 .. BufUsed
        <4>1. Used(IncPtr(outputbuf.readp, skip, outputbuf.size), outputbuf.writep, outputbuf.size) = BufUsed - skip
          BY <1>1, <3>2, RingIs, UsedAfterRead DEF Typed, BufUsed
        <4> QED BY <2>3, <4>1 DEF BufUsed
      <3> QED BY <1>1, <2>2, <3>1, <3>2
    <2>10. EnterWaits
      BY <1>1, <2>1, <2>2, <2>6, <2>8, <2>9 DEF EnterWaits, Pending, Moving, Silence, CbTyped, CbRecord
    <2>11. EnterSame /\ EnterSkips(skip)
      BY <1>0, <2>1, <2>2, <2>3, <2>4, <2>6, <2>7 DEF EnterSame, EnterSkips
    <2>12. Typed'
      BY <1>0, <2>3, <2>6, <2>7, <2>8 DEF Typed, StartTyped
    <2> QED BY <2>2, <2>10, <2>11, <2>12
  <1> QED BY <1>3, <1>5, <1>6, <1>7, <1>8, <1>9 DEF RenderEnter

LEMMA SilenceIs ==
  ASSUME OutputAssumption, Typed, RenderLoop, LoopSilence
  PROVE  /\ Typed' /\ UNCHANGED <<outputbuf, output, src>> /\ cb'.pc # "loop" /\ Silence = cb.size
         /\ heard'.quiet = LesserOf(heard.quiet + cb.size, HalfDelay)
         /\ heard'.announced = heard.announced /\ heard'.abrupt = heard.abrupt
         /\ heard'.garbage = heard.garbage /\ heard'.last = heard.last
  <1>1. /\ cb.pc = "loop" /\ cb.silence /\ Wrote(cb.size) /\ UNCHANGED <<outputbuf, output, src>>
        /\ heard' = [heard EXCEPT !.quiet = LesserOf(heard.quiet + cb.size, HalfDelay)]
    BY DEF RenderLoop, LoopSilence
  <1>2. /\ cb.size \in Nat /\ heard.quiet \in Nat /\ HalfDelay \in Nat
    BY ConstantsAre DEF Typed, CbTyped, CbRecord, HeardTyped
  <1>3. CbTyped' /\ cb'.pc # "loop"
    <2>1. PICK n \in Nat : n = cb.size
      BY <1>2
    <2>2. Wrote(n) /\ n <= cb.size
      BY <1>1, <2>1
    <2> QED BY <1>1, <2>1, <2>2, WroteIs DEF Typed
  <1>4. LesserOf(heard.quiet + cb.size, HalfDelay) \in Nat
    BY <1>2 DEF LesserOf
  <1>5. /\ HeardTyped' /\ heard'.quiet = LesserOf(heard.quiet + cb.size, HalfDelay)
        /\ heard'.announced = heard.announced /\ heard'.abrupt = heard.abrupt
        /\ heard'.garbage = heard.garbage /\ heard'.last = heard.last
    BY <1>1, <1>4 DEF Typed, HeardTyped
  <1> QED BY <1>1, <1>3, <1>5 DEF Typed, StartTyped, Silence

LEMMA DelayIs ==
  ASSUME OutputAssumption, Typed, RenderLoop, LoopDelay
  PROVE  /\ Typed' /\ UNCHANGED <<outputbuf, src, heard>> /\ cb'.pc # "loop" /\ Moving
         /\ output.track_start = outputbuf.readp /\ NeedsDelay
         /\ output'.state = "PAUSE_FRAMES" /\ output'.count = HalfDelay /\ output'.delay_active
         /\ output'.track_start = output.track_start /\ output'.format = output.format
         /\ output'.next_format = output.next_format /\ output'.fade_mode = output.fade_mode
         /\ output'.fade_dir = output.fade_dir
  <1>1. /\ cb.pc = "loop" /\ ~cb.silence /\ UNCHANGED <<outputbuf, src, heard>> /\ Return(cb.frames - cb.size)
        /\ output' = [output EXCEPT !.state = "PAUSE_FRAMES", !.count = HalfDelay, !.delay_active = TRUE]
        /\ output.track_start = outputbuf.readp /\ NeedsDelay
    BY DEF RenderLoop, LoopDelay, AtTrackStart
  <1>2. CbTyped' /\ cb'.pc # "loop"
    <2>1. /\ cb.frames \in Nat /\ cb.size \in Nat /\ cb.remaining \in Nat
          /\ cb.size <= cb.frames /\ cb.frames <= cb.remaining
      BY DEF Typed, CbTyped, CbRecord
    <2> DEFINE n == cb.frames - cb.size
    <2>2. n \in Nat /\ n <= cb.remaining
      BY <2>1
    <2>3. Return(n)
      BY <1>1
    <2> HIDE DEF n
    <2> QED BY <2>2, <2>3, ReturnIs DEF Typed
  <1>3. /\ output' \in OutputRecord
        /\ output'.state = "PAUSE_FRAMES" /\ output'.count = HalfDelay /\ output'.delay_active
        /\ output'.track_start = output.track_start /\ output'.format = output.format
        /\ output'.next_format = output.next_format /\ output'.fade_mode = output.fade_mode
        /\ output'.fade_dir = output.fade_dir
    BY <1>1, ConstantsAre, Names DEF Typed, OutputRecord
  <1> QED BY <1>1, <1>2, <1>3 DEF Typed, StartTyped, Moving, HeardTyped

LEMMA AnnounceIs ==
  ASSUME OutputAssumption, Typed, RenderLoop, LoopTrackStart
  PROVE  /\ Typed' /\ UNCHANGED <<outputbuf, src>> /\ cb'.pc # "loop" /\ Moving
         /\ output.track_start = outputbuf.readp /\ (NeedsDelay => output.delay_active /\ ~output'.delay_active)
         /\ ~NeedsDelay => output'.delay_active = output.delay_active
         /\ output'.track_start = Null /\ output'.fade_mode = output.fade_mode /\ output'.fade_dir = output.fade_dir
         /\ output'.state = "SKIP_FRAMES" => output.state = "SKIP_FRAMES"
         /\ heard'.announced = heard.announced \cup {src.track}
         /\ heard'.abrupt = (heard.abrupt \/ (NeedsDelay /\ heard.quiet < HalfDelay))
         /\ heard'.quiet = heard.quiet /\ heard'.garbage = heard.garbage /\ heard'.last = heard.last
  <1> DEFINE o == [output EXCEPT !.frames_played = 0, !.track_started = TRUE,
                                 !.format = output.next_format, !.track_start = Null]
  <1>1. /\ cb.pc = "loop" /\ ~cb.silence /\ UNCHANGED <<outputbuf, src>> /\ Return(cb.frames - cb.size)
        /\ output' = IF NeedsDelay
                     THEN [o EXCEPT !.state = "PAUSE_FRAMES", !.count = HalfDelay, !.delay_active = FALSE]
                     ELSE o
        /\ heard' = [heard EXCEPT !.announced = heard.announced \cup {src.track},
                                  !.abrupt = heard.abrupt \/ (NeedsDelay /\ heard.quiet < HalfDelay)]
        /\ output.track_start = outputbuf.readp /\ (NeedsDelay => output.delay_active)
    BY DEF RenderLoop, LoopTrackStart, AtTrackStart
  <1>2. CbTyped' /\ cb'.pc # "loop"
    <2>1. /\ cb.frames \in Nat /\ cb.size \in Nat /\ cb.remaining \in Nat
          /\ cb.size <= cb.frames /\ cb.frames <= cb.remaining
      BY DEF Typed, CbTyped, CbRecord
    <2> DEFINE n == cb.frames - cb.size
    <2>2. n \in Nat /\ n <= cb.remaining
      BY <2>1
    <2>3. Return(n)
      BY <1>1
    <2> HIDE DEF n
    <2> QED BY <2>2, <2>3, ReturnIs DEF Typed
  <1>3. /\ o \in OutputRecord /\ o.state = output.state /\ o.track_start = Null
        /\ o.fade_mode = output.fade_mode /\ o.fade_dir = output.fade_dir /\ o.delay_active = output.delay_active
    BY ConstantsAre DEF Typed, OutputRecord, Pointer
  <1> HIDE DEF o
  <1>4. /\ output' \in OutputRecord /\ output'.track_start = Null
        /\ output'.fade_mode = output.fade_mode /\ output'.fade_dir = output.fade_dir
        /\ NeedsDelay => ~output'.delay_active /\ output'.state = "PAUSE_FRAMES"
        /\ ~NeedsDelay => output'.delay_active = output.delay_active /\ output'.state = output.state
    <2>1. CASE NeedsDelay
      <3>1. output' = [o EXCEPT !.state = "PAUSE_FRAMES", !.count = HalfDelay, !.delay_active = FALSE]
        BY <1>1, <2>1
      <3>2. /\ output' \in OutputRecord /\ output'.track_start = Null
            /\ output'.fade_mode = output.fade_mode /\ output'.fade_dir = output.fade_dir
            /\ ~output'.delay_active /\ output'.state = "PAUSE_FRAMES"
        BY <1>3, <3>1, ConstantsAre, Names DEF OutputRecord
      <3> QED BY <2>1, <3>2
    <2>2. CASE ~NeedsDelay
      BY <1>1, <1>3, <2>2
    <2> QED BY <2>1, <2>2
  <1>5. /\ HeardTyped' /\ heard'.announced = heard.announced \cup {src.track}
        /\ heard'.abrupt = (heard.abrupt \/ (NeedsDelay /\ heard.quiet < HalfDelay))
        /\ heard'.quiet = heard.quiet /\ heard'.garbage = heard.garbage /\ heard'.last = heard.last
    <2> DEFINE a == heard.announced \cup {src.track}
    <2>1. PICK b \in BOOLEAN : b = (heard.abrupt \/ (NeedsDelay /\ heard.quiet < HalfDelay))
      OBVIOUS
    <2>2. heard' = [heard EXCEPT !.announced = a, !.abrupt = b]
      BY <1>1, <2>1
    <2> HIDE DEF a
    <2>3. /\ HeardTyped' /\ heard'.announced = a /\ heard'.abrupt = b
          /\ heard'.quiet = heard.quiet /\ heard'.garbage = heard.garbage /\ heard'.last = heard.last
      BY <2>2 DEF Typed, HeardTyped
    <2> QED BY <2>1, <2>3 DEF a
  <1>6. StartTyped(output', outputbuf')
    BY <1>4 DEF StartTyped
  <1>7. RingTyped(outputbuf') /\ src' \in SrcRecord
    BY <1>1 DEF Typed
  <1>8. Typed'
    BY <1>2, <1>4, <1>5, <1>6, <1>7 DEF Typed
  <1> QED BY <1>1, <1>2, <1>4, <1>5, <1>8 DEF Moving

LEMMA PieceIs ==
  ASSUME OutputAssumption, Typed
  PROVE  /\ Piece \in Nat /\ Piece <= BufContRead /\ BufContRead \in 0 .. BufUsed
         /\ BufContRead <= outputbuf.size - outputbuf.readp
         /\ output.track_start \in Int /\ output.track_start > outputbuf.readp
              => Piece <= output.track_start - outputbuf.readp
         /\ \A p \in Int : CutAt(p) \in Nat /\ CutAt(p) <= Piece
         /\ FadeDur \in Int
  <1>1. /\ BufContRead \in 0 .. BufUsed /\ outputbuf.readp \in Nat /\ BufUsed \in Nat /\ outputbuf.size \in Nat
        /\ BufContRead <= outputbuf.size - outputbuf.readp
    BY RingIs DEF Typed, BufContRead, BufUsed
  <1>2. /\ Piece \in Nat /\ Piece <= BufContRead
        /\ output.track_start \in Int /\ output.track_start > outputbuf.readp
              => Piece <= output.track_start - outputbuf.readp
    BY <1>1 DEF Piece, LesserOf, LiesAhead, UpTo, FrameOf, Inside
  <1>3. ASSUME NEW p \in Int PROVE CutAt(p) \in Nat /\ CutAt(p) <= Piece
    BY <1>1, <1>2 DEF CutAt, LesserOf, LiesAhead, UpTo, FrameOf, Inside
  <1>4. FadeDur \in Int
    BY <1>1 DEF FadeDur, Ahead, Typed, OutputRecord
  <1> QED BY <1>1, <1>2, <1>3, <1>4

\* The device gets the next frames of b.
LEMMA PlayIs ==
  ASSUME OutputAssumption, Typed, cb.pc = "loop", src' = src,
         NEW b, RingTyped(b), b.size = outputbuf.size,
         NEW o \in OutputRecord, o.track_start = output.track_start,
         NEW cont \in Nat, NEW mixed, NEW dropped, Play(b, o, cont, mixed, dropped)
  PROVE  /\ Typed' /\ (cb'.pc = "loop" => cb'.silence = cb.silence)
         /\ heard'.announced = heard.announced /\ heard'.abrupt = heard.abrupt
         /\ output'.state = o.state /\ output'.track_start = o.track_start
         /\ output'.fade_mode = o.fade_mode /\ output'.fade_dir = o.fade_dir /\ heard'.skipped = heard.skipped
         /\ output'.delay_active = o.delay_active /\ output'.format = o.format /\ output'.next_format = o.next_format
         /\ outputbuf'.writep = b.writep /\ outputbuf'.size = b.size /\ outputbuf'.mem = b.mem
         /\ \E k \in 0 .. cont :
              /\ outputbuf'.readp = IncPtr(b.readp, k, b.size) /\ output'.frames_played = o.frames_played + k
              /\ LET run == CopyRun(b, b.readp, k)
                     prev(j) == IF j = 1 THEN heard.last ELSE run[j - 1]
                 IN  /\ heard'.garbage = (heard.garbage \/ \E j \in 1 .. k : run[j] = Junk \/ ~Before(prev(j), run[j]))
                     /\ heard'.last = IF k = 0 THEN heard.last ELSE run[k]
                     /\ heard'.played = heard.played \cup {run[j] : j \in 1 .. k}
  <1> DEFINE k == LesserOf(cb.size, cont)
             run == CopyRun(b, b.readp, k)
             prev(j) == IF j = 1 THEN heard.last ELSE run[j - 1]
             garbage == heard.garbage \/ \E j \in 1 .. k : run[j] = Junk \/ ~Before(prev(j), run[j])
             last == IF k = 0 THEN heard.last ELSE run[k]
             played == heard.played \cup {run[j] : j \in 1 .. k}
             quiet == IF k = 0 THEN heard.quiet ELSE 0
             overrun == heard.overrun \/ (dropped # {} /\ k > ContRead(b.readp, b.writep, b.size))
             disturbed == heard.disturbed \/ (dropped # {} /\ o.fade_dir # "CROSS")
  <1>1. /\ outputbuf' = [b EXCEPT !.readp = IncPtr(b.readp, k, b.size)]
        /\ output' = [o EXCEPT !.frames_played = o.frames_played + k]
        /\ heard' = [heard EXCEPT !.garbage = garbage, !.last = last, !.played = played,
                                  !.mixed = heard.mixed \cup mixed, !.dropped = heard.dropped \cup dropped,
                                  !.quiet = quiet, !.overrun = overrun, !.disturbed = disturbed]
        /\ Wrote(k)
    BY DEF Play
  <1>2. k \in 0 .. cont /\ k \in Nat /\ k <= cb.size
    BY DEF LesserOf, Typed, CbTyped, CbRecord
  <1>3. quiet \in Nat /\ garbage \in BOOLEAN /\ overrun \in BOOLEAN /\ disturbed \in BOOLEAN
    BY DEF Typed, HeardTyped
  <1> DEFINE mx == heard.mixed \cup mixed dr == heard.dropped \cup dropped
  <1>4. heard' = [heard EXCEPT !.garbage = garbage, !.last = last, !.played = played,
                               !.mixed = mx, !.dropped = dr, !.quiet = quiet, !.overrun = overrun,
                               !.disturbed = disturbed]
    BY <1>1
  <1>12. CopyRun(b, b.readp, k) = run
    OBVIOUS
  <1>13. /\ garbage = (heard.garbage \/ \E j \in 1 .. k : run[j] = Junk \/ ~Before(prev(j), run[j]))
         /\ last = IF k = 0 THEN heard.last ELSE run[k]
         /\ played = heard.played \cup {run[j] : j \in 1 .. k}
    OBVIOUS
  <1> HIDE DEF k, garbage, last, played, quiet, mx, dr, overrun, disturbed
  <1>5. /\ HeardTyped' /\ heard'.announced = heard.announced /\ heard'.abrupt = heard.abrupt
        /\ heard'.garbage = garbage /\ heard'.last = last /\ heard'.played = played
        /\ heard'.skipped = heard.skipped
    BY <1>3, <1>4 DEF Typed, HeardTyped
  <1>6. /\ RingTyped(outputbuf') /\ outputbuf'.readp = IncPtr(b.readp, k, b.size) /\ outputbuf'.writep = b.writep
        /\ outputbuf'.size = b.size /\ outputbuf'.mem = b.mem
    BY <1>1, <1>2, ReadpIs
  <1>7. CbTyped' /\ (cb'.pc = "loop" => cb'.silence = cb.silence)
    BY <1>1, <1>2, WroteIs DEF Typed
  <1>8. PICK f \in Nat : f = o.frames_played + k
    BY <1>2 DEF OutputRecord
  <1>9. output' = [o EXCEPT !.frames_played = f]
    BY <1>1, <1>8
  <1>10. /\ output' \in OutputRecord /\ output'.state = o.state /\ output'.track_start = o.track_start
         /\ output'.frames_played = f
         /\ output'.fade_mode = o.fade_mode /\ output'.fade_dir = o.fade_dir
         /\ output'.delay_active = o.delay_active /\ output'.format = o.format /\ output'.next_format = o.next_format
    BY <1>9 DEF OutputRecord
  <1>11. Typed'
    <2>1. StartTyped(output', outputbuf')
      BY <1>6, <1>10 DEF Typed, StartTyped
    <2> QED BY <1>5, <1>6, <1>7, <1>10, <2>1 DEF Typed
  <1>14. \E n \in 0 .. cont :
              /\ outputbuf'.readp = IncPtr(b.readp, n, b.size) /\ output'.frames_played = o.frames_played + n
              /\ LET r == CopyRun(b, b.readp, n)
                     p(j) == IF j = 1 THEN heard.last ELSE r[j - 1]
                 IN  /\ heard'.garbage = (heard.garbage \/ \E j \in 1 .. n : r[j] = Junk \/ ~Before(p(j), r[j]))
                     /\ heard'.last = IF n = 0 THEN heard.last ELSE r[n]
                     /\ heard'.played = heard.played \cup {r[j] : j \in 1 .. n}
    <2> k \in 0 .. cont
      BY <1>2
    <2> WITNESS k \in 0 .. cont
    <2> QED BY <1>5, <1>6, <1>8, <1>10, <1>13
  <1> QED BY <1>5, <1>6, <1>7, <1>10, <1>11, <1>14

\* k frames are handed to the device: the next ones, in so far as the ring has them in one piece.
NextFrames(k) ==
    /\ k \in 0 .. Piece /\ outputbuf'.readp = IncPtr(outputbuf.readp, k, outputbuf.size)
    /\ output'.frames_played = output.frames_played + k
    /\ LET run == CopyRun(outputbuf, outputbuf.readp, k)
           prev(j) == IF j = 1 THEN heard.last ELSE run[j - 1]
       IN  /\ heard'.garbage = (heard.garbage \/ \E j \in 1 .. k : run[j] = Junk \/ ~Before(prev(j), run[j]))
           /\ heard'.last = IF k = 0 THEN heard.last ELSE run[k]
           /\ heard'.played = heard.played \cup {run[j] : j \in 1 .. k}

MusicSame ==
    /\ src' = src /\ (cb'.pc = "loop" => cb'.silence = cb.silence)
    /\ outputbuf'.writep = outputbuf.writep /\ outputbuf'.size = outputbuf.size /\ outputbuf'.mem = outputbuf.mem
    /\ output'.state = output.state /\ output'.track_start = output.track_start
    /\ output'.fade_mode = output.fade_mode /\ output'.fade_dir \in {output.fade_dir, "UP"}
    /\ output'.delay_active = output.delay_active
    /\ heard'.announced = heard.announced /\ heard'.abrupt = heard.abrupt /\ heard'.skipped = heard.skipped

LEMMA FadesAre ==
  ASSUME Typed, NEW o, o \in {output, FadeOn(output), FadeOff(output)}
  PROVE  /\ o \in OutputRecord /\ o.track_start = output.track_start /\ o.state = output.state
         /\ o.fade_mode = output.fade_mode /\ o.delay_active = output.delay_active
         /\ o.fade_dir = output.fade_dir /\ o.frames_played = output.frames_played
  <1>1. output \in OutputRecord
    BY DEF Typed
  <1>2. PICK f \in Fades : o = [output EXCEPT !.fade = f]
    <2>1. CASE o = output
      <3>1. output = [output EXCEPT !.fade = output.fade] /\ output.fade \in Fades
        BY <1>1 DEF OutputRecord
      <3> QED BY <2>1, <3>1
    <2>2. CASE o \in {FadeOn(output), FadeOff(output)}
      BY <2>2, Names DEF FadeOn, FadeOff
    <2> QED BY <2>1, <2>2
  <1> QED BY <1>1, <1>2 DEF OutputRecord

LEMMA MusicIs ==
  ASSUME OutputAssumption, Typed, RenderLoop, LoopPlay
  PROVE  /\ Typed' /\ MusicSame /\ Moving /\ output.track_start # outputbuf.readp
         /\ output.fade_mode # "CROSSFADE" /\ output.fade_dir # "CROSS" => \E k \in Nat : NextFrames(k)
  <1>0. /\ cb.pc = "loop" /\ src' = src /\ ~cb.silence /\ output.track_start # outputbuf.readp
        /\ RingTyped(outputbuf) /\ output \in OutputRecord
    BY DEF RenderLoop, LoopPlay, AtTrackStart, Typed
  <1>1. Piece \in Nat /\ (\A p \in Int : CutAt(p) \in 0 .. Piece) /\ FadeDur \in Int
    <2>1. \A p \in Int : CutAt(p) \in Nat /\ CutAt(p) <= Piece
      BY PieceIs
    <2> QED BY <2>1, PieceIs
  <1>2. output.fade_start \in Int /\ output.fade_end \in Int /\ outputbuf.readp \in Int /\ outputbuf.size \in Int
    BY <1>0, RingIs DEF OutputRecord
  <1>3. ASSUME NEW b, RingTyped(b), b.size = outputbuf.size, b.writep = outputbuf.writep, b.mem = outputbuf.mem,
               NEW o \in OutputRecord, o.track_start = output.track_start, o.state = output.state,
               o.fade_mode = output.fade_mode, o.delay_active = output.delay_active,
               o.fade_dir \in {output.fade_dir, "UP"}, o.frames_played = output.frames_played,
               NEW cont \in 0 .. Piece, NEW mixed, NEW dropped, Play(b, o, cont, mixed, dropped)
        PROVE  Typed' /\ MusicSame /\ (b = outputbuf => \E k \in Nat : NextFrames(k))
    <2>0. cont \in Nat
      BY <1>1
    <2>1. /\ Typed' /\ (cb'.pc = "loop" => cb'.silence = cb.silence)
          /\ heard'.announced = heard.announced /\ heard'.abrupt = heard.abrupt /\ heard'.skipped = heard.skipped
          /\ output'.state = o.state /\ output'.track_start = o.track_start
          /\ output'.fade_mode = o.fade_mode /\ output'.fade_dir = o.fade_dir
          /\ output'.delay_active = o.delay_active
          /\ outputbuf'.writep = b.writep /\ outputbuf'.size = b.size /\ outputbuf'.mem = b.mem
      BY <1>0, <1>3, <2>0, PlayIs
    <2>2. PICK k \in 0 .. cont :
              /\ outputbuf'.readp = IncPtr(b.readp, k, b.size) /\ output'.frames_played = o.frames_played + k
              /\ LET run == CopyRun(b, b.readp, k)
                     prev(j) == IF j = 1 THEN heard.last ELSE run[j - 1]
                 IN  /\ heard'.garbage = (heard.garbage \/ \E j \in 1 .. k : run[j] = Junk \/ ~Before(prev(j), run[j]))
                     /\ heard'.last = IF k = 0 THEN heard.last ELSE run[k]
                     /\ heard'.played = heard.played \cup {run[j] : j \in 1 .. k}
      BY <1>0, <1>3, <2>0, PlayIs
    <2>3. MusicSame
      BY <1>0, <1>3, <2>1 DEF MusicSame
    <2>4. k \in Nat /\ k \in 0 .. Piece
      BY <1>1, <2>0
    <2>5. ASSUME b = outputbuf PROVE NextFrames(k)
      BY <1>3, <2>2, <2>4, <2>5 DEF NextFrames
    <2> QED BY <2>1, <2>3, <2>4, <2>5
  <1>4. ASSUME NEW o \in {output, FadeOn(output), FadeOff(output)},
               NEW cont \in 0 .. Piece, NEW mixed, NEW dropped, Play(outputbuf, o, cont, mixed, dropped)
        PROVE  Typed' /\ MusicSame /\ (\E k \in Nat : NextFrames(k))
    <2>1. /\ o \in OutputRecord /\ o.track_start = output.track_start /\ o.state = output.state
          /\ o.fade_mode = output.fade_mode /\ o.delay_active = output.delay_active
          /\ o.fade_dir = output.fade_dir /\ o.frames_played = output.frames_played
      BY FadesAre
    <2> QED BY <1>0, <1>3, <1>4, <2>1
  <1>5. CASE PlayPlain
    <2>1. PICK cont \in 0 .. Piece : Play(outputbuf, output, cont, {}, {})
      BY <1>1, <1>2, <1>5 DEF PlayPlain
    <2> QED BY <1>0, <1>4, <2>1 DEF Moving
  <1>6. CASE PlayFade
    <2>1. PICK cont \in 0 .. Piece : Play(outputbuf, FadeOn(output), cont, {}, {})
      BY <1>1, <1>2, <1>6 DEF PlayFade
    <2> QED BY <1>0, <1>4, <2>1 DEF Moving
  <1>7. CASE PlayCross
    <2>1. PICK cont \in 0 .. Piece : cont = CutAt(output.fade_end)
      BY <1>1, <1>2
    <2> DEFINE mixed == RingRun(outputbuf, output.fade_end + FadeCur, LesserOf(cb.size, cont))
    <2>2. Play(outputbuf, FadeOn(output), cont, mixed, {}) \/ Play(outputbuf, FadeOff(output), cont, {}, {})
      BY <1>7, <2>1 DEF PlayCross
    <2> HIDE DEF mixed
    <2> QED BY <1>0, <1>4, <2>2 DEF Moving
  <1>8. CASE PlayTurn
    <2> DEFINE end == Wrapped(outputbuf.readp + FadeDur, outputbuf.size)
               o == [FadeOn(output) EXCEPT !.fade_dir = "UP", !.fade_start = outputbuf.readp, !.fade_end = end]
    <2>1. end \in Int
      BY <1>1, <1>2 DEF Wrapped
    <2>2. PICK cont \in 0 .. Piece : Play(outputbuf, o, cont, {}, {})
      BY <1>1, <1>8, <2>1 DEF PlayTurn
    <2> HIDE DEF end
    <2>3. o = [output EXCEPT !.fade = "ACTIVE", !.fade_dir = "UP", !.fade_start = outputbuf.readp, !.fade_end = end]
      BY <1>0 DEF FadeOn
    <2> HIDE DEF o
    <2>4. /\ o \in OutputRecord /\ o.track_start = output.track_start /\ o.state = output.state
          /\ o.fade_mode = output.fade_mode /\ o.delay_active = output.delay_active
          /\ o.fade_dir = "UP" /\ o.frames_played = output.frames_played
      BY <1>0, <1>2, <2>1, <2>3, Names DEF OutputRecord
    <2>5. Typed' /\ MusicSame /\ \E k \in Nat : NextFrames(k)
      BY <1>0, <1>3, <2>2, <2>4
    <2> QED BY <1>0, <2>5 DEF Moving
  <1>9. CASE PlayCrossDone
    <2>0. output.fade_mode = "CROSSFADE" /\ Piece \in 0 .. Piece
      BY <1>1, <1>9 DEF PlayCrossDone
    <2>1. CASE BufUsed >= FadeDur
      <3> DEFINE b == [outputbuf EXCEPT !.readp = IncPtr(outputbuf.readp, FadeDur, outputbuf.size)]
                 gone == RingRun(outputbuf, outputbuf.readp, FadeDur)
      <3>1. Play(b, FadeOff(output), Piece, {}, gone)
        BY <1>9, <2>1 DEF PlayCrossDone
      <3>2. b = [outputbuf EXCEPT !.readp = IncPtr(outputbuf.readp, FadeDur, outputbuf.size)]
        OBVIOUS
      <3> HIDE DEF b, gone
      <3>3. /\ RingTyped(b) /\ b.writep = outputbuf.writep /\ b.size = outputbuf.size /\ b.mem = outputbuf.mem
        BY <1>0, <1>1, <3>2, ReadpIs
      <3>4. /\ FadeOff(output) \in OutputRecord /\ FadeOff(output).track_start = output.track_start
            /\ FadeOff(output).state = output.state
            /\ FadeOff(output).fade_mode = output.fade_mode /\ FadeOff(output).delay_active = output.delay_active
            /\ FadeOff(output).fade_dir = output.fade_dir /\ FadeOff(output).frames_played = output.frames_played
        BY FadesAre
      <3>5. Typed' /\ MusicSame
        BY <1>3, <2>0, <3>1, <3>3, <3>4
      <3> QED BY <1>0, <2>0, <3>5 DEF Moving
    <2>2. CASE ~(BufUsed >= FadeDur)
      <3>1. Play(outputbuf, FadeOff(output), Piece, {}, {})
        BY <1>9, <2>2 DEF PlayCrossDone
      <3> QED BY <1>0, <1>4, <2>0, <3>1 DEF Moving
    <2> QED BY <2>1, <2>2
  <1>10. CASE PlayFadeDone
    <2>1. Play(outputbuf, FadeOff(output), Piece, {}, {}) /\ Piece \in 0 .. Piece
      BY <1>1, <1>10 DEF PlayFadeDone
    <2> QED BY <1>0, <1>4, <2>1 DEF Moving
  <1> QED BY <1>5, <1>6, <1>7, <1>8, <1>9, <1>10 DEF LoopPlay
-----------------------------------------------------------------------------
(* What the codec and the controller do.                                    *)

LEMMA StrmSIs ==
  ASSUME OutputAssumption, Typed, StrmS
  PROVE  /\ Typed' /\ UNCHANGED <<outputbuf, cb, heard>> /\ src.told /\ src.phase = "idle" /\ cb.pc = "idle"
         /\ src'.track = src.track + 1 /\ src'.pos = 0 /\ src'.phase = "ready" /\ ~src'.told
         /\ output'.fade_mode \in FadeModes
         /\ output'.state = output.state /\ output'.count = output.count
         /\ output'.track_start = output.track_start /\ output'.delay_active = output.delay_active
         /\ output'.format = output.format /\ output'.next_format = output.next_format
         /\ output'.fade_dir = output.fade_dir
  <1>1. PICK mode \in FadeModes : output' = [output EXCEPT !.fade_mode = mode]
    BY DEF StrmS
  <1>2. /\ UNCHANGED <<outputbuf, cb, heard>> /\ src.told /\ src.phase = "idle" /\ cb.pc = "idle"
        /\ src' = [track |-> src.track + 1, pos |-> 0, phase |-> "ready", start |-> FALSE,
                   told |-> FALSE, sentSTMu |-> FALSE]
    BY DEF StrmS, Unlocked
  <1>3. PICK n \in Nat : n = src.track + 1
    BY DEF Typed, SrcRecord
  <1>4. src' \in SrcRecord /\ src'.track = n /\ src'.pos = 0 /\ src'.phase = "ready" /\ ~src'.told
    BY <1>2, <1>3, Names DEF SrcRecord
  <1>5. /\ output' \in OutputRecord /\ output'.fade_mode = mode
        /\ output'.state = output.state /\ output'.count = output.count
        /\ output'.track_start = output.track_start /\ output'.delay_active = output.delay_active
        /\ output'.format = output.format /\ output'.next_format = output.next_format
        /\ output'.fade_dir = output.fade_dir
    BY <1>1 DEF Typed, OutputRecord, Modes
  <1>6. Typed'
    BY <1>2, <1>4, <1>5 DEF Typed, StartTyped, HeardTyped, CbTyped
  <1> QED BY <1>2, <1>3, <1>4, <1>5, <1>6

LEMMA FilledIs ==
  ASSUME OutputAssumption, src \in SrcRecord, NEW b, RingTyped(b), NEW k \in Nat, NEW c, c = Filled(b, k)
  PROVE  /\ RingTyped(c) /\ c.readp = b.readp /\ c.writep = IncPtr(b.writep, k, b.size) /\ c.size = b.size
         /\ c.mem = [i \in 0 .. b.size - 1 |-> IF i >= b.writep /\ i < b.writep + k
                                              THEN <<src.track, src.pos + i - b.writep + 1>> ELSE b.mem[i]]
  <1>1. /\ b.size \in Nat \ {0} /\ b.writep \in 0 .. b.size - 1
        /\ b.mem \in [0 .. b.size - 1 -> Frame \cup {Junk}]
    BY RingIs
  <1>2. PICK w \in 0 .. b.size - 1 : w = IncPtr(b.writep, k, b.size)
    <2>1. b.writep \in Nat /\ k \in Int
      BY <1>1
    <2> QED BY <1>1, <2>1, IncPtrIn
  <1> DEFINE m == [i \in 0 .. b.size - 1 |-> IF i >= b.writep /\ i < b.writep + k
                                            THEN <<src.track, src.pos + i - b.writep + 1>> ELSE b.mem[i]]
  <1>3. c = [b EXCEPT !.mem = m, !.writep = w]
    BY <1>1, <1>2 DEF Filled
  <1>4. m \in [0 .. b.size - 1 -> Frame \cup {Junk}]
    <2>1. ASSUME NEW i \in 0 .. b.size - 1, i >= b.writep
          PROVE  <<src.track, src.pos + i - b.writep + 1>> \in Frame
      <3>1. src.pos + i - b.writep + 1 \in Nat /\ src.track \in Nat
        BY <1>1, <2>1 DEF SrcRecord
      <3> QED BY <3>1 DEF Frame
    <2> QED BY <1>1, <2>1
  <1> HIDE DEF m
  <1>5. ASSUME NEW n, b \in RingRecord(n)
        PROVE  c \in RingRecord(n) /\ c.readp = b.readp /\ c.writep = w /\ c.size = b.size /\ c.mem = m
    BY <1>3, <1>4, <1>5 DEF RingRecord
  <1>6. RingTyped(c) /\ c.readp = b.readp /\ c.writep = w /\ c.size = b.size /\ c.mem = m
    BY <1>5 DEF RingTyped
  <1> QED BY <1>2, <1>6 DEF m

\* What a fade that is scheduled changes.
StartSame(o, p) ==
    /\ p \in OutputRecord /\ p.state = o.state /\ p.count = o.count /\ p.delay_active = o.delay_active
    /\ p.format = o.format /\ p.next_format = o.next_format /\ p.fade_mode = o.fade_mode
    /\ p.frames_played = o.frames_played

LEMMA FadingIs ==
  ASSUME NEW o \in OutputRecord, NEW dir \in Directions, NEW s \in Int, NEW e \in Int,
         NEW p, p = Fading(o, dir, s, e)
  PROVE  StartSame(o, p) /\ p.track_start = o.track_start /\ p.fade_dir = dir
  <1>1. p = [o EXCEPT !.fade = "DUE", !.fade_dir = dir, !.fade_start = s, !.fade_end = e]
    BY DEF Fading
  <1> QED BY <1>1, Names DEF OutputRecord, StartSame

LEMMA CrossStartIs ==
  ASSUME NEW b, b.size \in Nat \ {0}, b.writep \in 0 .. b.size - 1, NEW len \in 0 .. b.size - 1
  PROVE  CrossStart(b, len) \in -b.size .. b.size - 1
  <1> DEFINE n == b.size w == b.writep cap == (n * FrameBytes * 9) \div 10
  <1>1. n \in Nat \ {0} /\ w \in 0 .. n - 1 /\ len \in 0 .. n - 1
    OBVIOUS
  <1>2. cap \in Nat
    BY <1>1, SMT DEF FrameBytes
  <1>3. CrossStart(b, len) =
          IF len * FrameBytes <= cap THEN Wrapped(w - len, n)
          ELSE IF cap % FrameBytes = 0 THEN Wrapped(w - cap \div FrameBytes, n)
               ELSE Inside(Wrapped(w - cap \div FrameBytes - 1, n))
    BY DEF CrossStart
  <1> HIDE DEF n, w, cap
  <1>4. ASSUME NEW k \in 0 .. n - 1
        PROVE  Wrapped(w - k, n) \in 0 .. n - 1
    BY <1>1, <1>4 DEF Wrapped
  <1>5. ASSUME len * FrameBytes > cap
        PROVE  cap \div FrameBytes \in 0 .. n - 1 /\ cap \div FrameBytes + 1 \in 0 .. n - 1
    BY <1>1, <1>2, <1>5, SMT DEF FrameBytes
  <1>6. CASE len * FrameBytes <= cap
    BY <1>1, <1>3, <1>4, <1>6 DEF n
  <1>7. CASE len * FrameBytes > cap /\ cap % FrameBytes = 0
    <2>1. PICK k \in 0 .. n - 1 : k = cap \div FrameBytes
      BY <1>5, <1>7
    <2>2. CrossStart(b, len) = Wrapped(w - k, n)
      BY <1>1, <1>2, <1>3, <1>7, <2>1 DEF FrameBytes
    <2> QED BY <1>1, <1>4, <2>2 DEF n
  <1>8. CASE len * FrameBytes > cap /\ cap % FrameBytes # 0
    <2>1. PICK k \in 0 .. n - 1 : k = cap \div FrameBytes + 1
      BY <1>5, <1>8
    <2>2. w - cap \div FrameBytes - 1 = w - k
      BY <1>1, <1>2, <2>1, SMT DEF FrameBytes
    <2>3. CrossStart(b, len) = Inside(Wrapped(w - k, n))
      BY <1>1, <1>2, <1>3, <1>8, <2>2 DEF FrameBytes
    <2> QED BY <1>1, <1>4, <2>3 DEF n, Inside
  <1> QED BY <1>1, <1>2, <1>6, <1>7, <1>8 DEF FrameBytes

LEMMA FadeStartIs ==
  ASSUME OutputAssumption, NEW o \in OutputRecord, NEW b, RingTyped(b), StartTyped(o, b), o.track_start # Null,
         NEW c \in CheckFadeStart(o, b)
  PROVE  /\ StartSame(o, c.o) /\ RingTyped(c.b) /\ StartTyped(c.o, c.b)
         /\ o.fade_mode # "CROSSFADE" => c.b = b /\ c.o.track_start = o.track_start
                                         /\ c.o.fade_dir \in {o.fade_dir, "UP"}
  <1> DEFINE used == Used(b.readp, b.writep, b.size)
             len == FadeLen(o)
             inLen == LesserOf(len, b.size - 1)
             crAt == CrossStart(b, LesserOf(len, used))
  <1>0. c.o = c.o /\ StartSame(o, o)
    BY DEF StartSame
  <1>1. /\ used \in 0 .. b.size - 1 /\ b.size \in Nat \ {0} /\ b.writep \in 0 .. b.size - 1
        /\ b.mem \in [0 .. b.size - 1 -> Frame \cup {Junk}]
    BY RingIs
  <1>2. len \in Nat
    BY ConstantsAre DEF FadeLen
  <1>3. \/ /\ c.b = b /\ c.o = [o EXCEPT !.fade = "INACTIVE"]
        \/ /\ c.b = b /\ c.o = Fading(o, "UP", b.writep, Wrapped(b.writep + inLen, b.size))
        \/ /\ o.fade_mode = "CROSSFADE" /\ c.b = b
           /\ c.o = [Fading(o, "CROSS", crAt, b.writep) EXCEPT !.track_start = crAt]
        \/ /\ o.fade_mode = "CROSSFADE" /\ c.o = FreedPointers(o) /\ c.b = FreshBuf(CrossFrames)
        \/ /\ o.fade_mode = "CROSSFADE" /\ c.o = o /\ c.b = [b EXCEPT !.readp = 0, !.writep = 0]
        \/ c.o = o /\ c.b = b
    BY DEF CheckFadeStart
  <1>4. inLen \in Int /\ Wrapped(b.writep + inLen, b.size) \in Int
    BY <1>1, <1>2 DEF LesserOf, Wrapped
  <1>5. crAt \in -b.size .. b.size - 1 /\ crAt \in Int
    <2>1. LesserOf(len, used) \in 0 .. b.size - 1
      BY <1>1, <1>2 DEF LesserOf
    <2>2. crAt \in -b.size .. b.size - 1
      BY <1>1, <2>1, CrossStartIs
    <2> QED BY <1>1, <2>2
  <1> HIDE DEF used, len, inLen, crAt
  <1>6. CASE c.b = b /\ c.o = [o EXCEPT !.fade = "INACTIVE"]
    <2>1. StartSame(o, c.o) /\ c.o.track_start = o.track_start /\ c.o.fade_dir = o.fade_dir
      BY <1>6, Names DEF OutputRecord, StartSame
    <2> QED BY <1>6, <2>1 DEF StartTyped
  <1>7. CASE c.b = b /\ c.o = Fading(o, "UP", b.writep, Wrapped(b.writep + inLen, b.size))
    <2>1. StartSame(o, c.o) /\ c.o.track_start = o.track_start /\ c.o.fade_dir = "UP"
      BY <1>1, <1>4, <1>7, FadingIs, Names
    <2> QED BY <1>7, <2>1 DEF StartTyped
  <1>8. CASE /\ o.fade_mode = "CROSSFADE" /\ c.b = b
             /\ c.o = [Fading(o, "CROSS", crAt, b.writep) EXCEPT !.track_start = crAt]
    <2> DEFINE p == Fading(o, "CROSS", crAt, b.writep)
    <2>1. StartSame(o, p)
      BY <1>1, <1>5, FadingIs, Names
    <2>2. c.o = [p EXCEPT !.track_start = crAt]
      BY <1>8
    <2> HIDE DEF p
    <2>3. StartSame(o, c.o) /\ c.o.track_start = crAt
      BY <1>5, <2>1, <2>2 DEF StartSame, OutputRecord, Pointer
    <2> QED BY <1>5, <1>8, <2>3 DEF StartTyped
  <1>9. CASE o.fade_mode = "CROSSFADE" /\ c.o = FreedPointers(o) /\ c.b = FreshBuf(CrossFrames)
    <2>1. c.o = [o EXCEPT !.track_start = Dangling]
      BY <1>9 DEF FreedPointers
    <2>2. StartSame(o, c.o) /\ c.o.track_start = Dangling
      BY <2>1 DEF StartSame, OutputRecord, Pointer
    <2>3. FreshBuf(CrossFrames) \in RingRecord(CrossFrames)
      <3>1. CrossFrames \in Nat \ {0}
        BY ConstantsAre
      <3> QED BY <3>1 DEF FreshBuf, RingRecord
    <2> QED BY <1>9, <2>2, <2>3 DEF StartTyped, RingTyped
  <1>10. CASE o.fade_mode = "CROSSFADE" /\ c.o = o /\ c.b = [b EXCEPT !.readp = 0, !.writep = 0]
    <2>1. 0 \in 0 .. b.size - 1
      BY <1>1
    <2>2. RingTyped(c.b) /\ c.b.size = b.size
      <3>1. ASSUME NEW n, b \in RingRecord(n)
            PROVE  c.b \in RingRecord(n) /\ c.b.size = b.size
        <4>1. 0 \in 0 .. n - 1
          BY <2>1, <3>1 DEF RingRecord
        <4> QED BY <1>10, <3>1, <4>1 DEF RingRecord
      <3> QED BY <3>1 DEF RingTyped
    <2> QED BY <1>0, <1>10, <2>2 DEF StartTyped
  <1>11. CASE c.o = o /\ c.b = b
    BY <1>0, <1>11
  <1> QED BY <1>3, <1>6, <1>7, <1>8, <1>9, <1>10, <1>11

LEMMA TrackStartIs ==
  ASSUME OutputAssumption, Typed, TrackStart
  PROVE  /\ Typed' /\ UNCHANGED <<cb, heard>> /\ cb.pc = "idle" /\ src.phase = "open"
         /\ src'.track = src.track /\ src'.phase = "run" /\ src'.told = src.told
         /\ output'.state = output.state /\ output'.delay_active = output.delay_active
         /\ output'.fade_mode = output.fade_mode /\ output'.frames_played = output.frames_played
         /\ output.fade_mode # "CROSSFADE" =>
              /\ output'.track_start = outputbuf.writep /\ output'.fade_dir \in {output.fade_dir, "UP"}
              /\ \E k \in 0 .. BufWritable : src'.pos = k /\ outputbuf' = Filled(outputbuf, k)
  <1>1. PICK f \in Formats, k \in 0 .. LesserOf(BufWritable, TrackLen) :
          LET o == [output EXCEPT !.track_start = outputbuf.writep, !.next_format = f] IN
          \E c \in Starts(o) :
             /\ output' = c.o /\ outputbuf' = Filled(c.b, k)
             /\ src' = [src EXCEPT !.phase = "run", !.pos = k]
    BY DEF TrackStart
  <1> DEFINE o == [output EXCEPT !.track_start = outputbuf.writep, !.next_format = f]
  <1>2. PICK c \in Starts(o) :
             /\ output' = c.o /\ outputbuf' = Filled(c.b, k)
             /\ src' = [src EXCEPT !.phase = "run", !.pos = k]
    BY <1>1
  <1>3. UNCHANGED <<cb, heard>> /\ cb.pc = "idle" /\ src.phase = "open"
    BY DEF TrackStart, Unlocked
  <1>4. /\ RingTyped(outputbuf) /\ output \in OutputRecord /\ src \in SrcRecord
        /\ outputbuf.writep \in 0 .. outputbuf.size - 1 /\ BufWritable \in Nat
    BY RingIs DEF Typed, BufWritable
  <1>5. k \in Nat /\ k \in 0 .. BufWritable
    BY <1>4, ConstantsAre DEF LesserOf
  <1>6. /\ o \in OutputRecord /\ o.track_start = outputbuf.writep /\ o.state = output.state
        /\ o.delay_active = output.delay_active /\ o.fade_mode = output.fade_mode /\ o.fade_dir = output.fade_dir
        /\ o.frames_played = output.frames_played
    <2>1. PICK w \in Pointer : w = outputbuf.writep
      BY <1>4, RingIs DEF Pointer
    <2>2. o = [output EXCEPT !.track_start = w, !.next_format = f]
      BY <2>1
    <2> HIDE DEF o
    <2> QED BY <1>4, <2>1, <2>2 DEF OutputRecord
  <1> HIDE DEF o
  <1>7. StartTyped(o, outputbuf) /\ o.track_start # Null
    <2>1. outputbuf.size \in Nat
      BY <1>4, RingIs
    <2> QED BY <1>4, <1>6, <2>1, ConstantsAre DEF StartTyped
  <1>8. /\ StartSame(o, c.o) /\ RingTyped(c.b) /\ StartTyped(c.o, c.b)
        /\ o.fade_mode # "CROSSFADE" => c.b = outputbuf /\ c.o.track_start = o.track_start
                                        /\ c.o.fade_dir \in {o.fade_dir, "UP"}
    <2>1. CASE c \in CheckFadeStart(o, outputbuf)
      BY <1>4, <1>6, <1>7, <2>1, FadeStartIs
    <2>2. CASE c.o = o /\ c.b = outputbuf
      BY <1>4, <1>6, <1>7, <2>2 DEF StartSame
    <2>3. CASE c.o = [o EXCEPT !.fade = "INACTIVE"] /\ c.b = outputbuf
      <3>1. StartSame(o, c.o) /\ c.o.track_start = o.track_start /\ c.o.fade_dir = o.fade_dir
        BY <1>6, <2>3, Names DEF OutputRecord, StartSame
      <3> QED BY <1>4, <1>7, <2>3, <3>1 DEF StartTyped
    <2> QED BY <1>2, <2>1, <2>2, <2>3 DEF Starts, FadeOff
  <1>9. RingTyped(outputbuf') /\ outputbuf'.size = c.b.size
    <2>1. ASSUME NEW b, RingTyped(b), NEW d, d = Filled(b, k)
          PROVE  RingTyped(d) /\ d.size = b.size
      BY <1>4, <1>5, <2>1, FilledIs
    <2> QED BY <1>2, <1>8, <2>1
  <1>10. src' \in SrcRecord /\ src'.phase = "run" /\ src'.pos = k /\ src'.track = src.track /\ src'.told = src.told
    BY <1>2, <1>4, <1>5, Names DEF SrcRecord
  <1>11. Typed'
    BY <1>2, <1>3, <1>8, <1>9, <1>10 DEF Typed, StartTyped, StartSame, HeardTyped, CbTyped
  <1>12. output.fade_mode # "CROSSFADE" => \E n \in 0 .. BufWritable : src'.pos = n /\ outputbuf' = Filled(outputbuf, n)
    BY <1>2, <1>5, <1>6, <1>8, <1>10
  <1> QED BY <1>2, <1>3, <1>6, <1>8, <1>10, <1>11, <1>12 DEF StartSame

LEMMA DecodeIs ==
  ASSUME OutputAssumption, Typed, Decode
  PROVE  /\ Typed' /\ UNCHANGED <<output, cb, heard>> /\ cb.pc = "idle" /\ src.phase = "run"
         /\ src'.track = src.track /\ src'.phase = "run" /\ src'.told = src.told
         /\ \E k \in 1 .. BufWritable : src'.pos = src.pos + k /\ outputbuf' = Filled(outputbuf, k)
  <1>1. PICK k \in 1 .. LesserOf(BufWritable, TrackLen - src.pos) :
          /\ outputbuf' = Filled(outputbuf, k)
          /\ src' = [src EXCEPT !.pos = src.pos + k]
    BY DEF Decode
  <1>2. UNCHANGED <<output, cb, heard>> /\ cb.pc = "idle" /\ src.phase = "run"
    BY DEF Decode, Unlocked
  <1>3. RingTyped(outputbuf) /\ src \in SrcRecord /\ src.pos \in Nat /\ BufWritable \in Nat /\ TrackLen \in Nat
    BY RingIs, ConstantsAre DEF Typed, BufWritable, SrcRecord
  <1>4. k \in Nat /\ k \in 1 .. BufWritable
    BY <1>1, <1>3 DEF LesserOf
  <1>5. RingTyped(outputbuf') /\ outputbuf'.size = outputbuf.size
    <2>1. ASSUME NEW d, d = Filled(outputbuf, k)
          PROVE  RingTyped(d) /\ d.size = outputbuf.size
      BY <1>3, <1>4, <2>1, FilledIs
    <2> QED BY <1>1, <2>1
  <1>6. PICK n \in Nat : n = src.pos + k
    BY <1>3, <1>4
  <1>7. /\ src' \in SrcRecord /\ src'.pos = n /\ src'.track = src.track /\ src'.phase = src.phase
        /\ src'.told = src.told
    BY <1>1, <1>3, <1>6 DEF SrcRecord
  <1>8. Typed'
    BY <1>2, <1>5, <1>7 DEF Typed, StartTyped, HeardTyped, CbTyped
  <1> QED BY <1>1, <1>2, <1>4, <1>6, <1>7, <1>8

LEMMA DecodeEndIs ==
  ASSUME OutputAssumption, Typed, DecodeEnd
  PROVE  /\ Typed' /\ UNCHANGED <<outputbuf, cb, heard>> /\ cb.pc = "idle" /\ src.phase = "run"
         /\ src'.track = src.track /\ src'.pos = src.pos /\ src'.phase = "idle" /\ src'.told = src.told
         /\ StartSame(output, output') /\ output'.track_start = output.track_start
         /\ output'.fade_dir \in {output.fade_dir, "DOWN"}
  <1>1. /\ UNCHANGED <<outputbuf, cb, heard>> /\ cb.pc = "idle" /\ src.phase = "run"
        /\ output' = IF output.fade_mode # "NONE" THEN CheckFadeEnd(output, outputbuf) ELSE output
        /\ src' = [src EXCEPT !.phase = "idle"]
    BY DEF DecodeEnd, Unlocked
  <1>2. /\ src' \in SrcRecord /\ src'.track = src.track /\ src'.pos = src.pos /\ src'.phase = "idle"
        /\ src'.told = src.told
    BY <1>1, Names DEF Typed, SrcRecord
  <1> DEFINE len == LesserOf(Used(outputbuf.readp, outputbuf.writep, outputbuf.size), FadeLen(output))
  <1>3. PICK s, e \in Int : s = Wrapped(outputbuf.writep - len, outputbuf.size) /\ e = outputbuf.writep
    <2>1. /\ Used(outputbuf.readp, outputbuf.writep, outputbuf.size) \in Int /\ outputbuf.writep \in Int
          /\ outputbuf.size \in Int
      BY RingIs DEF Typed
    <2>2. FadeLen(output) \in Nat
      BY ConstantsAre DEF FadeLen
    <2>3. len \in Int
      BY <2>1, <2>2 DEF LesserOf
    <2> HIDE DEF len
    <2>4. Wrapped(outputbuf.writep - len, outputbuf.size) \in Int
      BY <2>1, <2>3 DEF Wrapped
    <2> QED BY <2>1, <2>4
  <1>4. \/ output' = output
        \/ output' = [output EXCEPT !.fade = "INACTIVE"]
        \/ output' = Fading(output, "DOWN", s, e)
    BY <1>1, <1>3 DEF CheckFadeEnd
  <1>5. output \in OutputRecord
    BY DEF Typed
  <1>6. /\ StartSame(output, output') /\ output'.track_start = output.track_start
        /\ output'.fade_dir \in {output.fade_dir, "DOWN"}
    <2>1. CASE output' = output
      BY <1>5, <2>1 DEF StartSame
    <2>2. CASE output' = [output EXCEPT !.fade = "INACTIVE"]
      BY <1>5, <2>2, Names DEF StartSame, OutputRecord
    <2>3. CASE output' = Fading(output, "DOWN", s, e)
      BY <1>5, <2>3, FadingIs, Names
    <2> QED BY <1>4, <2>1, <2>2, <2>3
  <1>7. Typed'
    BY <1>1, <1>2, <1>6 DEF Typed, StartTyped, StartSame, HeardTyped, CbTyped
  <1> QED BY <1>1, <1>2, <1>6, <1>7

LEMMA DecoderIs ==
  ASSUME OutputAssumption, Typed, StartDecoder
  PROVE  /\ Typed' /\ UNCHANGED <<outputbuf, output, cb, heard>> /\ src.phase = "ready"
         /\ src'.track = src.track /\ src'.pos = src.pos /\ src'.phase = "open" /\ src'.told = src.told
  <1>1. PICK autostart \in BOOLEAN : src' = [src EXCEPT !.phase = "open", !.start = autostart]
    BY DEF StartDecoder
  <1>2. UNCHANGED <<outputbuf, output, cb, heard>> /\ src.phase = "ready"
    BY DEF StartDecoder
  <1>3. /\ src' \in SrcRecord /\ src'.track = src.track /\ src'.pos = src.pos /\ src'.phase = "open"
        /\ src'.told = src.told
    BY <1>1, Names DEF Typed, SrcRecord
  <1> QED BY <1>2, <1>3 DEF Typed, StartTyped, HeardTyped, CbTyped

LEMMA PassIs ==
  ASSUME OutputAssumption, Typed, ControllerPass
  PROVE  /\ Typed' /\ UNCHANGED <<outputbuf, cb, heard>> /\ cb.pc = "idle" /\ src.phase # "flushing"
         /\ src'.track = src.track /\ src'.pos = src.pos /\ src'.phase = src.phase
         /\ src'.told => src.told \/ src.track \in heard.announced
         /\ output'.state = "PAUSE_FRAMES" <=> output.state = "PAUSE_FRAMES"
         /\ output'.state = "SKIP_FRAMES" => output.state = "SKIP_FRAMES"
         /\ output'.count = output.count
         /\ output'.track_start = output.track_start /\ output'.delay_active = output.delay_active
         /\ output'.format = output.format /\ output'.next_format = output.next_format
         /\ output'.fade_mode = output.fade_mode /\ output'.fade_dir = output.fade_dir
  <1> DEFINE state1 == IF src.start /\ output.state = "STOPPED" THEN "BUFFER" ELSE output.state
             dry == state1 = "RUNNING" /\ ~src.sentSTMu /\ BufUsed = 0 /\ src.phase = "idle"
             begun == output.track_started /\ src.track \in heard.announced
  <1>1. /\ UNCHANGED <<outputbuf, cb, heard>> /\ cb.pc = "idle" /\ src.phase # "flushing"
        /\ output' = [output EXCEPT !.track_started = FALSE, !.state = IF dry THEN "STOPPED" ELSE state1]
        /\ src' = [src EXCEPT !.start = FALSE, !.told = src.told \/ begun, !.sentSTMu = src.sentSTMu \/ dry]
    BY DEF ControllerPass, Unlocked
  <1>2. PICK s \in States : /\ s = IF dry THEN "STOPPED" ELSE state1
                            /\ (s = "PAUSE_FRAMES" <=> output.state = "PAUSE_FRAMES")
                            /\ (s = "SKIP_FRAMES" => output.state = "SKIP_FRAMES")
    BY Names DEF Typed, OutputRecord
  <1>3. PICK told, sent \in BOOLEAN : told = (src.told \/ begun) /\ sent = (src.sentSTMu \/ dry)
    OBVIOUS
  <1>4. told => src.told \/ src.track \in heard.announced
    BY <1>3
  <1> HIDE DEF state1, dry, begun
  <1>5. output' = [output EXCEPT !.track_started = FALSE, !.state = s]
    BY <1>1, <1>2
  <1>6. src' = [src EXCEPT !.start = FALSE, !.told = told, !.sentSTMu = sent]
    BY <1>1, <1>3
  <1>7. /\ output' \in OutputRecord /\ output'.state = s /\ output'.count = output.count
        /\ output'.track_start = output.track_start /\ output'.delay_active = output.delay_active
        /\ output'.format = output.format /\ output'.next_format = output.next_format
        /\ output'.fade_mode = output.fade_mode /\ output'.fade_dir = output.fade_dir
    BY <1>5 DEF Typed, OutputRecord
  <1>8. /\ src' \in SrcRecord /\ src'.track = src.track /\ src'.pos = src.pos /\ src'.phase = src.phase
        /\ src'.told = told
    BY <1>6 DEF Typed, SrcRecord
  <1>9. Typed'
    BY <1>1, <1>7, <1>8 DEF Typed, StartTyped, HeardTyped, CbTyped
  <1> QED BY <1>1, <1>2, <1>4, <1>7, <1>8, <1>9

LEMMA StrmQIs ==
  ASSUME OutputAssumption, Typed, StrmQ
  PROVE  /\ Typed' /\ UNCHANGED <<output, cb, heard>> /\ cb.pc = "idle" /\ src.phase # "flushing"
         /\ src'.track = src.track /\ src'.pos = src.pos /\ src'.phase = "flushing" /\ src'.told
         /\ outputbuf'.readp = 0 /\ outputbuf'.writep = 0
  <1>1. /\ UNCHANGED <<output, cb, heard>> /\ cb.pc = "idle" /\ src.phase # "flushing"
        /\ outputbuf' = [outputbuf EXCEPT !.readp = 0, !.writep = 0]
        /\ src' = [src EXCEPT !.phase = "flushing", !.told = TRUE]
    BY DEF StrmQ, Unlocked, Busy
  <1>2. /\ src' \in SrcRecord /\ src'.track = src.track /\ src'.pos = src.pos /\ src'.phase = "flushing"
        /\ src'.told
    BY <1>1, Names DEF Typed, SrcRecord
  <1>3. RingTyped(outputbuf') /\ outputbuf'.size = outputbuf.size /\ outputbuf'.readp = 0 /\ outputbuf'.writep = 0
    <2>1. RingTyped(outputbuf) /\ 0 \in 0 .. outputbuf.size - 1
      BY RingIs DEF Typed
    <2>2. ASSUME NEW n, outputbuf \in RingRecord(n)
          PROVE  /\ outputbuf' \in RingRecord(n) /\ outputbuf'.size = outputbuf.size
                 /\ outputbuf'.readp = 0 /\ outputbuf'.writep = 0
      <3>1. 0 \in 0 .. n - 1
        BY <2>1, <2>2 DEF RingRecord
      <3> QED BY <1>1, <2>2, <3>1 DEF RingRecord
    <2> QED BY <2>1, <2>2 DEF RingTyped
  <1> QED BY <1>1, <1>2, <1>3 DEF Typed, StartTyped, HeardTyped, CbTyped

LEMMA FlushIs ==
  ASSUME OutputAssumption, Typed, OutputFlush
  PROVE  /\ Typed' /\ UNCHANGED <<outputbuf, cb>> /\ cb.pc = "idle" /\ src.phase = "flushing"
         /\ src'.track = src.track /\ src'.pos = src.pos /\ src'.phase = "idle" /\ src'.told = src.told
         /\ output'.state = "STOPPED" /\ ~output'.delay_active /\ output'.track_start = output.track_start
         /\ output'.fade_mode = output.fade_mode /\ output'.fade_dir = output.fade_dir
         /\ heard'.announced = heard.announced /\ heard'.abrupt = heard.abrupt
         /\ heard'.garbage = heard.garbage /\ heard'.last = <<src.track + 1, 0>>
  <1>0. PICK f \in Formats :
          output' = [output EXCEPT !.fade = "INACTIVE", !.state = "STOPPED", !.delay_active = FALSE,
                                    !.frames_played = 0, !.format = f]
    BY DEF OutputFlush
  <1>1. /\ UNCHANGED <<outputbuf, cb>> /\ cb.pc = "idle" /\ src.phase = "flushing"
        /\ src' = [src EXCEPT !.phase = "idle"]
        /\ heard' = [heard EXCEPT !.last = <<src.track + 1, 0>>]
    BY DEF OutputFlush, Unlocked
  <1>2. /\ src' \in SrcRecord /\ src'.track = src.track /\ src'.pos = src.pos /\ src'.phase = "idle"
        /\ src'.told = src.told
    BY <1>1, Names DEF Typed, SrcRecord
  <1>3. /\ output' \in OutputRecord
        /\ output'.state = "STOPPED" /\ ~output'.delay_active /\ output'.track_start = output.track_start
        /\ output'.fade_mode = output.fade_mode /\ output'.fade_dir = output.fade_dir
    BY <1>0, Names DEF Typed, OutputRecord
  <1>4. /\ HeardTyped' /\ heard'.announced = heard.announced /\ heard'.abrupt = heard.abrupt
        /\ heard'.garbage = heard.garbage /\ heard'.last = <<src.track + 1, 0>>
    BY <1>1 DEF Typed, HeardTyped
  <1> QED BY <1>1, <1>2, <1>3, <1>4 DEF Typed, StartTyped, CbTyped

LEMMA StrmFIs ==
  ASSUME OutputAssumption, Typed, StrmF
  PROVE  /\ Typed' /\ UNCHANGED cb /\ cb.pc = "idle" /\ src.phase # "flushing"
         /\ src'.track = src.track /\ src'.pos = src.pos /\ src'.phase = "idle" /\ src'.told
         /\ output'.state = output.state /\ output'.count = output.count
         /\ output'.delay_active = output.delay_active /\ output'.track_start = Null
         /\ output'.fade_mode = output.fade_mode /\ output'.fade_dir = output.fade_dir
         /\ heard'.announced = heard.announced /\ heard'.abrupt = heard.abrupt /\ heard'.quiet = heard.quiet
         /\ heard'.garbage = (heard.garbage \/ output.track_start \notin Nat \cup {Null}) /\ heard'.last = heard.last
         /\ outputbuf'.readp = outputbuf.readp /\ outputbuf'.size = outputbuf.size /\ outputbuf'.mem = outputbuf.mem
         /\ outputbuf'.writep = IF output.track_start \in Nat THEN output.track_start ELSE outputbuf.writep
  <1>1. /\ UNCHANGED cb /\ cb.pc = "idle" /\ src.phase # "flushing"
        /\ outputbuf' = TakenBack(outputbuf)
        /\ output' = [output EXCEPT !.track_start = Null]
        /\ heard' = [heard EXCEPT !.garbage = heard.garbage \/ output.track_start \notin Nat \cup {Null}]
        /\ src' = [src EXCEPT !.phase = "idle", !.told = TRUE]
    BY DEF StrmF, Unlocked, Busy
  <1>2. /\ src' \in SrcRecord /\ src'.track = src.track /\ src'.pos = src.pos /\ src'.phase = "idle"
        /\ src'.told
    BY <1>1, Names DEF Typed, SrcRecord
  <1>3. /\ output' \in OutputRecord
        /\ output'.state = output.state /\ output'.count = output.count
        /\ output'.delay_active = output.delay_active /\ output'.track_start = Null
        /\ output'.fade_mode = output.fade_mode /\ output'.fade_dir = output.fade_dir
    BY <1>1 DEF Typed, OutputRecord, Pointer
  <1>4. /\ HeardTyped' /\ heard'.announced = heard.announced /\ heard'.abrupt = heard.abrupt
        /\ heard'.quiet = heard.quiet
        /\ heard'.garbage = (heard.garbage \/ output.track_start \notin Nat \cup {Null}) /\ heard'.last = heard.last
    <2>1. PICK g \in BOOLEAN : g = (heard.garbage \/ output.track_start \notin Nat \cup {Null})
      OBVIOUS
    <2>2. heard' = [heard EXCEPT !.garbage = g]
      BY <1>1, <2>1
    <2> QED BY <2>1, <2>2 DEF Typed, HeardTyped
  <1>5. /\ RingTyped(outputbuf')
        /\ outputbuf'.readp = outputbuf.readp /\ outputbuf'.size = outputbuf.size /\ outputbuf'.mem = outputbuf.mem
        /\ outputbuf'.writep = IF output.track_start \in Nat THEN output.track_start ELSE outputbuf.writep
    <2>1. CASE output.track_start \in Nat
      <3>1. /\ output.track_start \in 0 .. outputbuf.size - 1
            /\ outputbuf' = [outputbuf EXCEPT !.writep = output.track_start]
        BY <1>1, <2>1, ConstantsAre DEF Typed, StartTyped, TakenBack
      <3>2. ASSUME NEW n, outputbuf \in RingRecord(n)
            PROVE  /\ outputbuf' \in RingRecord(n) /\ outputbuf'.writep = output.track_start
                   /\ outputbuf'.readp = outputbuf.readp /\ outputbuf'.size = outputbuf.size
                   /\ outputbuf'.mem = outputbuf.mem
        BY <3>1, <3>2 DEF RingRecord
      <3> QED BY <2>1, <3>2 DEF Typed, RingTyped
    <2>2. CASE output.track_start \notin Nat
      BY <1>1, <2>2 DEF Typed, TakenBack
    <2> QED BY <2>1, <2>2
  <1> QED BY <1>1, <1>2, <1>3, <1>4, <1>5 DEF Typed, StartTyped, CbTyped

LEMMA CommandIs ==
  ASSUME OutputAssumption, Typed, StateCommand
  PROVE  /\ Typed' /\ UNCHANGED <<outputbuf, cb, src, heard>> /\ cb.pc = "idle"
         /\ output'.track_start = output.track_start /\ output'.delay_active = output.delay_active
         /\ output'.format = output.format /\ output'.next_format = output.next_format
         /\ output'.fade_mode = output.fade_mode /\ output'.fade_dir = output.fade_dir
  <1>1. PICK s \in States, n \in Nat : output' = [output EXCEPT !.state = s, !.count = n]
    BY ConstantsAre, Names DEF StateCommand, StrmP, StrmPause, StrmA, StrmU, StrmAt, SetState
  <1>2. UNCHANGED <<outputbuf, cb, src, heard>> /\ cb.pc = "idle"
    BY DEF StateCommand, StrmP, StrmPause, StrmA, StrmU, StrmAt, SetState, Unlocked
  <1>3. /\ output' \in OutputRecord
        /\ output'.track_start = output.track_start /\ output'.delay_active = output.delay_active
        /\ output'.format = output.format /\ output'.next_format = output.next_format
        /\ output'.fade_mode = output.fade_mode /\ output'.fade_dir = output.fade_dir
    BY <1>1 DEF Typed, OutputRecord
  <1> QED BY <1>2, <1>3 DEF Typed, StartTyped, HeardTyped, CbTyped
-----------------------------------------------------------------------------
(* The pointers stay inside the ring.                                       *)

LEMMA StepsAre ==
  ASSUME Next
  PROVE  \/ RenderBegin \/ RenderEnter \/ (RenderLoop /\ LoopSilence) \/ (RenderLoop /\ LoopDelay)
         \/ (RenderLoop /\ LoopTrackStart) \/ (RenderLoop /\ LoopPlay)
         \/ StrmS \/ TrackStart \/ Decode \/ DecodeEnd
         \/ StartDecoder \/ ControllerPass \/ StrmQ \/ OutputFlush \/ StrmF \/ StateCommand
  BY DEF Next, Render, RenderLoop, Controller, StateCommand

LEMMA InitTyped ==
  ASSUME OutputAssumption, Init
  PROVE  Typed
  <1>1. RingTyped(outputbuf) /\ outputbuf.size \in Nat
    <2>1. BufFrames \in Nat \ {0, 1}
      BY ConstantsAre
    <2>2. outputbuf = [mem |-> [i \in 0 .. BufFrames - 1 |-> Junk], readp |-> 0, writep |-> 0, size |-> BufFrames]
      BY DEF Init, FreshBuf
    <2>3. outputbuf \in RingRecord(BufFrames)
      BY <2>1, <2>2 DEF RingRecord
    <2> QED BY <2>1, <2>2, <2>3 DEF RingTyped
  <1>2. output \in OutputRecord /\ output.track_start = Null
    <2>1. PICK f \in Formats :
         output = [state |-> "STOPPED", count |-> 0, track_start |-> Null, track_started |-> FALSE,
                   delay_active |-> FALSE, format |-> f, next_format |-> f, frames_played |-> 0,
                   fade |-> "INACTIVE", fade_mode |-> "NONE", fade_dir |-> "UP",
                   fade_start |-> 0, fade_end |-> 0]
      BY DEF Init
    <2> QED BY <2>1, Names DEF OutputRecord, Pointer
  <1>3. CbTyped
    BY Names DEF Init, Idle, CbTyped, CbRecord
  <1>4. src \in SrcRecord
    BY Names DEF Init, SrcRecord
  <1>5. HeardTyped
    BY DEF Init, HeardTyped
  <1> QED BY <1>1, <1>2, <1>3, <1>4, <1>5 DEF Typed, StartTyped

LEMMA TypedKeeps ==
  ASSUME OutputAssumption, Typed, [Next]_vars
  PROVE  Typed'
  <1>1. CASE Next
    <2>1. CASE RenderBegin \/ RenderEnter
      BY <2>1, BeginIs, EnterIs
    <2>2. CASE RenderLoop /\ (LoopSilence \/ LoopDelay \/ LoopTrackStart \/ LoopPlay)
      BY <2>2, SilenceIs, DelayIs, AnnounceIs, MusicIs
    <2>3. CASE StrmS \/ TrackStart \/ Decode \/ DecodeEnd
      BY <2>3, StrmSIs, TrackStartIs, DecodeIs, DecodeEndIs
    <2>4. CASE StartDecoder \/ ControllerPass \/ StrmQ
      BY <2>4, DecoderIs, PassIs, StrmQIs
    <2>5. CASE OutputFlush \/ StrmF \/ StateCommand
      BY <2>5, FlushIs, StrmFIs, CommandIs
    <2> QED BY <1>1, <2>1, <2>2, <2>3, <2>4, <2>5, StepsAre
  <1>2. CASE UNCHANGED vars
    BY <1>2 DEF vars, Typed, HeardTyped, StartTyped, CbTyped
  <1> QED BY <1>1, <1>2

LEMMA TypedMeans ==
  ASSUME OutputAssumption, Typed
  PROVE  TypeOK
  <1>1. /\ outputbuf.size \in {BufFrames, CrossFrames}
        /\ outputbuf.readp \in 0 .. outputbuf.size - 1 /\ outputbuf.writep \in 0 .. outputbuf.size - 1
        /\ DOMAIN outputbuf.mem = 0 .. outputbuf.size - 1
    BY RingIs DEF Typed, RingTyped, RingRecord
  <1>2. output.state \in States /\ output.count \in Nat /\ output.fade \in {"INACTIVE", "DUE", "ACTIVE"}
    BY DEF Typed, OutputRecord, Fades
  <1>3. /\ cb.pc \in {"idle", "enter", "loop"} /\ cb.size <= cb.frames /\ cb.frames <= cb.remaining
        /\ cb.pc = "loop" => cb.size > 0
    BY DEF Typed, CbTyped, CbRecord, Pcs
  <1>4. /\ output.track_start \in Int \cup {Null, Dangling}
        /\ output.track_start \in Int => FrameOf(output.track_start) \in 0 .. outputbuf.size - 1
    <2> DEFINE n == outputbuf.size p == output.track_start
    <2>1. n \in Nat /\ p \in -n .. n - 1 \cup {Null, Dangling}
      BY RingIs DEF Typed, StartTyped
    <2> HIDE DEF n, p
    <2>2. p \in Int \cup {Null, Dangling}
      BY <2>1
    <2>3. p \in Int => FrameOf(p) \in 0 .. n - 1
      BY <2>1, ConstantsAre DEF FrameOf, Inside
    <2> QED BY <2>2, <2>3 DEF n, p
  <1> QED BY <1>1, <1>2, <1>3, <1>4 DEF TypeOK

\* Whatever the server asks for, with crossfades and the resize of the
\* buffer, through skips, flushes and changes of format: no pointer that the
\* callback, the codec or the controller moves leaves the ring, and the
\* callback's counts bound one another (_output_frames, _buf_resize,
\* output_flush_streaming).
THEOREM PointersInside ==
  ASSUME OutputAssumption
  PROVE  Spec => []TypeOK
  <1>1. Init => Typed
    BY InitTyped
  <1>2. Typed /\ [Next]_vars => Typed'
    BY TypedKeeps
  <1>3. Typed => TypeOK
    BY TypedMeans
  <1> QED BY <1>1, <1>2, <1>3, PTL DEF Spec
-----------------------------------------------------------------------------
(* Where the start of a track is waited for.                                *)

LEMMA InitStart ==
  ASSUME OutputAssumption, Init
  PROVE  StartInv
  <1>1. heard.announced = {} /\ src.phase = "idle" /\ output.track_start = Null
    BY DEF Init
  <1> QED BY <1>1, ConstantsAre DEF StartInv

LEMMA SkipUses ==
  ASSUME OutputAssumption, Typed, EnterSame, NEW n \in Nat, EnterSkips(n)
  PROVE  BufUsed' = BufUsed - n
  <1>1. /\ outputbuf.size \in Nat \ {0} /\ outputbuf.readp \in 0 .. outputbuf.size - 1
        /\ outputbuf.writep \in 0 .. outputbuf.size - 1
        /\ n \in 0 .. Used(outputbuf.readp, outputbuf.writep, outputbuf.size)
    BY RingIs DEF Typed, EnterSkips, BufUsed
  <1>2. Used(IncPtr(outputbuf.readp, n, outputbuf.size), outputbuf.writep, outputbuf.size)
          = Used(outputbuf.readp, outputbuf.writep, outputbuf.size) - n
    BY <1>1, UsedAfterRead
  <1> QED BY <1>2 DEF EnterSame, EnterSkips, BufUsed

LEMMA EnterStart ==
  ASSUME OutputAssumption, Typed, StartInv, RenderEnter
  PROVE  StartInv'
  <1>1. PICK n \in Nat : EnterSame /\ EnterWaits /\ EnterSkips(n)
    BY EnterIs
  <1>2. BufUsed' = BufUsed - n /\ n <= BufUsed /\ BufUsed \in Nat
    BY <1>1, SkipUses, StayIs DEF EnterSkips
  <1>3. Moving' => BufUsed' > 0
    BY <1>1 DEF EnterWaits, Moving
  <1>4. BufUsed = 0 => BufUsed' = 0 /\ ~Moving'
    BY <1>2, <1>3
  <1>5. src' = src /\ heard'.announced = heard.announced /\ output'.track_start = output.track_start
    BY <1>1 DEF EnterSame
  <1> QED BY <1>4, <1>5 DEF StartInv, Flushed, Awaited

LEMMA AnnounceStart ==
  ASSUME OutputAssumption, Typed, StartInv, RenderLoop, LoopTrackStart
  PROVE  StartInv'
  <1>1. /\ UNCHANGED <<outputbuf, src>> /\ cb'.pc # "loop" /\ Moving /\ output.track_start = outputbuf.readp
        /\ output'.track_start = Null /\ heard'.announced = heard.announced \cup {src.track}
    BY AnnounceIs
  <1>2. Awaited
    BY <1>1, RingIs DEF Typed, StartInv, Flushed
  <1>3. src.track \in Nat
    BY DEF Typed, SrcRecord
  <1> QED BY <1>1, <1>2, <1>3, ConstantsAre DEF StartInv, Awaited

LEMMA StrmSStart ==
  ASSUME OutputAssumption, Typed, StartInv, StrmS
  PROVE  StartInv'
  <1>1. /\ UNCHANGED <<outputbuf, cb, heard>> /\ src.told /\ src.phase = "idle" /\ cb.pc = "idle"
        /\ src'.track = src.track + 1 /\ src'.phase = "ready" /\ ~src'.told
        /\ output'.track_start = output.track_start
    BY StrmSIs
  <1>2. src.track \in Nat
    BY DEF Typed, SrcRecord
  <1>3. \A t \in heard.announced : t \in Nat /\ t <= src.track
    BY DEF StartInv
  <1>4. (\A t \in heard'.announced : t \in Nat /\ t <= src'.track) /\ src'.track \notin heard'.announced
    BY <1>1, <1>2, <1>3
  <1>5. output'.track_start \in Int => Flushed'
    BY <1>1 DEF StartInv, Awaited, Flushed, BufUsed, Moving
  <1> QED BY <1>1, <1>4, <1>5 DEF StartInv

LEMMA StartKeeps ==
  ASSUME OutputAssumption, Typed, StartInv, [Next]_vars
  PROVE  StartInv'
  <1>1. CASE Next
    <2>1. CASE RenderBegin
      <3>1. cb.pc = "idle" /\ cb'.pc = "enter" /\ UNCHANGED <<outputbuf, output, src, heard>>
        BY <2>1, BeginIs
      <3> QED BY <3>1 DEF StartInv, Flushed, Awaited, Moving, BufUsed
    <2>2. CASE RenderEnter
      BY <2>2, EnterStart
    <2>3. CASE RenderLoop /\ LoopSilence
      <3>1. UNCHANGED <<outputbuf, output, src>> /\ cb'.pc # "loop" /\ heard'.announced = heard.announced
        BY <2>3, SilenceIs
      <3> QED BY <3>1 DEF StartInv, Flushed, Awaited, Moving, BufUsed
    <2>4. CASE RenderLoop /\ LoopDelay
      <3>1. UNCHANGED <<outputbuf, src, heard>> /\ cb'.pc # "loop" /\ output'.track_start = output.track_start
        BY <2>4, DelayIs
      <3> QED BY <3>1 DEF StartInv, Flushed, Awaited, Moving, BufUsed
    <2>5. CASE RenderLoop /\ LoopTrackStart
      BY <2>5, AnnounceStart
    <2>6. CASE RenderLoop /\ LoopPlay
      <3>1. Moving /\ MusicSame
        BY <2>6, MusicIs
      <3> QED BY <3>1 DEF MusicSame, StartInv, Flushed, Awaited
    <2>7. CASE StrmS
      BY <2>7, StrmSStart
    <2>8. CASE TrackStart
      <3>1. /\ UNCHANGED <<cb, heard>> /\ src.phase = "open" /\ src'.track = src.track /\ src'.phase = "run"
            /\ src'.told = src.told
        BY <2>8, TrackStartIs
      <3> QED BY <3>1 DEF StartInv, Awaited
    <2>9. CASE Decode
      <3>1. /\ UNCHANGED <<output, cb, heard>> /\ src.phase = "run" /\ src'.track = src.track
            /\ src'.phase = "run" /\ src'.told = src.told
        BY <2>9, DecodeIs
      <3> QED BY <3>1 DEF StartInv, Awaited, Flushed
    <2>10. CASE DecodeEnd
      <3>1. /\ UNCHANGED <<cb, heard>> /\ src.phase = "run" /\ src'.track = src.track
            /\ src'.phase = "idle" /\ src'.told = src.told /\ output'.track_start = output.track_start
        BY <2>10, DecodeEndIs
      <3> QED BY <3>1 DEF StartInv, Awaited, Flushed
    <2>11. CASE StartDecoder
      <3>1. /\ UNCHANGED <<outputbuf, output, cb, heard>> /\ src.phase = "ready" /\ src'.track = src.track
            /\ src'.phase = "open" /\ src'.told = src.told
        BY <2>11, DecoderIs
      <3> QED BY <3>1 DEF StartInv, Awaited, Flushed, BufUsed, Moving
    <2>12. CASE ControllerPass
      <3>1. /\ UNCHANGED <<outputbuf, cb, heard>> /\ src'.track = src.track /\ src'.phase = src.phase
            /\ src'.told => src.told \/ src.track \in heard.announced
            /\ output'.track_start = output.track_start
        BY <2>12, PassIs
      <3> QED BY <3>1 DEF StartInv, Awaited, Flushed, BufUsed, Moving
    <2>13. CASE StrmQ
      <3>1. /\ UNCHANGED <<output, cb, heard>> /\ cb.pc = "idle" /\ src'.track = src.track
            /\ src'.phase = "flushing" /\ outputbuf'.readp = 0 /\ outputbuf'.writep = 0
        BY <2>13, StrmQIs
      <3>2. BufUsed' = 0
        BY <3>1 DEF BufUsed, Used
      <3> QED BY <3>1, <3>2 DEF StartInv, Awaited, Flushed, Moving
    <2>14. CASE OutputFlush
      <3>1. /\ UNCHANGED <<outputbuf, cb>> /\ cb.pc = "idle" /\ src.phase = "flushing"
            /\ src'.track = src.track /\ src'.phase = "idle" /\ heard'.announced = heard.announced
        BY <2>14, FlushIs
      <3> QED BY <3>1 DEF StartInv, Awaited, Flushed, BufUsed, Moving
    <2>15. CASE StrmF
      <3>1. /\ src'.track = src.track /\ src'.phase = "idle" /\ output'.track_start = Null
            /\ heard'.announced = heard.announced
        BY <2>15, StrmFIs
      <3> QED BY <3>1, ConstantsAre DEF StartInv
    <2>16. CASE StateCommand
      <3>1. UNCHANGED <<outputbuf, cb, src, heard>> /\ output'.track_start = output.track_start
        BY <2>16, CommandIs
      <3> QED BY <3>1 DEF StartInv, Awaited, Flushed, BufUsed, Moving
    <2> QED BY <1>1, StepsAre, <2>1, <2>2, <2>3, <2>4, <2>5, <2>6, <2>7, <2>8, <2>9, <2>10, <2>11, <2>12,
               <2>13, <2>14, <2>15, <2>16
  <1>2. CASE UNCHANGED vars
    BY <1>2 DEF vars, StartInv, Flushed, Awaited, Moving, BufUsed
  <1> QED BY <1>1, <1>2
-----------------------------------------------------------------------------
(* The silence before a change of format.                                   *)

LEMMA InitDelay ==
  ASSUME OutputAssumption, Init
  PROVE  DelayInv
  BY DEF Init, DelayInv

\* A delay holds the callback at the start of the track it is for.
LEMMA DelayHolds ==
  ASSUME OutputAssumption, Typed, DelayInv, output.delay_active, src.phase # "flushing"
  PROVE  /\ output.track_start = outputbuf.readp /\ output.track_start \in Int
         /\ output.state # "SKIP_FRAMES" /\ NeedsDelay /\ Awaited
  <1>1. output.track_start = outputbuf.readp /\ NeedsDelay /\ Awaited
    BY DEF DelayInv
  <1>2. outputbuf.readp \in Int
    BY RingIs DEF Typed
  <1> QED BY <1>1, <1>2, ConstantsAre DEF DelayInv

LEMMA SilenceTyped ==
  ASSUME OutputAssumption, Typed
  PROVE  heard.quiet \in Nat /\ Pending \in Nat /\ Silence \in Nat /\ HalfDelay \in Nat /\ cb.size \in Nat
  BY ConstantsAre DEF Typed, HeardTyped, OutputRecord, CbTyped, CbRecord, Pending, Silence

LEMMA EnterDelay ==
  ASSUME OutputAssumption, Typed, StartInv, DelayInv, RenderEnter
  PROVE  DelayInv'
  <1>1. PICK n \in Nat : Typed' /\ EnterSame /\ EnterWaits /\ EnterSkips(n)
    BY EnterIs
  <1>2. /\ src' = src /\ heard'.announced = heard.announced /\ output'.track_start = output.track_start
        /\ output'.delay_active = output.delay_active /\ heard'.quiet = heard.quiet /\ heard'.abrupt = heard.abrupt
        /\ output'.format = output.format /\ output'.next_format = output.next_format
        /\ output'.state = "SKIP_FRAMES" => output.state = "SKIP_FRAMES"
    BY <1>1 DEF EnterSame, EnterWaits
  <1>3. Pending' + Silence' >= Pending /\ (Moving' => Pending = 0) /\ Silence = 0
    BY <1>1 DEF EnterWaits, RenderEnter, Silence
  <1>4. /\ heard.quiet \in Nat /\ Pending \in Nat /\ Silence \in Nat /\ HalfDelay \in Nat
        /\ Pending' \in Nat /\ Silence' \in Nat
    <2>1. Pending' \in Nat /\ Silence' \in Nat
      BY <1>1 DEF Typed, OutputRecord, CbTyped, CbRecord, Pending, Silence
    <2> QED BY <2>1, SilenceTyped
  <1>5. ASSUME output.delay_active, src.phase # "flushing"
        PROVE  output'.track_start = outputbuf'.readp /\ Awaited' /\ NeedsDelay'
    <2>1. /\ output.track_start = outputbuf.readp /\ output.state # "SKIP_FRAMES" /\ NeedsDelay /\ Awaited
      BY <1>5, DelayHolds
    <2>2. n = 0
      BY <1>1, <2>1 DEF EnterSkips
    <2>3. outputbuf'.readp = outputbuf.readp
      BY <1>1, <2>2, StayIs DEF EnterSkips
    <2> QED BY <1>2, <2>1, <2>3 DEF Awaited, NeedsDelay
  <1>6. ASSUME output.delay_active
        PROVE  heard'.quiet + Pending' + Silence' >= HalfDelay /\ (Moving' => heard'.quiet >= HalfDelay)
    <2>1. heard.quiet + Pending + Silence >= HalfDelay
      BY <1>6 DEF DelayInv
    <2>2. ASSUME NEW q \in Nat, NEW p \in Nat, NEW t \in Nat, NEW s \in Nat, NEW h \in Nat,
                 q + p + 0 >= h, t + s >= p
          PROVE  q + t + s >= h /\ (p = 0 => q >= h)
      BY <2>2
    <2>3. heard.quiet + Pending' + Silence' >= HalfDelay /\ (Pending = 0 => heard.quiet >= HalfDelay)
      <3>1. heard.quiet + Pending + 0 >= HalfDelay
        BY <1>3, <2>1
      <3> QED BY <1>3, <1>4, <2>2, <3>1
    <2> QED BY <1>2, <1>3, <2>3
  <1> QED BY <1>2, <1>5, <1>6 DEF DelayInv

LEMMA SilenceDelay ==
  ASSUME OutputAssumption, Typed, StartInv, DelayInv, RenderLoop, LoopSilence
  PROVE  DelayInv'
  <1>1. /\ UNCHANGED <<outputbuf, output, src>> /\ cb'.pc # "loop" /\ Silence = cb.size
        /\ heard'.quiet = LesserOf(heard.quiet + cb.size, HalfDelay)
        /\ heard'.announced = heard.announced /\ heard'.abrupt = heard.abrupt
    BY SilenceIs
  <1>2. Silence' = 0 /\ ~Moving' /\ Pending' = Pending
    BY <1>1 DEF Silence, Moving, Pending
  <1>3. ASSUME heard.quiet + Pending + Silence >= HalfDelay
        PROVE  heard'.quiet + Pending' + Silence' >= HalfDelay
    <2>1. heard.quiet \in Nat /\ Pending \in Nat /\ HalfDelay \in Nat /\ cb.size \in Nat
      BY SilenceTyped
    <2>2. heard.quiet + Pending + cb.size >= HalfDelay
      BY <1>1, <1>3
    <2>3. LesserOf(heard.quiet + cb.size, HalfDelay) + Pending >= HalfDelay
      BY <2>1, <2>2 DEF LesserOf
    <2>4. LesserOf(heard.quiet + cb.size, HalfDelay) \in Nat
      BY <2>1 DEF LesserOf
    <2> QED BY <1>1, <1>2, <2>1, <2>3, <2>4
  <1> QED BY <1>1, <1>2, <1>3 DEF DelayInv, Awaited, NeedsDelay

LEMMA BeginDelay ==
  ASSUME OutputAssumption, Typed, StartInv, DelayInv, RenderLoop, LoopDelay
  PROVE  DelayInv'
  <1>1. /\ UNCHANGED <<outputbuf, src, heard>> /\ cb'.pc # "loop" /\ Moving
        /\ output.track_start = outputbuf.readp /\ NeedsDelay
        /\ output'.state = "PAUSE_FRAMES" /\ output'.count = HalfDelay
        /\ output'.track_start = output.track_start /\ output'.format = output.format
        /\ output'.next_format = output.next_format
    BY DelayIs
  <1>2. Awaited
    BY <1>1, RingIs DEF Typed, StartInv, Flushed
  <1>3. ~Moving' /\ Pending' = HalfDelay /\ Silence' = 0
    BY <1>1 DEF Moving, Pending, Silence
  <1>4. heard.quiet + HalfDelay + 0 >= HalfDelay
    BY SilenceTyped
  <1> QED BY <1>1, <1>2, <1>3, <1>4 DEF DelayInv, Awaited, NeedsDelay

LEMMA AnnounceDelay ==
  ASSUME OutputAssumption, Typed, StartInv, DelayInv, RenderLoop, LoopTrackStart
  PROVE  DelayInv'
  <1>1. /\ Moving /\ (NeedsDelay => output.delay_active /\ ~output'.delay_active)
        /\ ~NeedsDelay => output'.delay_active = output.delay_active
        /\ output'.track_start = Null
        /\ heard'.abrupt = (heard.abrupt \/ (NeedsDelay /\ heard.quiet < HalfDelay))
    BY AnnounceIs
  <1>2. src.phase # "flushing"
    BY <1>1 DEF StartInv
  <1>3. ~output'.delay_active
    BY <1>1, <1>2, DelayHolds
  <1>4. NeedsDelay => heard.quiet >= HalfDelay
    BY <1>1 DEF DelayInv
  <1>5. ~heard'.abrupt
    <2>1. ~(NeedsDelay /\ heard.quiet < HalfDelay)
      BY <1>4, SilenceTyped
    <2> QED BY <1>1, <2>1 DEF DelayInv
  <1> QED BY <1>1, <1>3, <1>5 DEF DelayInv

LEMMA MusicDelay ==
  ASSUME OutputAssumption, Typed, StartInv, DelayInv, RenderLoop, LoopPlay
  PROVE  DelayInv'
  <1>1. MusicSame /\ Moving /\ output.track_start # outputbuf.readp
    BY MusicIs
  <1>2. ~output.delay_active
    BY <1>1, DelayHolds DEF StartInv
  <1> QED BY <1>1, <1>2 DEF MusicSame, DelayInv

LEMMA DecodeDelay ==
  ASSUME OutputAssumption, Typed, StartInv, DelayInv, Decode
  PROVE  DelayInv'
  <1>1. /\ UNCHANGED <<output, cb, heard>> /\ src.phase = "run" /\ src'.track = src.track
        /\ src'.phase = "run" /\ src'.told = src.told
    BY DecodeIs
  <1>2. outputbuf'.readp = outputbuf.readp
    <2>1. PICK k \in 1 .. BufWritable : outputbuf' = Filled(outputbuf, k)
      BY DecodeIs
    <2>2. k \in Nat
      BY RingIs DEF Typed, BufWritable
    <2>3. ASSUME NEW d, d = Filled(outputbuf, k)
          PROVE  d.readp = outputbuf.readp
      BY <2>2, <2>3, FilledIs DEF Typed
    <2> QED BY <2>1, <2>3
  <1> QED BY <1>1, <1>2 DEF DelayInv, Awaited, NeedsDelay, Pending, Silence, Moving

LEMMA DelayKeeps ==
  ASSUME OutputAssumption, Typed, StartInv, DelayInv, [NextConsiderate]_vars
  PROVE  DelayInv'
  <1>1. CASE NextConsiderate
    <2>0. Next /\ (output.delay_active => ~StateCommand /\ ~StrmF)
          /\ (output'.state = "SKIP_FRAMES" => output'.track_start = Null)
      BY <1>1 DEF NextConsiderate, NotInDelay, NotOverStart
    <2>1. CASE RenderBegin
      <3>1. cb.pc = "idle" /\ cb'.pc = "enter" /\ UNCHANGED <<outputbuf, output, src, heard>>
        BY <2>1, BeginIs
      <3> QED BY <3>1 DEF DelayInv, Awaited, NeedsDelay, Pending, Silence, Moving
    <2>2. CASE RenderEnter
      BY <2>2, EnterDelay
    <2>3. CASE RenderLoop /\ LoopSilence
      BY <2>3, SilenceDelay
    <2>4. CASE RenderLoop /\ LoopDelay
      BY <2>4, BeginDelay
    <2>5. CASE RenderLoop /\ LoopTrackStart
      BY <2>5, AnnounceDelay
    <2>6. CASE RenderLoop /\ LoopPlay
      BY <2>6, MusicDelay
    <2>7. CASE StrmS
      <3>1. /\ UNCHANGED <<outputbuf, cb, heard>> /\ src.told /\ src.phase = "idle"
            /\ output'.delay_active = output.delay_active
        BY <2>7, StrmSIs
      <3>2. ~output'.delay_active
        BY <3>1, DelayHolds DEF Awaited
      <3> QED BY <2>0, <3>1, <3>2 DEF DelayInv
    <2>8. CASE TrackStart
      <3>1. /\ UNCHANGED <<cb, heard>> /\ src.phase = "open" /\ output'.delay_active = output.delay_active
        BY <2>8, TrackStartIs
      <3>2. ~output'.delay_active
        BY <3>1, DelayHolds DEF Awaited
      <3> QED BY <2>0, <3>1, <3>2 DEF DelayInv
    <2>9. CASE Decode
      BY <2>9, DecodeDelay
    <2>10. CASE DecodeEnd
      <3>1. /\ UNCHANGED <<outputbuf, cb, heard>> /\ src.phase = "run" /\ src'.track = src.track
            /\ src'.phase = "idle" /\ src'.told = src.told
            /\ StartSame(output, output') /\ output'.track_start = output.track_start
        BY <2>10, DecodeEndIs
      <3> QED BY <2>0, <3>1 DEF DelayInv, Awaited, NeedsDelay, Pending, Silence, Moving, StartSame
    <2>11. CASE StartDecoder
      <3>1. /\ UNCHANGED <<outputbuf, output, cb, heard>> /\ src.phase = "ready"
        BY <2>11, DecoderIs
      <3>2. ~output'.delay_active
        BY <3>1, DelayHolds DEF Awaited
      <3> QED BY <2>0, <3>1, <3>2 DEF DelayInv
    <2>12. CASE ControllerPass
      <3>1. /\ UNCHANGED <<outputbuf, cb, heard>> /\ src'.track = src.track /\ src'.phase = src.phase
            /\ src'.told => src.told \/ src.track \in heard.announced
            /\ output'.state = "PAUSE_FRAMES" <=> output.state = "PAUSE_FRAMES"
            /\ output'.count = output.count
            /\ output'.track_start = output.track_start /\ output'.delay_active = output.delay_active
            /\ output'.format = output.format /\ output'.next_format = output.next_format
        BY <2>12, PassIs
      <3> QED BY <2>0, <3>1 DEF DelayInv, Awaited, NeedsDelay, Pending, Silence, Moving
    <2>13. CASE StrmQ
      <3>1. UNCHANGED <<output, cb, heard>> /\ src'.phase = "flushing"
        BY <2>13, StrmQIs
      <3> QED BY <3>1 DEF DelayInv, Pending, Silence, Moving
    <2>14. CASE OutputFlush
      <3>1. ~output'.delay_active /\ heard'.abrupt = heard.abrupt
        BY <2>14, FlushIs
      <3> QED BY <2>0, <3>1 DEF DelayInv
    <2>15. CASE StrmF
      <3>1. /\ output'.delay_active = output.delay_active /\ heard'.abrupt = heard.abrupt
        BY <2>15, StrmFIs
      <3> QED BY <2>0, <2>15, <3>1 DEF DelayInv
    <2>16. CASE StateCommand
      <3>1. UNCHANGED <<outputbuf, cb, src, heard>> /\ output'.delay_active = output.delay_active
        BY <2>16, CommandIs
      <3> QED BY <2>0, <2>16, <3>1 DEF DelayInv
    <2> QED BY <2>0, StepsAre, <2>1, <2>2, <2>3, <2>4, <2>5, <2>6, <2>7, <2>8, <2>9, <2>10, <2>11, <2>12,
               <2>13, <2>14, <2>15, <2>16
  <1>2. CASE UNCHANGED vars
    BY <1>2 DEF vars, DelayInv, Awaited, NeedsDelay, Pending, Silence, Moving
  <1> QED BY <1>1, <1>2

\* For every buffer, delay and number of formats: the rate of the device is
\* not switched before the first half of the silence was played, however the
\* decoder, the server's commands and the callbacks come between
\* (_output_frames, "add silence delay in two halves").  Of ConsiderateSpec the
\* proof needs that no state command or strm f comes during that half, and
\* that no skip is asked for over the start of a track.
THEOREM SilenceBeforeSwitch ==
  ASSUME OutputAssumption
  PROVE  ConsiderateSpec => []NoAbruptSwitch
  <1> DEFINE Inv == Typed /\ StartInv /\ DelayInv
  <1>1. Init => Inv
    BY InitTyped, InitStart, InitDelay
  <1>2. Inv /\ [NextConsiderate]_vars => Inv'
    <2>1. [NextConsiderate]_vars => [Next]_vars
      BY DEF NextConsiderate
    <2> QED BY <2>1, TypedKeeps, StartKeeps, DelayKeeps
  <1>3. Inv => NoAbruptSwitch
    BY DEF DelayInv, NoAbruptSwitch
  <1> HIDE DEF Inv
  <1> QED BY <1>1, <1>2, <1>3, PTL DEF ConsiderateSpec
-----------------------------------------------------------------------------
(* The unread frames.                                                       *)

LEMMA FramesOrdered ==
  ASSUME NEW f \in Frame, NEW g \in Frame, NEW h \in Frame
  PROVE  /\ ~Before(f, f)
         /\ Before(f, g) /\ Before(g, h) => Before(f, h)
         /\ Before(f, g) /\ ~Before(h, g) => Before(f, h)
         /\ ~Before(g, f) /\ ~Before(h, g) => ~Before(h, f)
         /\ Before(f, g) => ~Before(g, f)
  <1>1. f[1] \in Nat /\ f[2] \in Nat /\ g[1] \in Nat /\ g[2] \in Nat /\ h[1] \in Nat /\ h[2] \in Nat
    BY DEF Frame
  <1> QED BY <1>1 DEF Before

LEMMA FrameIs ==
  ASSUME NEW t \in Nat, NEW p \in Nat
  PROVE  /\ <<t, p>> \in Frame /\ <<t + 1, 0>> \in Frame /\ ~Before(<<t + 1, 0>>, <<t, p>>)
         /\ \A q \in Nat : /\ p <= q => ~Before(<<t, q>>, <<t, p>>)
                           /\ p < q => Before(<<t, p>>, <<t, q>>)
  BY DEF Frame, Before

\* Where the i-th frame from offset r on lies.
LEMMA SlotIs ==
  ASSUME NEW n \in Nat \ {0}, NEW r \in 0 .. n - 1, NEW i \in 1 .. n
  PROVE  /\ (r + i - 1) % n = IF r + i - 1 < n THEN r + i - 1 ELSE r + i - 1 - n
         /\ (r + i - 1) % n \in 0 .. n - 1
  <1>1. CASE r + i - 1 < n
    <2>1. r + i - 1 \in 0 .. n - 1
      BY <1>1
    <2> QED BY <1>1, <2>1, ModSmall
  <1>2. CASE r + i - 1 >= n
    <2>1. r + i - 1 \in n .. 2 * n - 1
      BY <1>2
    <2>2. (r + i - 1) % n = r + i - 1 - n
      BY <2>1, ModOnce
    <2> QED BY <1>2, <2>1, <2>2
  <1> QED BY <1>1, <1>2

LEMMA EmptyQueue ==
  ASSUME NEW b, UnreadLen(b) = 0, NEW low, NEW high
  PROVE  Queue(b, low, high)
  BY DEF Queue

\* More may have been decoded than the queue says.
LEMMA QueueRaised ==
  ASSUME NEW b, NEW low, NEW high \in Frame, NEW top \in Frame, ~Before(top, high), Queue(b, low, high)
  PROVE  Queue(b, low, top)
  <1>1. ASSUME NEW i \in 1 .. UnreadLen(b)
        PROVE  Unread(b, i) \in Frame /\ Before(low, Unread(b, i)) /\ ~Before(top, Unread(b, i))
    <2>1. Unread(b, i) \in Frame /\ Before(low, Unread(b, i)) /\ ~Before(high, Unread(b, i))
      BY DEF Queue
    <2> QED BY <2>1, FramesOrdered
  <1> QED BY <1>1 DEF Queue

\* Reading k frames moves the others to the front.
LEMMA ReadMoves ==
  ASSUME OutputAssumption, NEW b, RingTyped(b), NEW k \in 0 .. UnreadLen(b), NEW c,
         c.readp = IncPtr(b.readp, k, b.size), c.writep = b.writep, c.size = b.size, c.mem = b.mem
  PROVE  /\ UnreadLen(b) \in Nat /\ UnreadLen(c) = UnreadLen(b) - k
         /\ \A i \in 1 .. UnreadLen(c) : i + k \in 1 .. UnreadLen(b) /\ Unread(c, i) = Unread(b, i + k)
  <1>1. /\ b.size \in Nat \ {0} /\ b.readp \in 0 .. b.size - 1 /\ b.writep \in 0 .. b.size - 1
        /\ UnreadLen(b) \in 0 .. b.size - 1
    BY RingIs DEF UnreadLen
  <1>2. UnreadLen(c) = UnreadLen(b) - k /\ c.readp \in 0 .. b.size - 1
    BY <1>1, UsedAfterRead DEF UnreadLen
  <1>3. ASSUME NEW i \in 1 .. UnreadLen(c)
        PROVE  i + k \in 1 .. UnreadLen(b) /\ Unread(c, i) = Unread(b, i + k)
    <2>1. i + k \in 1 .. UnreadLen(b) /\ i + k \in 1 .. b.size /\ i \in 1 .. b.size /\ k \in 0 .. b.size - 1
      BY <1>1, <1>2
    <2>2. c.readp = IF b.readp + k < b.size THEN b.readp + k ELSE b.readp + k - b.size
      BY <1>1, <2>1, IncPtrValue
    <2>3. (c.readp + i - 1) % b.size = IF c.readp + i - 1 < b.size THEN c.readp + i - 1 ELSE c.readp + i - 1 - b.size
      BY <1>1, <1>2, <2>1, SlotIs
    <2>4. (b.readp + (i + k) - 1) % b.size
            = IF b.readp + (i + k) - 1 < b.size THEN b.readp + (i + k) - 1 ELSE b.readp + (i + k) - 1 - b.size
      BY <1>1, <2>1, SlotIs
    <2>5. (c.readp + i - 1) % b.size = (b.readp + (i + k) - 1) % b.size
      <3> DEFINE x == (c.readp + i - 1) % b.size
                 y == (b.readp + (i + k) - 1) % b.size
      <3>1. x = IF c.readp + i - 1 < b.size THEN c.readp + i - 1 ELSE c.readp + i - 1 - b.size
        BY <2>3
      <3>2. y = IF b.readp + (i + k) - 1 < b.size THEN b.readp + (i + k) - 1 ELSE b.readp + (i + k) - 1 - b.size
        BY <2>4
      <3>3. b.size \in Int /\ b.readp \in Int /\ k \in Int /\ i \in Int /\ i >= 1 /\ i + k <= b.size
            /\ b.readp >= 0 /\ b.readp < b.size /\ k >= 0
        BY <1>1, <2>1
      <3> HIDE DEF x, y
      <3>4. x = y
        BY <2>2, <3>1, <3>2, <3>3
      <3> QED BY <3>4 DEF x, y
    <2> QED BY <2>1, <2>5 DEF Unread
  <1> QED BY <1>1, <1>2, <1>3

\* The first k frames are read.
LEMMA QueueRead ==
  ASSUME OutputAssumption, NEW b, RingTyped(b), NEW k \in 0 .. UnreadLen(b), NEW low \in Frame, NEW high \in Frame,
         ~Before(high, low), Queue(b, low, high), NEW c, c.readp = IncPtr(b.readp, k, b.size),
         c.writep = b.writep, c.size = b.size, c.mem = b.mem,
         NEW last, last = IF k = 0 THEN low ELSE Unread(b, k)
  PROVE  Queue(c, last, high) /\ last \in Frame /\ ~Before(high, last)
  <1>1. UnreadLen(b) \in Nat /\ UnreadLen(c) = UnreadLen(b) - k
    BY ReadMoves
  <1>3. ASSUME NEW i \in 1 .. UnreadLen(c)
        PROVE  i + k \in 1 .. UnreadLen(b) /\ Unread(c, i) = Unread(b, i + k)
    BY ReadMoves
  <1>4. last \in Frame /\ ~Before(high, last)
    BY DEF Queue
  <1>5. ASSUME NEW i \in 1 .. UnreadLen(c)
        PROVE  Unread(c, i) \in Frame /\ Before(last, Unread(c, i)) /\ ~Before(high, Unread(c, i))
    <2>1. i + k \in 1 .. UnreadLen(b) /\ Unread(c, i) = Unread(b, i + k)
      BY <1>3
    <2>2. Unread(b, i + k) \in Frame /\ Before(low, Unread(b, i + k)) /\ ~Before(high, Unread(b, i + k))
      BY <2>1 DEF Queue
    <2>3. ASSUME k # 0 PROVE Before(Unread(b, k), Unread(b, i + k))
      <3>1. k \in 1 .. UnreadLen(b) /\ k < i + k
        BY <1>1, <2>1, <2>3
      <3> QED BY <2>1, <3>1 DEF Queue
    <2> QED BY <2>1, <2>2, <2>3
  <1>6. ASSUME NEW i \in 1 .. UnreadLen(c), NEW j \in 1 .. UnreadLen(c), i < j
        PROVE  Before(Unread(c, i), Unread(c, j))
    <2>1. /\ i + k \in 1 .. UnreadLen(b) /\ Unread(c, i) = Unread(b, i + k)
          /\ j + k \in 1 .. UnreadLen(b) /\ Unread(c, j) = Unread(b, j + k)
      BY <1>3
    <2>2. i + k < j + k
      BY <1>6
    <2> QED BY <2>1, <2>2 DEF Queue
  <1> QED BY <1>4, <1>5, <1>6 DEF Queue

\* The last frames are taken back.
LEMMA QueueCut ==
  ASSUME OutputAssumption, NEW b, RingTyped(b), NEW low, NEW high, Queue(b, low, high),
         NEW c, c.readp = b.readp, c.size = b.size, c.mem = b.mem, UnreadLen(c) \in Nat, UnreadLen(c) <= UnreadLen(b)
  PROVE  Queue(c, low, high)
  <1>1. UnreadLen(b) \in Nat
    BY RingIs DEF UnreadLen
  <1>2. \A i \in 1 .. UnreadLen(c) : i \in 1 .. UnreadLen(b) /\ Unread(c, i) = Unread(b, i)
    BY <1>1 DEF Unread
  <1> QED BY <1>2 DEF Queue

\* The k frames that the codec writes follow the unread ones.
LEMMA FilledAppends ==
  ASSUME OutputAssumption, src \in SrcRecord, NEW b, RingTyped(b), NEW k \in 0 .. Writable(b.readp, b.writep, b.size),
         NEW c, c = Filled(b, k)
  PROVE  /\ UnreadLen(b) \in Nat /\ UnreadLen(c) = UnreadLen(b) + k /\ k \in Nat /\ src.track \in Nat /\ src.pos \in Nat
         /\ c.readp = b.readp /\ c.size = b.size
         /\ \A i \in 1 .. UnreadLen(b) + k :
              Unread(c, i) = IF i <= UnreadLen(b) THEN Unread(b, i)
                             ELSE <<src.track, src.pos + (i - UnreadLen(b))>>
  <1> DEFINE t == src.track p == src.pos used == UnreadLen(b)
  <1>1. /\ b.size \in Nat \ {0} /\ b.readp \in 0 .. b.size - 1 /\ b.writep \in 0 .. b.size - 1
        /\ used \in 0 .. b.size - 1
        /\ Writable(b.readp, b.writep, b.size) \in 0 .. (b.size - 1 - used)
    BY RingIs DEF UnreadLen
  <1>2. k \in Nat /\ used + k <= b.size - 1 /\ t \in Nat /\ p \in Nat
    BY <1>1 DEF SrcRecord
  <1>3. /\ c.readp = b.readp /\ c.writep = IncPtr(b.writep, k, b.size) /\ c.size = b.size
        /\ c.mem = [i \in 0 .. b.size - 1 |-> IF i >= b.writep /\ i < b.writep + k
                                             THEN <<src.track, src.pos + i - b.writep + 1>> ELSE b.mem[i]]
    BY <1>2, FilledIs
  <1>4. UnreadLen(c) = used + k /\ b.writep + k <= b.size
    BY <1>1, <1>3, UsedAfterWrite DEF UnreadLen
  <1>5. used = IF b.writep >= b.readp THEN b.writep - b.readp ELSE b.writep + b.size - b.readp
    BY <1>1 DEF UnreadLen, Used
  <1>6. ASSUME NEW i \in 1 .. used + k
        PROVE  Unread(c, i) = IF i <= used THEN Unread(b, i) ELSE <<t, p + (i - used)>>
    <2> DEFINE x == (b.readp + i - 1) % b.size
    <2>1. i \in 1 .. b.size
      BY <1>1, <1>2
    <2>2. x \in 0 .. b.size - 1 /\ x = IF b.readp + i - 1 < b.size THEN b.readp + i - 1 ELSE b.readp + i - 1 - b.size
      BY <1>1, <2>1, SlotIs
    <2>3. Unread(c, i) = (IF x >= b.writep /\ x < b.writep + k THEN <<t, p + x - b.writep + 1>> ELSE b.mem[x])
      BY <1>3, <2>2 DEF Unread
    <2>4. Unread(b, i) = b.mem[x]
      BY DEF Unread
    <2> HIDE DEF x, used, t, p
    <2>5. CASE i <= used
      <3>1. ~(x >= b.writep /\ x < b.writep + k)
        BY <1>1, <1>2, <1>4, <1>5, <2>1, <2>2, <2>5
      <3> QED BY <2>3, <2>4, <2>5, <3>1
    <2>6. CASE i > used
      <3>1. x >= b.writep /\ x < b.writep + k /\ x - b.writep + 1 = i - used
        BY <1>1, <1>2, <1>4, <1>5, <2>1, <2>2, <2>6
      <3>2. p + x - b.writep + 1 = p + (i - used) /\ ~(i <= used)
        BY <1>1, <1>2, <2>1, <2>2, <2>6, <3>1
      <3> QED BY <2>3, <3>1, <3>2
    <2> QED BY <1>1, <2>1, <2>5, <2>6
  <1> QED BY <1>1, <1>2, <1>3, <1>4, <1>6

\* The codec writes k frames.
LEMMA QueueFilled ==
  ASSUME OutputAssumption, src \in SrcRecord, NEW b, RingTyped(b), NEW k \in 0 .. Writable(b.readp, b.writep, b.size),
         NEW low \in Frame, ~Before(<<src.track, src.pos>>, low), Queue(b, low, <<src.track, src.pos>>),
         NEW c, c = Filled(b, k)
  PROVE  Queue(c, low, <<src.track, src.pos + k>>) /\ UnreadLen(c) = UnreadLen(b) + k
  <1> DEFINE t == src.track p == src.pos used == UnreadLen(b)
  <1>1. used \in Nat /\ k \in Nat /\ t \in Nat /\ p \in Nat
    BY FilledAppends
  <1>2. k \in Nat /\ t \in Nat /\ p \in Nat
    BY <1>1
  <1>4. UnreadLen(c) = used + k
    BY FilledAppends
  <1>6. ASSUME NEW i \in 1 .. used + k
        PROVE  Unread(c, i) = IF i <= used THEN Unread(b, i) ELSE <<t, p + (i - used)>>
    BY FilledAppends
  <1> HIDE DEF used, t, p
  <1>7. <<t, p>> \in Frame /\ <<t, p + k>> \in Frame /\ ~Before(<<t, p + k>>, <<t, p>>)
    <2>1. p + k \in Nat /\ p <= p + k
      BY <1>2
    <2> QED BY <1>2, <2>1, FrameIs
  <1>8. ASSUME NEW i \in 1 .. used
        PROVE  /\ Unread(b, i) \in Frame /\ Before(low, Unread(b, i)) /\ ~Before(<<t, p>>, Unread(b, i))
               /\ \A j \in 1 .. used : i < j => Before(Unread(b, i), Unread(b, j))
    BY DEF Queue, used, t, p
  <1>9. ASSUME NEW i \in 1 .. used + k, i > used
        PROVE  /\ Unread(c, i) = <<t, p + (i - used)>> /\ Unread(c, i) \in Frame /\ Before(<<t, p>>, Unread(c, i))
               /\ ~Before(<<t, p + k>>, Unread(c, i))
    <2>1. PICK q \in Nat : q = p + (i - used) /\ p < q /\ q <= p + k
      BY <1>1, <1>2, <1>9
    <2>2. Unread(c, i) = <<t, q>>
      BY <1>1, <1>6, <1>9, <2>1
    <2>3. PICK m \in Nat : m = p + k
      BY <1>2
    <2>4. /\ <<t, q>> \in Frame /\ Before(<<t, p>>, <<t, q>>) /\ ~Before(<<t, m>>, <<t, q>>)
      BY <1>2, <2>1, <2>3 DEF Frame, Before
    <2> QED BY <2>1, <2>2, <2>3, <2>4
  <1>10. ASSUME NEW i \in 1 .. used + k
         PROVE  Unread(c, i) \in Frame /\ Before(low, Unread(c, i)) /\ ~Before(<<t, p + k>>, Unread(c, i))
    <2>1. CASE i <= used
      <3>1. i \in 1 .. used /\ Unread(c, i) = Unread(b, i)
        BY <1>1, <1>6, <2>1
      <3>2. Unread(b, i) \in Frame /\ Before(low, Unread(b, i)) /\ ~Before(<<t, p>>, Unread(b, i))
        BY <1>8, <3>1
      <3> QED BY <1>7, <3>1, <3>2, FramesOrdered
    <2>2. CASE i > used
      <3>1. Unread(c, i) \in Frame /\ Before(<<t, p>>, Unread(c, i)) /\ ~Before(<<t, p + k>>, Unread(c, i))
        BY <1>9, <2>2
      <3>2. ~Before(<<t, p>>, low)
        BY DEF t, p
      <3>3. ASSUME NEW f \in Frame, Before(<<t, p>>, f) PROVE Before(low, f)
        <4>1. /\ low[1] \in Nat /\ low[2] \in Nat /\ f[1] \in Nat /\ f[2] \in Nat
          BY DEF Frame
        <4> QED BY <1>2, <3>2, <3>3, <4>1 DEF Before
      <3> QED BY <3>1, <3>3
    <2> QED BY <1>1, <1>2, <2>1, <2>2
  <1>11. ASSUME NEW i \in 1 .. used + k, NEW j \in 1 .. used + k, i < j
         PROVE  Before(Unread(c, i), Unread(c, j))
    <2>0. i \in Nat /\ j \in Nat /\ used \in Nat
      BY <1>1, <1>2
    <2>1. CASE j <= used
      <3>1. i \in 1 .. used /\ j \in 1 .. used /\ i <= used
        BY <1>11, <2>0, <2>1
      <3> QED BY <1>6, <1>8, <1>11, <2>1, <3>1
    <2>2. CASE i <= used /\ j > used
      <3>1. i \in 1 .. used /\ Unread(c, i) = Unread(b, i)
        BY <1>6, <2>0, <2>2
      <3>2. Unread(b, i) \in Frame /\ ~Before(<<t, p>>, Unread(b, i))
        BY <1>8, <3>1
      <3>3. Unread(c, j) \in Frame /\ Before(<<t, p>>, Unread(c, j))
        BY <1>9, <2>2
      <3>4. ASSUME NEW f \in Frame, NEW g \in Frame, ~Before(<<t, p>>, f), Before(<<t, p>>, g)
            PROVE  Before(f, g)
        <4>1. g[1] \in Nat /\ g[2] \in Nat /\ f[1] \in Nat /\ f[2] \in Nat
          BY DEF Frame
        <4> QED BY <1>2, <3>4, <4>1 DEF Before
      <3> QED BY <3>1, <3>2, <3>3, <3>4
    <2>3. CASE i > used
      <3>1. j > used
        BY <1>11, <2>0, <2>3
      <3>2. Unread(c, i) = <<t, p + (i - used)>> /\ Unread(c, j) = <<t, p + (j - used)>>
        BY <1>9, <2>3, <3>1
      <3>3. PICK x, y \in Nat : x = p + (i - used) /\ y = p + (j - used) /\ x < y
        BY <1>2, <1>11, <2>0, <2>3, <3>1
      <3>4. Before(<<t, x>>, <<t, y>>)
        BY <1>2, <3>3 DEF Before
      <3> QED BY <3>2, <3>3, <3>4
    <2> QED BY <2>0, <2>1, <2>2, <2>3
  <1>12. Queue(c, low, <<t, p + k>>)
    BY <1>4, <1>10, <1>11 DEF Queue
  <1> QED BY <1>4, <1>12 DEF t, p, used
-----------------------------------------------------------------------------
(* The queue through a callback.                                            *)

LEMMA NewestIs ==
  ASSUME Typed
  PROVE  Newest \in Frame /\ src.track \in Nat /\ src.pos \in Nat
  <1>1. src.track \in Nat /\ src.pos \in Nat
    BY DEF Typed, SrcRecord
  <1>2. <<src.track, src.pos>> \in Frame /\ <<src.track + 1, 0>> \in Frame
    BY <1>1, FrameIs
  <1> QED BY <1>1, <1>2 DEF Newest

LEMMA EnterQueue ==
  ASSUME OutputAssumption, Typed, DelayInv, QueueInv, RenderEnter
  PROVE  QueueInv'
  <1>1. PICK n \in Nat : EnterSame /\ EnterWaits /\ EnterSkips(n)
    BY EnterIs
  <1>2. BufUsed' = BufUsed - n /\ n \in 0 .. BufUsed /\ BufUsed \in Nat
    BY <1>1, SkipUses, StayIs DEF EnterSkips
  <1>3. /\ src' = src /\ heard'.garbage = heard.garbage /\ output'.track_start = output.track_start
        /\ outputbuf'.writep = outputbuf.writep /\ outputbuf'.size = outputbuf.size /\ outputbuf'.mem = outputbuf.mem
        /\ outputbuf'.readp = IncPtr(outputbuf.readp, n, outputbuf.size)
        /\ heard'.last = IF n = 0 THEN heard.last ELSE Unread(outputbuf, n)
    BY <1>1 DEF EnterSame, EnterSkips, Unread
  <1>4. Newest' = Newest
    BY <1>3 DEF Newest
  <1>5. Queue(outputbuf', heard'.last, Newest) /\ heard'.last \in Frame /\ ~Before(Newest, heard'.last)
    <2>1. RingTyped(outputbuf) /\ n \in 0 .. UnreadLen(outputbuf) /\ Newest \in Frame
      BY <1>2, NewestIs DEF Typed, UnreadLen, BufUsed
    <2>2. heard.last \in Frame /\ ~Before(Newest, heard.last) /\ Queue(outputbuf, heard.last, Newest)
      BY DEF QueueInv
    <2> QED BY <1>3, <2>1, <2>2, QueueRead
  <1>6. ASSUME output'.track_start \in Int, ~Flushed'
        PROVE  Used(outputbuf'.readp, output'.track_start, outputbuf'.size) <= BufUsed'
    <2>1. output.state # "SKIP_FRAMES"
      BY <1>3, <1>6, ConstantsAre DEF DelayInv
    <2>2. n = 0 /\ outputbuf'.readp = outputbuf.readp /\ BufUsed' = BufUsed
      BY <1>1, <1>2, <2>1, StayIs DEF EnterSkips
    <2>3. ~Flushed
      BY <1>1, <1>3, <1>6, <2>2 DEF Flushed, Moving, EnterWaits
    <2> QED BY <1>3, <1>6, <2>2, <2>3 DEF QueueInv
  <1> QED BY <1>3, <1>4, <1>5, <1>6 DEF QueueInv

LEMMA RunIs ==
  ASSUME OutputAssumption, Typed, NEW k \in 0 .. Piece
  PROVE  /\ k \in 0 .. UnreadLen(outputbuf) /\ k <= outputbuf.size - outputbuf.readp
         /\ \A j \in 1 .. k : CopyRun(outputbuf, outputbuf.readp, k)[j] = Unread(outputbuf, j)
  <1>1. /\ Piece \in Nat /\ Piece <= BufContRead /\ BufContRead \in 0 .. BufUsed
        /\ BufContRead <= outputbuf.size - outputbuf.readp
    BY PieceIs
  <1>2. outputbuf.size \in Nat \ {0} /\ outputbuf.readp \in 0 .. outputbuf.size - 1 /\ BufUsed \in Nat
    BY StayIs
  <1>3. k \in 0 .. BufUsed /\ k <= outputbuf.size - outputbuf.readp
    BY <1>1, <1>2
  <1>4. ASSUME NEW j \in 1 .. k
        PROVE  CopyRun(outputbuf, outputbuf.readp, k)[j] = Unread(outputbuf, j)
    <2>1. outputbuf.readp + j - 1 < outputbuf.size /\ j \in 1 .. outputbuf.size
      BY <1>2, <1>3
    <2>2. (outputbuf.readp + j - 1) % outputbuf.size = outputbuf.readp + j - 1
      BY <1>2, <2>1, SlotIs
    <2> QED BY <2>1, <2>2 DEF CopyRun, Unread
  <1> QED BY <1>3, <1>4 DEF BufUsed, UnreadLen

\* Without crossfades the start of a track is a whole frame of the ring.
LEMMA StartWhole ==
  ASSUME OutputAssumption, Typed, NoCross, output.track_start \in Int
  PROVE  output.track_start \in 0 .. outputbuf.size - 1
  BY ConstantsAre DEF Typed, StartTyped, NoCross

\* A piece ends before the start of the next track.
LEMMA PieceEnds ==
  ASSUME OutputAssumption, Typed, NoCross, output.track_start \in Int, output.track_start # outputbuf.readp,
         NEW k \in 0 .. Piece
  PROVE  k \in 0 .. StartsIn
  <1> DEFINE r == outputbuf.readp n == outputbuf.size s == output.track_start
  <1>1. n \in Nat \ {0} /\ r \in 0 .. n - 1 /\ s \in 0 .. n - 1 /\ s # r
    BY RingIs, StartWhole DEF Typed
  <1>2. /\ Piece \in Nat /\ Piece <= n - r
        /\ s > r => Piece <= s - r
    <2>1. /\ Piece \in Nat /\ Piece <= BufContRead /\ BufContRead \in 0 .. BufUsed /\ BufContRead <= n - r
          /\ s > r => Piece <= s - r
      BY PieceIs
    <2>2. BufUsed \in Nat
      BY StayIs
    <2> QED BY <1>1, <2>1, <2>2
  <1>3. StartsIn = Used(r, s, n)
    BY DEF StartsIn
  <1> HIDE DEF r, n, s
  <1> QED BY <1>1, <1>2, <1>3 DEF Used

LEMMA MusicQueue ==
  ASSUME OutputAssumption, Typed, StartInv, NoCross, QueueInv, RenderLoop, LoopPlay
  PROVE  QueueInv'
  <1>1. PICK k \in Nat : NextFrames(k) /\ MusicSame /\ Moving /\ output.track_start # outputbuf.readp
    BY MusicIs DEF NoCross
  <1>2. /\ src' = src /\ output'.track_start = output.track_start
        /\ outputbuf'.writep = outputbuf.writep /\ outputbuf'.size = outputbuf.size /\ outputbuf'.mem = outputbuf.mem
        /\ outputbuf'.readp = IncPtr(outputbuf.readp, k, outputbuf.size) /\ k \in 0 .. Piece
    BY <1>1 DEF MusicSame, NextFrames
  <1>3. /\ k \in 0 .. UnreadLen(outputbuf) /\ k <= outputbuf.size - outputbuf.readp
        /\ \A j \in 1 .. k : CopyRun(outputbuf, outputbuf.readp, k)[j] = Unread(outputbuf, j)
    BY <1>2, RunIs
  <1>4. heard'.last = IF k = 0 THEN heard.last ELSE Unread(outputbuf, k)
    <2>1. heard'.last = IF k = 0 THEN heard.last ELSE CopyRun(outputbuf, outputbuf.readp, k)[k]
      BY <1>1 DEF NextFrames
    <2>2. k # 0 => k \in 1 .. k
      OBVIOUS
    <2> QED BY <1>3, <2>1, <2>2
  <1>5. ~heard'.garbage
    <2> DEFINE run == CopyRun(outputbuf, outputbuf.readp, k)
               prev(j) == IF j = 1 THEN heard.last ELSE run[j - 1]
    <2>0. UnreadLen(outputbuf) \in Nat
      BY RingIs DEF Typed, UnreadLen
    <2>1. heard'.garbage = (heard.garbage \/ \E j \in 1 .. k : run[j] = Junk \/ ~Before(prev(j), run[j]))
      BY <1>1 DEF NextFrames
    <2>2. \A j \in 1 .. k : run[j] = Unread(outputbuf, j)
      BY <1>3
    <2> HIDE DEF run
    <2>3. ASSUME NEW j \in 1 .. k
          PROVE  run[j] # Junk /\ Before(prev(j), run[j])
      <3>1. j \in 1 .. UnreadLen(outputbuf) /\ j \in Nat
        BY <1>3, <2>0
      <3>2. Unread(outputbuf, j) \in Frame /\ Before(heard.last, Unread(outputbuf, j))
        BY <3>1 DEF QueueInv, Queue
      <3>3. ASSUME j # 1 PROVE Before(run[j - 1], run[j])
        <4>1. j - 1 \in 1 .. k /\ j - 1 \in 1 .. UnreadLen(outputbuf) /\ j - 1 < j
          BY <1>3, <2>0, <3>1, <3>3
        <4>2. Before(Unread(outputbuf, j - 1), Unread(outputbuf, j))
          BY <3>1, <4>1 DEF QueueInv, Queue
        <4> QED BY <2>2, <4>1, <4>2
      <3> QED BY <2>2, <3>2, <3>3, ConstantsAre
    <2> QED BY <2>1, <2>3 DEF QueueInv
  <1>6. Newest' = Newest
    BY <1>2 DEF Newest
  <1>7. Queue(outputbuf', heard'.last, Newest) /\ heard'.last \in Frame /\ ~Before(Newest, heard'.last)
    <2>1. RingTyped(outputbuf) /\ Newest \in Frame
      BY NewestIs DEF Typed
    <2>2. heard.last \in Frame /\ ~Before(Newest, heard.last) /\ Queue(outputbuf, heard.last, Newest)
      BY DEF QueueInv
    <2> QED BY <1>2, <1>3, <1>4, <2>1, <2>2, QueueRead
  <1>8. ASSUME output'.track_start \in Int
        PROVE  Used(outputbuf'.readp, output'.track_start, outputbuf'.size) <= BufUsed'
    <2> DEFINE r == outputbuf.readp n == outputbuf.size w == outputbuf.writep s == output.track_start
               q == outputbuf'.readp
    <2>1. Used(r, s, n) <= Used(r, w, n)
      BY <1>1, <1>2, <1>8 DEF QueueInv, Flushed, BufUsed
    <2>2. s \in 0 .. n - 1 /\ s # r
      BY <1>1, <1>2, <1>8, StartWhole
    <2>3. n \in Nat \ {0} /\ r \in 0 .. n - 1 /\ w \in 0 .. n - 1
      BY RingIs DEF Typed
    <2>5. k \in 0 .. Used(r, w, n)
      BY <1>3 DEF UnreadLen
    <2>6. q = IncPtr(r, k, n)
      BY <1>2
    <2>7. k \in 0 .. Used(r, s, n)
      BY <1>1, <1>2, <1>8, PieceEnds DEF StartsIn
    <2> HIDE DEF r, n, w, s, q
    <2>8. Used(q, s, n) = Used(r, s, n) - k
      BY <2>2, <2>3, <2>6, <2>7, UsedAfterRead
    <2>9. Used(q, w, n) = Used(r, w, n) - k
      BY <2>3, <2>5, <2>6, UsedAfterRead
    <2>10. Used(r, s, n) \in Int /\ Used(r, w, n) \in Int /\ k \in Int
      BY <2>2, <2>3 DEF Used
    <2>11. Used(q, s, n) <= Used(q, w, n)
      BY <2>1, <2>8, <2>9, <2>10
    <2>12. Used(q, outputbuf'.writep, outputbuf'.size) = Used(q, w, n)
      BY <1>2 DEF w, n
    <2>13. BufUsed' = Used(q, w, n)
      BY <2>12 DEF BufUsed, q
    <2> QED BY <1>2, <2>11, <2>13 DEF q, s, n
  <1>9. src.phase \in {"ready", "open"} => src.pos = 0
    BY DEF QueueInv
  <1> QED BY <1>2, <1>5, <1>6, <1>7, <1>8, <1>9 DEF QueueInv

LEMMA RenderQueue ==
  ASSUME OutputAssumption, Typed, StartInv, DelayInv, NoCross, QueueInv, Render
  PROVE  QueueInv'
  <1>1. CASE RenderBegin
    <2>1. cb.pc = "idle" /\ cb'.pc = "enter" /\ UNCHANGED <<outputbuf, output, src, heard>>
      BY <1>1, BeginIs
    <2> QED BY <2>1 DEF QueueInv, Newest, Flushed, Moving, BufUsed
  <1>2. CASE RenderEnter
    BY <1>2, EnterQueue
  <1>3. CASE RenderLoop /\ LoopSilence
    <2>1. /\ UNCHANGED <<outputbuf, output, src>> /\ cb'.pc # "loop" /\ heard'.garbage = heard.garbage
          /\ heard'.last = heard.last /\ cb.silence
      BY <1>3, SilenceIs DEF LoopSilence
    <2> QED BY <2>1 DEF QueueInv, Newest, Flushed, Moving, BufUsed
  <1>4. CASE RenderLoop /\ LoopDelay
    <2>1. UNCHANGED <<outputbuf, src, heard>> /\ Moving /\ output'.track_start = output.track_start
      BY <1>4, DelayIs
    <2> QED BY <2>1 DEF QueueInv, Newest, Flushed, BufUsed
  <1>5. CASE RenderLoop /\ LoopTrackStart
    <2>1. /\ UNCHANGED <<outputbuf, src>> /\ output'.track_start = Null /\ heard'.garbage = heard.garbage
          /\ heard'.last = heard.last
      BY <1>5, AnnounceIs
    <2> QED BY <2>1, ConstantsAre DEF QueueInv, Newest
  <1>6. CASE RenderLoop /\ LoopPlay
    BY <1>6, MusicQueue
  <1> QED BY <1>1, <1>2, <1>3, <1>4, <1>5, <1>6 DEF Render, RenderLoop
-----------------------------------------------------------------------------
(* The queue through the steps of the codec and the controller.             *)

LEMMA InitQueue ==
  ASSUME OutputAssumption, Init
  PROVE  QueueInv /\ NoCross
  <1>1. /\ outputbuf.readp = 0 /\ outputbuf.writep = 0 /\ heard.last = <<0, 0>> /\ ~heard.garbage
        /\ src.phase = "idle" /\ src.track = 0
        /\ output.track_start = Null /\ output.fade_mode = "NONE" /\ output.fade_dir = "UP"
    BY DEF Init, FreshBuf
  <1>2. UnreadLen(outputbuf) = 0
    BY <1>1 DEF UnreadLen, Used
  <1>3. Newest = <<1, 0>> /\ <<0, 0>> \in Frame /\ ~Before(<<1, 0>>, <<0, 0>>)
    BY <1>1 DEF Newest, Frame, Before
  <1> QED BY <1>1, <1>2, <1>3, ConstantsAre, EmptyQueue DEF QueueInv, NoCross

LEMMA CrossKeeps ==
  ASSUME OutputAssumption, "CROSSFADE" \notin FadeModes, Typed, NoCross, [Next]_vars
  PROVE  NoCross'
  <1>1. CASE Next
    <2>1. CASE RenderBegin \/ RenderEnter \/ (RenderLoop /\ LoopSilence) \/ (RenderLoop /\ LoopDelay)
      <3>1. /\ output'.fade_mode = output.fade_mode /\ output'.fade_dir = output.fade_dir
            /\ output'.track_start = output.track_start
        BY <2>1, BeginIs, EnterIs, SilenceIs, DelayIs DEF EnterSame
      <3> QED BY <3>1 DEF NoCross
    <2>2. CASE RenderLoop /\ LoopTrackStart
      BY <2>2, AnnounceIs, ConstantsAre DEF NoCross
    <2>3. CASE RenderLoop /\ LoopPlay
      BY <2>3, MusicIs DEF NoCross, MusicSame
    <2>4. CASE StrmS
      <3>1. /\ output'.fade_mode \in FadeModes /\ output'.fade_dir = output.fade_dir
            /\ output'.track_start = output.track_start
        BY <2>4, StrmSIs
      <3> QED BY <3>1 DEF NoCross
    <2>5. CASE TrackStart
      <3>1. /\ output'.fade_mode = output.fade_mode /\ output'.track_start = outputbuf.writep
            /\ output'.fade_dir \in {output.fade_dir, "UP"}
        BY <2>5, TrackStartIs DEF NoCross
      <3>2. outputbuf.writep \in Nat
        BY RingIs DEF Typed
      <3> QED BY <3>1, <3>2, ConstantsAre DEF NoCross
    <2>6. CASE DecodeEnd
      BY <2>6, DecodeEndIs DEF NoCross, StartSame
    <2>7. CASE Decode \/ StartDecoder \/ StrmQ
      <3>1. output' = output
        BY <2>7, DecodeIs, DecoderIs, StrmQIs
      <3> QED BY <3>1 DEF NoCross
    <2>8. CASE ControllerPass \/ OutputFlush \/ StateCommand
      <3>1. /\ output'.fade_mode = output.fade_mode /\ output'.fade_dir = output.fade_dir
            /\ output'.track_start = output.track_start
        BY <2>8, PassIs, FlushIs, CommandIs
      <3> QED BY <3>1 DEF NoCross
    <2>9. CASE StrmF
      BY <2>9, StrmFIs, ConstantsAre DEF NoCross
    <2> QED BY <1>1, <2>1, <2>2, <2>3, <2>4, <2>5, <2>6, <2>7, <2>8, <2>9, StepsAre
  <1>2. CASE UNCHANGED vars
    BY <1>2 DEF vars, NoCross
  <1> QED BY <1>1, <1>2

LEMMA FilledPointers ==
  ASSUME OutputAssumption, src \in SrcRecord, NEW b, RingTyped(b), NEW k \in Nat, NEW c, c = Filled(b, k)
  PROVE  c.readp = b.readp /\ c.size = b.size
  <1>1. c.readp = b.readp
    BY FilledIs
  <1>2. c.size = b.size
    BY FilledIs
  <1> QED BY <1>1, <1>2

\* The codec's writes, at the start of a track and after it.
LEMMA WriteQueue ==
  ASSUME OutputAssumption, Typed, QueueInv, src.phase \in {"open", "run"}, UNCHANGED heard,
         NEW k \in 0 .. BufWritable, outputbuf' = Filled(outputbuf, k),
         src'.track = src.track, src'.pos = src.pos + k, src'.phase = "run"
  PROVE  /\ ~heard'.garbage /\ heard'.last \in Frame /\ ~Before(Newest', heard'.last)
         /\ Queue(outputbuf', heard'.last, Newest') /\ BufUsed' = BufUsed + k /\ outputbuf'.readp = outputbuf.readp
         /\ outputbuf'.size = outputbuf.size
  <1>1. Newest = <<src.track, src.pos>> /\ Newest' = <<src.track, src.pos + k>>
    BY DEF Newest
  <1>2. /\ RingTyped(outputbuf) /\ src \in SrcRecord /\ src.track \in Nat /\ src.pos \in Nat
        /\ k \in 0 .. Writable(outputbuf.readp, outputbuf.writep, outputbuf.size) /\ k \in Nat
    BY RingIs, NewestIs DEF Typed, BufWritable
  <1>3. /\ ~heard.garbage /\ heard.last \in Frame /\ ~Before(<<src.track, src.pos>>, heard.last)
        /\ Queue(outputbuf, heard.last, <<src.track, src.pos>>)
    BY <1>1 DEF QueueInv
  <1>4. ASSUME NEW c, c = Filled(outputbuf, k)
        PROVE  /\ Queue(c, heard.last, <<src.track, src.pos + k>>) /\ UnreadLen(c) = UnreadLen(outputbuf) + k
               /\ c.readp = outputbuf.readp /\ c.size = outputbuf.size
    <2>1. Queue(c, heard.last, <<src.track, src.pos + k>>) /\ UnreadLen(c) = UnreadLen(outputbuf) + k
      BY <1>2, <1>3, <1>4, QueueFilled
    <2>2. c.readp = outputbuf.readp /\ c.size = outputbuf.size
      <3>1. RingTyped(outputbuf) /\ src \in SrcRecord /\ k \in Nat
        BY <1>2
      <3> QED BY <1>4, <3>1, FilledPointers
    <2> QED BY <2>1, <2>2
  <1>5. /\ Queue(outputbuf', heard.last, <<src.track, src.pos + k>>)
        /\ UnreadLen(outputbuf') = UnreadLen(outputbuf) + k
        /\ outputbuf'.readp = outputbuf.readp /\ outputbuf'.size = outputbuf.size
    BY <1>4
  <1>6. ~Before(<<src.track, src.pos + k>>, heard.last)
    <2>1. PICK t, p, q \in Nat : t = src.track /\ p = src.pos /\ q = src.pos + k /\ p <= q
      BY <1>2
    <2>2. <<t, p>> \in Frame /\ <<t, q>> \in Frame /\ ~Before(<<t, q>>, <<t, p>>)
      BY <2>1 DEF Frame, Before
    <2>3. ~Before(<<t, q>>, heard.last)
      BY <1>3, <2>1, <2>2, FramesOrdered
    <2> QED BY <2>1, <2>3
  <1>7. BufUsed' = UnreadLen(outputbuf') /\ BufUsed = UnreadLen(outputbuf)
    BY DEF BufUsed, UnreadLen
  <1> QED BY <1>1, <1>3, <1>5, <1>6, <1>7

LEMMA DecodeQueue ==
  ASSUME OutputAssumption, Typed, NoCross, QueueInv, TrackStart \/ Decode
  PROVE  QueueInv'
  <1>1. CASE TrackStart
    <2>1. /\ UNCHANGED <<cb, heard>> /\ src.phase = "open"
          /\ src'.track = src.track /\ src'.phase = "run" /\ output'.track_start = outputbuf.writep
      BY <1>1, TrackStartIs DEF NoCross
    <2>2. PICK k \in 0 .. BufWritable : src'.pos = k /\ outputbuf' = Filled(outputbuf, k)
      BY <1>1, TrackStartIs DEF NoCross
    <2>3. k \in Nat /\ BufUsed \in Nat /\ src.pos = 0
      BY <2>1, RingIs DEF Typed, BufWritable, BufUsed, QueueInv
    <2>4. src'.pos = src.pos + k
      BY <2>2, <2>3
    <2>5. /\ ~heard'.garbage /\ heard'.last \in Frame /\ ~Before(Newest', heard'.last)
          /\ Queue(outputbuf', heard'.last, Newest') /\ BufUsed' = BufUsed + k /\ outputbuf'.readp = outputbuf.readp
          /\ outputbuf'.size = outputbuf.size
      BY <2>1, <2>2, <2>4, WriteQueue
    <2>6. Used(outputbuf'.readp, output'.track_start, outputbuf'.size) <= BufUsed'
      <3>1. Used(outputbuf'.readp, output'.track_start, outputbuf'.size) = BufUsed
        BY <2>1, <2>5 DEF BufUsed
      <3> QED BY <2>3, <2>5, <3>1
    <2> QED BY <2>1, <2>5, <2>6 DEF QueueInv
  <1>2. CASE Decode
    <2>1. /\ UNCHANGED <<output, cb, heard>> /\ src.phase = "run"
          /\ src'.track = src.track /\ src'.phase = "run"
      BY <1>2, DecodeIs
    <2>2. PICK k \in 1 .. BufWritable : src'.pos = src.pos + k /\ outputbuf' = Filled(outputbuf, k)
      BY <1>2, DecodeIs
    <2>3. k \in Nat /\ BufUsed \in Nat /\ k \in 0 .. BufWritable
      BY <2>1, RingIs DEF Typed, BufWritable, BufUsed
    <2>5. /\ ~heard'.garbage /\ heard'.last \in Frame /\ ~Before(Newest', heard'.last)
          /\ Queue(outputbuf', heard'.last, Newest') /\ BufUsed' = BufUsed + k /\ outputbuf'.readp = outputbuf.readp
          /\ outputbuf'.size = outputbuf.size
      BY <2>1, <2>2, <2>3, WriteQueue
    <2>6. ASSUME output'.track_start \in Int
          PROVE  Used(outputbuf'.readp, output'.track_start, outputbuf'.size) <= BufUsed'
      <3>1. Used(outputbuf.readp, output.track_start, outputbuf.size) <= BufUsed
        BY <2>1, <2>6 DEF QueueInv, Flushed
      <3>2. Used(outputbuf.readp, output.track_start, outputbuf.size) \in Int
        BY <2>1, <2>6, RingIs DEF Typed, Used
      <3> QED BY <2>1, <2>3, <2>5, <3>1, <3>2
    <2> QED BY <2>1, <2>5, <2>6 DEF QueueInv
  <1> QED BY <1>1, <1>2

\* strm f takes back the frames from the track start on.
LEMMA CutIs ==
  ASSUME OutputAssumption, Typed, NoCross, QueueInv, StrmF, NotTwice
  PROVE  /\ UnreadLen(outputbuf') \in Nat /\ UnreadLen(outputbuf') <= UnreadLen(outputbuf)
         /\ output.track_start \in Int => UnreadLen(outputbuf') = StartsIn
  <1>0. /\ outputbuf'.readp = outputbuf.readp /\ outputbuf'.size = outputbuf.size
        /\ outputbuf'.writep = IF output.track_start \in Nat THEN output.track_start ELSE outputbuf.writep
    BY StrmFIs
  <1>1. RingTyped(outputbuf') /\ UnreadLen(outputbuf) \in Nat
    BY RingIs, StrmFIs DEF Typed, UnreadLen
  <1>2. UnreadLen(outputbuf') \in Nat
    <2>1. ASSUME NEW c, RingTyped(c) PROVE UnreadLen(c) \in Nat
      BY <2>1, RingIs DEF UnreadLen
    <2> QED BY <1>1, <2>1
  <1>3. CASE output.track_start \in Int
    <2>1. BufUsed > 0
      BY <1>3, ConstantsAre DEF NotTwice
    <2>2. ~Flushed
      BY <2>1 DEF Flushed
    <2>3. Used(outputbuf.readp, output.track_start, outputbuf.size) <= BufUsed
      BY <1>3, <2>2 DEF QueueInv
    <2>4. Used(outputbuf'.readp, outputbuf'.writep, outputbuf'.size)
            = Used(outputbuf.readp, output.track_start, outputbuf.size)
      <3>1. output.track_start \in Nat
        BY <1>3, ConstantsAre DEF NoCross
      <3> QED BY <1>0, <3>1
    <2>5. UnreadLen(outputbuf') = StartsIn
      BY <2>4 DEF UnreadLen, StartsIn
    <2>6. StartsIn <= UnreadLen(outputbuf)
      BY <2>3 DEF StartsIn, UnreadLen, BufUsed
    <2> QED BY <1>2, <2>5, <2>6
  <1>4. CASE output.track_start \notin Int
    <2>1. UnreadLen(outputbuf') = UnreadLen(outputbuf)
      BY <1>0, <1>4 DEF UnreadLen
    <2> QED BY <1>1, <1>4, <2>1
  <1> QED BY <1>2, <1>3, <1>4

LEMMA StrmFQueue ==
  ASSUME OutputAssumption, Typed, NoCross, QueueInv, StrmF, NotTwice
  PROVE  QueueInv'
  <1>1. /\ src'.track = src.track /\ src'.pos = src.pos /\ src'.phase = "idle" /\ output'.track_start = Null
        /\ heard'.garbage = (heard.garbage \/ output.track_start \notin Nat \cup {Null}) /\ heard'.last = heard.last
        /\ outputbuf'.readp = outputbuf.readp /\ outputbuf'.size = outputbuf.size /\ outputbuf'.mem = outputbuf.mem
        /\ outputbuf'.writep = IF output.track_start \in Nat THEN output.track_start ELSE outputbuf.writep
    BY StrmFIs
  <1>2. Newest' \in Frame /\ ~Before(Newest', Newest) /\ Newest \in Frame
    <2>1. src.track \in Nat /\ src.pos \in Nat /\ Newest \in Frame
      BY NewestIs
    <2>2. Newest' = <<src.track + 1, 0>> /\ <<src.track + 1, 0>> \in Frame
          /\ ~Before(<<src.track + 1, 0>>, <<src.track, src.pos>>)
      BY <1>1, <2>1, FrameIs DEF Newest
    <2>3. Newest = <<src.track + 1, 0>> \/ Newest = <<src.track, src.pos>>
      BY DEF Newest
    <2> QED BY <2>1, <2>2, <2>3, FramesOrdered
  <1>3. UnreadLen(outputbuf') \in Nat /\ UnreadLen(outputbuf') <= UnreadLen(outputbuf)
    BY CutIs
  <1>4. ~heard.garbage /\ heard.last \in Frame /\ ~Before(Newest, heard.last) /\ Queue(outputbuf, heard.last, Newest)
    BY DEF QueueInv
  <1>5. Queue(outputbuf', heard.last, Newest')
    <2>1. Queue(outputbuf, heard.last, Newest')
      BY <1>2, <1>4, QueueRaised
    <2>2. RingTyped(outputbuf)
      BY DEF Typed
    <2> QED BY <1>1, <1>3, <2>1, <2>2, QueueCut
  <1>6. ~Before(Newest', heard.last)
    BY <1>2, <1>4, FramesOrdered
  <1> QED BY <1>1, <1>4, <1>5, <1>6, ConstantsAre DEF QueueInv, NoCross

\* The stream ends, or is given up: nothing of the track follows.
LEMMA EndRaises ==
  ASSUME OutputAssumption, Typed, QueueInv, UNCHANGED heard, src'.track = src.track,
         src'.phase \in {"idle", "flushing"}, outputbuf' = outputbuf \/ UnreadLen(outputbuf') = 0
  PROVE  heard'.last \in Frame /\ ~Before(Newest', heard'.last) /\ Queue(outputbuf', heard'.last, Newest')
  <1>1. src.track \in Nat /\ src.pos \in Nat /\ Newest \in Frame
    BY NewestIs
  <1>2. Newest' = <<src.track + 1, 0>> /\ <<src.track + 1, 0>> \in Frame
        /\ ~Before(<<src.track + 1, 0>>, <<src.track, src.pos>>)
    BY <1>1, FrameIs DEF Newest
  <1>3. Newest = <<src.track + 1, 0>> \/ Newest = <<src.track, src.pos>>
    BY DEF Newest
  <1>4. Newest' \in Frame /\ ~Before(Newest', Newest)
    BY <1>1, <1>2, <1>3, FramesOrdered
  <1>5. heard.last \in Frame /\ ~Before(Newest, heard.last) /\ Queue(outputbuf, heard.last, Newest)
    BY DEF QueueInv
  <1>6. ~Before(Newest', heard.last)
    BY <1>1, <1>4, <1>5, FramesOrdered
  <1>7. CASE outputbuf' = outputbuf
    <2>1. Queue(outputbuf, heard.last, Newest')
      BY <1>1, <1>4, <1>5, QueueRaised
    <2> QED BY <1>5, <1>6, <1>7, <2>1
  <1>8. CASE UnreadLen(outputbuf') = 0
    BY <1>5, <1>6, <1>8, EmptyQueue
  <1> QED BY <1>7, <1>8

LEMMA QueueKeeps ==
  ASSUME OutputAssumption, Typed, StartInv, DelayInv, NoCross, QueueInv, [NextConsiderate]_vars
  PROVE  QueueInv'
  <1>1. CASE NextConsiderate
    <2>0. Next /\ NotTwice
      BY <1>1 DEF NextConsiderate
    <2>1. CASE RenderBegin \/ RenderEnter \/ RenderLoop
      BY <2>1, RenderQueue DEF Render
    <2>2. CASE StrmS
      <3>1. /\ UNCHANGED <<outputbuf, cb, heard>> /\ src.told /\ src.phase = "idle"
            /\ src'.track = src.track + 1 /\ src'.pos = 0 /\ src'.phase = "ready"
            /\ output'.track_start = output.track_start
        BY <2>2, StrmSIs
      <3>2. Newest' = Newest
        BY <3>1 DEF Newest
      <3>3. output'.track_start \in Int => Flushed'
        BY <3>1 DEF StartInv, Awaited, Flushed, BufUsed, Moving
      <3> QED BY <3>1, <3>2, <3>3 DEF QueueInv
    <2>3. CASE TrackStart \/ Decode
      BY <2>3, DecodeQueue
    <2>4. CASE DecodeEnd
      <3>1. /\ UNCHANGED <<outputbuf, cb, heard>> /\ src.phase = "run" /\ src'.track = src.track
            /\ src'.phase = "idle" /\ output'.track_start = output.track_start
        BY <2>4, DecodeEndIs
      <3>2. heard'.last \in Frame /\ ~Before(Newest', heard'.last) /\ Queue(outputbuf', heard'.last, Newest')
        BY <3>1, EndRaises
      <3>3. BufUsed' = BufUsed /\ ~Flushed
        BY <3>1 DEF BufUsed, Flushed
      <3> QED BY <3>1, <3>2, <3>3 DEF QueueInv
    <2>5. CASE StartDecoder
      <3>1. /\ UNCHANGED <<outputbuf, output, cb, heard>> /\ src.phase = "ready" /\ src'.track = src.track
            /\ src'.phase = "open" /\ src'.pos = src.pos
        BY <2>5, DecoderIs
      <3> QED BY <3>1 DEF QueueInv, Newest, Flushed, BufUsed, Moving
    <2>6. CASE ControllerPass
      <3>1. /\ UNCHANGED <<outputbuf, cb, heard>> /\ src'.track = src.track /\ src'.phase = src.phase
            /\ src'.pos = src.pos /\ output'.track_start = output.track_start
        BY <2>6, PassIs
      <3> QED BY <3>1 DEF QueueInv, Newest, Flushed, BufUsed, Moving
    <2>7. CASE StrmQ
      <3>1. /\ UNCHANGED <<output, cb, heard>> /\ cb.pc = "idle" /\ src'.track = src.track
            /\ src'.phase = "flushing" /\ outputbuf'.readp = 0 /\ outputbuf'.writep = 0
        BY <2>7, StrmQIs
      <3>2. UnreadLen(outputbuf') = 0 /\ BufUsed' = 0
        BY <3>1 DEF UnreadLen, BufUsed, Used
      <3>3. heard'.last \in Frame /\ ~Before(Newest', heard'.last) /\ Queue(outputbuf', heard'.last, Newest')
        BY <3>1, <3>2, EndRaises
      <3>4. Flushed'
        BY <3>1, <3>2 DEF Flushed, Moving
      <3> QED BY <3>1, <3>3, <3>4 DEF QueueInv
    <2>8. CASE OutputFlush
      <3>1. /\ UNCHANGED <<outputbuf, cb>> /\ cb.pc = "idle" /\ src.phase = "flushing"
            /\ src'.track = src.track /\ src'.phase = "idle"
            /\ heard'.garbage = heard.garbage /\ heard'.last = <<src.track + 1, 0>>
        BY <2>8, FlushIs
      <3>2. Newest' = <<src.track + 1, 0>>
        BY <3>1 DEF Newest
      <3>3. <<src.track + 1, 0>> \in Frame /\ ~Before(<<src.track + 1, 0>>, <<src.track + 1, 0>>)
        BY NewestIs, FrameIs, FramesOrdered
      <3>4. BufUsed' = 0 /\ UnreadLen(outputbuf') = 0
        BY <3>1 DEF StartInv, UnreadLen, BufUsed
      <3>5. Queue(outputbuf', heard'.last, Newest')
        BY <3>4, EmptyQueue
      <3>6. Flushed'
        BY <3>1, <3>4 DEF Flushed, Moving
      <3> QED BY <3>1, <3>2, <3>3, <3>5, <3>6 DEF QueueInv
    <2>9. CASE StrmF
      BY <2>0, <2>9, StrmFQueue
    <2>10. CASE StateCommand
      <3>1. UNCHANGED <<outputbuf, cb, src, heard>> /\ output'.track_start = output.track_start
        BY <2>10, CommandIs
      <3> QED BY <3>1 DEF QueueInv, Newest, Flushed, BufUsed, Moving
    <2> QED BY <2>0, StepsAre, <2>1, <2>2, <2>3, <2>4, <2>5, <2>6, <2>7, <2>8, <2>9, <2>10
  <1>2. CASE UNCHANGED vars
    BY <1>2 DEF vars, QueueInv, Newest, Flushed, BufUsed, Moving
  <1> QED BY <1>1, <1>2

\* Without crossfades, and with a server that ConsiderateSpec describes, the
\* device gets the frames in the order in which they were decoded: none twice,
\* none that a flush gave up, none from a part of the ring that was never
\* written, with the pointers inside the ring throughout.  So it is for every
\* size of the ring, every length of the tracks and every moment at which
\* strm q, f, a pause or a skip comes between two pieces (_output_frames,
\* output_flush, output_flush_streaming).
THEOREM OnlyNextFrames ==
  ASSUME OutputAssumption, "CROSSFADE" \notin FadeModes
  PROVE  ConsiderateSpec => [](NoGarbage /\ ~heard.garbage)
  <1> DEFINE Inv == Typed /\ StartInv /\ DelayInv /\ NoCross /\ QueueInv
  <1>1. Init => Inv
    BY InitTyped, InitStart, InitDelay, InitQueue
  <1>2. Inv /\ [NextConsiderate]_vars => Inv'
    <2>1. [NextConsiderate]_vars => [Next]_vars
      BY DEF NextConsiderate
    <2> QED BY <2>1, TypedKeeps, StartKeeps, DelayKeeps, CrossKeeps, QueueKeeps
  <1>3. Inv => NoGarbage /\ ~heard.garbage
    BY TypedMeans DEF QueueInv, NoGarbage
  <1> HIDE DEF Inv
  <1> QED BY <1>1, <1>2, <1>3, PTL DEF ConsiderateSpec
-----------------------------------------------------------------------------
(* The tracks in the queue.                                                 *)

LEMMA AtOrdered ==
  ASSUME NEW b, UnreadLen(b) \in Nat, NEW low \in Frame, NEW high \in Frame, ~Before(high, low), Queue(b, low, high)
  PROVE  /\ \A i \in 0 .. UnreadLen(b) : At(b, low, i) \in Frame /\ ~Before(high, At(b, low, i))
         /\ \A i, j \in 0 .. UnreadLen(b) : i < j => Before(At(b, low, i), At(b, low, j))
  <1>1. ASSUME NEW i \in 0 .. UnreadLen(b)
        PROVE  At(b, low, i) \in Frame /\ ~Before(high, At(b, low, i))
    <2>1. CASE i = 0
      BY <2>1 DEF At
    <2>2. CASE i # 0
      <3>1. i \in 1 .. UnreadLen(b)
        BY <2>2
      <3> QED BY <2>2, <3>1 DEF At, Queue
    <2> QED BY <2>1, <2>2
  <1>2. ASSUME NEW i \in 0 .. UnreadLen(b), NEW j \in 0 .. UnreadLen(b), i < j
        PROVE  Before(At(b, low, i), At(b, low, j))
    <2>1. j \in 1 .. UnreadLen(b) /\ j # 0
      BY <1>2
    <2>2. CASE i = 0
      BY <2>1, <2>2 DEF At, Queue
    <2>3. CASE i # 0
      <3>1. i \in 1 .. UnreadLen(b)
        BY <2>3
      <3> QED BY <1>2, <2>1, <2>3, <3>1 DEF At, Queue
    <2> QED BY <2>2, <2>3
  <1> QED BY <1>1, <1>2

LEMMA EmptyChain ==
  ASSUME NEW b, UnreadLen(b) = 0, NEW low
  PROVE  Chain(b, low)
  BY DEF Chain

LEMMA AtRead ==
  ASSUME OutputAssumption, NEW b, RingTyped(b), NEW k \in 0 .. UnreadLen(b), NEW c,
         c.readp = IncPtr(b.readp, k, b.size), c.writep = b.writep, c.size = b.size, c.mem = b.mem,
         NEW low, NEW last, last = IF k = 0 THEN low ELSE Unread(b, k)
  PROVE  /\ UnreadLen(b) \in Nat /\ UnreadLen(c) = UnreadLen(b) - k /\ UnreadLen(c) \in Nat
         /\ \A i \in 0 .. UnreadLen(c) : i + k \in 0 .. UnreadLen(b) /\ At(c, last, i) = At(b, low, i + k)
  <1>1. UnreadLen(b) \in Nat /\ UnreadLen(c) = UnreadLen(b) - k
    BY ReadMoves
  <1>2. UnreadLen(c) \in Nat
    BY <1>1
  <1>3. ASSUME NEW i \in 0 .. UnreadLen(c)
        PROVE  i + k \in 0 .. UnreadLen(b) /\ At(c, last, i) = At(b, low, i + k)
    <2>0. i + k \in 0 .. UnreadLen(b)
      BY <1>1, <1>2
    <2>1. CASE i = 0
      <3>1. i + k = k
        BY <1>1, <2>1
      <3> QED BY <2>0, <2>1, <3>1 DEF At
    <2>2. CASE i # 0
      <3>1. i \in 1 .. UnreadLen(c) /\ i + k # 0
        BY <1>1, <1>2, <2>2
      <3>2. Unread(c, i) = Unread(b, i + k)
        BY <3>1, ReadMoves
      <3> QED BY <2>0, <2>2, <3>1, <3>2 DEF At
    <2> QED BY <2>1, <2>2
  <1> QED BY <1>1, <1>2, <1>3

\* The first k frames are read.
LEMMA ChainRead ==
  ASSUME OutputAssumption, NEW b, RingTyped(b), NEW k \in 0 .. UnreadLen(b), NEW c,
         c.readp = IncPtr(b.readp, k, b.size), c.writep = b.writep, c.size = b.size, c.mem = b.mem,
         NEW low, NEW last, last = IF k = 0 THEN low ELSE Unread(b, k), Chain(b, low)
  PROVE  Chain(c, last) /\ At(c, last, UnreadLen(c)) = At(b, low, UnreadLen(b))
  <1>1. UnreadLen(b) \in Nat /\ UnreadLen(c) = UnreadLen(b) - k /\ UnreadLen(c) \in Nat /\ k \in Nat
    BY AtRead
  <1>2. ASSUME NEW i \in 0 .. UnreadLen(c)
        PROVE  i + k \in 0 .. UnreadLen(b) /\ At(c, last, i) = At(b, low, i + k)
    BY AtRead
  <1>3. ASSUME NEW i \in 0 .. UnreadLen(c), NEW j \in 0 .. UnreadLen(c), i < j,
               At(c, last, i)[1] = At(c, last, j)[1]
        PROVE  At(c, last, j)[2] = At(c, last, i)[2] + (j - i)
    <2>1. /\ i + k \in 0 .. UnreadLen(b) /\ At(c, last, i) = At(b, low, i + k)
          /\ j + k \in 0 .. UnreadLen(b) /\ At(c, last, j) = At(b, low, j + k)
      BY <1>2
    <2>2. i + k < j + k /\ (j + k) - (i + k) = j - i
      BY <1>1, <1>3
    <2>3. At(b, low, j + k)[2] = At(b, low, i + k)[2] + ((j + k) - (i + k))
      BY <1>3, <2>1, <2>2 DEF Chain
    <2> QED BY <2>1, <2>2, <2>3
  <1>4. ASSUME NEW i \in 1 .. UnreadLen(c), At(c, last, i)[1] # At(c, last, i - 1)[1]
        PROVE  At(c, last, i)[2] = 1
    <2>1. i \in 0 .. UnreadLen(c) /\ i - 1 \in 0 .. UnreadLen(c) /\ (i - 1) + k = (i + k) - 1
      BY <1>1
    <2>2. /\ At(c, last, i) = At(b, low, i + k) /\ At(c, last, i - 1) = At(b, low, (i - 1) + k)
          /\ i + k \in 0 .. UnreadLen(b)
      BY <1>2, <2>1
    <2>3. At(c, last, i - 1) = At(b, low, (i + k) - 1) /\ i + k \in 1 .. UnreadLen(b)
      BY <1>1, <2>1, <2>2
    <2> QED BY <1>4, <2>2, <2>3 DEF Chain
  <1>5. At(c, last, UnreadLen(c)) = At(b, low, UnreadLen(b))
    <2>1. UnreadLen(c) \in 0 .. UnreadLen(c) /\ UnreadLen(c) + k = UnreadLen(b)
      BY <1>1
    <2> QED BY <1>2, <2>1
  <1> QED BY <1>3, <1>4, <1>5 DEF Chain

\* The last frames are taken back.
LEMMA ChainCut ==
  ASSUME OutputAssumption, NEW b, RingTyped(b), NEW low, Chain(b, low),
         NEW c, c.readp = b.readp, c.size = b.size, c.mem = b.mem, UnreadLen(c) \in Nat, UnreadLen(c) <= UnreadLen(b)
  PROVE  Chain(c, low)
  <1>1. UnreadLen(b) \in Nat
    BY RingIs DEF UnreadLen
  <1>2. \A i : At(c, low, i) = At(b, low, i)
    BY DEF Unread, At
  <1>3. /\ \A i \in 0 .. UnreadLen(c) : i \in 0 .. UnreadLen(b)
        /\ \A i \in 1 .. UnreadLen(c) : i \in 1 .. UnreadLen(b)
    BY <1>1
  <1> QED BY <1>2, <1>3 DEF Chain

\* The codec writes k frames.
LEMMA ChainFilled ==
  ASSUME OutputAssumption, src \in SrcRecord, NEW b, RingTyped(b), NEW k \in 0 .. Writable(b.readp, b.writep, b.size),
         NEW low \in Frame, ~Before(<<src.track, src.pos>>, low), Queue(b, low, <<src.track, src.pos>>),
         Chain(b, low), LastDecoded(At(b, low, UnreadLen(b))), NEW c, c = Filled(b, k)
  PROVE  /\ Chain(c, low) /\ UnreadLen(c) = UnreadLen(b) + k
         /\ \/ At(c, low, UnreadLen(c)) = <<src.track, src.pos + k>>
            \/ At(c, low, UnreadLen(c))[1] < src.track /\ src.pos + k = 0
  <1> DEFINE t == src.track p == src.pos n == UnreadLen(b)
  <1>1. n \in Nat /\ k \in Nat /\ t \in Nat /\ p \in Nat /\ UnreadLen(c) = n + k
    BY FilledAppends
  <1>2. ASSUME NEW i \in 0 .. n + k
        PROVE  At(c, low, i) = IF i <= n THEN At(b, low, i) ELSE <<t, p + (i - n)>>
    <2>1. CASE i = 0
      BY <1>1, <2>1 DEF At
    <2>2. CASE i # 0
      <3>1. i \in 1 .. n + k
        BY <1>1, <2>2
      <3>2. Unread(c, i) = IF i <= n THEN Unread(b, i) ELSE <<t, p + (i - n)>>
        BY <3>1, FilledAppends
      <3> QED BY <2>2, <3>2 DEF At
    <2> QED BY <2>1, <2>2
  <1>3. /\ \A i \in 0 .. n : At(b, low, i) \in Frame
        /\ \A i, j \in 0 .. n : i < j => Before(At(b, low, i), At(b, low, j))
    <2>1. <<t, p>> \in Frame
      BY <1>1 DEF Frame
    <2> QED BY <1>1, <2>1, AtOrdered
  <1>4. At(b, low, n) = <<t, p>> \/ (At(b, low, n)[1] < t /\ p = 0)
    BY DEF LastDecoded
  <1>5. /\ \A i, j \in 0 .. n : i < j /\ At(b, low, i)[1] = At(b, low, j)[1]
                                  => At(b, low, j)[2] = At(b, low, i)[2] + (j - i)
        /\ \A i \in 1 .. n : At(b, low, i)[1] # At(b, low, i - 1)[1] => At(b, low, i)[2] = 1
    BY DEF Chain
  <1> HIDE DEF t, p, n
  <1>6. ASSUME NEW i \in 0 .. n, At(b, low, i)[1] = t
        PROVE  At(b, low, n) = <<t, p>> /\ p = At(b, low, i)[2] + (n - i) /\ At(b, low, i)[2] \in Nat
    <2>1. At(b, low, i) \in Frame /\ At(b, low, n) \in Frame
      BY <1>1, <1>3
    <2>2. At(b, low, i)[1] \in Nat /\ At(b, low, i)[2] \in Nat /\ At(b, low, n)[1] \in Nat /\ At(b, low, n)[2] \in Nat
      BY <2>1 DEF Frame
    <2>3. CASE i = n
      BY <1>1, <1>4, <1>6, <2>2, <2>3
    <2>4. CASE i # n
      <3>1. i < n /\ n \in 0 .. n
        BY <1>1, <2>4
      <3>2. Before(At(b, low, i), At(b, low, n))
        BY <1>3, <3>1
      <3>3. At(b, low, n)[1] >= t
        BY <1>6, <2>2, <3>2 DEF Before
      <3>4. At(b, low, n) = <<t, p>>
        BY <1>1, <1>4, <2>2, <3>3
      <3>5. At(b, low, n)[2] = At(b, low, i)[2] + (n - i)
        BY <1>5, <1>6, <3>1, <3>4
      <3> QED BY <2>2, <3>4, <3>5
    <2> QED BY <2>3, <2>4
  <1>7. ASSUME NEW i \in 0 .. n + k, NEW j \in 0 .. n + k, i < j, At(c, low, i)[1] = At(c, low, j)[1]
        PROVE  At(c, low, j)[2] = At(c, low, i)[2] + (j - i)
    <2>0. i \in Nat /\ j \in Nat
      BY <1>1
    <2>1. CASE j <= n
      <3>1. i \in 0 .. n /\ j \in 0 .. n /\ i <= n
        BY <1>1, <1>7, <2>0, <2>1
      <3>2. At(c, low, i) = At(b, low, i) /\ At(c, low, j) = At(b, low, j)
        BY <1>2, <2>1, <3>1
      <3> QED BY <1>5, <1>7, <3>1, <3>2
    <2>2. CASE i <= n /\ ~(j <= n)
      <3>1. At(c, low, i) = At(b, low, i) /\ At(c, low, j) = <<t, p + (j - n)>> /\ i \in 0 .. n
        BY <1>1, <1>2, <2>0, <2>2
      <3>2. At(b, low, i)[1] = t
        BY <1>7, <3>1
      <3>3. p = At(b, low, i)[2] + (n - i) /\ At(b, low, i)[2] \in Nat
        BY <1>6, <3>1, <3>2
      <3>4. p + (j - n) = At(b, low, i)[2] + (j - i)
        BY <1>1, <2>0, <3>3
      <3> QED BY <3>1, <3>4
    <2>3. CASE ~(i <= n)
      <3>1. ~(j <= n)
        BY <1>1, <1>7, <2>0, <2>3
      <3>2. At(c, low, i) = <<t, p + (i - n)>> /\ At(c, low, j) = <<t, p + (j - n)>>
        BY <1>2, <2>3, <3>1
      <3>3. p + (j - n) = (p + (i - n)) + (j - i)
        BY <1>1, <2>0
      <3> QED BY <3>2, <3>3
    <2> QED BY <2>1, <2>2, <2>3
  <1>8. ASSUME NEW i \in 1 .. n + k, At(c, low, i)[1] # At(c, low, i - 1)[1]
        PROVE  At(c, low, i)[2] = 1
    <2>0. i \in Nat /\ i \in 0 .. n + k /\ i - 1 \in 0 .. n + k /\ i - 1 \in Nat
      BY <1>1
    <2>1. CASE i <= n
      <3>1. i \in 1 .. n /\ i - 1 <= n
        BY <1>1, <2>0, <2>1
      <3>2. At(c, low, i) = At(b, low, i) /\ At(c, low, i - 1) = At(b, low, i - 1)
        BY <1>2, <2>0, <2>1, <3>1
      <3> QED BY <1>5, <1>8, <3>1, <3>2
    <2>2. CASE i = n + 1
      <3>1. i - 1 = n /\ n <= n /\ ~(i <= n) /\ p + (i - n) = p + 1
        BY <1>1, <2>2
      <3>2. At(c, low, i) = <<t, p + (i - n)>> /\ At(c, low, i - 1) = At(b, low, n)
        BY <1>2, <2>0, <3>1
      <3>3. At(b, low, n) # <<t, p>>
        BY <1>8, <3>2
      <3> QED BY <1>4, <3>1, <3>2, <3>3
    <2>3. CASE i > n + 1
      <3>1. ~(i <= n) /\ ~(i - 1 <= n)
        BY <1>1, <2>0, <2>3
      <3>2. At(c, low, i)[1] = t /\ At(c, low, i - 1)[1] = t
        BY <1>2, <2>0, <3>1
      <3> QED BY <1>8, <3>2
    <2> QED BY <1>1, <2>0, <2>1, <2>2, <2>3
  <1>9. At(c, low, n + k) = <<t, p + k>> \/ (At(c, low, n + k)[1] < t /\ p + k = 0)
    <2>1. CASE k = 0
      <3>1. n + k = n /\ n <= n /\ p + k = p /\ n + k \in 0 .. n + k
        BY <1>1, <2>1
      <3>2. At(c, low, n + k) = At(b, low, n)
        BY <1>2, <3>1
      <3> QED BY <1>4, <3>1, <3>2
    <2>2. CASE k # 0
      <3>1. ~(n + k <= n) /\ p + ((n + k) - n) = p + k /\ n + k \in 0 .. n + k
        BY <1>1, <2>2
      <3> QED BY <1>2, <3>1
    <2> QED BY <2>1, <2>2
  <1>10. Chain(c, low)
    BY <1>1, <1>7, <1>8 DEF Chain
  <1> QED BY <1>1, <1>9, <1>10 DEF t, p, n

LEMMA InitChain ==
  ASSUME OutputAssumption, Init
  PROVE  ChainInv
  <1>1. outputbuf.readp = 0 /\ outputbuf.writep = 0 /\ src.phase = "idle"
    BY DEF Init, FreshBuf
  <1>2. UnreadLen(outputbuf) = 0
    BY <1>1 DEF UnreadLen, Used
  <1> QED BY <1>1, <1>2, EmptyChain DEF ChainInv

\* What is played or skipped: the first n unread frames.
Takes(n) ==
    /\ n \in 0 .. UnreadLen(outputbuf) /\ outputbuf'.readp = IncPtr(outputbuf.readp, n, outputbuf.size)
    /\ outputbuf'.writep = outputbuf.writep /\ outputbuf'.size = outputbuf.size /\ outputbuf'.mem = outputbuf.mem
    /\ heard'.last = IF n = 0 THEN heard.last ELSE Unread(outputbuf, n)
    /\ output'.frames_played = output.frames_played + n /\ output'.track_start = output.track_start
    /\ src' = src /\ heard'.announced = heard.announced

LEMMA EnterTakes ==
  ASSUME OutputAssumption, Typed, RenderEnter
  PROVE  \E n \in Nat : /\ Takes(n) /\ (n > 0 => output.state = "SKIP_FRAMES") /\ heard'.played = heard.played
                        /\ heard'.skipped = heard.skipped \cup RingRun(outputbuf, outputbuf.readp, n)
  <1>1. PICK n \in Nat : EnterSame /\ EnterSkips(n)
    BY EnterIs
  <1>2. Takes(n)
    BY <1>1 DEF EnterSame, EnterSkips, Takes, BufUsed, UnreadLen, Unread
  <1>3. /\ n > 0 => output.state = "SKIP_FRAMES"
        /\ heard'.played = heard.played /\ heard'.skipped = heard.skipped \cup RingRun(outputbuf, outputbuf.readp, n)
    BY <1>1 DEF EnterSkips
  <1> QED BY <1>2, <1>3

LEMMA MusicTakes ==
  ASSUME OutputAssumption, Typed, NoCross, RenderLoop, LoopPlay
  PROVE  \E k \in Nat : /\ Takes(k) /\ Moving /\ k \in 0 .. Piece /\ output.track_start # outputbuf.readp
                        /\ heard'.played = heard.played \cup {Unread(outputbuf, j) : j \in 1 .. k}
                        /\ heard'.skipped = heard.skipped
  <1>1. PICK k \in Nat : NextFrames(k) /\ MusicSame /\ Moving /\ output.track_start # outputbuf.readp
    BY MusicIs DEF NoCross
  <1>2. /\ k \in 0 .. UnreadLen(outputbuf) /\ k \in 0 .. Piece
        /\ \A j \in 1 .. k : CopyRun(outputbuf, outputbuf.readp, k)[j] = Unread(outputbuf, j)
    BY <1>1, RunIs DEF NextFrames
  <1>3. heard'.last = IF k = 0 THEN heard.last ELSE Unread(outputbuf, k)
    <2>1. heard'.last = IF k = 0 THEN heard.last ELSE CopyRun(outputbuf, outputbuf.readp, k)[k]
      BY <1>1 DEF NextFrames
    <2>2. k # 0 => k \in 1 .. k
      OBVIOUS
    <2> QED BY <1>2, <2>1, <2>2
  <1>4. heard'.played = heard.played \cup {Unread(outputbuf, j) : j \in 1 .. k}
    <2>1. heard'.played = heard.played \cup {CopyRun(outputbuf, outputbuf.readp, k)[j] : j \in 1 .. k}
      BY <1>1 DEF NextFrames
    <2> QED BY <1>2, <2>1
  <1>5. Takes(k)
    BY <1>1, <1>2, <1>3 DEF NextFrames, MusicSame, Takes
  <1> QED BY <1>1, <1>2, <1>4, <1>5 DEF MusicSame

LEMMA TakesChain ==
  ASSUME OutputAssumption, Typed, ChainInv, NEW n \in Nat, Takes(n)
  PROVE  ChainInv'
  <1>1. RingTyped(outputbuf) /\ Chain(outputbuf, heard.last)
    BY DEF Typed, ChainInv
  <1>2. /\ Chain(outputbuf', heard'.last)
        /\ At(outputbuf', heard'.last, UnreadLen(outputbuf')) = At(outputbuf, heard.last, UnreadLen(outputbuf))
    BY <1>1, ChainRead DEF Takes
  <1> QED BY <1>2 DEF Takes, ChainInv, LastDecoded

LEMMA WriteChain ==
  ASSUME OutputAssumption, Typed, QueueInv, ChainInv, src.phase \in {"open", "run"}, UNCHANGED heard,
         NEW k \in 0 .. BufWritable, outputbuf' = Filled(outputbuf, k),
         src'.track = src.track, src'.pos = src.pos + k, src'.phase = "run"
  PROVE  ChainInv'
  <1>1. Newest = <<src.track, src.pos>>
    BY DEF Newest
  <1>2. /\ RingTyped(outputbuf) /\ src \in SrcRecord
        /\ k \in 0 .. Writable(outputbuf.readp, outputbuf.writep, outputbuf.size)
    BY DEF Typed, BufWritable
  <1>3. /\ heard.last \in Frame /\ ~Before(<<src.track, src.pos>>, heard.last)
        /\ Queue(outputbuf, heard.last, <<src.track, src.pos>>)
    BY <1>1 DEF QueueInv
  <1>4. Chain(outputbuf, heard.last) /\ LastDecoded(At(outputbuf, heard.last, UnreadLen(outputbuf)))
    BY DEF ChainInv
  <1>5. ASSUME NEW c, c = Filled(outputbuf, k)
        PROVE  /\ Chain(c, heard.last)
               /\ \/ At(c, heard.last, UnreadLen(c)) = <<src.track, src.pos + k>>
                  \/ At(c, heard.last, UnreadLen(c))[1] < src.track /\ src.pos + k = 0
    BY <1>2, <1>3, <1>4, <1>5, ChainFilled
  <1>6. /\ Chain(outputbuf', heard.last)
        /\ \/ At(outputbuf', heard.last, UnreadLen(outputbuf')) = <<src.track, src.pos + k>>
           \/ At(outputbuf', heard.last, UnreadLen(outputbuf'))[1] < src.track /\ src.pos + k = 0
    BY <1>5
  <1>7. /\ Chain(outputbuf', heard'.last)
        /\ LastDecoded(At(outputbuf, heard.last, UnreadLen(outputbuf)))'
    BY <1>6 DEF LastDecoded
  <1> QED BY <1>7 DEF ChainInv

LEMMA StrmSChain ==
  ASSUME OutputAssumption, Typed, QueueInv, ChainInv, StrmS
  PROVE  ChainInv'
  <1>1. /\ UNCHANGED <<outputbuf, heard>> /\ src.phase = "idle"
        /\ src'.track = src.track + 1 /\ src'.pos = 0 /\ src'.phase = "ready"
    BY StrmSIs
  <1> DEFINE f == At(outputbuf, heard.last, UnreadLen(outputbuf))
  <1>2. f \in Frame /\ ~Before(<<src.track + 1, 0>>, f)
    <2>1. Newest = <<src.track + 1, 0>> /\ Newest \in Frame
      BY <1>1, NewestIs DEF Newest
    <2>2. UnreadLen(outputbuf) \in Nat
      BY RingIs DEF Typed, UnreadLen
    <2>3. UnreadLen(outputbuf) \in 0 .. UnreadLen(outputbuf)
      BY <2>2
    <2> QED BY <2>1, <2>2, <2>3, AtOrdered DEF QueueInv
  <1>3. f = <<src.track + 1, 0>> \/ f[1] < src.track + 1
    <2>1. f[1] \in Nat /\ f[2] \in Nat /\ f = <<f[1], f[2]>>
      BY <1>2 DEF Frame
    <2>2. src.track \in Nat
      BY NewestIs
    <2> HIDE DEF f
    <2> QED BY <1>2, <2>1, <2>2 DEF Before
  <1>4. f' = f
    BY <1>1
  <1>5. LastDecoded(f)'
    BY <1>1, <1>3, <1>4 DEF LastDecoded
  <1> QED BY <1>1, <1>5 DEF ChainInv

LEMMA ChainKeeps ==
  ASSUME OutputAssumption, Typed, StartInv, NoCross, QueueInv, ChainInv, [NextConsiderate]_vars
  PROVE  ChainInv'
  <1>1. CASE NextConsiderate
    <2>0. Next /\ NotTwice
      BY <1>1 DEF NextConsiderate
    <2>1. CASE RenderEnter
      BY <2>1, EnterTakes, TakesChain
    <2>2. CASE RenderLoop /\ LoopPlay
      BY <2>2, MusicTakes, TakesChain
    <2>3. CASE RenderBegin \/ (RenderLoop /\ LoopSilence) \/ (RenderLoop /\ LoopDelay) \/ (RenderLoop /\ LoopTrackStart)
      <3>1. outputbuf' = outputbuf /\ src' = src /\ heard'.last = heard.last
        BY <2>3, BeginIs, SilenceIs, DelayIs, AnnounceIs
      <3> QED BY <3>1 DEF ChainInv, LastDecoded
    <2>4. CASE StateCommand \/ ControllerPass \/ StartDecoder
      <3>1. /\ outputbuf' = outputbuf /\ heard' = heard /\ src'.track = src.track /\ src'.pos = src.pos
            /\ src'.phase = src.phase \/ (src.phase = "ready" /\ src'.phase = "open")
        BY <2>4, CommandIs, PassIs, DecoderIs
      <3> QED BY <3>1 DEF ChainInv, LastDecoded
    <2>5. CASE StrmS
      BY <2>5, StrmSChain
    <2>6. CASE TrackStart
      <3>1. /\ UNCHANGED heard /\ src.phase = "open" /\ src'.track = src.track /\ src'.phase = "run"
        BY <2>6, TrackStartIs
      <3>2. PICK k \in 0 .. BufWritable : src'.pos = k /\ outputbuf' = Filled(outputbuf, k)
        BY <2>6, TrackStartIs DEF NoCross
      <3>3. k \in Nat /\ src.pos = 0
        BY <3>1, RingIs DEF Typed, BufWritable, QueueInv
      <3>4. src'.pos = src.pos + k
        BY <3>2, <3>3
      <3> QED BY <3>1, <3>2, <3>4, WriteChain
    <2>7. CASE Decode
      <3>1. /\ UNCHANGED heard /\ src.phase = "run" /\ src'.track = src.track /\ src'.phase = "run"
        BY <2>7, DecodeIs
      <3>2. PICK k \in 1 .. BufWritable : src'.pos = src.pos + k /\ outputbuf' = Filled(outputbuf, k)
        BY <2>7, DecodeIs
      <3>3. k \in 0 .. BufWritable
        BY RingIs DEF Typed, BufWritable
      <3> QED BY <3>1, <3>2, <3>3, WriteChain
    <2>8. CASE DecodeEnd
      <3>1. outputbuf' = outputbuf /\ heard' = heard /\ src'.phase = "idle"
        BY <2>8, DecodeEndIs
      <3> QED BY <3>1 DEF ChainInv
    <2>9. CASE StrmQ
      <3>1. src'.phase = "flushing" /\ outputbuf'.readp = 0 /\ outputbuf'.writep = 0
        BY <2>9, StrmQIs
      <3>2. UnreadLen(outputbuf') = 0
        BY <3>1 DEF UnreadLen, Used
      <3> QED BY <3>1, <3>2, EmptyChain DEF ChainInv
    <2>10. CASE OutputFlush
      <3>1. outputbuf' = outputbuf /\ src.phase = "flushing" /\ src'.phase = "idle"
        BY <2>10, FlushIs
      <3>2. UnreadLen(outputbuf') = 0
        BY <3>1 DEF StartInv, UnreadLen, BufUsed
      <3> QED BY <3>1, <3>2, EmptyChain DEF ChainInv
    <2>11. CASE StrmF
      <3>1. /\ src'.phase = "idle" /\ heard'.last = heard.last
            /\ outputbuf'.readp = outputbuf.readp /\ outputbuf'.size = outputbuf.size /\ outputbuf'.mem = outputbuf.mem
        BY <2>11, StrmFIs
      <3>2. UnreadLen(outputbuf') \in Nat /\ UnreadLen(outputbuf') <= UnreadLen(outputbuf)
        BY <2>0, <2>11, CutIs
      <3>3. Chain(outputbuf, heard.last) /\ RingTyped(outputbuf)
        BY DEF ChainInv, Typed
      <3>4. Chain(outputbuf', heard.last)
        BY <3>1, <3>2, <3>3, ChainCut
      <3> QED BY <3>1, <3>4 DEF ChainInv
    <2> QED BY <2>0, StepsAre, <2>1, <2>2, <2>3, <2>4, <2>5, <2>6, <2>7, <2>8, <2>9, <2>10, <2>11
  <1>2. CASE UNCHANGED vars
    BY <1>2 DEF vars, ChainInv, LastDecoded
  <1> QED BY <1>1, <1>2
-----------------------------------------------------------------------------
(* The track of what is heard, and the position in it.                      *)

\* What the steps that move no frames leave alone.
LEMMA OthersKeep ==
  ASSUME OutputAssumption, Typed, Next, ~RenderEnter, ~(RenderLoop /\ LoopPlay)
  PROVE  /\ heard'.played = heard.played /\ heard'.skipped = heard.skipped
         /\ \/ /\ output'.frames_played = output.frames_played
               /\ heard'.last = heard.last /\ heard'.announced = heard.announced
            \/ (RenderLoop /\ LoopTrackStart /\ output'.frames_played = 0)
            \/ (OutputFlush /\ output'.frames_played = 0)
  <1>1. HeardTyped /\ output \in OutputRecord
    BY DEF Typed
  <1>2. CASE RenderBegin \/ Decode \/ StartDecoder \/ StrmQ
    <2>1. UNCHANGED <<output, heard>>
      BY <1>2, BeginIs, DecodeIs, DecoderIs, StrmQIs
    <2> QED BY <2>1
  <1>3. CASE RenderLoop /\ LoopSilence
    <2> DEFINE q == LesserOf(heard.quiet + cb.size, HalfDelay)
    <2>1. heard' = [heard EXCEPT !.quiet = q] /\ output' = output
      BY <1>3 DEF LoopSilence
    <2> HIDE DEF q
    <2> QED BY <1>1, <2>1 DEF HeardTyped
  <1>4. CASE RenderLoop /\ LoopDelay
    <2>1. /\ output' = [output EXCEPT !.state = "PAUSE_FRAMES", !.count = HalfDelay, !.delay_active = TRUE]
          /\ heard' = heard
      BY <1>4 DEF LoopDelay
    <2> QED BY <1>1, <2>1 DEF OutputRecord
  <1>5. CASE RenderLoop /\ LoopTrackStart
    <2> DEFINE a == heard.announced \cup {src.track}
               c == heard.abrupt \/ (NeedsDelay /\ heard.quiet < HalfDelay)
               o == [output EXCEPT !.frames_played = 0, !.track_started = TRUE,
                                   !.format = output.next_format, !.track_start = Null]
    <2>1. /\ heard' = [heard EXCEPT !.announced = a, !.abrupt = c]
          /\ output' = IF NeedsDelay
                       THEN [o EXCEPT !.state = "PAUSE_FRAMES", !.count = HalfDelay, !.delay_active = FALSE]
                       ELSE o
      BY <1>5 DEF LoopTrackStart
    <2>2. output'.frames_played = 0
      BY <1>1, <2>1 DEF OutputRecord
    <2> HIDE DEF a, c, o
    <2> QED BY <1>1, <1>5, <2>1, <2>2 DEF HeardTyped
  <1>6. CASE StrmS
    <2>1. PICK mode \in FadeModes : output' = [output EXCEPT !.fade_mode = mode] /\ heard' = heard
      BY <1>6 DEF StrmS
    <2> QED BY <1>1, <2>1 DEF OutputRecord
  <1>7. CASE TrackStart \/ DecodeEnd
    <2>1. heard' = heard /\ output'.frames_played = output.frames_played
      BY <1>7, TrackStartIs, DecodeEndIs DEF StartSame
    <2> QED BY <2>1
  <1>8. CASE ControllerPass
    <2>1. \E s : output' = [output EXCEPT !.track_started = FALSE, !.state = s]
      BY <1>8 DEF ControllerPass
    <2>2. heard' = heard
      BY <1>8 DEF ControllerPass
    <2> QED BY <1>1, <2>1, <2>2 DEF OutputRecord
  <1>9. CASE OutputFlush
    <2> DEFINE l == <<src.track + 1, 0>>
    <2>1. /\ \E f : output' = [output EXCEPT !.fade = "INACTIVE", !.state = "STOPPED", !.delay_active = FALSE,
                                             !.frames_played = 0, !.format = f]
          /\ heard' = [heard EXCEPT !.last = l]
      BY <1>9 DEF OutputFlush
    <2> HIDE DEF l
    <2>2. output'.frames_played = 0
      BY <1>1, <2>1 DEF OutputRecord
    <2> QED BY <1>1, <1>9, <2>1, <2>2 DEF HeardTyped
  <1>10. CASE StrmF
    <2> DEFINE g == heard.garbage \/ output.track_start \notin Nat \cup {Null}
    <2>1. output' = [output EXCEPT !.track_start = Null] /\ heard' = [heard EXCEPT !.garbage = g]
      BY <1>10 DEF StrmF
    <2> HIDE DEF g
    <2>2. output'.frames_played = output.frames_played
      BY <1>1, <2>1 DEF OutputRecord
    <2> QED BY <1>1, <2>1, <2>2 DEF HeardTyped
  <1>11. CASE StateCommand
    <2>1. \E s, n : output' = [output EXCEPT !.state = s, !.count = n]
      BY <1>11 DEF StateCommand, StrmP, StrmPause, StrmA, StrmU, StrmAt, SetState
    <2>2. heard' = heard
      BY <1>11, CommandIs
    <2> QED BY <1>1, <2>1, <2>2 DEF OutputRecord
  <1> QED BY StepsAre, <1>2, <1>3, <1>4, <1>5, <1>6, <1>7, <1>8, <1>9, <1>10, <1>11

\* What is taken is of tracks that were announced, the last of them.
TakesAnnounced(n) ==
    /\ Takes(n)
    /\ output.track_start \in Int => n \in 0 .. StartsIn

LEMMA TakenAnnounced ==
  ASSUME OutputAssumption, Typed, AnnounceInv, NEW n \in Nat, TakesAnnounced(n)
  PROVE  /\ n \in 0 .. UnreadLen(outputbuf) /\ UnreadLen(outputbuf) \in Nat
         /\ \A j \in 1 .. n : /\ j \in 1 .. UnreadLen(outputbuf) /\ Unread(outputbuf, j)[1] \in heard.announced
                              /\ \A t \in heard.announced : t <= Unread(outputbuf, j)[1]
  <1>1. UnreadLen(outputbuf) \in Nat /\ n \in 0 .. UnreadLen(outputbuf)
    BY RingIs DEF Typed, UnreadLen, TakesAnnounced, Takes
  <1>2. ASSUME NEW j \in 1 .. n
        PROVE  /\ j \in 1 .. UnreadLen(outputbuf) /\ Unread(outputbuf, j)[1] \in heard.announced
               /\ \A t \in heard.announced : t <= Unread(outputbuf, j)[1]
    <2>1. j \in 1 .. UnreadLen(outputbuf)
      BY <1>1
    <2>2. ~(output.track_start \in Int /\ j > StartsIn)
      <3>1. output.track_start \in Int => n <= StartsIn /\ StartsIn \in Int
        BY RingIs DEF TakesAnnounced, Typed, StartsIn, Used
      <3> QED BY <3>1
    <2> QED BY <2>1, <2>2 DEF AnnounceInv
  <1> QED BY <1>1, <1>2

LEMMA TakesKeepAnnounced ==
  ASSUME OutputAssumption, Typed, NoCross, AnnounceInv, NEW n \in Nat, TakesAnnounced(n),
         heard'.played \subseteq heard.played \cup {Unread(outputbuf, j) : j \in 1 .. n}
  PROVE  AnnounceInv'
  <1>1. /\ Takes(n) /\ RingTyped(outputbuf) /\ n \in 0 .. UnreadLen(outputbuf)
        /\ output'.track_start = output.track_start /\ src' = src /\ heard'.announced = heard.announced
    BY DEF TakesAnnounced, Takes, Typed
  <1>2. PlayedWereAnnounced'
    <2>1. \A f \in heard.played \ {Junk} : f[1] \in heard.announced
      BY DEF AnnounceInv, PlayedWereAnnounced
    <2>2. \A j \in 1 .. n : Unread(outputbuf, j)[1] \in heard.announced
      BY TakenAnnounced
    <2> QED BY <1>1, <2>1, <2>2 DEF PlayedWereAnnounced
  <1>3. /\ UnreadLen(outputbuf) \in Nat /\ UnreadLen(outputbuf') = UnreadLen(outputbuf) - n
        /\ \A i \in 1 .. UnreadLen(outputbuf') :
             i + n \in 1 .. UnreadLen(outputbuf) /\ Unread(outputbuf', i) = Unread(outputbuf, i + n)
    BY <1>1, ReadMoves DEF Takes
  <1>4. output.track_start \in Int => StartsIn' = StartsIn - n /\ StartsIn \in Int
    <2> DEFINE r == outputbuf.readp s == output.track_start m == outputbuf.size
    <2>1. ASSUME output.track_start \in Int
          PROVE  m \in Nat \ {0} /\ r \in 0 .. m - 1 /\ s \in 0 .. m - 1 /\ n \in 0 .. Used(r, s, m)
      BY <2>1, RingIs, StartWhole DEF Typed, TakesAnnounced, StartsIn
    <2>2. StartsIn' = Used(IncPtr(r, n, m), s, m) /\ StartsIn = Used(r, s, m)
      BY <1>1 DEF Takes, StartsIn
    <2> HIDE DEF r, s, m
    <2>3. ASSUME output.track_start \in Int
          PROVE  Used(IncPtr(r, n, m), s, m) = Used(r, s, m) - n /\ Used(r, s, m) \in Int
      <3>1. Used(r, s, m) \in Int
        BY <2>1, <2>3 DEF Used
      <3> QED BY <2>1, <2>3, <3>1, UsedAfterRead
    <2> QED BY <2>2, <2>3
  <1>5. ASSUME NEW i \in 1 .. UnreadLen(outputbuf')
        PROVE  /\ IF output.track_start \in Int /\ i > StartsIn'
                  THEN Unread(outputbuf', i)[1] = src.track ELSE Unread(outputbuf', i)[1] \in heard.announced
               /\ \A t \in heard.announced : t <= Unread(outputbuf', i)[1]
    <2>1. i + n \in 1 .. UnreadLen(outputbuf) /\ Unread(outputbuf', i) = Unread(outputbuf, i + n) /\ i \in Int
      BY <1>3
    <2>2. /\ IF output.track_start \in Int /\ i + n > StartsIn
             THEN Unread(outputbuf, i + n)[1] = src.track ELSE Unread(outputbuf, i + n)[1] \in heard.announced
          /\ \A t \in heard.announced : t <= Unread(outputbuf, i + n)[1]
      BY <2>1 DEF AnnounceInv
    <2>3. output.track_start \in Int => (i > StartsIn' <=> i + n > StartsIn)
      BY <1>4, <2>1
    <2> QED BY <2>1, <2>2, <2>3
  <1>6. src.phase = "run" => src.track \in heard.announced \/ output.track_start \in Int
    BY DEF AnnounceInv
  <1> QED BY <1>1, <1>2, <1>5, <1>6 DEF AnnounceInv

LEMMA InitAnnounced ==
  ASSUME OutputAssumption, Init
  PROVE  AnnounceInv /\ PlaceInv /\ GapInv
  <1>1. /\ outputbuf.readp = 0 /\ outputbuf.writep = 0 /\ heard.last = <<0, 0>> /\ heard.played = {}
        /\ heard.announced = {} /\ src.phase = "idle"
    BY DEF Init, FreshBuf
  <1>2. UnreadLen(outputbuf) = 0
    BY <1>1 DEF UnreadLen, Used
  <1>3. AnnounceInv
    BY <1>1, <1>2 DEF AnnounceInv, PlayedWereAnnounced
  <1>4. PlaceInv /\ GapInv
    BY <1>1 DEF PlaceInv, GapInv
  <1> QED BY <1>3, <1>4

\* The callback announces the track whose frames come next.
LEMMA AnnounceAnnounced ==
  ASSUME OutputAssumption, Typed, StartInv, AnnounceInv, RenderLoop, LoopTrackStart,
         heard'.played = heard.played
  PROVE  AnnounceInv'
  <1>1. /\ UNCHANGED <<outputbuf, src>> /\ output.track_start = outputbuf.readp /\ output'.track_start = Null
        /\ heard'.announced = heard.announced \cup {src.track}
    BY AnnounceIs
  <1>2. output.track_start \in Int /\ StartsIn = 0
    BY <1>1, RingIs DEF Typed, StartsIn, Used
  <1>3. ASSUME NEW i \in 1 .. UnreadLen(outputbuf)
        PROVE  /\ Unread(outputbuf, i)[1] \in heard'.announced
               /\ \A t \in heard'.announced : t <= Unread(outputbuf, i)[1]
    <2>1. i > 0
      OBVIOUS
    <2>2. /\ Unread(outputbuf, i)[1] = src.track
          /\ \A t \in heard.announced : t <= Unread(outputbuf, i)[1]
      BY <1>2, <2>1 DEF AnnounceInv
    <2>3. src.track \in Nat
      BY NewestIs
    <2> QED BY <1>1, <2>2, <2>3
  <1>4. PlayedWereAnnounced'
    BY <1>1 DEF AnnounceInv, PlayedWereAnnounced
  <1>5. output'.track_start \notin Int /\ outputbuf' = outputbuf /\ src'.track \in heard'.announced
    BY <1>1, ConstantsAre
  <1> QED BY <1>3, <1>4, <1>5 DEF AnnounceInv

\* The codec writes k frames of the track, whose start lies ahead or was announced.
LEMMA WriteAnnounced ==
  ASSUME OutputAssumption, Typed, StartInv, AnnounceInv, UNCHANGED heard,
         NEW k \in 0 .. BufWritable, outputbuf' = Filled(outputbuf, k), src'.track = src.track,
         \/ /\ output'.track_start = outputbuf.writep
            /\ output.track_start \in Int => BufUsed = 0
         \/ /\ output'.track_start = output.track_start
            /\ output.track_start \in Int => StartsIn <= BufUsed
            /\ src.track \in heard.announced \/ output.track_start \in Int
  PROVE  AnnounceInv'
  <1>1. /\ RingTyped(outputbuf) /\ src \in SrcRecord /\ src.track \in Nat
        /\ k \in 0 .. Writable(outputbuf.readp, outputbuf.writep, outputbuf.size) /\ k \in Nat
        /\ BufUsed = UnreadLen(outputbuf) /\ outputbuf.writep \in Int
    BY RingIs DEF Typed, SrcRecord, BufWritable, BufUsed, UnreadLen
  <1>2. ASSUME NEW c, c = Filled(outputbuf, k)
        PROVE  /\ UnreadLen(outputbuf) \in Nat /\ UnreadLen(c) = UnreadLen(outputbuf) + k
               /\ c.readp = outputbuf.readp /\ c.size = outputbuf.size
               /\ \A i \in 1 .. UnreadLen(outputbuf) + k :
                    Unread(c, i) = IF i <= UnreadLen(outputbuf) THEN Unread(outputbuf, i)
                                   ELSE <<src.track, src.pos + (i - UnreadLen(outputbuf))>>
    BY <1>1, <1>2, FilledAppends
  <1>3. /\ UnreadLen(outputbuf) \in Nat /\ UnreadLen(outputbuf') = UnreadLen(outputbuf) + k
        /\ outputbuf'.readp = outputbuf.readp /\ outputbuf'.size = outputbuf.size
        /\ \A i \in 1 .. UnreadLen(outputbuf) + k :
             Unread(outputbuf', i) = IF i <= UnreadLen(outputbuf) THEN Unread(outputbuf, i)
                                     ELSE <<src.track, src.pos + (i - UnreadLen(outputbuf))>>
    BY <1>2
  <1>4. /\ output'.track_start = outputbuf.writep => StartsIn' = UnreadLen(outputbuf)
        /\ output'.track_start = output.track_start => StartsIn' = StartsIn
    BY <1>3 DEF StartsIn, UnreadLen
  <1>5. ASSUME NEW i \in 1 .. UnreadLen(outputbuf')
        PROVE  /\ IF output'.track_start \in Int /\ i > StartsIn'
                  THEN Unread(outputbuf', i)[1] = src.track ELSE Unread(outputbuf', i)[1] \in heard.announced
               /\ \A t \in heard.announced : t <= Unread(outputbuf', i)[1]
    <2>1. i \in 1 .. UnreadLen(outputbuf) + k /\ i \in Nat
      BY <1>1, <1>3
    <2>2. CASE i <= UnreadLen(outputbuf)
      <3>1. i \in 1 .. UnreadLen(outputbuf) /\ Unread(outputbuf', i) = Unread(outputbuf, i)
        BY <1>3, <2>1, <2>2
      <3>2. /\ IF output.track_start \in Int /\ i > StartsIn
               THEN Unread(outputbuf, i)[1] = src.track ELSE Unread(outputbuf, i)[1] \in heard.announced
            /\ \A t \in heard.announced : t <= Unread(outputbuf, i)[1]
        BY <3>1 DEF AnnounceInv
      <3>3. CASE output'.track_start = outputbuf.writep /\ (output.track_start \in Int => BufUsed = 0)
        <4>1. output.track_start \notin Int
          BY <1>1, <3>1, <3>3
        <4>2. ~(i > StartsIn')
          BY <1>3, <1>4, <2>1, <2>2, <3>3
        <4> QED BY <3>1, <3>2, <4>1, <4>2
      <3>4. CASE output'.track_start = output.track_start
        BY <1>4, <3>1, <3>2, <3>4
      <3> QED BY <3>3, <3>4
    <2>3. CASE ~(i <= UnreadLen(outputbuf))
      <3>1. Unread(outputbuf', i)[1] = src.track
        BY <1>3, <2>1, <2>3
      <3>2. \A t \in heard.announced : t <= src.track
        BY DEF StartInv
      <3>3. CASE output'.track_start = outputbuf.writep
        <4>1. output'.track_start \in Int /\ i > StartsIn'
          BY <1>1, <1>3, <1>4, <2>1, <2>3, <3>3
        <4> QED BY <3>1, <3>2, <4>1
      <3>4. CASE /\ output'.track_start = output.track_start
                 /\ output.track_start \in Int => StartsIn <= BufUsed
                 /\ src.track \in heard.announced \/ output.track_start \in Int
        <4>1. ASSUME output.track_start \in Int PROVE i > StartsIn'
          <5>1. StartsIn \in Int
            BY <4>1, RingIs DEF Typed, StartsIn, Used
          <5> QED BY <1>1, <1>3, <1>4, <2>1, <2>3, <3>4, <4>1, <5>1
        <4> QED BY <3>1, <3>2, <3>4, <4>1
      <3> QED BY <3>3, <3>4
    <2> QED BY <2>2, <2>3
  <1>6. PlayedWereAnnounced'
    BY DEF AnnounceInv, PlayedWereAnnounced
  <1>7. src.track \in heard.announced \/ output'.track_start \in Int
    BY <1>1
  <1>8. heard'.announced = heard.announced
    OBVIOUS
  <1> QED BY <1>5, <1>6, <1>7, <1>8 DEF AnnounceInv

LEMMA StrmFAnnounced ==
  ASSUME OutputAssumption, Typed, NoCross, QueueInv, AnnounceInv, StrmF, NotTwice, heard'.played = heard.played
  PROVE  AnnounceInv'
  <1>1. /\ src'.phase = "idle" /\ output'.track_start = Null /\ heard'.announced = heard.announced
        /\ outputbuf'.readp = outputbuf.readp /\ outputbuf'.size = outputbuf.size /\ outputbuf'.mem = outputbuf.mem
    BY StrmFIs
  <1>2. /\ UnreadLen(outputbuf') \in Nat /\ UnreadLen(outputbuf') <= UnreadLen(outputbuf)
        /\ output.track_start \in Int => UnreadLen(outputbuf') = StartsIn
    BY CutIs
  <1>3. UnreadLen(outputbuf) \in Nat
    BY RingIs DEF Typed, UnreadLen
  <1>4. ASSUME NEW i \in 1 .. UnreadLen(outputbuf')
        PROVE  /\ Unread(outputbuf', i)[1] \in heard.announced
               /\ \A t \in heard.announced : t <= Unread(outputbuf', i)[1]
    <2>1. i \in 1 .. UnreadLen(outputbuf) /\ Unread(outputbuf', i) = Unread(outputbuf, i)
      BY <1>1, <1>2, <1>3 DEF Unread
    <2>2. ~(output.track_start \in Int /\ i > StartsIn)
      BY <1>2
    <2> QED BY <2>1, <2>2 DEF AnnounceInv
  <1>5. PlayedWereAnnounced'
    BY <1>1 DEF AnnounceInv, PlayedWereAnnounced
  <1>6. output'.track_start \notin Int
    BY <1>1, ConstantsAre
  <1> QED BY <1>1, <1>4, <1>5, <1>6 DEF AnnounceInv

\* Nothing is taken of a track that was not announced.
LEMMA EnterTaken ==
  ASSUME OutputAssumption, Typed, NoCross, DelayInv, RenderEnter
  PROVE  \E n \in Nat : /\ TakesAnnounced(n) /\ heard'.played = heard.played
                        /\ heard'.skipped = heard.skipped \cup RingRun(outputbuf, outputbuf.readp, n)
  <1>1. PICK n \in Nat : /\ Takes(n) /\ (n > 0 => output.state = "SKIP_FRAMES") /\ heard'.played = heard.played
                         /\ heard'.skipped = heard.skipped \cup RingRun(outputbuf, outputbuf.readp, n)
    BY EnterTakes
  <1>2. ASSUME output.track_start \in Int PROVE n \in 0 .. StartsIn
    <2>1. output.state # "SKIP_FRAMES"
      BY <1>2, ConstantsAre DEF DelayInv
    <2>2. n = 0
      BY <1>1, <2>1
    <2>3. StartsIn \in Nat
      <3>1. outputbuf.size \in Nat /\ outputbuf.readp \in 0 .. outputbuf.size - 1
            /\ output.track_start \in 0 .. outputbuf.size - 1
        BY <1>2, RingIs, StartWhole DEF Typed
      <3> QED BY <3>1 DEF StartsIn, Used
    <2> QED BY <2>2, <2>3
  <1> QED BY <1>1, <1>2 DEF TakesAnnounced

LEMMA MusicTaken ==
  ASSUME OutputAssumption, Typed, NoCross, RenderLoop, LoopPlay
  PROVE  \E k \in Nat : /\ TakesAnnounced(k) /\ heard'.skipped = heard.skipped
                        /\ heard'.played = heard.played \cup {Unread(outputbuf, j) : j \in 1 .. k}
  <1>1. PICK k \in Nat : /\ Takes(k) /\ Moving /\ k \in 0 .. Piece /\ output.track_start # outputbuf.readp
                         /\ heard'.played = heard.played \cup {Unread(outputbuf, j) : j \in 1 .. k}
                         /\ heard'.skipped = heard.skipped
    BY MusicTakes
  <1>2. TakesAnnounced(k)
    BY <1>1, PieceEnds DEF TakesAnnounced
  <1> QED BY <1>1, <1>2

LEMMA AnnouncedKeeps ==
  ASSUME OutputAssumption, Typed, StartInv, DelayInv, NoCross, QueueInv, AnnounceInv, [NextConsiderate]_vars
  PROVE  AnnounceInv'
  <1>1. CASE NextConsiderate
    <2>0. Next /\ NotTwice
      BY <1>1 DEF NextConsiderate
    <2>1. CASE RenderEnter
      BY <2>1, EnterTaken, TakesKeepAnnounced
    <2>2. CASE RenderLoop /\ LoopPlay
      BY <2>2, MusicTaken, TakesKeepAnnounced
    <2> DEFINE Other == ~RenderEnter /\ ~(RenderLoop /\ LoopPlay)
    <2>3. CASE Other /\ RenderLoop /\ LoopTrackStart
      BY <2>0, <2>3, OthersKeep, AnnounceAnnounced
    <2>4. CASE Other /\ (RenderBegin \/ (RenderLoop /\ (LoopSilence \/ LoopDelay)) \/ StateCommand
                         \/ ControllerPass \/ StartDecoder \/ DecodeEnd)
      <3>1. /\ outputbuf' = outputbuf /\ heard'.announced = heard.announced /\ src'.track = src.track
            /\ output'.track_start = output.track_start /\ src'.phase \in {src.phase, "open", "idle"}
        BY <2>4, BeginIs, SilenceIs, DelayIs, CommandIs, PassIs, DecoderIs, DecodeEndIs
      <3>2. heard'.played = heard.played
        BY <2>0, <2>4, OthersKeep
      <3> QED BY <3>1, <3>2 DEF AnnounceInv, PlayedWereAnnounced, StartsIn
    <2>5. CASE StrmS
      <3>1. /\ UNCHANGED <<outputbuf, cb, heard>> /\ src.told /\ src'.phase = "ready"
            /\ output'.track_start = output.track_start
        BY <2>5, StrmSIs
      <3>2. output.track_start \in Int => UnreadLen(outputbuf) = 0
        BY <3>1 DEF StartInv, Awaited, Flushed, BufUsed, UnreadLen
      <3> QED BY <3>1, <3>2 DEF AnnounceInv, PlayedWereAnnounced
    <2>6. CASE TrackStart
      <3>1. /\ UNCHANGED heard /\ src.phase = "open" /\ src'.track = src.track
        BY <2>6, TrackStartIs
      <3>2. /\ output'.track_start = outputbuf.writep
            /\ \E k \in 0 .. BufWritable : outputbuf' = Filled(outputbuf, k)
        BY <2>6, TrackStartIs DEF NoCross
      <3>3. output.track_start \in Int => BufUsed = 0
        BY <3>1 DEF StartInv, Flushed, Awaited
      <3> QED BY <3>1, <3>2, <3>3, WriteAnnounced
    <2>7. CASE Decode
      <3>1. /\ UNCHANGED <<output, heard>> /\ src.phase = "run" /\ src'.track = src.track
        BY <2>7, DecodeIs
      <3>2. PICK k \in 1 .. BufWritable : outputbuf' = Filled(outputbuf, k)
        BY <2>7, DecodeIs
      <3>3. k \in 0 .. BufWritable
        BY RingIs DEF Typed, BufWritable
      <3>4. output.track_start \in Int => StartsIn <= BufUsed
        BY <3>1 DEF QueueInv, Flushed, StartsIn
      <3>5. src.track \in heard.announced \/ output.track_start \in Int
        BY <3>1 DEF AnnounceInv
      <3> QED BY <3>1, <3>2, <3>3, <3>4, <3>5, WriteAnnounced
    <2>8. CASE StrmQ
      <3>1. heard' = heard /\ src'.phase = "flushing" /\ outputbuf'.readp = 0 /\ outputbuf'.writep = 0
        BY <2>8, StrmQIs
      <3>2. UnreadLen(outputbuf') = 0
        BY <3>1 DEF UnreadLen, Used
      <3> QED BY <3>1, <3>2 DEF AnnounceInv, PlayedWereAnnounced
    <2>9. CASE Other /\ OutputFlush
      <3>1. /\ outputbuf' = outputbuf /\ src.phase = "flushing" /\ src'.phase = "idle"
            /\ heard'.announced = heard.announced
        BY <2>9, FlushIs
      <3>2. UnreadLen(outputbuf') = 0
        BY <3>1 DEF StartInv, UnreadLen, BufUsed
      <3>3. heard'.played = heard.played
        BY <2>0, <2>9, OthersKeep
      <3> QED BY <3>1, <3>2, <3>3 DEF AnnounceInv, PlayedWereAnnounced
    <2>10. CASE Other /\ StrmF
      BY <2>0, <2>10, OthersKeep, StrmFAnnounced
    <2> QED BY <2>0, StepsAre, <2>1, <2>2, <2>3, <2>4, <2>5, <2>6, <2>7, <2>8, <2>9, <2>10
  <1>2. CASE UNCHANGED vars
    BY <1>2 DEF vars, AnnounceInv, PlayedWereAnnounced, StartsIn
  <1> QED BY <1>1, <1>2

\* The position moves with the frames of the track.
LEMMA TakesKeepPlace ==
  ASSUME OutputAssumption, Typed, StartInv, QueueInv, ChainInv, AnnounceInv, PlaceInv, NEW n \in Nat, TakesAnnounced(n)
  PROVE  PlaceInv'
  <1> DEFINE b == outputbuf low == heard.last M == Unread(b, n)[1] F == Unread(b, 1) fp == output.frames_played
  <1>1. /\ heard'.last = (IF n = 0 THEN low ELSE Unread(b, n)) /\ output'.frames_played = fp + n
        /\ heard'.announced = heard.announced /\ fp \in Nat
    BY DEF TakesAnnounced, Takes, Typed, OutputRecord
  <1>2. CASE n = 0
    <2>1. heard'.last = low /\ output'.frames_played = fp
      BY <1>1, <1>2
    <2> QED BY <1>1, <2>1 DEF PlaceInv
  <1>3. CASE n # 0
    <2>1. 1 \in 1 .. n /\ n \in 1 .. n
      BY <1>3
    <2>2. /\ 1 \in 1 .. UnreadLen(b) /\ F[1] \in heard.announced /\ (\A t \in heard.announced : t <= F[1])
          /\ n \in 1 .. UnreadLen(b) /\ M \in heard.announced /\ (\A t \in heard.announced : t <= M)
          /\ UnreadLen(b) \in Nat
      BY <2>1, TakenAnnounced
    <2>3. /\ low \in Frame /\ F \in Frame /\ Unread(b, n) \in Frame /\ Before(low, F)
      BY <2>2 DEF QueueInv, Queue
    <2>4. low[1] \in Nat /\ low[2] \in Nat /\ F[1] \in Nat /\ M \in Nat /\ Unread(b, n)[2] \in Nat
      BY <2>3 DEF Frame
    <2>5. F[1] = M
      BY <2>2, <2>4
    <2>6. /\ At(b, low, 0) = low /\ At(b, low, 1) = F /\ At(b, low, n) = Unread(b, n)
          /\ 0 \in 0 .. UnreadLen(b) /\ 1 \in 0 .. UnreadLen(b) /\ n \in 0 .. UnreadLen(b) /\ 0 < n
      BY <1>3, <2>2 DEF At
    <2>7. /\ \A i, j \in 0 .. UnreadLen(b) :
               i < j /\ At(b, low, i)[1] = At(b, low, j)[1] => At(b, low, j)[2] = At(b, low, i)[2] + (j - i)
          /\ \A i \in 1 .. UnreadLen(b) : At(b, low, i)[1] # At(b, low, i - 1)[1] => At(b, low, i)[2] = 1
      BY DEF ChainInv, Chain
    <2>8. fp + n = Unread(b, n)[2]
      <3>1. CASE low[1] = M
        <4>1. Unread(b, n)[2] = low[2] + (n - 0)
          BY <2>6, <2>7, <3>1
        <4>2. fp = low[2]
          BY <2>2, <3>1 DEF PlaceInv
        <4> QED BY <2>4, <4>1, <4>2
      <3>2. CASE low[1] # M
        <4>1. F[2] = 1
          <5>1. At(b, low, 1)[1] # At(b, low, 1 - 1)[1]
            BY <2>5, <2>6, <3>2
          <5>2. At(b, low, 1)[2] = 1
            BY <2>2, <2>7, <5>1
          <5> QED BY <2>6, <5>2
        <4>2. Unread(b, n)[2] = n
          <5>1. CASE n = 1
            BY <4>1, <5>1
          <5>2. CASE n # 1
            <6>1. 1 < n
              BY <1>3, <5>2
            <6>2. Unread(b, n)[2] = F[2] + (n - 1)
              BY <2>5, <2>6, <2>7, <6>1
            <6> QED BY <4>1, <6>2
          <5> QED BY <5>1, <5>2
        <4>3. low[1] < M
          BY <2>3, <2>4, <2>5, <3>2 DEF Before
        <4>4. fp = 0
          BY <2>2, <4>3 DEF PlaceInv
        <4> QED BY <4>2, <4>4
      <3> QED BY <3>1, <3>2
    <2>9. heard'.last = Unread(b, n) /\ output'.frames_played = Unread(b, n)[2] /\ heard'.announced = heard.announced
      BY <1>1, <1>3, <2>8
    <2>10. ~(\E t \in heard.announced : t > M)
      <3>1. \A t \in heard.announced : t \in Nat
        BY DEF StartInv
      <3> QED BY <2>2, <2>4, <3>1
    <2> QED BY <2>2, <2>9, <2>10 DEF PlaceInv
  <1> QED BY <1>2, <1>3

\* The position starts again with the track announced.
LEMMA AnnouncePlace ==
  ASSUME OutputAssumption, Typed, StartInv, QueueInv, PlaceInv, RenderLoop, LoopTrackStart,
         output'.frames_played = 0
  PROVE  PlaceInv'
  <1>1. /\ outputbuf' = outputbuf /\ Moving /\ output.track_start = outputbuf.readp /\ heard'.last = heard.last
        /\ heard'.announced = heard.announced \cup {src.track}
    BY AnnounceIs
  <1>2. src.track \notin heard.announced
    <2>1. output.track_start \in Int
      BY <1>1, RingIs DEF Typed
    <2> QED BY <1>1, <2>1 DEF StartInv, Flushed, Awaited
  <1>3. /\ src.track \in Nat /\ heard.last[1] \in Nat
        /\ \A t \in heard.announced : t \in Nat /\ t <= src.track
    BY NewestIs DEF StartInv, QueueInv, Frame
  <1>4. ASSUME heard.last[1] \in heard'.announced, \A t \in heard'.announced : t <= heard.last[1]
        PROVE  heard.last[2] = 0
    <2>1. src.track <= heard.last[1]
      BY <1>1, <1>4
    <2>2. heard.last[1] \notin heard.announced
      BY <1>2, <1>3, <2>1
    <2> QED BY <2>2 DEF PlaceInv
  <1>5. heard.last[1] \in heard'.announced \/ heard.last[2] = 0
    BY <1>1 DEF PlaceInv
  <1> QED BY <1>1, <1>4, <1>5 DEF PlaceInv

LEMMA PlaceKeeps ==
  ASSUME OutputAssumption, Typed, StartInv, DelayInv, NoCross, QueueInv, ChainInv, AnnounceInv, PlaceInv,
         [NextConsiderate]_vars
  PROVE  PlaceInv'
  <1>1. CASE NextConsiderate
    <2>0. Next
      BY <1>1 DEF NextConsiderate
    <2>1. CASE RenderEnter
      BY <2>1, EnterTaken, TakesKeepPlace
    <2>2. CASE RenderLoop /\ LoopPlay
      BY <2>2, MusicTaken, TakesKeepPlace
    <2>3. CASE RenderLoop /\ LoopTrackStart /\ output'.frames_played = 0
      BY <2>3, AnnouncePlace
    <2>4. CASE OutputFlush /\ output'.frames_played = 0
      <3>1. heard'.last = <<src.track + 1, 0>>
        BY <2>4, FlushIs
      <3>2. heard'.last[2] = 0
        BY <3>1
      <3> QED BY <2>4, <3>2 DEF PlaceInv
    <2>5. CASE /\ output'.frames_played = output.frames_played
               /\ heard'.last = heard.last /\ heard'.announced = heard.announced
      BY <2>5 DEF PlaceInv
    <2> QED BY <2>0, OthersKeep, <2>1, <2>2, <2>3, <2>4, <2>5
  <1>2. CASE UNCHANGED vars
    BY <1>2 DEF vars, PlaceInv
  <1> QED BY <1>1, <1>2

\* The frame before the one played was played, or skipped.
LEMMA EnterGap ==
  ASSUME OutputAssumption, Typed, NoCross, DelayInv, GapInv, RenderEnter
  PROVE  GapInv'
  <1>1. PICK n \in Nat : /\ Takes(n) /\ heard'.played = heard.played
                         /\ heard'.skipped = heard.skipped \cup RingRun(outputbuf, outputbuf.readp, n)
    BY EnterTaken DEF TakesAnnounced
  <1>2. heard'.last = IF n = 0 THEN heard.last ELSE Unread(outputbuf, n)
    BY <1>1 DEF Takes
  <1>3. n # 0 => Unread(outputbuf, n) \in RingRun(outputbuf, outputbuf.readp, n)
    <2>1. ASSUME n # 0 PROVE Unread(outputbuf, n) \in RingRun(outputbuf, outputbuf.readp, n)
      <3>1. n - 1 \in 0 .. n - 1 /\ outputbuf.readp + n - 1 = outputbuf.readp + (n - 1)
        BY <2>1, RingIs DEF Typed
      <3> QED BY <3>1 DEF Unread, RingRun
    <2> QED BY <2>1
  <1> QED BY <1>1, <1>2, <1>3 DEF GapInv

LEMMA MusicGap ==
  ASSUME OutputAssumption, Typed, NoCross, QueueInv, ChainInv, GapInv, RenderLoop, LoopPlay
  PROVE  GapInv'
  <1>1. PICK k \in Nat : /\ Takes(k) /\ heard'.skipped = heard.skipped
                         /\ heard'.played = heard.played \cup {Unread(outputbuf, j) : j \in 1 .. k}
    BY MusicTaken DEF TakesAnnounced
  <1>2. /\ heard'.last = IF k = 0 THEN heard.last ELSE Unread(outputbuf, k)
        /\ k \in 0 .. UnreadLen(outputbuf) /\ UnreadLen(outputbuf) \in Nat
    BY <1>1, RingIs DEF Takes, Typed, UnreadLen
  <1>3. k # 0 => k \in 1 .. k
    OBVIOUS
  <1>4. ASSUME NEW j \in 1 .. k, Unread(outputbuf, j)[2] > 1
        PROVE  <<Unread(outputbuf, j)[1], Unread(outputbuf, j)[2] - 1>> \in heard'.played \cup heard'.skipped
    <2> DEFINE f == At(outputbuf, heard.last, j) g == At(outputbuf, heard.last, j - 1)
    <2>1. /\ j \in 1 .. UnreadLen(outputbuf) /\ j \in 0 .. UnreadLen(outputbuf) /\ j - 1 \in 0 .. UnreadLen(outputbuf)
          /\ j - 1 < j /\ j - (j - 1) = 1 /\ j # 0
      BY <1>2
    <2>2. f = Unread(outputbuf, j)
      BY <2>1 DEF At
    <2>3. f[1] = g[1]
      <3>1. f[1] # g[1] => f[2] = 1
        BY <2>1 DEF ChainInv, Chain
      <3> QED BY <1>4, <2>2, <3>1
    <2>4. f[2] = g[2] + 1
      BY <2>1, <2>3 DEF ChainInv, Chain
    <2>5. g \in Frame
      <3>1. Newest \in Frame
        BY NewestIs
      <3> QED BY <1>2, <2>1, <3>1, AtOrdered DEF QueueInv
    <2> HIDE DEF f
    <2>6. g = <<f[1], f[2] - 1>> /\ g[2] # 0
      <3>1. g[2] \in Nat /\ g = <<g[1], g[2]>>
        BY <2>5 DEF Frame
      <3> HIDE DEF g
      <3>2. f[2] - 1 = g[2] /\ g[2] > 0
        BY <1>4, <2>2, <2>4, <3>1
      <3> QED BY <2>3, <3>1, <3>2
    <2>7. g \in heard'.played \cup heard'.skipped
      <3>1. CASE j - 1 = 0
        <4>1. g = heard.last
          BY <3>1 DEF At
        <4> QED BY <1>1, <2>6, <4>1 DEF GapInv
      <3>2. CASE j - 1 # 0
        <4>1. g = Unread(outputbuf, j - 1) /\ j - 1 \in 1 .. k
          BY <3>2 DEF At
        <4> QED BY <1>1, <4>1
      <3> QED BY <3>1, <3>2
    <2> QED BY <2>2, <2>6, <2>7
  <1>5. heard'.last[2] = 0 \/ heard'.last \in heard'.played \cup heard'.skipped
    BY <1>1, <1>2, <1>3 DEF GapInv
  <1>6. ASSUME NEW f \in heard'.played \ {Junk}, f[2] > 1
        PROVE  <<f[1], f[2] - 1>> \in heard'.played \cup heard'.skipped
    BY <1>1, <1>4, <1>6 DEF GapInv
  <1> QED BY <1>5, <1>6 DEF GapInv

LEMMA GapKeeps ==
  ASSUME OutputAssumption, Typed, DelayInv, NoCross, QueueInv, ChainInv, GapInv, [NextConsiderate]_vars
  PROVE  GapInv'
  <1>1. CASE NextConsiderate
    <2>0. Next
      BY <1>1 DEF NextConsiderate
    <2>1. CASE RenderEnter
      BY <2>1, EnterGap
    <2>2. CASE RenderLoop /\ LoopPlay
      BY <2>2, MusicGap
    <2>3. CASE ~RenderEnter /\ ~(RenderLoop /\ LoopPlay)
      <3>1. heard'.played = heard.played /\ heard'.skipped = heard.skipped
        BY <2>0, <2>3, OthersKeep
      <3>2. heard'.last = heard.last \/ heard'.last = <<src.track + 1, 0>>
        BY <2>0, <2>3, StepsAre, BeginIs, SilenceIs, DelayIs, AnnounceIs, StrmSIs, TrackStartIs, DecodeIs,
           DecodeEndIs, DecoderIs, PassIs, StrmQIs, FlushIs, StrmFIs, CommandIs
      <3> QED BY <3>1, <3>2 DEF GapInv
    <2> QED BY <2>1, <2>2, <2>3
  <1>2. CASE UNCHANGED vars
    BY <1>2 DEF vars, GapInv
  <1> QED BY <1>1, <1>2

\* Without crossfades, and with a server that ConsiderateSpec describes: no
\* frame of a track is heard before its start was recognised, the position
\* that LMS is told is the place in the track heard, and inside a track no
\* frame is left out that the server did not skip.  So it is for every size
\* of the ring, every length of the tracks, and however pauses, skips,
\* flushes and changes of format come between the pieces (_output_frames).
THEOREM TrackHeardIsTrue ==
  ASSUME OutputAssumption, "CROSSFADE" \notin FadeModes
  PROVE  ConsiderateSpec => [](TrackIsTrue /\ NoGap)
  <1> DEFINE Inv == Typed /\ StartInv /\ DelayInv /\ NoCross /\ QueueInv
                    /\ ChainInv /\ AnnounceInv /\ PlaceInv /\ GapInv
  <1>1. Init => Inv
    BY InitTyped, InitStart, InitDelay, InitQueue, InitChain, InitAnnounced
  <1>2. Inv /\ [NextConsiderate]_vars => Inv'
    <2>1. [NextConsiderate]_vars => [Next]_vars
      BY DEF NextConsiderate
    <2> QED BY <2>1, TypedKeeps, StartKeeps, DelayKeeps, CrossKeeps, QueueKeeps, ChainKeeps, AnnouncedKeeps,
               PlaceKeeps, GapKeeps
  <1>3. Inv => TrackIsTrue /\ NoGap
    <2>1. AnnounceInv => PlayedWereAnnounced
      BY DEF AnnounceInv
    <2>2. PlaceInv => PositionTrue
      BY DEF PlaceInv, PositionTrue
    <2>3. GapInv => NoGap
      BY DEF GapInv, NoGap
    <2> QED BY <2>1, <2>2, <2>3 DEF TrackIsTrue
  <1> HIDE DEF Inv
  <1> QED BY <1>1, <1>2, <1>3, PTL DEF ConsiderateSpec
-----------------------------------------------------------------------------
(* A fade is left at its end.                                               *)

\* How far ahead of s the place p is, in a ring of n.
Along(s, p, n) == IF p >= s THEN p - s ELSE p + n - s

FadePlaced ==
    output.fade # "INACTIVE" =>
      output.fade_start \in 0 .. outputbuf.size - 1 /\ output.fade_end \in 0 .. outputbuf.size - 1

FadeInv ==
    /\ FadePlaced
    /\ src.phase # "flushing" /\ output.fade = "ACTIVE" /\ heard.skipped = {}
         => FadeCur <= FadeDur \/ FadeDur = 0

\* A step that leaves the fade and readp as they were.
FadeStays ==
    /\ output'.fade = output.fade /\ output'.fade_start = output.fade_start /\ output'.fade_end = output.fade_end
    /\ outputbuf'.readp = outputbuf.readp /\ outputbuf'.size = outputbuf.size
    /\ src.phase = "flushing" => src'.phase = "flushing"
    /\ heard'.skipped = {} => heard.skipped = {}

LEMMA FadesAlong ==
  /\ FadeCur = Along(output.fade_start, outputbuf.readp, outputbuf.size)
  /\ FadeDur = Along(output.fade_start, output.fade_end, outputbuf.size)
  /\ FadeCur' = Along(output'.fade_start, outputbuf'.readp, outputbuf'.size)
  /\ FadeDur' = Along(output'.fade_start, output'.fade_end, outputbuf'.size)
  BY DEF FadeCur, FadeDur, Ahead, Along

LEMMA StaysFade ==
  ASSUME FadeInv, FadeStays
  PROVE  FadeInv'
  <1>1. FadePlaced' /\ FadeCur' = FadeCur /\ FadeDur' = FadeDur
    BY FadesAlong DEF FadeInv, FadePlaced, FadeStays
  <1> QED BY <1>1 DEF FadeInv, FadeStays

\* A piece that is cut at the end of the fade, or at wrap, does not pass it.
LEMMA CutStopsFade ==
  ASSUME NEW n \in Nat \ {0}, NEW s \in 0 .. n - 1, NEW e \in 0 .. n - 1, NEW r \in 0 .. n - 1,
         Along(s, r, n) < Along(s, e, n), NEW k \in 0 .. n - 1, k <= n - r, e > r => k <= e - r
  PROVE  Along(s, IncPtr(r, k, n), n) <= Along(s, e, n)
  <1>1. IncPtr(r, k, n) = IF r + k < n THEN r + k ELSE r + k - n
    BY IncPtrValue
  <1>2. CASE r + k < n
    BY <1>1, <1>2 DEF Along
  <1>3. CASE r + k >= n
    <2>1. IncPtr(r, k, n) = 0 /\ r + k = n
      BY <1>1, <1>3
    <2> QED BY <2>1 DEF Along
  <1> QED BY <1>2, <1>3

LEMMA CutIsCut ==
  ASSUME OutputAssumption, Typed, NEW p \in Int, NEW k \in 0 .. CutAt(p)
  PROVE  /\ k \in 0 .. outputbuf.size - 1 /\ k <= outputbuf.size - outputbuf.readp
         /\ p > outputbuf.readp => k <= p - outputbuf.readp
  <1>1. /\ outputbuf.size \in Nat \ {0} /\ outputbuf.readp \in 0 .. outputbuf.size - 1
        /\ BufUsed \in 0 .. outputbuf.size - 1
    BY RingIs DEF Typed, BufUsed
  <1>2. /\ Piece \in Nat /\ Piece <= BufContRead /\ BufContRead \in 0 .. BufUsed
        /\ BufContRead <= outputbuf.size - outputbuf.readp /\ CutAt(p) \in Nat /\ CutAt(p) <= Piece
    BY PieceIs
  <1>3. p > outputbuf.readp => CutAt(p) <= p - outputbuf.readp
    BY <1>1, <1>2 DEF CutAt, LesserOf, LiesAhead, UpTo, FrameOf
  <1> QED BY <1>1, <1>2, <1>3

\* What a piece leaves of the fade.
LEMMA PlayFades ==
  ASSUME OutputAssumption, Typed, cb.pc = "loop", src' = src,
         NEW o \in OutputRecord, NEW cont \in Nat, Play(outputbuf, o, cont, {}, {})
  PROVE  /\ output'.fade = o.fade /\ output'.fade_start = o.fade_start /\ output'.fade_end = o.fade_end
         /\ outputbuf'.size = outputbuf.size /\ heard'.skipped = heard.skipped
         /\ \E k \in 0 .. cont : outputbuf'.readp = IncPtr(outputbuf.readp, k, outputbuf.size)
  <1> DEFINE k == LesserOf(cb.size, cont)
             run == CopyRun(outputbuf, outputbuf.readp, k)
             prev(j) == IF j = 1 THEN heard.last ELSE run[j - 1]
             garbage == heard.garbage \/ \E j \in 1 .. k : run[j] = Junk \/ ~Before(prev(j), run[j])
             last == IF k = 0 THEN heard.last ELSE run[k]
             played == heard.played \cup {run[j] : j \in 1 .. k}
             mixed == heard.mixed \cup {}
             dropped == heard.dropped \cup {}
             quiet == IF k = 0 THEN heard.quiet ELSE 0
             overrun == heard.overrun \/ ({} # {} /\ k > ContRead(outputbuf.readp, outputbuf.writep, outputbuf.size))
             disturbed == heard.disturbed \/ ({} # {} /\ o.fade_dir # "CROSS")
  <1>1. /\ outputbuf' = [outputbuf EXCEPT !.readp = IncPtr(outputbuf.readp, k, outputbuf.size)]
        /\ output' = [o EXCEPT !.frames_played = o.frames_played + k]
        /\ heard' = [heard EXCEPT !.garbage = garbage, !.last = last, !.played = played,
                                  !.mixed = mixed, !.dropped = dropped, !.quiet = quiet,
                                  !.overrun = overrun, !.disturbed = disturbed]
    BY DEF Play
  <1>2. k \in 0 .. cont /\ k \in Int
    BY DEF LesserOf, Typed, CbTyped, CbRecord
  <1> HIDE DEF k, run, garbage, last, played, mixed, dropped, quiet, overrun, disturbed
  <1>3. outputbuf'.readp = IncPtr(outputbuf.readp, k, outputbuf.size) /\ outputbuf'.size = outputbuf.size
    BY <1>1, <1>2, ReadpIs DEF Typed
  <1>4. output'.fade = o.fade /\ output'.fade_start = o.fade_start /\ output'.fade_end = o.fade_end
    BY <1>1 DEF OutputRecord
  <1>5. heard'.skipped = heard.skipped
    BY <1>1 DEF Typed, HeardTyped
  <1> QED BY <1>2, <1>3, <1>4, <1>5

LEMMA MusicFade ==
  ASSUME OutputAssumption, Typed, NoCross, FadeInv, RenderLoop, LoopPlay
  PROVE  FadeInv'
  <1> DEFINE n == outputbuf.size r == outputbuf.readp
  <1>0. /\ cb.pc = "loop" /\ src' = src /\ output \in OutputRecord
        /\ outputbuf.size \in Nat \ {0} /\ outputbuf.readp \in 0 .. outputbuf.size - 1
        /\ output.fade_start \in Int /\ output.fade_end \in Int /\ outputbuf.readp \in Int
    BY RingIs DEF RenderLoop, Typed, OutputRecord
  <1>1. /\ Piece \in Nat /\ (\A p \in Int : CutAt(p) \in Nat) /\ FadeDur \in Int
    BY PieceIs
  <1>2. PICK o, cont : /\ o \in OutputRecord /\ cont \in Nat
                       /\ \/ o = output /\ ~FadeLive
                          \/ o = FadeOff(output)
                          \/ /\ o = FadeOn(output) /\ FadeLive /\ FadeCur < FadeDur
                             /\ cont = CutAt(output.fade_end)
                          \/ /\ FadeLive /\ o.fade = "ACTIVE" /\ o.fade_start = outputbuf.readp
                             /\ o.fade_end = Wrapped(outputbuf.readp + FadeDur, outputbuf.size)
                             /\ FadeDur > 0 => cont = CutAt(Wrapped(outputbuf.readp + FadeDur, outputbuf.size))
                       /\ Play(outputbuf, o, cont, {}, {})
    <2>1. CASE PlayPlain
      <3>1. PICK cont \in Nat : Play(outputbuf, output, cont, {}, {})
        BY <1>0, <1>1, <2>1 DEF PlayPlain
      <3> QED BY <1>0, <2>1, <3>1 DEF PlayPlain
    <2>2. CASE PlayFade
      <3>1. Play(outputbuf, FadeOn(output), CutAt(output.fade_end), {}, {}) /\ FadeLive /\ FadeCur < FadeDur
        BY <2>2 DEF PlayFade
      <3>2. FadeOn(output) \in OutputRecord /\ CutAt(output.fade_end) \in Nat
        BY <1>0, <1>1, FadesAre
      <3> QED BY <3>1, <3>2
    <2>3. CASE PlayTurn
      <3> DEFINE end == Wrapped(outputbuf.readp + FadeDur, outputbuf.size)
                 o == [FadeOn(output) EXCEPT !.fade_dir = "UP", !.fade_start = outputbuf.readp, !.fade_end = end]
      <3>1. end \in Int
        BY <1>0, <1>1 DEF Wrapped
      <3>2. PICK cont \in Nat : Play(outputbuf, o, cont, {}, {}) /\ (FadeDur > 0 => cont = CutAt(end))
        BY <1>1, <2>3, <3>1 DEF PlayTurn
      <3>3. FadeLive
        BY <2>3 DEF PlayTurn
      <3> HIDE DEF end
      <3>4. o = [output EXCEPT !.fade = "ACTIVE", !.fade_dir = "UP", !.fade_start = outputbuf.readp, !.fade_end = end]
        BY <1>0 DEF FadeOn
      <3> HIDE DEF o
      <3>5. o \in OutputRecord /\ o.fade = "ACTIVE" /\ o.fade_start = outputbuf.readp /\ o.fade_end = end
        BY <1>0, <3>1, <3>4, Names DEF OutputRecord
      <3> QED BY <3>2, <3>3, <3>5 DEF end
    <2>4. CASE PlayFadeDone
      <3>1. Play(outputbuf, FadeOff(output), Piece, {}, {})
        BY <2>4 DEF PlayFadeDone
      <3>2. FadeOff(output) \in OutputRecord
        BY FadesAre
      <3> QED BY <1>1, <3>1, <3>2
    <2>5. ~PlayCross /\ ~PlayCrossDone
      BY DEF PlayCross, PlayCrossDone, NoCross
    <2> QED BY <2>1, <2>2, <2>3, <2>4, <2>5 DEF LoopPlay
  <1>3. /\ output'.fade = o.fade /\ output'.fade_start = o.fade_start /\ output'.fade_end = o.fade_end
        /\ outputbuf'.size = outputbuf.size /\ heard'.skipped = heard.skipped
    BY <1>0, <1>2, PlayFades
  <1>4. PICK k \in 0 .. cont : outputbuf'.readp = IncPtr(outputbuf.readp, k, outputbuf.size)
    BY <1>0, <1>2, PlayFades
  <1>5. CASE o = output /\ ~FadeLive
    <2>1. FadePlaced' /\ output'.fade # "ACTIVE"
      BY <1>3, <1>5 DEF FadeInv, FadePlaced, FadeLive
    <2> QED BY <2>1 DEF FadeInv
  <1>6. CASE o = FadeOff(output)
    <2>1. output'.fade = "INACTIVE"
      BY <1>0, <1>3, <1>6, Names DEF FadeOff, OutputRecord
    <2> QED BY <2>1 DEF FadeInv, FadePlaced
  <1>7. CASE o = FadeOn(output) /\ FadeLive /\ FadeCur < FadeDur /\ cont = CutAt(output.fade_end)
    <2>1. /\ output'.fade_start = output.fade_start /\ output'.fade_end = output.fade_end
      BY <1>0, <1>3, <1>7, Names DEF FadeOn, OutputRecord
    <2>2. output.fade_start \in 0 .. outputbuf.size - 1 /\ output.fade_end \in 0 .. outputbuf.size - 1
      BY <1>7 DEF FadeInv, FadePlaced, FadeLive
    <2>3. /\ k \in 0 .. outputbuf.size - 1 /\ k <= outputbuf.size - outputbuf.readp
          /\ output.fade_end > outputbuf.readp => k <= output.fade_end - outputbuf.readp
      BY <1>0, <1>4, <1>7, CutIsCut
    <2>4. FadeCur' <= FadeDur'
      BY <1>0, <1>3, <1>4, <1>7, <2>1, <2>2, <2>3, CutStopsFade, FadesAlong
    <2>5. FadePlaced'
      BY <1>3, <2>1, <2>2 DEF FadePlaced
    <2> QED BY <2>4, <2>5 DEF FadeInv
  <1>8. CASE /\ FadeLive /\ o.fade = "ACTIVE" /\ o.fade_start = outputbuf.readp
             /\ o.fade_end = Wrapped(outputbuf.readp + FadeDur, outputbuf.size)
             /\ FadeDur > 0 => cont = CutAt(Wrapped(outputbuf.readp + FadeDur, outputbuf.size))
    <2>1. output.fade_start \in 0 .. outputbuf.size - 1 /\ output.fade_end \in 0 .. outputbuf.size - 1
      BY <1>8 DEF FadeInv, FadePlaced, FadeLive
    <2>2. FadeDur \in 0 .. outputbuf.size - 1
      BY <1>0, <2>1, FadesAlong DEF Along
    <2>3. PICK e \in 0 .. outputbuf.size - 1 : /\ e = Wrapped(outputbuf.readp + FadeDur, outputbuf.size)
                                               /\ Along(outputbuf.readp, e, outputbuf.size) = FadeDur
      BY <1>0, <2>2 DEF Wrapped, Along
    <2>4. FadeDur' = FadeDur /\ output'.fade_start = outputbuf.readp /\ output'.fade_end = e
      BY <1>3, <1>8, <2>3, FadesAlong
    <2>5. ASSUME FadeDur > 0 PROVE FadeCur' <= FadeDur'
      <3>1. /\ k \in 0 .. outputbuf.size - 1 /\ k <= outputbuf.size - outputbuf.readp
            /\ e > outputbuf.readp => k <= e - outputbuf.readp
        BY <1>4, <1>8, <2>3, <2>5, CutIsCut
      <3>2. Along(outputbuf.readp, outputbuf.readp, outputbuf.size) = 0
        BY <1>0 DEF Along
      <3>3. Along(outputbuf.readp, outputbuf.readp, outputbuf.size) < Along(outputbuf.readp, e, outputbuf.size)
        BY <2>3, <2>5, <3>2
      <3> QED BY <1>0, <1>3, <1>4, <2>3, <2>4, <3>1, <3>3, CutStopsFade, FadesAlong
    <2>6. FadeDur' = 0 \/ FadeCur' <= FadeDur'
      BY <2>2, <2>4, <2>5
    <2>7. FadePlaced'
      BY <1>0, <1>3, <2>4 DEF FadePlaced
    <2> QED BY <2>6, <2>7 DEF FadeInv
  <1> QED BY <1>2, <1>5, <1>6, <1>7, <1>8

\* The other steps of the callback, and those of the codec and the
\* controller that schedule no fade.
LEMMA QuietFade ==
  ASSUME OutputAssumption, Typed,
         RenderBegin \/ (RenderLoop /\ (LoopSilence \/ LoopDelay \/ LoopTrackStart))
  PROVE  FadeStays
  <1>0. output \in OutputRecord /\ HeardTyped
    BY DEF Typed
  <1>1. UNCHANGED <<outputbuf, src>> /\ heard'.skipped = heard.skipped
    BY <1>0 DEF RenderBegin, RenderLoop, LoopSilence, LoopDelay, LoopTrackStart, HeardTyped
  <1>2. output'.fade = output.fade /\ output'.fade_start = output.fade_start /\ output'.fade_end = output.fade_end
    <2>1. CASE RenderBegin \/ (RenderLoop /\ LoopSilence)
      BY <2>1 DEF RenderBegin, LoopSilence
    <2>2. CASE RenderLoop /\ LoopDelay
      BY <1>0, <2>2 DEF LoopDelay, OutputRecord
    <2>3. CASE RenderLoop /\ LoopTrackStart
      <3>1. \/ output' = [output EXCEPT !.frames_played = 0, !.track_started = TRUE,
                                        !.format = output.next_format, !.track_start = Null]
            \/ output' = [output EXCEPT !.frames_played = 0, !.track_started = TRUE,
                                        !.format = output.next_format, !.track_start = Null,
                                        !.state = "PAUSE_FRAMES", !.count = HalfDelay, !.delay_active = FALSE]
        BY <2>3 DEF LoopTrackStart
      <3> QED BY <1>0, <3>1 DEF OutputRecord
    <2> QED BY <2>1, <2>2, <2>3
  <1> QED BY <1>1, <1>2 DEF FadeStays

LEMMA EnterFade ==
  ASSUME OutputAssumption, Typed, FadeInv, RenderEnter
  PROVE  FadeInv'
  <1>0. output \in OutputRecord /\ outputbuf.size \in Nat \ {0} /\ outputbuf.readp \in 0 .. outputbuf.size - 1
        /\ IncPtr(outputbuf.readp, 0, outputbuf.size) = outputbuf.readp
    BY StayIs DEF Typed
  <1>1. \E s, c, f : \/ output' = output
                     \/ output' = [output EXCEPT !.state = s]
                     \/ output' = [output EXCEPT !.count = c]
                     \/ output' = [output EXCEPT !.state = s, !.frames_played = f]
    BY DEF RenderEnter, EnterStopped, EnterRunning, EnterSkip, EnterPause, EnterPauseOver, EnterStartAt
  <1>2. output'.fade = output.fade /\ output'.fade_start = output.fade_start /\ output'.fade_end = output.fade_end
    BY <1>0, <1>1 DEF OutputRecord
  <1>3. PICK n \in Nat : EnterSkips(n)
    BY EnterIs
  <1>4. src' = src /\ outputbuf'.size = outputbuf.size
    BY EnterIs DEF EnterSame
  <1>5. CASE n = 0
    <2>1. outputbuf'.readp = outputbuf.readp
      BY <1>0, <1>3, <1>5 DEF EnterSkips
    <2>2. heard'.skipped = {} => heard.skipped = {}
      BY <1>3 DEF EnterSkips
    <2>3. FadeStays
      BY <1>2, <1>4, <2>1, <2>2 DEF FadeStays
    <2> QED BY <2>3, StaysFade
  <1>6. CASE n > 0
    <2>1. RingRun(outputbuf, outputbuf.readp, n) # {}
      <3>1. outputbuf.mem[(outputbuf.readp + 0) % outputbuf.size] \in RingRun(outputbuf, outputbuf.readp, n)
        BY <1>6 DEF RingRun
      <3> QED BY <3>1
    <2>2. heard'.skipped # {}
      BY <1>3, <2>1 DEF EnterSkips
    <2>3. FadePlaced'
      BY <1>2, <1>4 DEF FadeInv, FadePlaced
    <2> QED BY <2>2, <2>3 DEF FadeInv
  <1> QED BY <1>5, <1>6

LEMMA OtherFade ==
  ASSUME OutputAssumption, Typed, StrmS \/ Decode \/ StartDecoder \/ ControllerPass \/ StrmF \/ StateCommand
  PROVE  FadeStays
  <1>0. output \in OutputRecord /\ HeardTyped /\ src \in SrcRecord
    BY DEF Typed
  <1>1. CASE StrmS \/ StateCommand
    <2>1. \E m, s, n : \/ output' = [output EXCEPT !.fade_mode = m]
                       \/ output' = [output EXCEPT !.state = s, !.count = n]
      BY <1>1 DEF StrmS, StateCommand, StrmP, StrmPause, StrmA, StrmU, StrmAt, SetState
    <2>2. /\ output'.fade = output.fade /\ output'.fade_start = output.fade_start
          /\ output'.fade_end = output.fade_end
      BY <1>0, <2>1 DEF OutputRecord
    <2>3. UNCHANGED <<outputbuf, heard>> /\ (src.phase = "flushing" => src' = src)
      BY <1>1, StrmSIs, CommandIs
    <2> QED BY <2>2, <2>3 DEF FadeStays
  <1>2. CASE Decode
    <2>1. UNCHANGED <<output, heard>> /\ src.phase = "run"
      BY <1>2, DecodeIs
    <2>2. PICK k \in 1 .. BufWritable : outputbuf' = Filled(outputbuf, k)
      BY <1>2, DecodeIs
    <2>3. k \in Nat
      BY RingIs DEF Typed, BufWritable
    <2>4. outputbuf'.readp = outputbuf.readp /\ outputbuf'.size = outputbuf.size
      BY <1>0, <2>2, <2>3, FilledPointers DEF Typed
    <2> QED BY <2>1, <2>4 DEF FadeStays
  <1>3. CASE StartDecoder
    BY <1>3, DecoderIs DEF FadeStays
  <1>4. CASE ControllerPass
    <2>1. \E s : output' = [output EXCEPT !.track_started = FALSE, !.state = s]
      BY <1>4 DEF ControllerPass
    <2>2. /\ output'.fade = output.fade /\ output'.fade_start = output.fade_start
          /\ output'.fade_end = output.fade_end
      BY <1>0, <2>1 DEF OutputRecord
    <2> QED BY <1>4, <2>2, PassIs DEF FadeStays
  <1>5. CASE StrmF
    <2>1. output' = [output EXCEPT !.track_start = Null] /\ (\E g : heard' = [heard EXCEPT !.garbage = g])
      BY <1>5 DEF StrmF
    <2>2. /\ output'.fade = output.fade /\ output'.fade_start = output.fade_start
          /\ output'.fade_end = output.fade_end
      BY <1>0, <2>1 DEF OutputRecord
    <2>3. heard'.skipped = heard.skipped
      BY <1>0, <2>1 DEF HeardTyped
    <2>4. /\ src.phase # "flushing" /\ outputbuf'.readp = outputbuf.readp /\ outputbuf'.size = outputbuf.size
      BY <1>5, StrmFIs
    <2> QED BY <2>2, <2>3, <2>4 DEF FadeStays
  <1> QED BY <1>1, <1>2, <1>3, <1>4, <1>5

\* A fade that is scheduled lies inside the ring.
LEMMA DueFade ==
  ASSUME NEW o \in OutputRecord, NEW dir \in Directions, NEW s \in Int, NEW e \in Int, NEW p, p = Fading(o, dir, s, e)
  PROVE  p.fade = "DUE" /\ p.fade_start = s /\ p.fade_end = e
  <1>1. p = [o EXCEPT !.fade = "DUE", !.fade_dir = dir, !.fade_start = s, !.fade_end = e]
    BY DEF Fading
  <1> QED BY <1>1, Names DEF OutputRecord

LEMMA WriteFade ==
  ASSUME OutputAssumption, Typed, NoCross, FadeInv, TrackStart
  PROVE  FadeInv'
  <1>1. PICK f \in Formats, k \in 0 .. LesserOf(BufWritable, TrackLen) :
          LET o == [output EXCEPT !.track_start = outputbuf.writep, !.next_format = f] IN
          \E c \in Starts(o) :
             /\ output' = c.o /\ outputbuf' = Filled(c.b, k)
             /\ src' = [src EXCEPT !.phase = "run", !.pos = k]
    BY DEF TrackStart
  <1> DEFINE o == [output EXCEPT !.track_start = outputbuf.writep, !.next_format = f]
  <1>2. PICK c \in Starts(o) :
             output' = c.o /\ outputbuf' = Filled(c.b, k)
    BY <1>1
  <1>3. UNCHANGED heard /\ src.phase = "open"
    BY TrackStartIs
  <1>4. /\ RingTyped(outputbuf) /\ output \in OutputRecord /\ src \in SrcRecord
        /\ outputbuf.size \in Nat \ {0} /\ outputbuf.writep \in 0 .. outputbuf.size - 1 /\ BufWritable \in Nat
    BY RingIs DEF Typed, BufWritable
  <1>5. k \in Nat
    BY <1>4, ConstantsAre DEF LesserOf
  <1>6. /\ o \in OutputRecord /\ o.fade_mode = output.fade_mode /\ o.fade = output.fade
        /\ o.fade_start = output.fade_start /\ o.fade_end = output.fade_end
    <2>1. PICK w \in Pointer : w = outputbuf.writep
      BY <1>4 DEF Pointer
    <2>2. o = [output EXCEPT !.track_start = w, !.next_format = f]
      BY <2>1
    <2> HIDE DEF o
    <2> QED BY <1>4, <2>2 DEF OutputRecord
  <1> HIDE DEF o
  <1> DEFINE inLen == LesserOf(FadeLen(o), outputbuf.size - 1)
             end == Wrapped(outputbuf.writep + inLen, outputbuf.size)
  <1>7. c.b = outputbuf /\ (\/ c.o = o
                            \/ c.o = [o EXCEPT !.fade = "INACTIVE"]
                            \/ c.o = Fading(o, "UP", outputbuf.writep, end))
    <2>1. CASE c \in CheckFadeStart(o, outputbuf)
      <3>1. o.fade_mode # "CROSSFADE"
        BY <1>6 DEF NoCross
      <3> QED BY <2>1, <3>1 DEF CheckFadeStart
    <2>2. CASE c \notin CheckFadeStart(o, outputbuf)
      BY <1>2, <2>2 DEF Starts, FadeOff
    <2> QED BY <2>1, <2>2
  <1>8. end \in 0 .. outputbuf.size - 1
    <2>1. FadeLen(o) \in Nat
      BY ConstantsAre DEF FadeLen
    <2>2. inLen \in 0 .. outputbuf.size - 1
      BY <1>4, <2>1 DEF LesserOf
    <2> HIDE DEF inLen
    <2> QED BY <1>4, <2>2 DEF Wrapped
  <1> HIDE DEF inLen, end
  <1>9. outputbuf'.readp = outputbuf.readp /\ outputbuf'.size = outputbuf.size
    BY <1>2, <1>4, <1>5, <1>7, FilledPointers
  <1>10. CASE c.o = o
    <2>1. FadeStays
      BY <1>2, <1>3, <1>6, <1>9, <1>10 DEF FadeStays
    <2> QED BY <2>1, StaysFade
  <1>11. CASE c.o = [o EXCEPT !.fade = "INACTIVE"]
    <2>1. output'.fade = "INACTIVE"
      BY <1>2, <1>6, <1>11 DEF OutputRecord
    <2> QED BY <2>1 DEF FadeInv, FadePlaced
  <1>12. CASE c.o = Fading(o, "UP", outputbuf.writep, end)
    <2>1. output'.fade = "DUE" /\ output'.fade_start = outputbuf.writep /\ output'.fade_end = end
      BY <1>2, <1>4, <1>6, <1>8, <1>12, DueFade, Names
    <2> QED BY <1>4, <1>8, <1>9, <2>1 DEF FadeInv, FadePlaced
  <1> QED BY <1>7, <1>10, <1>11, <1>12

LEMMA EndFade ==
  ASSUME OutputAssumption, Typed, FadeInv, DecodeEnd
  PROVE  FadeInv'
  <1> DEFINE used == Used(outputbuf.readp, outputbuf.writep, outputbuf.size)
             len == LesserOf(used, FadeLen(output))
             start == Wrapped(outputbuf.writep - len, outputbuf.size)
  <1>1. /\ UNCHANGED <<outputbuf, heard>> /\ src.phase = "run"
        /\ \/ output' = output
           \/ output' = [output EXCEPT !.fade = "INACTIVE"]
           \/ output' = Fading(output, "DOWN", start, outputbuf.writep)
    BY DEF DecodeEnd, CheckFadeEnd
  <1>2. /\ output \in OutputRecord /\ outputbuf.size \in Nat \ {0}
        /\ outputbuf.writep \in 0 .. outputbuf.size - 1 /\ used \in 0 .. outputbuf.size - 1
    BY RingIs DEF Typed
  <1>3. start \in 0 .. outputbuf.size - 1
    <2>1. FadeLen(output) \in Nat
      BY ConstantsAre DEF FadeLen
    <2>2. len \in 0 .. outputbuf.size - 1
      BY <1>2, <2>1 DEF LesserOf
    <2> HIDE DEF len
    <2> QED BY <1>2, <2>2 DEF Wrapped
  <1> HIDE DEF used, len, start
  <1>4. CASE output' = output
    <2>1. FadeStays
      BY <1>1, <1>4 DEF FadeStays
    <2> QED BY <2>1, StaysFade
  <1>5. CASE output' = [output EXCEPT !.fade = "INACTIVE"]
    <2>1. output'.fade = "INACTIVE"
      BY <1>2, <1>5 DEF OutputRecord
    <2> QED BY <2>1 DEF FadeInv, FadePlaced
  <1>6. CASE output' = Fading(output, "DOWN", start, outputbuf.writep)
    <2>1. output'.fade = "DUE" /\ output'.fade_start = start /\ output'.fade_end = outputbuf.writep
      BY <1>2, <1>3, <1>6, DueFade, Names
    <2> QED BY <1>1, <1>2, <1>3, <2>1 DEF FadeInv, FadePlaced
  <1> QED BY <1>1, <1>4, <1>5, <1>6

LEMMA FlushFade ==
  ASSUME OutputAssumption, Typed, FadeInv, StrmQ \/ OutputFlush
  PROVE  FadeInv'
  <1>1. CASE StrmQ
    <2>1. src'.phase = "flushing" /\ output' = output /\ outputbuf'.size = outputbuf.size
      <3>1. outputbuf' = [outputbuf EXCEPT !.readp = 0, !.writep = 0]
        BY <1>1 DEF StrmQ
      <3>2. ASSUME NEW n, outputbuf \in RingRecord(n) PROVE outputbuf'.size = outputbuf.size
        BY <3>1, <3>2 DEF RingRecord
      <3>3. outputbuf'.size = outputbuf.size
        BY <3>2 DEF Typed, RingTyped
      <3> QED BY <1>1, <3>3, StrmQIs
    <2> QED BY <2>1 DEF FadeInv, FadePlaced
  <1>2. CASE OutputFlush
    <2>1. output'.fade = "INACTIVE"
      BY <1>2 DEF OutputFlush, Typed, OutputRecord
    <2> QED BY <2>1 DEF FadeInv, FadePlaced
  <1> QED BY <1>1, <1>2

LEMMA FadeKeeps ==
  ASSUME OutputAssumption, Typed, NoCross, FadeInv, [Next]_vars
  PROVE  FadeInv'
  <1>1. CASE Next
    <2>1. CASE RenderBegin \/ (RenderLoop /\ LoopSilence) \/ (RenderLoop /\ LoopDelay) \/ (RenderLoop /\ LoopTrackStart)
      BY <2>1, QuietFade, StaysFade
    <2>2. CASE RenderEnter
      BY <2>2, EnterFade
    <2>3. CASE RenderLoop /\ LoopPlay
      BY <2>3, MusicFade
    <2>4. CASE StrmS \/ Decode \/ StartDecoder \/ ControllerPass \/ StrmF \/ StateCommand
      BY <2>4, OtherFade, StaysFade
    <2>5. CASE TrackStart \/ DecodeEnd \/ StrmQ \/ OutputFlush
      BY <2>5, WriteFade, EndFade, FlushFade
    <2> QED BY <1>1, <2>1, <2>2, <2>3, <2>4, <2>5, StepsAre
  <1>2. CASE UNCHANGED vars
    <2>1. FadeStays
      BY <1>2 DEF vars, FadeStays
    <2> QED BY <2>1, StaysFade
  <1> QED BY <1>1, <1>2

\* Without crossfades, whatever the server sends: a fade in or out that has
\* begun is not run past, by no piece and around no wrap, and so it is for
\* every length of the fade and of the buffer, for a fade that was scheduled
\* late, and for the turn of FADE_INOUT (_checkfade, _output_frames, "we get
\* to end of fade at start of chunk").
THEOREM FadeEndsOnTime ==
  ASSUME OutputAssumption, "CROSSFADE" \notin FadeModes
  PROVE  Spec => []FadeOnTime
  <1> DEFINE Inv == Typed /\ NoCross /\ FadeInv
  <1>1. Init => Inv
    <2>1. Init => output.fade = "INACTIVE"
      BY DEF Init
    <2> QED BY <2>1, InitTyped, InitQueue DEF FadeInv, FadePlaced
  <1>2. Inv /\ [Next]_vars => Inv'
    BY TypedKeeps, CrossKeeps, FadeKeeps
  <1>3. Inv => FadeOnTime
    BY DEF FadeInv, FadeOnTime
  <1> HIDE DEF Inv
  <1> QED BY <1>1, <1>2, <1>3, PTL DEF Spec
=============================================================================
