---- MODULE Alsa ----
(***************************************************************************)
(* The ALSA output of squeezelite (output_alsa.c): opening a device with   *)
(* its fallbacks, the thread that starts, recovers, feeds, gives back and  *)
(* looks for it again, and the writing of frames by mmap or by writei.     *)
(*                                                                         *)
(* A frame of music is known by its place in Music, which holds the kind   *)
(* of its stream: a rate together with a DSD format, which the thread      *)
(* treats alike.  Silence is the frame 0.  alsa-lib and the device are     *)
(* external: a state, a kind and a queue of frames.                        *)
(***************************************************************************)
EXTENDS Integers, Sequences, FiniteSetsExt, SequencesExt

CONSTANTS
    Kinds, NoKind,  \* kinds of stream; alsa.rate = 0
    Music,          \* the kind of each frame in outputbuf
    BufferOf,       \* buffer_size the device grants for a kind
    PeriodOf,       \* and period_size
    Direct,         \* kinds that hardware can play without the plug, or that a fixed device can play
    Setups,         \* options and abilities of a device, and a bound on what goes wrong with it
    RecoverLimit,   \* recover_count at which the device is closed
    DefaultKind,    \* output.default_sample_rate
    MaxToggles      \* bound on the times the player is turned off or on

VARIABLES
    setup,          \* one of Setups; its delay is half of output.rate_delay, in frames
    running, out,   \* running, and whether output.state is OUTPUT_OFF
    pc, loc,        \* the thread, and its start, output_off, probe_device, avail
    handle,         \* pcmp: NULL, open, or the address of one that was closed
    alsa,           \* alsa.rate, mmap, buffer_size, period_size and the size of write_buf
    recoverCount,   \* static in _write_frames
    errorOpening,   \* output.error_opening
    cur, pos,       \* output.current_sample_rate and the next frame at outputbuf->readp
    pause, delayed, \* output.pause_frames and output.delay_active
    present, dev,   \* the device: there or not, its state, kind and queue
    heard,          \* frames of music that were heard
    closedTwice,    \* snd_pcm_close was called for a handle that was closed
    faults, toggles

outVars == <<cur, pos, pause, delayed>>
devVars == <<present, dev, heard>>
bounds == <<faults, toggles>>
vars == <<setup, running, out, pc, loc, handle, alsa, recoverCount, errorOpening,
          outVars, devVars, closedTwice, bounds>>

(* write_buf has the size of the first buffer, and takes a period of any kind. *)
ASSUME PeriodsFit == \A j, k \in Kinds : PeriodOf[j] <= BufferOf[k] /\ PeriodOf[j] > 0

ASSUME AlsaAssumption ==
    /\ DefaultKind \in Kinds /\ NoKind \notin Kinds /\ Music \in Seq(Kinds)
    /\ BufferOf \in [Kinds -> Nat] /\ PeriodOf \in [Kinds -> Nat] /\ Direct \subseteq Kinds
    /\ Setups \subseteq [mmap : BOOLEAN, mmapped : BOOLEAN, native : BOOLEAN, device : {"hw", "plug", "fixed"},
                         reopen : BOOLEAN, probe : BOOLEAN, delay : Nat, faults : Nat]
    /\ RecoverLimit \in Nat /\ MaxToggles \in Nat

Least(a, b) == IF a < b THEN a ELSE b
NoDevice == [st |-> "none", kind |-> NoKind, q |-> <<>>]

Init ==
    /\ setup \in Setups
    /\ running = TRUE /\ out \in {"ON", "OFF"}
    /\ pc = "loop"
    /\ loc = [start |-> TRUE, off |-> out = "OFF", probe |-> setup.probe, avail |-> 0, silent |-> FALSE]
    /\ handle = "null"
    /\ alsa = [kind |-> NoKind, mmap |-> setup.mmap, size |-> 0, period |-> 0, buf |-> 0]
    /\ recoverCount = 0 /\ errorOpening = FALSE
    /\ cur = DefaultKind /\ pos = 1 /\ pause = 0 /\ delayed = FALSE
    /\ present = TRUE /\ dev = NoDevice /\ heard = {}
    /\ closedTwice = FALSE /\ faults = 0 /\ toggles = 0

----------------------------------------------------------------------------
(* alsa-lib and the device. *)

Flowing == dev.st \in {"prepared", "running"}
Available == alsa.size - Len(dev.q)

\* A device that runs takes a frame, and stops when there is none.
Play ==
    /\ dev.st = "running"
    /\ IF dev.q = <<>>
       THEN dev' = [dev EXCEPT !.st = "xrun"] /\ heard' = heard
       ELSE dev' = [dev EXCEPT !.q = Tail(@)] /\ heard' = heard \cup ({Head(dev.q)} \ {0})
    /\ UNCHANGED <<setup, running, out, pc, loc, handle, alsa, recoverCount, errorOpening,
                   outVars, present, closedTwice, bounds>>

\* It is pulled out, or the system sleeps.
Unplug ==
    /\ present' = FALSE
    /\ dev' = IF handle = "open" THEN [dev EXCEPT !.st = "gone", !.q = <<>>] ELSE dev
Suspend == dev.st = "running" /\ dev' = [dev EXCEPT !.st = "suspended"] /\ UNCHANGED present
Fault ==
    /\ faults < setup.faults /\ faults' = faults + 1
    /\ (present /\ Unplug) \/ Suspend
    /\ UNCHANGED <<setup, running, out, pc, loc, handle, alsa, recoverCount, errorOpening,
                   outVars, heard, closedTwice, toggles>>
Replug ==
    /\ ~present /\ present' = TRUE
    /\ UNCHANGED <<setup, running, out, pc, loc, handle, alsa, recoverCount, errorOpening,
                   outVars, dev, heard, closedTwice, bounds>>

\* snd_pcm_recover(): the devices it may leave; a device that is gone cannot be recovered.
Prepared == [dev EXCEPT !.st = "prepared", !.q = <<>>]
Recovered ==
    CASE dev.st = "xrun" -> {Prepared}
      [] dev.st = "suspended" -> {Prepared, [dev EXCEPT !.st = "running"]}
      [] OTHER -> {dev}

----------------------------------------------------------------------------
(* Opening: every outcome of alsa_open for a stream of kind k. *)

\* alsa_close: a handle that was closed already is closed again, which may end the process.
Closed(s) == [s EXCEPT !.dev = NoDevice, !.twice = @ \/ s.handle = "stale",
                       !.handle = IF @ = "null" THEN "null" ELSE "stale"]

\* The plug takes a kind the hardware does not play; the handle without it was closed.
Plugged(k) == setup.device = "hw" /\ k \notin Direct
\* The kinds the device may be set to when kind k is asked for.  Where a device that is not hw: (a
\* mixer of one rate, say) refuses a rate, the error is ignored and it is opened with one of its own.
SetFor(k) == IF setup.device = "fixed" /\ k \notin Direct THEN Direct ELSE {k}
\* It fails at once, or after the first parameter, or after the last, when buffers are known.
FailedAtOnce(shut) == [shut EXCEPT !.ok = FALSE, !.faults = @ + 1]
FailedFirst(shut) == [FailedAtOnce(shut) EXCEPT !.handle = "open", !.dev.st = "setup"]
FailedLast(d, s, shut) ==
    LET mmap == s.alsa.mmap /\ setup.mmapped
    IN  [FailedFirst(shut) EXCEPT !.alsa.mmap = mmap, !.alsa.size = BufferOf[d], !.alsa.period = PeriodOf[d],
                                  !.alsa.buf = IF ~mmap /\ @ = 0 /\ ~setup.native THEN BufferOf[d] ELSE @]
Opened(d, k, s, shut) ==
    [FailedLast(d, s, shut) EXCEPT !.ok = TRUE, !.faults = s.faults, !.alsa.kind = k,
                                   !.dev = [st |-> "prepared", kind |-> d, q |-> <<>>]]
\* Every way it may end from s: at once if the device is not there or busy, after it was opened
\* (from the first parameter to the last), between the two openings of the plug, or well.
Outcomes(k, s, shut) ==
    CASE ~present -> {[shut EXCEPT !.ok = FALSE]}
      [] s.faults = setup.faults -> {Opened(d, k, s, shut) : d \in SetFor(k)}
      [] OTHER -> {Opened(d, k, s, shut) : d \in SetFor(k)} \cup {FailedLast(d, s, shut) : d \in SetFor(k)}
                    \cup {FailedAtOnce(shut), FailedFirst(shut)}
                    \cup (IF Plugged(k) THEN {[FailedAtOnce(shut) EXCEPT !.handle = "stale"]} ELSE {})
\* Faulty variant: alsa.rate is not reset.
AlsaOpenKeepsRate(k, s) == Outcomes(k, s, Closed(s))
AlsaOpen(k, s) == Outcomes(k, s, [Closed(s) EXCEPT !.alsa.kind = NoKind])

Opening == [handle |-> handle, alsa |-> alsa, dev |-> dev, twice |-> FALSE, faults |-> faults, ok |-> FALSE]

OpenDevice ==
    /\ pc = "open" /\ (handle = "null" \/ alsa.kind # cur)
    /\ \E first \in (IF setup.reopen THEN AlsaOpen(cur, Opening) ELSE {Opening}) :
       \E s \in AlsaOpen(cur, first) :
          /\ handle' = s.handle /\ alsa' = s.alsa /\ dev' = s.dev /\ faults' = s.faults
          /\ closedTwice' = (closedTwice \/ s.twice)
          /\ errorOpening' = ~s.ok
          /\ loc' = [loc EXCEPT !.start = s.ok \/ @]
          /\ pc' \in {IF s.ok THEN "check" ELSE "loop"} \cup (IF s.twice THEN {"aborted"} ELSE {})
    /\ UNCHANGED <<setup, running, out, recoverCount, outVars, present, heard, toggles>>

IsOpen ==
    /\ pc = "open" /\ handle # "null" /\ alsa.kind = cur
    /\ pc' = "check"
    /\ UNCHANGED <<setup, running, out, loc, handle, alsa, recoverCount, errorOpening, outVars, devVars, closedTwice, bounds>>

----------------------------------------------------------------------------
(* The thread. *)

threadEnv == <<setup, running, out, recoverCount, errorOpening, outVars, present, heard, bounds>>
untouched == <<handle, alsa, dev, closedTwice>>

\* The loop ends, waits for the player to be turned on, or goes on to look for the device.
Loop ==
    /\ pc = "loop"
    /\ pc' = IF ~running THEN "ended" ELSE IF loc.off THEN "off" ELSE "probe"
    /\ UNCHANGED <<loc, untouched, threadEnv>>
\* Faulty variant: it waits though the output is closed.
OffWaitOnly ==
    /\ pc = "off"
    /\ loc' = [loc EXCEPT !.off = out = "OFF"]
    /\ pc' = IF out = "OFF" THEN "off" ELSE "probe"
    /\ UNCHANGED <<untouched, threadEnv>>
OffWait ==
    /\ pc = "off"
    /\ loc' = [loc EXCEPT !.off = out = "OFF"]
    /\ pc' = IF ~running THEN "ended" ELSE IF out = "OFF" THEN "off" ELSE "probe"
    /\ UNCHANGED <<untouched, threadEnv>>
Probe ==
    /\ pc = "probe" /\ (loc.probe => present)
    /\ loc' = [loc EXCEPT !.probe = FALSE] /\ pc' = "open"
    /\ UNCHANGED <<untouched, threadEnv>>

\* alsa_close(), pcmp = NULL
GiveBack(probe, off) ==
    /\ handle' = "null" /\ dev' = NoDevice
    /\ closedTwice' = (closedTwice \/ handle = "stale")
    /\ loc' = [loc EXCEPT !.probe = probe \/ @, !.off = off, !.avail = 0, !.silent = FALSE]
    /\ pc' = "loop" /\ UNCHANGED alsa

NextPass == loc' = [loc EXCEPT !.avail = 0, !.silent = FALSE] /\ pc' = "loop"
StartAnew == loc' = [loc EXCEPT !.start = TRUE] /\ pc' = "loop"

\* snd_pcm_state()
\* Faulty variant: after an underrun the device is not prepared.
CheckStateNoRecover ==
    /\ pc = "check"
    /\ \/ Flowing /\ pc' = "avail" /\ UNCHANGED <<loc, untouched>>
       \/ dev.st = "xrun" /\ StartAnew /\ UNCHANGED untouched
       \/ dev.st = "suspended" /\ dev' \in Recovered /\ pc' = "avail" /\ UNCHANGED <<loc, handle, alsa, closedTwice>>
       \/ dev.st = "gone" /\ GiveBack(TRUE, FALSE)
    /\ UNCHANGED threadEnv
CheckState ==
    /\ pc = "check"
    /\ \/ Flowing /\ pc' = "avail" /\ UNCHANGED <<loc, untouched>>
       \/ dev.st = "xrun" /\ dev' \in Recovered /\ StartAnew /\ UNCHANGED <<handle, alsa, closedTwice>>
       \/ dev.st = "suspended" /\ dev' \in Recovered /\ pc' = "avail" /\ UNCHANGED <<loc, handle, alsa, closedTwice>>
       \/ dev.st = "gone" /\ GiveBack(TRUE, FALSE)
    /\ UNCHANGED threadEnv

\* min(avail, ...): what may be written at once.
\* Faulty variants: what is in the device is not taken off; as much by writei as by mmap.
AtOnceFull == alsa.size
AtOnceAll == Available
AtOnce == IF alsa.mmap THEN Available ELSE Least(Available, alsa.period)
\* snd_pcm_avail_update()
CheckAvail ==
    /\ pc = "avail"
    /\ \/ dev.st \in {"xrun", "suspended"} /\ dev' \in Recovered /\ StartAnew /\ UNCHANGED <<handle, alsa, closedTwice>>
       \/ dev.st = "gone" /\ GiveBack(TRUE, FALSE)
       \/ /\ Flowing
          /\ pc' = IF Available >= alsa.period THEN "write" ELSE IF loc.start THEN "start" ELSE "wait"
          /\ loc' = [loc EXCEPT !.avail = IF Available >= alsa.period THEN AtOnce ELSE 0]
          /\ UNCHANGED untouched
    /\ UNCHANGED threadEnv

\* snd_pcm_start(), which fails for a device that runs; start is left set then
Start ==
    /\ pc = "start"
    /\ \/ ~alsa.mmap /\ loc' = [loc EXCEPT !.start = FALSE] /\ pc' = "loop" /\ UNCHANGED untouched
       \/ /\ alsa.mmap /\ dev.st = "prepared" /\ dev' = [dev EXCEPT !.st = "running"]
          /\ loc' = [loc EXCEPT !.start = FALSE] /\ pc' = "loop" /\ UNCHANGED <<handle, alsa, closedTwice>>
       \/ /\ alsa.mmap /\ dev.st \in {"running", "xrun", "suspended"} /\ dev' \in Recovered
          /\ pc' = "loop" /\ UNCHANGED <<loc, handle, alsa, closedTwice>>
       \/ alsa.mmap /\ dev.st = "gone" /\ GiveBack(TRUE, FALSE)
    /\ UNCHANGED threadEnv

\* snd_pcm_wait(): there is room, or the time is over, or the device is in no state to wait for
Wait ==
    /\ pc = "wait"
    /\ \/ Flowing /\ Available >= alsa.period /\ pc' = "loop" /\ UNCHANGED <<loc, untouched>>
       \/ /\ ~(Flowing /\ Available >= alsa.period)
          /\ dev' \in Recovered /\ StartAnew /\ UNCHANGED <<handle, alsa, closedTwice>>
    /\ UNCHANGED threadEnv

\* The player was turned off: the device is given back.
\* Faulty variant: the thread does not wait for the player to be turned on.
TurnedOffNoWait ==
    /\ pc = "write" /\ out = "OFF"
    /\ GiveBack(FALSE, FALSE)
    /\ UNCHANGED threadEnv
TurnedOff ==
    /\ pc = "write" /\ out = "OFF"
    /\ GiveBack(FALSE, TRUE)
    /\ UNCHANGED threadEnv
\* snd_pcm_delay() says EPIPE
Underrun ==
    /\ pc = "write" /\ out = "ON" /\ dev.st = "xrun"
    /\ NextPass /\ UNCHANGED <<untouched, threadEnv>>

----------------------------------------------------------------------------
(* Frames: _output_frames in so far as it chooses them, and _write_frames. *)

\* How many frames of music are left before the next track of another kind.
SameKind == Cardinality({n \in DOMAIN Music : n >= pos /\ \A i \in pos..n : Music[i] = cur})

\* output.state is OUTPUT_PAUSE_FRAMES or there is nothing to play: silence.
OutputFrames ==
    /\ pc = "write" /\ out = "ON" /\ dev.st # "xrun"
    /\ LET n == CASE pause > 0 -> Least(loc.avail, pause)
                  [] pause = 0 /\ pos <= Len(Music) -> Least(loc.avail, Len(Music) - pos + 1)
                  [] OTHER -> loc.avail IN
       /\ pause' = IF pause > 0 THEN pause - n ELSE pause
       /\ loc' = [loc EXCEPT !.avail = n, !.silent = pause > 0 \/ pos > Len(Music)]
    /\ pc' = "frames"
    /\ UNCHANGED <<setup, running, out, recoverCount, errorOpening, untouched, cur, pos, delayed, present, heard, bounds>>

\* A track of another kind starts: silence of rate_delay in two halves, before and after.
\* Faulty variant: the rest is written to the device as it is.
TrackStartGoesOn ==
    /\ pc = "frames" /\ ~loc.silent /\ loc.avail > 0 /\ SameKind = 0
    /\ pause' = setup.delay
    /\ IF setup.delay > 0 /\ ~delayed
       THEN delayed' = TRUE /\ cur' = cur
       ELSE delayed' = FALSE /\ cur' = Music[pos]
    /\ UNCHANGED <<setup, running, out, pc, loc, recoverCount, errorOpening, untouched, pos, present, heard, bounds>>
TrackStart ==
    /\ pc = "frames" /\ ~loc.silent /\ loc.avail > 0 /\ SameKind = 0
    /\ pause' = setup.delay
    /\ IF setup.delay > 0 /\ ~delayed
       THEN delayed' = TRUE /\ cur' = cur
       ELSE delayed' = FALSE /\ cur' = Music[pos]
    /\ NextPass
    /\ UNCHANGED <<setup, running, out, recoverCount, errorOpening, untouched, pos, present, heard, bounds>>

Writing == pc = "frames" /\ loc.avail > 0 /\ (loc.silent \/ SameKind > 0)
Frames(n) == [i \in 1..n |-> IF loc.silent THEN 0 ELSE pos + i - 1]
MostFrames == IF loc.silent THEN loc.avail ELSE Least(loc.avail, SameKind)

\* snd_pcm_mmap_begin() may give less than was asked for, snd_pcm_writei() take less, and start.
\* Faulty variant: when less is taken the frames stay in outputbuf.
AcceptAgain ==
    /\ Writing /\ Flowing
    /\ \E n \in 1..MostFrames :
       /\ dev' = [dev EXCEPT !.q = @ \o Frames(n), !.st = IF alsa.mmap THEN @ ELSE "running"]
       /\ pos' = IF loc.silent \/ n < MostFrames THEN pos ELSE pos + n
       /\ loc' = [loc EXCEPT !.avail = @ - n]
    /\ UNCHANGED <<setup, running, out, pc, recoverCount, errorOpening, handle, alsa, closedTwice,
                   cur, pause, delayed, present, heard, bounds>>
\* Faulty variant: all that was asked for leaves outputbuf.
AcceptFewer ==
    /\ Writing /\ Flowing
    /\ \E n \in 1..MostFrames :
       /\ dev' = [dev EXCEPT !.q = @ \o Frames(n), !.st = IF alsa.mmap THEN @ ELSE "running"]
       /\ pos' = IF loc.silent THEN pos ELSE pos + MostFrames
       /\ loc' = [loc EXCEPT !.avail = @ - MostFrames]
    /\ UNCHANGED <<setup, running, out, pc, recoverCount, errorOpening, handle, alsa, closedTwice,
                   cur, pause, delayed, present, heard, bounds>>
Accept ==
    /\ Writing /\ Flowing
    /\ \E n \in 1..MostFrames :
       /\ dev' = [dev EXCEPT !.q = @ \o Frames(n), !.st = IF alsa.mmap THEN @ ELSE "running"]
       /\ pos' = IF loc.silent THEN pos ELSE pos + n
       /\ loc' = [loc EXCEPT !.avail = @ - n]
    /\ UNCHANGED <<setup, running, out, pc, recoverCount, errorOpening, handle, alsa, closedTwice,
                   cur, pause, delayed, present, heard, bounds>>
\* The device takes nothing: writei recovers it, and gives up after RecoverLimit failures.
Refuse ==
    /\ Writing /\ ~Flowing
    /\ IF alsa.mmap
       THEN NextPass /\ UNCHANGED <<untouched, recoverCount>>
       ELSE IF dev.st # "gone"
       THEN dev' \in Recovered /\ NextPass /\ UNCHANGED <<handle, alsa, closedTwice, recoverCount>>
       ELSE IF recoverCount + 1 < RecoverLimit
       THEN recoverCount' = recoverCount + 1 /\ NextPass /\ UNCHANGED untouched
       ELSE recoverCount' = 0 /\ GiveBack(loc.probe, loc.off)
    /\ UNCHANGED <<setup, running, out, errorOpening, outVars, present, heard, bounds>>
Written ==
    /\ pc = "frames" /\ loc.avail = 0
    /\ NextPass
    /\ UNCHANGED <<untouched, threadEnv>>

----------------------------------------------------------------------------
(* The controller turns the player off and on, and closes the output. *)

locked == pc = "frames"     \* _output_frames holds outputbuf->mutex
Toggle ==
    /\ ~locked /\ toggles < MaxToggles /\ toggles' = toggles + 1
    /\ out' = IF out = "ON" THEN "OFF" ELSE "ON"
    /\ UNCHANGED <<setup, running, pc, loc, untouched, recoverCount, errorOpening, outVars, present, heard, faults>>
OutputClose ==
    /\ ~locked /\ running /\ running' = FALSE
    /\ UNCHANGED <<setup, out, pc, loc, untouched, recoverCount, errorOpening, outVars, present, heard, bounds>>

Thread ==
    \/ Loop \/ OffWait \/ Probe \/ OpenDevice \/ IsOpen \/ CheckState \/ CheckAvail \/ Start \/ Wait
    \/ TurnedOff \/ Underrun \/ OutputFrames \/ TrackStart \/ Accept \/ Refuse \/ Written
Next == Thread \/ Play \/ Fault \/ Replug \/ Toggle \/ OutputClose

Spec == Init /\ [][Next]_vars
(* The thread's waits are all limited, and a device that runs takes frames. *)
FairSpec == Spec /\ WF_vars(Thread) /\ WF_vars(Play)

----------------------------------------------------------------------------
Asking == {"check", "avail", "start", "wait", "write", "frames"}
Queued == ToSet(dev.q) \ {0}

\* Type invariant: the device's queue is never longer than its buffer.
TypeOK ==
    /\ setup \in Setups /\ running \in BOOLEAN /\ out \in {"ON", "OFF"} /\ present \in BOOLEAN
    /\ pc \in Asking \cup {"loop", "off", "probe", "open", "aborted", "ended"}
    /\ handle \in {"null", "open", "stale"} /\ cur \in Kinds /\ alsa.kind \in Kinds \cup {NoKind}
    /\ pos \in 1..Len(Music) + 1 /\ heard \subseteq DOMAIN Music
    /\ Len(dev.q) <= alsa.size /\ loc.avail <= alsa.size

\* The thread asks and feeds no device but one that is open, set, and opened for the stream it
\* plays: not one that was closed, that could not be set, or whose opening failed for the controller
\* to see.  It is set for the kind of that stream, unless it refused the rate and is not hw:.
DeviceIsReady ==
    /\ pc \in Asking => handle = "open" /\ dev.kind \in SetFor(alsa.kind) /\ dev.st # "setup" /\ ~errorOpening
    /\ pc \in Asking \ {"frames"} => alsa.kind = cur
    /\ handle = "stale" \/ closedTwice => faults > 0

\* Frames reach the device in order and no more than once, through underruns, short writes,
\* suspends and openings for another kind of stream, and at a device that is set for their kind, or
\* to the kind of its own that it has for it.
HeardInOrder ==
    /\ \A i, j \in DOMAIN dev.q : i < j /\ dev.q[i] # 0 => dev.q[j] = 0 \/ dev.q[i] < dev.q[j]
    /\ \A n \in Queued : n < pos /\ (\A m \in heard : m < n) /\ dev.kind \in SetFor(Music[n])
    /\ \A m \in heard : m < pos

\* With a rate delay of two of the device's buffers no music is lost when the device is opened for
\* another kind of stream: the delay's first half keeps the end of the track from being cut off.
EndIsHeard ==
    (\A k \in Kinds : setup.delay >= BufferOf[k]) /\ faults = 0 /\ toggles = 0
        => 1..(pos - 1) = heard \cup Queued

\* What is packed for writei fits into write_buf, which has the size of the first device buffer.
WriteBufHolds == pc = "frames" /\ ~alsa.mmap /\ ~setup.native => loc.avail <= alsa.buf

\* A player that stays on plays all of its music from the time its device is back.
Resumes == <>[](running /\ out = "ON" /\ present) => <>(pos > Len(Music) \/ pc = "aborted")

\* A player that stays off gives its device back, and does not open it again.
GivenBack == <>[](running /\ out = "OFF") => <>[](handle # "open" \/ pc = "aborted")

\* output_close_alsa ends the thread wherever it is, but while it waits for its device.
Stops == ~running ~> (pc \in {"ended", "aborted"} \/ (pc = "probe" /\ ~present))

\* The thread uses a device that is open, set and large enough for what it is about to do.
DeviceIsFit == TypeOK /\ DeviceIsReady /\ WriteBufHolds

\* The music reaches the device whole: in order, no frame twice, and no track without its end.
HeardWhole == HeardInOrder /\ EndIsHeard

\* The device is let go when the player is turned off or closed.
LetsGo == GivenBack /\ Stops
====
