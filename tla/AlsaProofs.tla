----------------------------- MODULE AlsaProofs -----------------------------
(* Proofs about Alsa, for any music, kinds of stream and sizes of buffers,  *)
(* any device and any number of faults: the device that is fed is fit for   *)
(* what it is fed, and hears the music in order and to its end.             *)
EXTENDS Alsa, FiniteSetTheorems, TLAPS

(* The inductive invariant, in parts.                                       *)

DevStates == {"none", "setup", "prepared", "running", "xrun", "suspended", "gone"}
Handles == {"null", "open", "stale"}
Pcs == Asking \cup {"loop", "off", "probe", "open", "aborted", "ended"}
Frame == 0 .. Len(Music)

LocRecord == [start : BOOLEAN, off : BOOLEAN, probe : BOOLEAN, avail : Nat, silent : BOOLEAN]
AlsaRecord == [kind : Kinds \cup {NoKind}, mmap : BOOLEAN, size : Nat, period : Nat, buf : Nat]
DevRecord == [st : DevStates, kind : Kinds \cup {NoKind}, q : Seq(Frame)]

Typed ==
    /\ setup \in Setups /\ running \in BOOLEAN /\ out \in {"ON", "OFF"} /\ pc \in Pcs
    /\ loc \in LocRecord /\ handle \in Handles /\ alsa \in AlsaRecord /\ recoverCount \in Nat
    /\ errorOpening \in BOOLEAN /\ cur \in Kinds /\ pos \in 1 .. Len(Music) + 1
    /\ pause \in Nat /\ delayed \in BOOLEAN /\ present \in BOOLEAN /\ dev \in DevRecord
    /\ heard \subseteq DOMAIN Music /\ closedTwice \in BOOLEAN /\ faults \in Nat /\ toggles \in Nat

HandleInv ==
    /\ handle = "open" <=> dev.st # "none"
    /\ dev.st \in {"none", "setup", "xrun", "gone"} => dev.q = <<>>
    /\ alsa.kind # NoKind /\ handle # "null" => handle = "open" /\ dev.kind \in SetFor(alsa.kind) /\ dev.st # "setup"
    /\ alsa.kind # NoKind => /\ ~errorOpening
                             /\ \E d \in SetFor(alsa.kind) : alsa.size = BufferOf[d] /\ alsa.period = PeriodOf[d]
                             /\ ~alsa.mmap /\ ~setup.native => alsa.buf # 0
    /\ alsa.buf # 0 => \E k \in Kinds : alsa.buf = BufferOf[k]
    /\ ~present \/ handle = "stale" \/ closedTwice \/ dev.st \in {"suspended", "gone"} => faults > 0

\* What the thread knows when it asks the device and when it writes.
AskInv ==
    /\ pc \in Asking => handle = "open" /\ alsa.kind = cur
    /\ pc \notin {"write", "frames"} => loc.avail = 0
    /\ pc # "frames" => ~loc.silent
    /\ Len(dev.q) + loc.avail <= alsa.size
    /\ ~alsa.mmap => loc.avail <= alsa.period
    /\ pc = "frames" /\ ~loc.silent => pos + loc.avail <= Len(Music) + 1

OrderInv == HeardInOrder

Due == IF loc.silent THEN loc.avail ELSE 0
Unlost == (\A k \in Kinds : setup.delay >= BufferOf[k]) /\ faults = 0 /\ toggles = 0

EndInv == Unlost =>
    /\ 1 .. (pos - 1) = heard \cup Queued
    /\ out = "OFF" => pc \in {"loop", "off", "ended"} /\ loc.off
    /\ handle = "null" \/ alsa.kind # cur => Queued = {}
    /\ pause <= setup.delay
    /\ pc = "frames" /\ ~loc.silent => pause = 0
    /\ delayed => /\ pos <= Len(Music) /\ Music[pos] # cur
                  /\ \A i \in DOMAIN dev.q : dev.q[i] # 0 => i + setup.delay <= Len(dev.q) + pause + Due

Inv == Typed /\ HandleInv /\ AskInv /\ OrderInv /\ EndInv
-----------------------------------------------------------------------------
(* Names, and what a step may do to the device.                             *)

LEMMA Names ==
  /\ "none" \in DevStates /\ "setup" \in DevStates /\ "prepared" \in DevStates /\ "running" \in DevStates
  /\ "xrun" \in DevStates /\ "suspended" \in DevStates /\ "gone" \in DevStates
  /\ "null" \in Handles /\ "open" \in Handles /\ "stale" \in Handles
  BY DEF DevStates, Handles

LEMMA PcNames ==
  /\ \A p \in {"check", "avail", "start", "wait", "write", "frames"} : p \in Pcs /\ p \in Asking
  /\ \A p \in {"loop", "off", "probe", "open", "aborted", "ended"} : p \in Pcs /\ p \notin Asking
  BY DEF Pcs, Asking

LEMMA MusicIs == /\ Len(Music) \in Nat /\ DOMAIN Music = 1 .. Len(Music) /\ 0 \in Frame
                 /\ \A n \in DOMAIN Music : n \in Frame /\ Music[n] \in Kinds
                 /\ <<>> \in Seq(Frame)
  BY AlsaAssumption DEF Frame

LEMMA SetupIs ==
  ASSUME setup \in Setups
  PROVE  /\ setup.delay \in Nat /\ setup.faults \in Nat /\ setup.mmapped \in BOOLEAN /\ setup.native \in BOOLEAN
  BY AlsaAssumption

\* The device changes no more than its state, but for what it drops.
Calmed ==
    /\ dev' \in DevRecord /\ dev'.kind = dev.kind
    /\ dev'.st # dev.st => dev.st \notin {"none", "setup"} /\ dev'.st \in {"prepared", "running"}
    /\ dev'.q = dev.q \/ (dev'.q = <<>> /\ faults > 0)

LEMMA RecoveredIs ==
  ASSUME Typed, HandleInv, dev' \in Recovered \cup {dev}
  PROVE  Calmed
  <1>1. dev \in DevRecord /\ <<>> \in Seq(Frame)
    BY MusicIs DEF Typed
  <1>2. CASE dev' = dev
    BY <1>1, <1>2 DEF Calmed
  <1>3. CASE dev' = Prepared /\ dev.st \in {"xrun", "suspended"}
    <2>1. dev' = [dev EXCEPT !.st = "prepared", !.q = <<>>]
      BY <1>3 DEF Prepared
    <2>2. dev' \in DevRecord /\ dev'.kind = dev.kind /\ dev'.st = "prepared" /\ dev'.q = <<>>
      BY <1>1, <2>1, Names DEF DevRecord
    <2> QED BY <1>3, <2>2 DEF Calmed, HandleInv
  <1>4. CASE dev' = [dev EXCEPT !.st = "running"] /\ dev.st = "suspended"
    <2>1. dev' \in DevRecord /\ dev'.kind = dev.kind /\ dev'.st = "running" /\ dev'.q = dev.q
      BY <1>1, <1>4, Names DEF DevRecord
    <2> QED BY <1>4, <2>1 DEF Calmed
  <1> QED BY <1>2, <1>3, <1>4 DEF Recovered

LEMMA CalmedQueue ==
  ASSUME Typed, Calmed, OrderInv, UNCHANGED <<setup, pos, heard>>
  PROVE  OrderInv' /\ (dev'.q = dev.q => Queued' = Queued) /\ (dev'.q = <<>> => Queued' = {})
         /\ Len(dev'.q) <= Len(dev.q)
  <1>1. dev.q \in Seq(Frame)
    BY DEF Typed, DevRecord
  <1>2. CASE dev'.q = dev.q
    <2>1. Queued' = Queued
      BY <1>2 DEF Queued, ToSet
    <2>2. dev'.kind = dev.kind
      BY DEF Calmed
    <2>3. OrderInv'
      BY <1>2, <2>1, <2>2 DEF OrderInv, HeardInOrder, SetFor
    <2>4. Len(dev'.q) <= Len(dev.q) /\ (dev'.q = <<>> => Queued' = {})
      BY <1>1, <1>2 DEF Queued, ToSet
    <2> QED BY <2>1, <2>3, <2>4
  <1>3. CASE dev'.q = <<>>
    BY <1>1, <1>3 DEF Calmed, OrderInv, HeardInOrder, Queued, ToSet
  <1> QED BY <1>2, <1>3 DEF Calmed

LEMMA CalmedHandle ==
  ASSUME Typed, HandleInv, Calmed, UNCHANGED <<setup, handle, alsa, errorOpening, present, closedTwice, faults>>
  PROVE  HandleInv'
  BY DEF HandleInv, Calmed, SetFor
-----------------------------------------------------------------------------
(* Steps of the thread that leave the frames alone.                         *)

\* A frame that is known to be on its way is not forgotten, and a player that was off from the
\* start does not leave its wait.
Patient ==
    /\ Due = 0 \/ dev.q = <<>> \/ faults > 0
    /\ out = "OFF" /\ pc \in {"loop", "off", "ended"} /\ loc.off => pc' \in {"loop", "off", "ended"} /\ loc'.off

Moves ==
    /\ UNCHANGED <<setup, running, out, handle, alsa, errorOpening, outVars, present, heard, closedTwice, bounds>>
    /\ recoverCount' \in Nat /\ loc' \in LocRecord /\ pc' \in Pcs /\ pc' # "frames" /\ ~loc'.silent
    /\ pc' \in Asking => handle = "open" /\ alsa.kind = cur
    /\ pc' # "write" => loc'.avail = 0
    /\ Len(dev'.q) + loc'.avail <= alsa.size
    /\ ~alsa.mmap => loc'.avail <= alsa.period

LEMMA MovesKeeps ==
  ASSUME Inv, Calmed, Patient, Moves
  PROVE  Inv'
  <1>1. Typed'
    BY DEF Inv, Typed, Calmed, Moves, outVars, bounds
  <1>2. HandleInv'
    BY CalmedHandle DEF Inv, Moves, bounds
  <1>3. OrderInv' /\ (dev'.q = dev.q => Queued' = Queued) /\ (dev'.q = <<>> => Queued' = {})
    BY CalmedQueue DEF Inv, Moves, outVars
  <1>4. AskInv'
    BY DEF Moves, AskInv, outVars
  <1>5. EndInv'
    <2>1. SUFFICES ASSUME Unlost' PROVE EndInv'
      BY DEF EndInv
    <2>2. /\ Unlost /\ faults = 0 /\ dev'.q = dev.q /\ Queued' = Queued /\ Due' = 0
          /\ UNCHANGED <<setup, out, handle, alsa, cur, pos, pause, delayed, heard>>
      BY <2>1, <1>3 DEF Unlost, Moves, outVars, bounds, Calmed, Due
    <2>3. EndInv
      BY DEF Inv
    <2>4. /\ 1 .. (pos' - 1) = heard' \cup Queued' /\ pause' <= setup'.delay
          /\ handle' = "null" \/ alsa'.kind # cur' => Queued' = {}
      BY <2>2, <2>3 DEF EndInv
    <2>5. out' = "OFF" => pc' \in {"loop", "off", "ended"} /\ loc'.off
      BY <2>2, <2>3 DEF EndInv, Patient
    <2>6. ~(pc' = "frames" /\ ~loc'.silent)
      BY DEF Moves
    <2>7. delayed' => /\ pos' <= Len(Music) /\ Music[pos'] # cur'
                      /\ \A i \in DOMAIN dev'.q : dev'.q[i] # 0 => i + setup'.delay <= Len(dev'.q) + pause' + Due'
      <3>1. CASE dev.q = <<>>
        BY <2>2, <2>3, <3>1 DEF EndInv
      <3>2. CASE Due = 0
        BY <2>2, <2>3, <3>2 DEF EndInv
      <3> QED BY <2>2, <3>1, <3>2 DEF Patient
    <2> QED BY <2>4, <2>5, <2>6, <2>7 DEF EndInv
  <1> QED BY <1>1, <1>2, <1>3, <1>4, <1>5 DEF Inv
-----------------------------------------------------------------------------
(* The thread, but for what it writes and opens.                            *)

\* alsa_close(): after a fault, or because the player was turned off.
LEMMA GiveBackKeeps ==
  ASSUME Inv, NEW p \in BOOLEAN, NEW o \in BOOLEAN, GiveBack(p, o), recoverCount' \in Nat,
         UNCHANGED <<setup, running, out, errorOpening, outVars, present, heard, bounds>>,
         handle = "open", dev.st = "gone" \/ (pc \notin {"loop", "off", "ended"} /\ out = "OFF")
  PROVE  Inv'
  <1>1. /\ handle' = "null" /\ dev' = NoDevice /\ closedTwice' = closedTwice /\ pc' = "loop" /\ alsa' = alsa
        /\ UNCHANGED <<setup, running, out, errorOpening, cur, pos, pause, delayed, present, heard, faults, toggles>>
    BY DEF GiveBack, outVars, bounds, Inv, Typed
  <1>2. loc' \in LocRecord /\ loc'.avail = 0 /\ ~loc'.silent
    <2>1. PICK q \in BOOLEAN : loc' = [loc EXCEPT !.probe = q, !.off = o, !.avail = 0, !.silent = FALSE]
      BY DEF GiveBack, Inv, Typed, LocRecord
    <2> QED BY <2>1 DEF Inv, Typed, LocRecord
  <1>3. dev' \in DevRecord /\ dev'.st = "none" /\ dev'.q = <<>> /\ Len(dev'.q) = 0
    BY <1>1, Names, MusicIs DEF NoDevice, DevRecord
  <1>4. Typed'
    BY <1>1, <1>2, <1>3, Names, PcNames DEF Inv, Typed
  <1>5. HandleInv'
    BY <1>1, <1>3 DEF Inv, HandleInv, SetFor
  <1>6. OrderInv'
    BY <1>1, <1>3 DEF Inv, OrderInv, HeardInOrder, Queued, ToSet
  <1>7. AskInv'
    <2>1. alsa.size \in Nat /\ alsa.period \in Nat
      BY DEF Inv, Typed, AlsaRecord
    <2> QED BY <1>1, <1>2, <1>3, <2>1, PcNames DEF AskInv
  <1>8. ~Unlost
    BY DEF Inv, HandleInv, EndInv, Unlost
  <1>9. ~Unlost'
    BY <1>1, <1>8 DEF Unlost
  <1> QED BY <1>4, <1>5, <1>6, <1>7, <1>9 DEF Inv, EndInv

LEMMA NextPassIs ==
  ASSUME Typed, NextPass
  PROVE  /\ loc' \in LocRecord /\ loc'.avail = 0 /\ ~loc'.silent /\ loc'.off = loc.off /\ pc' = "loop"
  BY DEF Typed, LocRecord, NextPass

LEMMA StartAnewIs ==
  ASSUME Typed, StartAnew
  PROVE  /\ loc' \in LocRecord /\ loc'.avail = loc.avail /\ loc'.silent = loc.silent /\ loc'.off = loc.off
         /\ pc' = "loop"
  BY DEF Typed, LocRecord, StartAnew

\* What Moves and Patient need of a step of which little else is to be said.
LEMMA StepKeeps ==
  ASSUME Inv, UNCHANGED <<handle, alsa, closedTwice, setup, running, out, errorOpening, outVars, present, heard, bounds>>,
         dev' \in Recovered \cup {dev}, recoverCount' \in Nat,
         loc' \in LocRecord, loc'.avail = 0, ~loc'.silent, loc'.off = loc.off \/ (pc = "off" /\ loc'.off = (out = "OFF")),
         pc' \in Pcs, pc' \notin {"write", "frames"}, pc' \in Asking => handle = "open" /\ alsa.kind = cur,
         pc \in {"loop", "off", "ended"} /\ loc.off /\ out = "OFF" => pc' \in {"loop", "off", "ended"},
         loc.avail = 0 \/ ~loc.silent \/ ~Flowing
  PROVE  Inv'
  <1>1. Calmed
    BY RecoveredIs DEF Inv
  <1>2. Patient
    BY DEF Patient, Inv, HandleInv, Due, Typed, DevRecord, DevStates, Flowing
  <1>3. Len(dev'.q) + loc'.avail <= alsa.size /\ loc'.avail <= alsa.period
    <2>1. Len(dev'.q) <= Len(dev.q) /\ Len(dev.q) \in Nat
      BY <1>1, MusicIs DEF Calmed, Inv, Typed, DevRecord
    <2>2. alsa.size \in Nat /\ alsa.period \in Nat /\ loc.avail \in Nat
      BY DEF Inv, Typed, AlsaRecord, LocRecord
    <2>3. Len(dev'.q) \in Nat
      BY <1>1 DEF Calmed, DevRecord
    <2> QED BY <2>1, <2>2, <2>3 DEF Inv, AskInv
  <1>4. Moves
    BY <1>3 DEF Moves
  <1> QED BY <1>1, <1>2, <1>4, MovesKeeps

LEMMA LoopKeeps ==
  ASSUME Inv, Loop \/ Probe \/ OffWait
  PROVE  Inv'
  <1>0. loc \in LocRecord /\ loc.avail = 0 /\ ~loc.silent
    BY DEF Inv, Typed, AskInv, Loop, Probe, OffWait
  <1>1. UNCHANGED <<handle, alsa, dev, closedTwice, threadEnv>>
    BY DEF Loop, Probe, OffWait, untouched
  <1>2. CASE Loop
    <2>1. loc' = loc /\ pc' \in {"ended", "off", "probe"} /\ (loc.off => pc' # "probe")
      BY <1>2 DEF Loop
    <2> QED BY <1>0, <1>1, <2>1, PcNames, StepKeeps DEF threadEnv, Inv, Typed
  <1>3. CASE Probe
    <2>1. /\ loc' \in LocRecord /\ loc'.avail = 0 /\ ~loc'.silent /\ loc'.off = loc.off
          /\ pc' = "open" /\ pc = "probe"
      BY <1>0, <1>3 DEF Probe, LocRecord
    <2> QED BY <1>0, <1>1, <2>1, PcNames, StepKeeps DEF threadEnv, Inv, Typed
  <1>4. CASE OffWait
    <2> DEFINE o == out = "OFF"
    <2>1. loc' = [loc EXCEPT !.off = o] /\ pc = "off"
      BY <1>4 DEF OffWait
    <2>2. o \in BOOLEAN
      OBVIOUS
    <2> HIDE DEF o
    <2>3. loc' \in LocRecord /\ loc'.avail = 0 /\ ~loc'.silent /\ loc'.off = o
      BY <1>0, <2>1, <2>2 DEF LocRecord
    <2>4. pc' \in {"ended", "off", "probe"} /\ (out = "OFF" => pc' # "probe")
      BY <1>4 DEF OffWait
    <2>5. loc'.off = (out = "OFF")
      BY <2>3 DEF o
    <2> QED BY <1>0, <1>1, <2>1, <2>3, <2>4, <2>5, PcNames, StepKeeps DEF threadEnv, Inv, Typed
  <1> QED BY <1>2, <1>3, <1>4

LEMMA IsOpenKeeps ==
  ASSUME Inv, IsOpen
  PROVE  Inv'
  <1>0. loc \in LocRecord /\ loc.avail = 0 /\ ~loc.silent
    BY DEF Inv, Typed, AskInv, IsOpen
  <1>1. /\ UNCHANGED <<handle, alsa, dev, closedTwice, threadEnv, loc>> /\ pc = "open" /\ pc' = "check"
        /\ handle # "null" /\ alsa.kind = cur
    BY DEF IsOpen, devVars, threadEnv
  <1>2. handle = "open"
    BY <1>1, AlsaAssumption DEF Inv, HandleInv, Typed
  <1> QED BY <1>0, <1>1, <1>2, PcNames, StepKeeps DEF threadEnv, Inv, Typed

LEMMA CheckStateKeeps ==
  ASSUME Inv, CheckState
  PROVE  Inv'
  <1>0. /\ loc \in LocRecord /\ loc.avail = 0 /\ ~loc.silent /\ handle = "open" /\ alsa.kind = cur /\ pc = "check"
        /\ recoverCount \in Nat
    BY PcNames DEF Inv, Typed, AskInv, CheckState
  <1>1. UNCHANGED threadEnv
    BY DEF CheckState
  <1>2. CASE dev.st = "gone" /\ GiveBack(TRUE, FALSE)
    BY <1>0, <1>1, <1>2, GiveBackKeeps DEF threadEnv
  <1>3. CASE Flowing /\ pc' = "avail" /\ UNCHANGED <<loc, untouched>>
    BY <1>0, <1>1, <1>3, PcNames, StepKeeps DEF threadEnv, untouched
  <1>4. CASE dev.st = "xrun" /\ dev' \in Recovered /\ StartAnew /\ UNCHANGED <<handle, alsa, closedTwice>>
    BY <1>0, <1>1, <1>4, PcNames, StartAnewIs, StepKeeps DEF threadEnv, Inv
  <1>5. CASE dev.st = "suspended" /\ dev' \in Recovered /\ pc' = "avail" /\ UNCHANGED <<loc, handle, alsa, closedTwice>>
    BY <1>0, <1>1, <1>5, PcNames, StepKeeps DEF threadEnv
  <1> QED BY <1>2, <1>3, <1>4, <1>5 DEF CheckState

LEMMA CheckAvailKeeps ==
  ASSUME Inv, CheckAvail
  PROVE  Inv'
  <1>0. /\ loc \in LocRecord /\ loc.avail = 0 /\ ~loc.silent /\ handle = "open" /\ alsa.kind = cur /\ pc = "avail"
        /\ recoverCount \in Nat /\ UNCHANGED threadEnv
    BY PcNames DEF Inv, Typed, AskInv, CheckAvail
  <1>1. CASE dev.st = "gone" /\ GiveBack(TRUE, FALSE)
    BY <1>0, <1>1, GiveBackKeeps DEF threadEnv
  <1>2. CASE dev.st \in {"xrun", "suspended"} /\ dev' \in Recovered /\ StartAnew /\ UNCHANGED <<handle, alsa, closedTwice>>
    BY <1>0, <1>2, PcNames, StartAnewIs, StepKeeps DEF threadEnv, Inv
  <1>3. CASE /\ Flowing /\ UNCHANGED untouched
             /\ pc' = IF Available >= alsa.period THEN "write" ELSE IF loc.start THEN "start" ELSE "wait"
             /\ loc' = [loc EXCEPT !.avail = IF Available >= alsa.period THEN AtOnce ELSE 0]
    <2>1. /\ alsa.size \in Nat /\ alsa.period \in Nat /\ Len(dev.q) \in Nat /\ Len(dev.q) <= alsa.size
      BY <1>0 DEF Inv, Typed, AlsaRecord, DevRecord, AskInv
    <2>2. CASE Available >= alsa.period
      <3>1. AtOnce \in Nat /\ Len(dev.q) + AtOnce <= alsa.size /\ (~alsa.mmap => AtOnce <= alsa.period)
        BY <2>1 DEF Available, AtOnce, Least
      <3>2. loc' = [loc EXCEPT !.avail = AtOnce] /\ pc' = "write"
        BY <1>3, <2>2
      <3>3. loc' \in LocRecord /\ loc'.avail = AtOnce /\ ~loc'.silent
        BY <1>0, <3>1, <3>2 DEF LocRecord
      <3>4. Calmed
        BY <1>3, RecoveredIs DEF Inv, untouched
      <3>5. Patient
        BY <1>0 DEF Patient, Due
      <3>6. Moves
        BY <1>0, <1>3, <3>1, <3>2, <3>3, PcNames DEF Moves, threadEnv, untouched
      <3> QED BY <3>4, <3>5, <3>6, MovesKeeps
    <2>3. CASE ~(Available >= alsa.period)
      <3>1. loc' = [loc EXCEPT !.avail = 0] /\ pc' \in {"start", "wait"}
        BY <1>3, <2>3
      <3>2. loc' \in LocRecord /\ loc'.avail = 0 /\ ~loc'.silent /\ loc'.off = loc.off
        BY <1>0, <3>1 DEF LocRecord
      <3> QED BY <1>0, <1>3, <3>1, <3>2, PcNames, StepKeeps DEF threadEnv, untouched
    <2> QED BY <2>2, <2>3
  <1> QED BY <1>1, <1>2, <1>3 DEF CheckAvail

LEMMA StartKeeps ==
  ASSUME Inv, Start
  PROVE  Inv'
  <1>0. /\ loc \in LocRecord /\ loc.avail = 0 /\ ~loc.silent /\ handle = "open" /\ alsa.kind = cur /\ pc = "start"
        /\ recoverCount \in Nat /\ UNCHANGED threadEnv
    BY PcNames DEF Inv, Typed, AskInv, Start
  <1>1. ASSUME loc' = [loc EXCEPT !.start = FALSE]
        PROVE  loc' \in LocRecord /\ loc'.avail = 0 /\ ~loc'.silent /\ loc'.off = loc.off
    BY <1>0, <1>1 DEF LocRecord
  <1>2. CASE loc' = [loc EXCEPT !.start = FALSE] /\ pc' = "loop" /\ UNCHANGED untouched
    BY <1>0, <1>1, <1>2, PcNames, StepKeeps DEF threadEnv, untouched
  <1>3. CASE /\ dev.st = "prepared" /\ dev' = [dev EXCEPT !.st = "running"]
             /\ loc' = [loc EXCEPT !.start = FALSE] /\ pc' = "loop" /\ UNCHANGED <<handle, alsa, closedTwice>>
    <2>1. Calmed
      BY <1>3, Names DEF Calmed, Inv, Typed, DevRecord
    <2>2. Patient
      BY <1>0 DEF Patient, Due
    <2>3. dev'.q = dev.q
      BY <1>3 DEF Inv, Typed, DevRecord
    <2>4. Moves
      BY <1>0, <1>1, <1>3, <2>1, <2>3, PcNames DEF Moves, threadEnv, Calmed, Inv, AskInv
    <2> QED BY <2>1, <2>2, <2>4, MovesKeeps
  <1>4. CASE /\ dev' \in Recovered /\ pc' = "loop" /\ UNCHANGED <<loc, handle, alsa, closedTwice>>
    BY <1>0, <1>4, PcNames, StepKeeps DEF threadEnv
  <1>5. CASE dev.st = "gone" /\ GiveBack(TRUE, FALSE)
    BY <1>0, <1>5, GiveBackKeeps DEF threadEnv
  <1> QED BY <1>2, <1>3, <1>4, <1>5 DEF Start

LEMMA WaitKeeps ==
  ASSUME Inv, Wait
  PROVE  Inv'
  <1>0. /\ loc \in LocRecord /\ loc.avail = 0 /\ ~loc.silent /\ handle = "open" /\ alsa.kind = cur /\ pc = "wait"
        /\ recoverCount \in Nat /\ UNCHANGED threadEnv
    BY PcNames DEF Inv, Typed, AskInv, Wait
  <1>1. CASE pc' = "loop" /\ UNCHANGED <<loc, untouched>>
    BY <1>0, <1>1, PcNames, StepKeeps DEF threadEnv, untouched
  <1>2. CASE dev' \in Recovered /\ StartAnew /\ UNCHANGED <<handle, alsa, closedTwice>>
    BY <1>0, <1>2, PcNames, StartAnewIs, StepKeeps DEF threadEnv, Inv
  <1> QED BY <1>1, <1>2 DEF Wait

LEMMA TurnedOffKeeps ==
  ASSUME Inv, TurnedOff
  PROVE  Inv'
  <1>1. /\ handle = "open" /\ pc = "write" /\ out = "OFF" /\ GiveBack(FALSE, TRUE) /\ UNCHANGED threadEnv
        /\ recoverCount \in Nat
    BY PcNames DEF Inv, Typed, AskInv, TurnedOff
  <1> QED BY <1>1, GiveBackKeeps DEF threadEnv

LEMMA PassEnds ==
  ASSUME Inv, Underrun \/ Written
  PROVE  Inv'
  <1>1. /\ UNCHANGED <<untouched, threadEnv>> /\ NextPass /\ recoverCount \in Nat
        /\ loc.avail = 0 \/ ~Flowing
    BY DEF Inv, Typed, Underrun, Written, Flowing
  <1>2. pc \in {"write", "frames"}
    BY DEF Underrun, Written
  <1>3. pc \notin {"loop", "off", "ended"}
    BY <1>2
  <1> QED BY <1>1, <1>3, NextPassIs, PcNames, StepKeeps DEF threadEnv, untouched, Inv

LEMMA RefuseKeeps ==
  ASSUME Inv, Refuse
  PROVE  Inv'
  <1>0. /\ handle = "open" /\ pc = "frames" /\ ~Flowing /\ recoverCount \in Nat /\ loc \in LocRecord
        /\ UNCHANGED <<setup, running, out, errorOpening, outVars, present, heard, bounds>>
    BY PcNames DEF Inv, Typed, AskInv, Refuse, Writing
  <1>1. CASE NextPass /\ UNCHANGED untouched /\ recoverCount' \in Nat
    BY <1>0, <1>1, NextPassIs, PcNames, StepKeeps DEF untouched, Inv
  <1>2. CASE dev' \in Recovered /\ NextPass /\ UNCHANGED <<handle, alsa, closedTwice, recoverCount>>
    BY <1>0, <1>2, NextPassIs, PcNames, StepKeeps DEF Inv
  <1>3. CASE dev.st = "gone" /\ recoverCount' = 0 /\ GiveBack(loc.probe, loc.off)
    <2>1. loc.probe \in BOOLEAN /\ loc.off \in BOOLEAN
      BY <1>0 DEF LocRecord
    <2> QED BY <1>0, <1>3, <2>1, GiveBackKeeps
  <1> QED BY <1>0, <1>1, <1>2, <1>3 DEF Refuse
-----------------------------------------------------------------------------
(* The device, the player and the system.                                   *)

LEMMA PlayKeeps ==
  ASSUME Inv, Play
  PROVE  Inv'
  <1>1. /\ UNCHANGED <<setup, running, out, pc, loc, handle, alsa, recoverCount, errorOpening, present, closedTwice>>
        /\ UNCHANGED <<cur, pos, pause, delayed, faults, toggles>> /\ dev.st = "running"
    BY DEF Play, outVars, bounds
  <1>0. /\ dev \in DevRecord /\ dev.q \in Seq(Frame) /\ heard \subseteq DOMAIN Music /\ loc.avail \in Nat
        /\ alsa.size \in Nat
    BY DEF Inv, Typed, DevRecord, LocRecord, AlsaRecord
  <1>2. CASE dev.q = <<>>
    <2>1. dev' = [dev EXCEPT !.st = "xrun"] /\ heard' = heard
      BY <1>2 DEF Play
    <2>2. dev' \in DevRecord /\ dev'.st = "xrun" /\ dev'.kind = dev.kind /\ dev'.q = dev.q
      BY <1>0, <2>1, Names DEF DevRecord
    <2>3. Typed' /\ HandleInv' /\ AskInv'
      BY <1>1, <1>2, <2>1, <2>2 DEF Inv, Typed, HandleInv, AskInv, SetFor
    <2>4. Queued' = Queued
      BY <2>2 DEF Queued, ToSet
    <2>5. OrderInv'
      BY <1>1, <2>1, <2>2, <2>4 DEF Inv, OrderInv, HeardInOrder, SetFor
    <2>6. EndInv'
      BY <1>1, <2>1, <2>2, <2>4 DEF Inv, EndInv, Unlost, Due
    <2> QED BY <2>3, <2>5, <2>6 DEF Inv
  <1>3. CASE dev.q # <<>>
    <2> DEFINE h == dev.q[1]
    <2>1. /\ Tail(dev.q) \in Seq(Frame) /\ Len(Tail(dev.q)) = Len(dev.q) - 1 /\ Len(dev.q) > 0 /\ Len(dev.q) \in Nat
          /\ h \in Frame /\ Head(dev.q) = h /\ 1 \in DOMAIN dev.q
          /\ \A i \in DOMAIN Tail(dev.q) : i + 1 \in DOMAIN dev.q /\ Tail(dev.q)[i] = dev.q[i + 1]
      BY <1>0, <1>3
    <2>2. dev' = [dev EXCEPT !.q = Tail(dev.q)] /\ heard' = heard \cup ({h} \ {0})
      BY <1>3, <2>1 DEF Play
    <2>3. dev' \in DevRecord /\ dev'.st = "running" /\ dev'.kind = dev.kind /\ dev'.q = Tail(dev.q)
      BY <1>0, <1>1, <2>1, <2>2 DEF DevRecord
    <2>4. Queued = Queued' \cup ({h} \ {0})
      <3>1. \A n \in ToSet(dev.q) : n = h \/ n \in ToSet(dev'.q)
        <4> SUFFICES ASSUME NEW i \in DOMAIN dev.q PROVE dev.q[i] = h \/ dev.q[i] \in ToSet(dev'.q)
          BY DEF ToSet
        <4>1. i = 1 \/ (i - 1 \in DOMAIN Tail(dev.q) /\ Tail(dev.q)[i - 1] = dev.q[i])
          BY <1>0, <2>1
        <4> QED BY <2>3, <4>1 DEF ToSet
      <3>2. \A n \in ToSet(dev'.q) : n \in ToSet(dev.q)
        BY <2>1, <2>3 DEF ToSet
      <3>3. h \in ToSet(dev.q)
        BY <2>1 DEF ToSet
      <3> QED BY <3>1, <3>2, <3>3 DEF Queued
    <2>5. h # 0 => h \in DOMAIN Music
      BY <2>1, MusicIs DEF Frame
    <2> HIDE DEF h
    <2>6. Typed'
      BY <1>1, <2>2, <2>3, <2>5, <1>0 DEF Inv, Typed
    <2>7. HandleInv'
      BY <1>1, <2>3 DEF Inv, HandleInv, SetFor
    <2>8. AskInv'
      BY <1>0, <1>1, <2>1, <2>3 DEF Inv, AskInv
    <2>9. OrderInv'
      <3>1. \A i, j \in DOMAIN dev'.q : i < j /\ dev'.q[i] # 0 => dev'.q[j] = 0 \/ dev'.q[i] < dev'.q[j]
        <4> SUFFICES ASSUME NEW i \in DOMAIN dev'.q, NEW j \in DOMAIN dev'.q, i < j, dev'.q[i] # 0
                     PROVE  dev'.q[j] = 0 \/ dev'.q[i] < dev'.q[j]
          OBVIOUS
        <4>1. i \in Nat /\ j \in Nat
          BY <2>1, <2>3
        <4>2. i + 1 \in DOMAIN dev.q /\ j + 1 \in DOMAIN dev.q /\ i + 1 < j + 1
              /\ dev'.q[i] = dev.q[i + 1] /\ dev'.q[j] = dev.q[j + 1]
          BY <2>1, <2>3, <4>1
        <4> QED BY <4>2 DEF Inv, OrderInv, HeardInOrder
      <3>2. \A n \in Queued' : n < pos' /\ (\A m \in heard' : m < n) /\ dev'.kind \in SetFor(Music[n])'
        <4> SUFFICES ASSUME NEW n \in Queued' PROVE n < pos /\ (\A m \in heard' : m < n) /\ dev.kind \in SetFor(Music[n])
          BY <1>1, <2>3 DEF SetFor
        <4>1. n < pos /\ (\A m \in heard : m < n) /\ dev.kind \in SetFor(Music[n])
          BY <2>4 DEF Inv, OrderInv, HeardInOrder
        <4>2. h # 0 => h < n
          <5>1. PICK i \in DOMAIN dev'.q : n = dev'.q[i] /\ n # 0
            BY DEF Queued, ToSet
          <5>2. i + 1 \in DOMAIN dev.q /\ 1 < i + 1 /\ n = dev.q[i + 1]
            BY <2>1, <2>3, <5>1
          <5> QED BY <2>1, <5>1, <5>2 DEF Inv, OrderInv, HeardInOrder, h
        <4> QED BY <2>2, <4>1, <4>2
      <3>3. \A m \in heard' : m < pos'
        <4>1. h # 0 => h \in Queued
          BY <2>4
        <4> QED BY <1>1, <2>2, <4>1 DEF Inv, OrderInv, HeardInOrder
      <3> QED BY <3>1, <3>2, <3>3 DEF OrderInv, HeardInOrder, SetFor
    <2>10. EndInv'
      <3>1. SUFFICES ASSUME Unlost PROVE EndInv'
        BY <1>1 DEF EndInv, Unlost
      <3>2. EndInv
        BY DEF Inv
      <3>3. heard' \cup Queued' = heard \cup Queued /\ Queued' \subseteq Queued
        BY <2>2, <2>4
      <3>4. Due' = Due /\ Due \in Nat
        BY <1>0, <1>1 DEF Due
      <3>5. delayed => \A i \in DOMAIN dev'.q : dev'.q[i] # 0 => i + setup.delay <= Len(dev'.q) + pause + Due
        <4> SUFFICES ASSUME delayed, NEW i \in DOMAIN dev'.q, dev'.q[i] # 0
                     PROVE i + setup.delay <= Len(dev'.q) + pause + Due
          OBVIOUS
        <4>1. i \in Nat /\ setup.delay \in Nat /\ pause \in Nat
          BY <2>1, <2>3, SetupIs DEF Inv, Typed
        <4>2. i + 1 + setup.delay <= Len(dev.q) + pause + Due
          BY <2>1, <2>3, <3>1, <3>2 DEF EndInv
        <4> QED BY <2>1, <2>3, <3>4, <4>1, <4>2
      <3> QED BY <1>1, <3>1, <3>2, <3>3, <3>4, <3>5 DEF EndInv
    <2> QED BY <2>6, <2>7, <2>8, <2>9, <2>10 DEF Inv
  <1> QED BY <1>2, <1>3

LEMMA FaultKeeps ==
  ASSUME Inv, Fault
  PROVE  Inv'
  <1>0. /\ UNCHANGED <<setup, running, out, pc, loc, handle, alsa, recoverCount, errorOpening, heard, closedTwice, toggles>>
        /\ UNCHANGED <<cur, pos, pause, delayed>> /\ faults' = faults + 1 /\ faults \in Nat /\ dev \in DevRecord
    BY DEF Fault, outVars, Inv, Typed
  <1>1. /\ dev' \in DevRecord /\ dev'.kind = dev.kind /\ present' \in BOOLEAN
        /\ \/ dev' = dev /\ handle # "open"
           \/ dev'.st = "gone" /\ dev'.q = <<>> /\ handle = "open"
           \/ dev'.st = "suspended" /\ dev'.q = dev.q /\ dev.st = "running"
    <2>1. CASE Unplug
      <3>1. CASE handle = "open"
        <4>1. dev' = [dev EXCEPT !.st = "gone", !.q = <<>>] /\ present' = FALSE
          BY <2>1, <3>1 DEF Unplug
        <4> QED BY <1>0, <3>1, <4>1, Names, MusicIs DEF DevRecord
      <3>2. CASE handle # "open"
        BY <1>0, <2>1, <3>2 DEF Unplug
      <3> QED BY <3>1, <3>2
    <2>2. CASE Suspend
      <3>1. dev' = [dev EXCEPT !.st = "suspended"] /\ present' = present /\ dev.st = "running"
        BY <2>2 DEF Suspend
      <3> QED BY <1>0, <3>1, Names DEF DevRecord, Inv, Typed
    <2> QED BY <2>1, <2>2 DEF Fault
  <1>2. Typed'
    BY <1>0, <1>1 DEF Inv, Typed
  <1>3. HandleInv'
    BY <1>0, <1>1 DEF Inv, HandleInv, SetFor
  <1>4. AskInv'
    <2>1. Len(dev'.q) <= Len(dev.q) /\ Len(dev.q) \in Nat /\ Len(dev'.q) \in Nat
      BY <1>0, <1>1 DEF DevRecord
    <2>2. alsa.size \in Nat /\ loc.avail \in Nat
      BY DEF Inv, Typed, AlsaRecord, LocRecord
    <2> QED BY <1>0, <2>1, <2>2 DEF Inv, AskInv
  <1>5. OrderInv'
    <2>1. CASE dev'.q = dev.q
      <3>1. Queued' = Queued
        BY <2>1 DEF Queued, ToSet
      <3> QED BY <1>0, <1>1, <2>1, <3>1 DEF Inv, OrderInv, HeardInOrder, SetFor
    <2>2. CASE dev'.q = <<>>
      BY <1>0, <2>2 DEF Inv, OrderInv, HeardInOrder, Queued, ToSet
    <2> QED BY <1>1, <2>1, <2>2
  <1>6. ~Unlost'
    BY <1>0 DEF Unlost
  <1> QED BY <1>2, <1>3, <1>4, <1>5, <1>6 DEF Inv, EndInv

LEMMA OutsideKeeps ==
  ASSUME Inv, Replug \/ Toggle \/ OutputClose
  PROVE  Inv'
  <1>0. /\ UNCHANGED <<setup, pc, loc, handle, alsa, dev, recoverCount, errorOpening, heard, closedTwice>>
        /\ UNCHANGED <<cur, pos, pause, delayed, faults>> /\ (present' \/ present' = present)
    BY DEF Replug, Toggle, OutputClose, outVars, bounds, untouched
  <1>1. Typed' /\ ((toggles' = toggles /\ out' = out) \/ toggles' # 0)
    <2>1. CASE Replug
      BY <1>0, <2>1 DEF Replug, outVars, bounds, Inv, Typed
    <2>2. CASE Toggle
      <3>1. /\ toggles' = toggles + 1 /\ toggles \in Nat /\ out' \in {"ON", "OFF"}
            /\ UNCHANGED <<running, present>>
        BY <2>2 DEF Toggle, Inv, Typed
      <3> QED BY <1>0, <3>1 DEF Inv, Typed
    <2>3. CASE OutputClose
      BY <1>0, <2>3 DEF OutputClose, bounds, Inv, Typed
    <2> QED BY <2>1, <2>2, <2>3
  <1>2. HandleInv' /\ AskInv'
    BY <1>0 DEF Inv, HandleInv, AskInv, SetFor
  <1>3. Queued' = Queued /\ Due' = Due
    BY <1>0 DEF Queued, Due
  <1>4. OrderInv'
    BY <1>0, <1>3 DEF Inv, OrderInv, HeardInOrder, SetFor
  <1>5. EndInv'
    <2>1. CASE toggles' = toggles /\ out' = out
      BY <1>0, <1>3, <2>1 DEF Inv, EndInv, Unlost
    <2>2. CASE toggles' # 0
      BY <2>2 DEF EndInv, Unlost
    <2> QED BY <1>1, <2>1, <2>2
  <1> QED BY <1>1, <1>2, <1>4, <1>5 DEF Inv
-----------------------------------------------------------------------------
(* Frames.                                                                  *)

LEMMA SumSame ==
  ASSUME NEW l \in Nat, NEW p \in Nat, NEW q \in Nat, NEW x \in Nat, NEW y \in Nat, NEW i \in Nat, NEW d \in Nat,
         i + d <= l + p + x, q + y = p + x
  PROVE  i + d <= l + q + y
  OBVIOUS

LEMMA OutputFramesKeeps ==
  ASSUME Inv, OutputFrames
  PROVE  Inv'
  <1> DEFINE n == CASE pause > 0 -> Least(loc.avail, pause)
                    [] pause = 0 /\ pos <= Len(Music) -> Least(loc.avail, Len(Music) - pos + 1)
                    [] OTHER -> loc.avail
             silent == pause > 0 \/ pos > Len(Music)
  <1>0. /\ UNCHANGED <<setup, running, out, recoverCount, errorOpening, handle, alsa, dev, closedTwice>>
        /\ UNCHANGED <<cur, pos, delayed, present, heard, faults, toggles>>
        /\ pc = "write" /\ pc' = "frames" /\ out = "ON"
    BY DEF OutputFrames, untouched, bounds
  <1>1. /\ loc \in LocRecord /\ loc.avail \in Nat /\ pause \in Nat /\ pos \in 1 .. Len(Music) + 1 /\ ~loc.silent
        /\ Len(Music) \in Nat /\ alsa.size \in Nat /\ alsa.period \in Nat /\ Len(dev.q) \in Nat
    BY <1>0, MusicIs DEF Inv, Typed, LocRecord, AskInv, AlsaRecord, DevRecord
  <1>2. /\ n \in Nat /\ n <= loc.avail /\ silent \in BOOLEAN /\ (pause > 0 => n <= pause)
        /\ ~silent => pos + n <= Len(Music) + 1
    <2>1. CASE pause > 0
      BY <1>1, <2>1 DEF Least
    <2>2. CASE pause = 0 /\ pos <= Len(Music)
      BY <1>1, <2>2 DEF Least
    <2>3. CASE pause = 0 /\ ~(pos <= Len(Music))
      BY <1>1, <2>3
    <2> QED BY <1>1, <2>1, <2>2, <2>3
  <1>3. loc' = [loc EXCEPT !.avail = n, !.silent = silent] /\ pause' = IF pause > 0 THEN pause - n ELSE pause
    BY DEF OutputFrames
  <1>9. silent <=> pause > 0 \/ pos > Len(Music)
    OBVIOUS
  <1> HIDE DEF n, silent
  <1>4. /\ loc' \in LocRecord /\ loc'.avail = n /\ loc'.silent = silent
    BY <1>1, <1>2, <1>3 DEF LocRecord
  <1>12. pause' \in Nat /\ (pause > 0 => pause' + n = pause) /\ (pause = 0 => pause' = 0) /\ pause' <= pause
    <2>1. CASE pause > 0
      BY <1>1, <1>2, <1>3, <2>1
    <2>2. CASE pause = 0
      BY <1>1, <1>3, <2>2
    <2> QED BY <1>1, <2>1, <2>2
  <1>5. Typed'
    BY <1>0, <1>4, <1>12, PcNames DEF Inv, Typed
  <1>6. HandleInv'
    BY <1>0 DEF Inv, HandleInv, SetFor
  <1>7. AskInv'
    BY <1>0, <1>1, <1>2, <1>4, PcNames DEF Inv, AskInv
  <1>8. Queued' = Queued
    BY <1>0 DEF Queued
  <1>10. OrderInv'
    BY <1>0, <1>8 DEF Inv, OrderInv, HeardInOrder, SetFor
  <1>11. EndInv'
    <2>1. SUFFICES ASSUME Unlost PROVE EndInv'
      BY <1>0 DEF EndInv, Unlost
    <2>2. EndInv
      BY DEF Inv
    <2>3. Due = 0 /\ (silent => Due' = n) /\ (~silent => Due' = 0) /\ Due' \in Nat
      BY <1>1, <1>2, <1>4 DEF Due
    <2>4. pause' <= setup.delay /\ (~silent => pause' = 0)
      <3>1. pause <= setup.delay /\ setup.delay \in Nat
        BY <2>1, <2>2, SetupIs DEF EndInv, Inv, Typed
      <3> QED BY <1>1, <1>9, <1>12, <3>1
    <2>5. delayed => pause' + Due' = pause + Due
      <3>1. ASSUME delayed PROVE pos <= Len(Music)
        BY <2>1, <2>2, <3>1 DEF EndInv
      <3>2. CASE pause > 0
        <4>1. Due' = n /\ pause' + n = pause
          BY <1>9, <1>12, <2>3, <3>2
        <4> QED BY <1>1, <2>3, <4>1
      <3>3. CASE pause = 0
        <4>1. delayed => ~silent
          BY <1>1, <1>9, <3>1, <3>3
        <4> QED BY <1>12, <2>3, <3>3, <4>1
      <3> QED BY <1>1, <3>2, <3>3
    <2>6. delayed => \A i \in DOMAIN dev.q : dev.q[i] # 0 => i + setup.delay <= Len(dev.q) + pause' + Due'
      <3> SUFFICES ASSUME delayed, NEW i \in DOMAIN dev.q, dev.q[i] # 0
                   PROVE  i + setup.delay <= Len(dev.q) + pause' + Due'
        OBVIOUS
      <3>1. i + setup.delay <= Len(dev.q) + pause + Due
        BY <2>1, <2>2 DEF EndInv
      <3>2. i \in Nat /\ setup.delay \in Nat
        BY SetupIs DEF Inv, Typed, DevRecord
      <3>3. Due' \in Nat /\ Due \in Nat /\ pause' + Due' = pause + Due
        BY <2>3, <2>5
      <3>4. Len(dev.q) \in Nat /\ pause \in Nat /\ pause' \in Nat
        BY <1>1, <1>12
      <3> QED BY <3>1, <3>2, <3>3, <3>4, SumSame
    <2> QED BY <1>0, <1>4, <1>8, <2>1, <2>2, <2>4, <2>6 DEF EndInv
  <1> QED BY <1>5, <1>6, <1>7, <1>10, <1>11 DEF Inv

\* SameKind counts the frames from pos on that are of the kind that is played.
LEMMA SameKindIs ==
  ASSUME Typed
  PROVE  /\ SameKind \in Nat
         /\ \A j \in Nat : j < SameKind => pos + j \in DOMAIN Music /\ Music[pos + j] = cur
         /\ SameKind = 0 /\ pos \in DOMAIN Music => Music[pos] # cur
  <1> DEFINE S == {n \in DOMAIN Music : n >= pos /\ \A i \in pos..n : Music[i] = cur}
  <1>1. pos \in Nat /\ Len(Music) \in Nat /\ DOMAIN Music = 1 .. Len(Music)
    BY MusicIs DEF Typed
  <1>2. IsFiniteSet(S) /\ S \subseteq 1 .. Len(Music)
    <2>1. IsFiniteSet(1 .. Len(Music))
      BY <1>1, FS_Interval
    <2> QED BY <1>1, <2>1, FS_Subset
  <1>3. SameKind = Cardinality(S) /\ SameKind \in Nat
    BY <1>2, FS_CardinalityType DEF SameKind
  <1>4. ASSUME NEW j \in Nat, j < SameKind PROVE pos + j \in S
    <2>1. SUFFICES ASSUME pos + j \notin S PROVE FALSE
      OBVIOUS
    <2>2. \A n \in S : n \in pos .. (pos + j - 1)
      <3> SUFFICES ASSUME NEW n \in S, ~(n < pos + j) PROVE FALSE
        BY <1>1
      <3>1. n \in DOMAIN Music /\ n >= pos /\ \A i \in pos..n : Music[i] = cur
        OBVIOUS
      <3>2. pos + j <= n /\ n \in Nat
        BY <1>1, <3>1
      <3>3. pos + j \in DOMAIN Music /\ pos + j >= pos
        BY <1>1, <1>4, <3>1, <3>2, MusicIs DEF Typed
      <3>4. \A i \in pos .. (pos + j) : Music[i] = cur
        BY <1>1, <3>1, <3>2
      <3> QED BY <2>1, <3>3, <3>4
    <2>3. /\ IsFiniteSet(pos .. (pos + j - 1)) /\ Cardinality(pos .. (pos + j - 1)) = j
      <3>1. pos \in Int /\ pos + j - 1 \in Int
        BY <1>1, <1>4
      <3>2. /\ IsFiniteSet(pos .. (pos + j - 1))
            /\ Cardinality(pos .. (pos + j - 1)) = IF pos > pos + j - 1 THEN 0 ELSE pos + j - 1 - pos + 1
        BY <3>1, FS_Interval
      <3>3. CASE j = 0
        BY <1>1, <3>2, <3>3
      <3>4. CASE j > 0
        <4>1. ~(pos > pos + j - 1) /\ pos + j - 1 - pos + 1 = j
          BY <1>1, <1>4, <3>4
        <4> QED BY <3>2, <4>1
      <3> QED BY <1>4, <3>3, <3>4
    <2>4. Cardinality(S) <= j
      BY <2>2, <2>3, FS_Subset
    <2> QED BY <1>3, <1>4, <2>4
  <1>5. ASSUME SameKind = 0, pos \in DOMAIN Music PROVE Music[pos] # cur
    <2>1. S = {}
      BY <1>2, <1>3, <1>5, FS_EmptySet
    <2> QED BY <1>1, <1>5, <2>1
  <1>6. \A n \in S : n \in DOMAIN Music /\ Music[n] = cur
    BY <1>1
  <1> HIDE DEF S
  <1>7. \A j \in Nat : j < SameKind => pos + j \in DOMAIN Music /\ Music[pos + j] = cur
    BY <1>4, <1>6
  <1> QED BY <1>3, <1>5, <1>7

LEMMA TrackStartKeeps ==
  ASSUME Inv, TrackStart
  PROVE  Inv'
  <1>0. /\ UNCHANGED <<setup, running, out, recoverCount, errorOpening, handle, alsa, dev, closedTwice>>
        /\ UNCHANGED <<pos, present, heard, faults, toggles>>
        /\ pc = "frames" /\ ~loc.silent /\ loc.avail > 0 /\ SameKind = 0 /\ NextPass /\ pause' = setup.delay
    BY DEF TrackStart, untouched, bounds
  <1>1. /\ loc' \in LocRecord /\ loc'.avail = 0 /\ ~loc'.silent /\ loc'.off = loc.off /\ pc' = "loop"
    BY <1>0, NextPassIs DEF Inv
  <1>2. pos \in DOMAIN Music /\ Music[pos] \in Kinds /\ Music[pos] # cur
    <2>1. pos + loc.avail <= Len(Music) + 1 /\ pos \in 1 .. Len(Music) + 1 /\ loc.avail \in Nat
      BY <1>0 DEF Inv, Typed, AskInv, LocRecord
    <2>2. pos \in DOMAIN Music
      BY <1>0, <2>1, MusicIs
    <2> QED BY <1>0, <2>2, MusicIs, SameKindIs DEF Inv
  <1>3. \/ delayed' = TRUE /\ cur' = cur /\ ~delayed
        \/ delayed' = FALSE /\ cur' = Music[pos] /\ ~(setup.delay > 0 /\ ~delayed)
    BY DEF TrackStart
  <1>4. setup.delay \in Nat
    BY SetupIs DEF Inv, Typed
  <1>5. Typed'
    BY <1>0, <1>1, <1>2, <1>3, <1>4, PcNames DEF Inv, Typed
  <1>6. HandleInv'
    BY <1>0 DEF Inv, HandleInv, SetFor
  <1>7. AskInv'
    <2>1. Len(dev.q) \in Nat /\ alsa.size \in Nat /\ alsa.period \in Nat /\ loc.avail \in Nat
      BY DEF Inv, Typed, DevRecord, AlsaRecord, LocRecord
    <2> QED BY <1>0, <1>1, <2>1, PcNames DEF Inv, AskInv
  <1>8. Queued' = Queued
    BY <1>0 DEF Queued
  <1>9. OrderInv'
    BY <1>0, <1>8 DEF Inv, OrderInv, HeardInOrder, SetFor
  <1>10. EndInv'
    <2>1. SUFFICES ASSUME Unlost PROVE EndInv'
      BY <1>0 DEF EndInv, Unlost
    <2>2. EndInv
      BY DEF Inv
    <2>3. out # "OFF" /\ pause = 0 /\ Due = 0 /\ Due' = 0
      BY <1>0, <1>1, <2>1, <2>2 DEF EndInv, Due
    <2>4. /\ handle = "open" /\ alsa.kind = cur /\ (\E d \in Kinds : alsa.size = BufferOf[d]) /\ alsa.size \in Nat
          /\ Len(dev.q) <= alsa.size /\ dev.q \in Seq(Frame)
      <3>1. handle = "open" /\ alsa.kind = cur /\ cur # NoKind
        BY <1>0, PcNames, AlsaAssumption DEF Inv, AskInv, Typed
      <3>2. Len(dev.q) \in Nat /\ loc.avail \in Nat /\ dev.q \in Seq(Frame) /\ alsa.size \in Nat
        BY DEF Inv, Typed, DevRecord, LocRecord, AlsaRecord
      <3>3. SetFor(cur) \subseteq Kinds
        BY AlsaAssumption DEF Inv, Typed, SetFor
      <3> QED BY <3>1, <3>2, <3>3 DEF Inv, HandleInv, AskInv
    <2>5. alsa.size > 0 /\ setup.delay >= alsa.size /\ setup.delay > 0
      BY <2>1, <2>4, PeriodsFit, AlsaAssumption DEF Inv, Typed, Unlost
    <2>6. CASE delayed
      <3>1. Queued = {}
        <4> SUFFICES ASSUME NEW i \in DOMAIN dev.q, dev.q[i] # 0 PROVE FALSE
          BY DEF Queued, ToSet
        <4>1. i + setup.delay <= Len(dev.q) + pause + Due
          BY <2>1, <2>2, <2>6 DEF EndInv
        <4>2. i \in Nat /\ i > 0 /\ Len(dev.q) \in Nat
          BY <2>4
        <4> QED BY <1>4, <2>3, <2>4, <2>5, <4>1, <4>2
      <3>2. ~delayed'
        BY <1>3, <2>6
      <3> QED BY <1>0, <1>1, <1>4, <1>8, <2>1, <2>2, <2>3, <3>1, <3>2 DEF EndInv
    <2>7. CASE ~delayed
      <3>1. delayed' /\ cur' = cur
        BY <1>3, <1>4, <2>5, <2>7
      <3>2. \A i \in DOMAIN dev.q : dev.q[i] # 0 => i + setup.delay <= Len(dev.q) + pause' + Due'
        BY <1>0, <1>4, <2>3, <2>4
      <3>3. pos <= Len(Music)
        BY <1>2, MusicIs
      <3> QED BY <1>0, <1>1, <1>2, <1>4, <1>8, <2>1, <2>2, <2>3, <3>1, <3>2, <3>3 DEF EndInv
    <2> QED BY <2>6, <2>7
  <1> QED BY <1>5, <1>6, <1>7, <1>9, <1>10 DEF Inv

\* What is written follows what the device holds: silence, or the next frames of music of its kind.
LEMMA AcceptIs ==
  ASSUME Inv, Accept
  PROVE  \E n \in Nat \ {0} :
           /\ n <= loc.avail /\ loc' = [loc EXCEPT !.avail = loc.avail - n]
           /\ dev' \in DevRecord /\ dev'.kind = dev.kind /\ Flowing /\ dev'.st \in {"prepared", "running"}
           /\ Len(dev'.q) = Len(dev.q) + n
           /\ \A i \in 1 .. Len(dev.q) : dev'.q[i] = dev.q[i]
           /\ \/ /\ loc.silent /\ pos' = pos
                 /\ \A i \in 1 .. n : dev'.q[Len(dev.q) + i] = 0
              \/ /\ ~loc.silent /\ pos' = pos + n
                 /\ \A i \in 1 .. n : /\ dev'.q[Len(dev.q) + i] = pos + i - 1
                                      /\ pos + i - 1 \in DOMAIN Music /\ Music[pos + i - 1] = cur
  <1>1. PICK n \in 1 .. MostFrames :
          /\ dev' = [dev EXCEPT !.q = dev.q \o Frames(n), !.st = IF alsa.mmap THEN dev.st ELSE "running"]
          /\ pos' = IF loc.silent THEN pos ELSE pos + n
          /\ loc' = [loc EXCEPT !.avail = loc.avail - n]
    BY DEF Accept
  <1>2. /\ loc.avail \in Nat /\ SameKind \in Nat /\ pos \in Nat \ {0} /\ dev \in DevRecord /\ dev.q \in Seq(Frame)
        /\ Flowing /\ loc.silent \in BOOLEAN
    BY SameKindIs DEF Inv, Typed, LocRecord, DevRecord, Accept
  <1>3. n \in Nat \ {0} /\ n <= loc.avail /\ (~loc.silent => n <= SameKind)
    <2>1. CASE loc.silent
      BY <1>2, <2>1 DEF MostFrames
    <2>2. CASE ~loc.silent
      BY <1>2, <2>2 DEF MostFrames, Least
    <2> QED BY <2>1, <2>2
  <1>4. ~loc.silent => \A i \in 1 .. n : pos + i - 1 \in DOMAIN Music /\ Music[pos + i - 1] = cur
    <2> SUFFICES ASSUME ~loc.silent, NEW i \in 1 .. n
                 PROVE  pos + i - 1 \in DOMAIN Music /\ Music[pos + i - 1] = cur
      OBVIOUS
    <2> DEFINE j == i - 1
    <2>1. j \in Nat /\ j < SameKind /\ pos + i - 1 = pos + j
      BY <1>2, <1>3
    <2> HIDE DEF j
    <2> QED BY <2>1, SameKindIs DEF Inv
  <1>5. Frames(n) \in Seq(Frame) /\ Len(Frames(n)) = n
    <2> DEFINE f(i) == IF loc.silent THEN 0 ELSE pos + i - 1
    <2>1. Frames(n) = [i \in 1 .. n |-> f(i)]
      BY DEF Frames
    <2>2. \A i \in 1 .. n : f(i) \in Frame
      BY <1>4, MusicIs
    <2> HIDE DEF f
    <2> QED BY <1>3, <2>1, <2>2
  <1>6. \A i \in 1 .. n : Frames(n)[i] = IF loc.silent THEN 0 ELSE pos + i - 1
    BY DEF Frames
  <1> DEFINE q == dev.q \o Frames(n)
  <1>7. /\ q \in Seq(Frame) /\ Len(q) = Len(dev.q) + n
        /\ \A i \in 1 .. Len(dev.q) : q[i] = dev.q[i]
        /\ \A i \in 1 .. n : q[Len(dev.q) + i] = Frames(n)[i]
    BY <1>2, <1>3, <1>5
  <1> HIDE DEF q
  <1>8. PICK st \in {"prepared", "running"} : dev' = [dev EXCEPT !.q = q, !.st = st]
    BY <1>1, <1>2 DEF Flowing, q
  <1>9. dev' \in DevRecord /\ dev'.kind = dev.kind /\ dev'.st = st /\ dev'.q = q
    BY <1>2, <1>7, <1>8, Names DEF DevRecord
  <1>10. CASE loc.silent
    <2>1. pos' = pos
      BY <1>1, <1>10
    <2>2. \A i \in 1 .. n : Frames(n)[i] = 0
      BY <1>6, <1>10
    <2>3. \A i \in 1 .. n : dev'.q[Len(dev.q) + i] = 0
      BY <1>7, <1>9, <2>2
    <2>4. Len(dev'.q) = Len(dev.q) + n /\ \A i \in 1 .. Len(dev.q) : dev'.q[i] = dev.q[i]
      BY <1>7, <1>9
    <2>5. dev'.st \in {"prepared", "running"}
      BY <1>9
    <2>6. n \in Nat \ {0}
      BY <1>3
    <2> WITNESS n \in Nat \ {0}
    <2> QED BY <1>1, <1>2, <1>3, <1>9, <1>10, <2>1, <2>3, <2>4, <2>5
  <1>11. CASE ~loc.silent
    BY <1>1, <1>2, <1>3, <1>4, <1>6, <1>7, <1>9, <1>11
  <1> QED BY <1>10, <1>11

\* Places in a queue of l frames that n more were appended to, from the frame p on.
LEMMA Beyond ==
  ASSUME NEW l \in Nat, NEW n \in Nat, NEW i \in 1 .. (l + n), ~(i <= l)
  PROVE  i - l \in 1 .. n /\ l + (i - l) = i
  OBVIOUS

LEMMA FrameOf ==
  ASSUME NEW p \in Nat, NEW n \in Nat, NEW k \in 1 .. n
  PROVE  p + k - 1 \in p .. (p + n - 1)
  OBVIOUS

LEMMA PlaceOf ==
  ASSUME NEW l \in Nat, NEW n \in Nat \ {0}, NEW p \in Nat \ {0}, NEW x \in p .. (p + n - 1)
  PROVE  \E i \in 1 .. (l + n) : ~(i <= l) /\ p + (i - l) - 1 = x /\ x # 0
  <1> DEFINE j == x - p
  <1>1. j \in Nat /\ j < n /\ x = p + j
    OBVIOUS
  <1> HIDE DEF j
  <1>2. l + j + 1 \in 1 .. (l + n) /\ ~(l + j + 1 <= l) /\ p + ((l + j + 1) - l) - 1 = p + j /\ p + j # 0
    BY <1>1
  <1> QED BY <1>1, <1>2

LEMMA SumShift ==
  ASSUME NEW l \in Nat, NEW n \in Nat, NEW p \in Nat, NEW i \in Nat, NEW d \in Nat, NEW a \in Nat,
         n <= a, i + d <= l + p + a
  PROVE  i + d <= (l + n) + p + (a - n)
  OBVIOUS

LEMMA AcceptKeeps ==
  ASSUME Inv, Accept
  PROVE  Inv'
  <1>0. /\ UNCHANGED <<setup, running, out, pc, recoverCount, errorOpening, handle, alsa, closedTwice>>
        /\ UNCHANGED <<cur, pause, delayed, present, heard, faults, toggles>>
        /\ pc = "frames" /\ (loc.silent \/ SameKind > 0)
    BY DEF Accept, bounds, Writing
  <1>d. PICK l \in Nat : l = Len(dev.q)
    BY DEF Inv, Typed, DevRecord
  <1>1. PICK n \in Nat \ {0} :
           /\ n <= loc.avail /\ loc' = [loc EXCEPT !.avail = loc.avail - n]
           /\ dev' \in DevRecord /\ dev'.kind = dev.kind /\ Flowing /\ dev'.st \in {"prepared", "running"}
           /\ Len(dev'.q) = l + n
           /\ \A i \in 1 .. l : dev'.q[i] = dev.q[i]
           /\ \/ /\ loc.silent /\ pos' = pos
                 /\ \A i \in 1 .. n : dev'.q[l + i] = 0
              \/ /\ ~loc.silent /\ pos' = pos + n
                 /\ \A i \in 1 .. n : /\ dev'.q[l + i] = pos + i - 1
                                      /\ pos + i - 1 \in DOMAIN Music /\ Music[pos + i - 1] = cur
    BY <1>d, AcceptIs
  <1>2. /\ l \in Nat /\ loc \in LocRecord /\ loc.avail \in Nat /\ loc.silent \in BOOLEAN /\ pos \in 1 .. Len(Music) + 1
        /\ DOMAIN dev.q = 1 .. l /\ DOMAIN dev'.q = 1 .. (l + n) /\ alsa.size \in Nat /\ alsa.period \in Nat
        /\ Len(Music) \in Nat
    BY <1>1, <1>d, MusicIs DEF Inv, Typed, DevRecord, LocRecord, AlsaRecord
  <1>3. /\ loc' \in LocRecord /\ loc'.avail = loc.avail - n /\ loc'.silent = loc.silent /\ loc'.off = loc.off
        /\ loc'.avail \in Nat
    <2>1. loc.avail - n \in Nat
      BY <1>1, <1>2
    <2> QED BY <1>1, <1>2, <2>1 DEF LocRecord
  <1>4. ~loc.silent => pos + loc.avail <= Len(Music) + 1
    BY <1>0 DEF Inv, AskInv
  <1>5. pos' \in 1 .. Len(Music) + 1 /\ pos' >= pos
    BY <1>1, <1>2, <1>4
  <1>6. Typed'
    BY <1>0, <1>1, <1>3, <1>5 DEF Inv, Typed
  <1>7. handle = "open" /\ alsa.kind = cur /\ dev.kind \in SetFor(cur) /\ dev.st \in {"prepared", "running"}
    <2>1. handle = "open" /\ alsa.kind = cur /\ cur # NoKind
      BY <1>0, PcNames, AlsaAssumption DEF Inv, AskInv, Typed
    <2> QED BY <1>1, <2>1 DEF Inv, HandleInv, Flowing, SetFor
  <1>8. HandleInv'
    <2>1. dev'.st \notin {"none", "setup", "xrun", "gone", "suspended"} /\ dev.st # "none"
      BY <1>1, <1>7
    <2> QED BY <1>0, <1>1, <1>7, <2>1 DEF Inv, HandleInv, SetFor
  <1>9. AskInv'
    <2>1. l + n + (loc.avail - n) <= alsa.size
      BY <1>1, <1>2, <1>d DEF Inv, AskInv
    <2>2. ~alsa.mmap => loc.avail - n <= alsa.period
      BY <1>1, <1>2 DEF Inv, AskInv
    <2>3. ~loc.silent => pos' + (loc.avail - n) <= Len(Music) + 1
      BY <1>1, <1>2, <1>4
    <2> QED BY <1>0, <1>1, <1>3, <1>7, <2>1, <2>2, <2>3 DEF AskInv
  <1>10. CASE loc.silent
    <2>1. pos' = pos /\ \A i \in DOMAIN dev'.q : IF i <= l THEN i \in DOMAIN dev.q /\ dev'.q[i] = dev.q[i]
                                                  ELSE dev'.q[i] = 0
      <3>1. \A i \in 1 .. n : dev'.q[l + i] = 0
        BY <1>1, <1>10
      <3>2. ASSUME NEW i \in 1 .. (l + n), ~(i <= l) PROVE dev'.q[i] = 0
        <4>1. i - l \in 1 .. n /\ l + (i - l) = i
          BY <1>2, <3>2, Beyond
        <4> QED BY <3>1, <4>1
      <3> QED BY <1>1, <1>2, <1>10, <3>2
    <2>2. Queued' = Queued
      <3>1. \A x \in Queued' : x \in Queued
        BY <2>1 DEF Queued, ToSet
      <3>2. \A x \in Queued : x \in Queued'
        <4> SUFFICES ASSUME NEW i \in 1 .. l, dev.q[i] # 0 PROVE dev.q[i] \in Queued'
          BY <1>2 DEF Queued, ToSet
        <4>1. i \in DOMAIN dev'.q /\ dev'.q[i] = dev.q[i]
          BY <1>1, <1>2
        <4> QED BY <4>1 DEF Queued, ToSet
      <3> QED BY <3>1, <3>2
    <2>3. OrderInv'
      <3>1. \A i, j \in DOMAIN dev'.q : i < j /\ dev'.q[i] # 0 => dev'.q[j] = 0 \/ dev'.q[i] < dev'.q[j]
        BY <2>1 DEF Inv, OrderInv, HeardInOrder
      <3> QED BY <1>0, <1>1, <2>1, <2>2, <3>1 DEF Inv, OrderInv, HeardInOrder, SetFor
    <2>4. EndInv'
      <3>1. SUFFICES ASSUME Unlost PROVE EndInv'
        BY <1>0 DEF EndInv, Unlost
      <3>2. EndInv
        BY DEF Inv
      <3>3. Due = loc.avail /\ Due' = loc.avail - n
        BY <1>3, <1>10 DEF Due
      <3>4. delayed => \A i \in DOMAIN dev'.q : dev'.q[i] # 0 => i + setup.delay <= Len(dev'.q) + pause + Due'
        <4> SUFFICES ASSUME delayed, NEW i \in DOMAIN dev'.q, dev'.q[i] # 0
                     PROVE  i + setup.delay <= Len(dev'.q) + pause + Due'
          OBVIOUS
        <4>1. i \in DOMAIN dev.q /\ dev.q[i] # 0 /\ i \in Nat
          BY <1>2, <2>1
        <4>2. i + setup.delay <= l + pause + Due
          BY <1>d, <3>1, <3>2, <4>1 DEF EndInv
        <4>3. setup.delay \in Nat /\ pause \in Nat
          BY SetupIs DEF Inv, Typed
        <4>4. Len(dev'.q) = l + n /\ n <= loc.avail /\ l \in Nat /\ loc.avail \in Nat
          BY <1>1, <1>2
        <4>5. i + setup.delay <= (l + n) + pause + (loc.avail - n)
          BY <3>3, <4>1, <4>2, <4>3, <4>4, SumShift
        <4> QED BY <3>3, <4>4, <4>5
      <3> QED BY <1>0, <1>3, <1>10, <2>1, <2>2, <3>1, <3>2, <3>4 DEF EndInv
    <2> QED BY <1>6, <1>8, <1>9, <2>3, <2>4 DEF Inv
  <1>11. CASE ~loc.silent
    <2>1. /\ pos' = pos + n
          /\ \A i \in DOMAIN dev'.q : IF i <= l THEN i \in DOMAIN dev.q /\ dev'.q[i] = dev.q[i]
                                      ELSE /\ dev'.q[i] = pos + (i - l) - 1 /\ dev'.q[i] \in pos .. (pos + n - 1)
                                           /\ Music[dev'.q[i]] = cur
      <3>1. \A i \in 1 .. n : /\ dev'.q[l + i] = pos + i - 1
                              /\ pos + i - 1 \in DOMAIN Music /\ Music[pos + i - 1] = cur
        BY <1>1, <1>11
      <3>2. ASSUME NEW i \in 1 .. (l + n), ~(i <= l)
            PROVE  /\ dev'.q[i] = pos + (i - l) - 1 /\ dev'.q[i] \in pos .. (pos + n - 1)
                   /\ Music[dev'.q[i]] = cur
        <4> DEFINE k == i - l
        <4>1. k \in 1 .. n /\ l + k = i
          BY <1>2, <3>2, Beyond
        <4>2. dev'.q[i] = pos + k - 1 /\ Music[pos + k - 1] = cur
          BY <3>1, <4>1
        <4>3. pos + k - 1 \in pos .. (pos + n - 1)
          <5>1. pos \in Nat
            BY <1>2
          <5> QED BY <4>1, <5>1, FrameOf
        <4> QED BY <4>2, <4>3
      <3> QED BY <1>1, <1>2, <1>11, <3>2
    <2>2. Queued' = Queued \cup (pos .. (pos + n - 1))
      <3>1. \A x \in Queued' : x \in Queued \cup (pos .. (pos + n - 1))
        BY <2>1 DEF Queued, ToSet
      <3>2. \A x \in Queued : x \in Queued'
        <4> SUFFICES ASSUME NEW i \in 1 .. l, dev.q[i] # 0 PROVE dev.q[i] \in Queued'
          BY <1>2 DEF Queued, ToSet
        <4>1. i \in DOMAIN dev'.q /\ dev'.q[i] = dev.q[i]
          BY <1>1, <1>2
        <4> QED BY <4>1 DEF Queued, ToSet
      <3>3. \A x \in pos .. (pos + n - 1) : x \in Queued'
        <4> SUFFICES ASSUME NEW x \in pos .. (pos + n - 1) PROVE x \in Queued'
          OBVIOUS
        <4>0. pos \in Nat \ {0} /\ l \in Nat /\ n \in Nat \ {0}
          BY <1>2
        <4>1. PICK i \in 1 .. (l + n) : ~(i <= l) /\ pos + (i - l) - 1 = x /\ x # 0
          BY <4>0, PlaceOf
        <4>2. dev'.q[i] = x
          BY <1>2, <2>1, <4>1
        <4> QED BY <1>2, <4>1, <4>2 DEF Queued, ToSet
      <3> QED BY <3>1, <3>2, <3>3
    <2>3. \A x \in Queued : x < pos /\ (\A m \in heard : m < x) /\ dev.kind \in SetFor(Music[x])
      BY <1>7 DEF Inv, OrderInv, HeardInOrder
    <2>4. \A m \in heard : m < pos
      BY DEF Inv, OrderInv, HeardInOrder
    <2>5. heard \subseteq Nat /\ Queued \subseteq Nat
      BY MusicIs DEF Inv, Typed, DevRecord, Queued, ToSet, Frame
    <2>6. OrderInv'
      <3>1. \A i, j \in DOMAIN dev'.q : i < j /\ dev'.q[i] # 0 => dev'.q[j] = 0 \/ dev'.q[i] < dev'.q[j]
        <4> SUFFICES ASSUME NEW i \in DOMAIN dev'.q, NEW j \in DOMAIN dev'.q, i < j, dev'.q[i] # 0
                     PROVE  dev'.q[j] = 0 \/ dev'.q[i] < dev'.q[j]
          OBVIOUS
        <4>0. i \in Nat /\ j \in Nat
          BY <1>2
        <4>1. CASE j <= l
          BY <1>2, <2>1, <4>0, <4>1 DEF Inv, OrderInv, HeardInOrder
        <4>2. CASE i <= l /\ ~(j <= l)
          <5>1. dev'.q[i] \in Queued
            BY <2>1, <4>2 DEF Queued, ToSet
          <5>2. dev'.q[i] < pos /\ dev'.q[j] \in pos .. (pos + n - 1) /\ dev'.q[i] \in Nat
            BY <2>1, <2>3, <2>5, <4>2, <5>1
          <5> QED BY <1>2, <5>2
        <4>3. CASE ~(i <= l) /\ ~(j <= l)
          <5>1. dev'.q[i] = pos + (i - l) - 1 /\ dev'.q[j] = pos + (j - l) - 1
            BY <2>1, <4>3
          <5> QED BY <1>2, <4>0, <5>1
        <4> QED BY <1>2, <4>0, <4>1, <4>2, <4>3
      <3>2. \A x \in Queued' : x < pos' /\ (\A m \in heard' : m < x) /\ dev'.kind \in SetFor(Music[x])'
        <4> SUFFICES ASSUME NEW x \in Queued' PROVE x < pos + n /\ (\A m \in heard : m < x) /\ dev.kind \in SetFor(Music[x])
          BY <1>0, <1>1, <1>7, <2>1 DEF SetFor
        <4>1. CASE x \in Queued
          BY <1>1, <1>2, <2>3, <2>5, <4>1
        <4>2. CASE x \in pos .. (pos + n - 1)
          <5>1. dev.kind \in SetFor(Music[x])
            <6>0. pos \in Nat \ {0} /\ l \in Nat /\ n \in Nat \ {0}
              BY <1>2
            <6>1. PICK i \in 1 .. (l + n) : ~(i <= l) /\ pos + (i - l) - 1 = x
              BY <4>2, <6>0, PlaceOf
            <6>2. Music[x] = cur
              BY <1>2, <2>1, <6>1
            <6> QED BY <1>7, <6>2
          <5>2. \A m \in heard : m < x
            BY <1>2, <2>4, <2>5, <4>2
          <5> QED BY <1>1, <1>2, <4>2, <5>1, <5>2
        <4> QED BY <2>2, <4>1, <4>2
      <3>3. \A m \in heard' : m < pos'
        BY <1>0, <1>1, <1>2, <2>1, <2>4, <2>5
      <3> QED BY <3>1, <3>2, <3>3 DEF OrderInv, HeardInOrder, SetFor
    <2>7. EndInv'
      <3>1. SUFFICES ASSUME Unlost PROVE EndInv'
        BY <1>0 DEF EndInv, Unlost
      <3>2. EndInv
        BY DEF Inv
      <3>3. ~delayed
        <4>1. pos \in DOMAIN Music /\ Music[pos] = cur
          <5>1. 1 \in 1 .. n /\ pos + 1 - 1 = pos
            BY <1>1, <1>2
          <5> QED BY <1>1, <1>11, <5>1
        <4> QED BY <3>1, <3>2, <4>1 DEF EndInv
      <3>4. 1 .. (pos' - 1) = heard' \cup Queued'
        <4>1. 1 .. (pos + n - 1) = (1 .. (pos - 1)) \cup (pos .. (pos + n - 1))
          BY <1>1, <1>2
        <4>2. 1 .. (pos - 1) = heard \cup Queued
          BY <3>1, <3>2 DEF EndInv
        <4>3. heard' = heard /\ pos' - 1 = pos + n - 1
          BY <1>0, <1>2, <2>1
        <4> QED BY <2>2, <4>1, <4>2, <4>3
      <3> QED BY <1>0, <1>3, <1>7, <1>11, <3>1, <3>2, <3>3, <3>4 DEF EndInv
    <2> QED BY <1>6, <1>8, <1>9, <2>6, <2>7 DEF Inv
  <1> QED BY <1>2, <1>10, <1>11
-----------------------------------------------------------------------------
(* Opening.                                                                 *)

OpeningRecord == [handle : Handles, alsa : AlsaRecord, dev : DevRecord, twice : BOOLEAN, faults : Nat, ok : BOOLEAN]

\* write_buf has the size of a buffer that some kind was granted, or is not there.
SomeBuffer(b) == b = 0 \/ \E k \in Kinds : b = BufferOf[k]

\* How alsa_open may end: the device is opened for kind k, or there is none to play.
Attempted(k, s, t) ==
    /\ t \in OpeningRecord /\ SomeBuffer(t.alsa.buf) /\ t.faults >= s.faults
    /\ t.dev.q = <<>> /\ t.dev.st \in {"none", "setup", "prepared"}
    /\ t.handle = "open" <=> t.dev.st # "none"
    /\ t.ok => /\ t.handle = "open" /\ t.dev.st = "prepared" /\ t.dev.kind \in SetFor(k) /\ t.alsa.kind = k
               /\ t.alsa.size = BufferOf[t.dev.kind] /\ t.alsa.period = PeriodOf[t.dev.kind]
               /\ (~t.alsa.mmap /\ ~setup.native => t.alsa.buf # 0)
    /\ ~t.ok => t.alsa.kind = NoKind /\ (~present \/ t.faults > 0)
    /\ t.handle = "stale" => ~present \/ t.faults > 0
    /\ t.twice => s.twice \/ s.handle = "stale"

LEMMA ShutIs ==
  ASSUME NEW s \in OpeningRecord,
         NEW shut, shut = [Closed(s) EXCEPT !.alsa.kind = NoKind]
  PROVE  /\ shut \in OpeningRecord /\ shut.dev = NoDevice /\ shut.handle # "open" /\ shut.faults = s.faults
         /\ shut.alsa.kind = NoKind /\ shut.alsa.mmap = s.alsa.mmap /\ shut.alsa.buf = s.alsa.buf
         /\ shut.twice => s.twice \/ s.handle = "stale"
  <1>1. NoDevice \in DevRecord
    BY Names, MusicIs DEF NoDevice, DevRecord
  <1>2. PICK h \in Handles : h = (IF s.handle = "null" THEN "null" ELSE "stale") /\ h # "open"
    BY Names
  <1>3. PICK b \in BOOLEAN : b = (s.twice \/ s.handle = "stale")
    OBVIOUS
  <1>4. Closed(s) = [s EXCEPT !.dev = NoDevice, !.twice = b, !.handle = h]
    BY <1>2, <1>3 DEF Closed
  <1> DEFINE c == Closed(s)
  <1>5. /\ c \in OpeningRecord /\ c.dev = NoDevice /\ c.handle = h /\ c.twice = b
        /\ c.faults = s.faults /\ c.alsa = s.alsa
    BY <1>1, <1>4 DEF OpeningRecord
  <1> HIDE DEF c
  <1>6. shut = [c EXCEPT !.alsa = [c.alsa EXCEPT !.kind = NoKind]]
    BY DEF c
  <1> DEFINE a == [c.alsa EXCEPT !.kind = NoKind]
  <1>7. a \in AlsaRecord /\ a.kind = NoKind /\ a.mmap = s.alsa.mmap /\ a.buf = s.alsa.buf
    <2>1. c.alsa \in AlsaRecord
      BY <1>5 DEF OpeningRecord
    <2> QED BY <1>5, <2>1 DEF AlsaRecord
  <1> HIDE DEF a
  <1>8. /\ shut \in OpeningRecord /\ shut.alsa = a /\ shut.dev = c.dev /\ shut.handle = c.handle
        /\ shut.faults = c.faults /\ shut.twice = c.twice
    BY <1>5, <1>6, <1>7 DEF OpeningRecord, a
  <1> QED BY <1>2, <1>3, <1>5, <1>7, <1>8

LEMMA OutcomeIs ==
  ASSUME NEW k \in Kinds, NEW s \in OpeningRecord, NEW t \in AlsaOpen(k, s),
         setup \in Setups, SomeBuffer(s.alsa.buf)
  PROVE  Attempted(k, s, t)
  <1> DEFINE shut == [Closed(s) EXCEPT !.alsa.kind = NoKind]
             mmap == s.alsa.mmap /\ setup.mmapped
             failed == FailedAtOnce(shut)
             first == FailedFirst(shut)
  <1>0. PICK e \in Kinds :
          \/ t = [shut EXCEPT !.ok = FALSE] /\ ~present
          \/ t \in {failed, first}
          \/ e \in SetFor(k) /\ t \in {Opened(e, k, s, shut), FailedLast(e, s, shut)}
          \/ t = [failed EXCEPT !.handle = "stale"]
    <2>1. t \in Outcomes(k, s, shut)
      BY DEF AlsaOpen
    <2> HIDE DEF shut
    <2>2. \/ t = [shut EXCEPT !.ok = FALSE] /\ ~present
          \/ t \in {failed, first}
          \/ \E x \in SetFor(k) : t \in {Opened(x, k, s, shut), FailedLast(x, s, shut)}
          \/ t = [failed EXCEPT !.handle = "stale"]
      BY <2>1 DEF Outcomes
    <2>3. SetFor(k) \subseteq Kinds
      BY AlsaAssumption DEF SetFor
    <2> QED BY <2>2, <2>3
  <1> DEFINE buf == IF ~mmap /\ first.alsa.buf = 0 /\ ~setup.native THEN BufferOf[e] ELSE first.alsa.buf
             last == FailedLast(e, s, shut)
             opened == Opened(e, k, s, shut)
  <1>1. \/ t = [shut EXCEPT !.ok = FALSE] /\ ~present
        \/ t \in {failed, first, last}
        \/ t = opened /\ e \in SetFor(k)
        \/ t = [failed EXCEPT !.handle = "stale"]
    BY <1>0
  <1>2. /\ shut \in OpeningRecord /\ shut.dev = NoDevice /\ shut.handle # "open" /\ shut.faults = s.faults
        /\ shut.alsa.kind = NoKind /\ shut.alsa.mmap = s.alsa.mmap /\ shut.alsa.buf = s.alsa.buf
        /\ shut.twice => s.twice \/ s.handle = "stale"
    BY ShutIs
  <1> HIDE DEF shut
  <1>3. /\ NoDevice.q = <<>> /\ NoDevice.st = "none" /\ s.faults \in Nat /\ setup.native \in BOOLEAN
        /\ setup.mmapped \in BOOLEAN /\ BufferOf[e] \in Nat /\ PeriodOf[e] \in Nat /\ BufferOf[e] # 0
        /\ s.alsa \in AlsaRecord
    BY SetupIs, AlsaAssumption, PeriodsFit DEF NoDevice, OpeningRecord
  <1>4. /\ failed \in OpeningRecord /\ failed.dev = NoDevice /\ failed.handle = shut.handle /\ ~failed.ok
        /\ failed.faults = s.faults + 1 /\ failed.alsa = shut.alsa /\ failed.twice = shut.twice
    <2>1. PICK n \in Nat : n = s.faults + 1
      BY <1>3
    <2>2. failed = [shut EXCEPT !.ok = FALSE, !.faults = n]
      BY <1>2, <2>1 DEF FailedAtOnce
    <2> HIDE DEF failed
    <2> QED BY <1>2, <2>1, <2>2 DEF OpeningRecord
  <1> HIDE DEF failed
  <1> DEFINE d == [NoDevice EXCEPT !.st = "setup"]
  <1>5. first = [FailedAtOnce(shut) EXCEPT !.handle = "open", !.dev = d]
    BY <1>4 DEF FailedFirst, failed
  <1>6. d \in DevRecord /\ d.st = "setup" /\ d.q = <<>>
    BY Names, MusicIs DEF NoDevice, DevRecord
  <1> HIDE DEF d
  <1>7. /\ first \in OpeningRecord /\ first.dev = d /\ first.handle = "open" /\ ~first.ok
        /\ first.faults = s.faults + 1 /\ first.alsa = shut.alsa /\ first.twice = shut.twice
    <2> HIDE DEF first
    <2> QED BY <1>4, <1>5, <1>6, Names DEF OpeningRecord, failed
  <1> HIDE DEF first
  <1>8. mmap \in BOOLEAN /\ buf \in Nat /\ SomeBuffer(buf) /\ (~mmap /\ ~setup.native => buf # 0)
    <2>1. first.alsa.buf = s.alsa.buf /\ s.alsa.buf \in Nat
      BY <1>2, <1>3, <1>7 DEF AlsaRecord
    <2> QED BY <1>3, <2>1 DEF SomeBuffer
  <1> HIDE DEF mmap, buf
  <1> DEFINE a == [first.alsa EXCEPT !.mmap = mmap, !.size = BufferOf[e], !.period = PeriodOf[e], !.buf = buf]
  <1>9. last = [FailedFirst(shut) EXCEPT !.alsa = a]
    BY DEF FailedLast, a, first, buf, mmap
  <1>10. /\ a \in AlsaRecord /\ a.kind = NoKind /\ a.mmap = mmap /\ a.size = BufferOf[e]
         /\ a.period = PeriodOf[e] /\ a.buf = buf
    <2>1. first.alsa \in AlsaRecord /\ first.alsa.kind = NoKind
      BY <1>2, <1>7 DEF OpeningRecord
    <2> QED BY <1>3, <1>8, <2>1 DEF AlsaRecord
  <1> HIDE DEF a
  <1>11. /\ last \in OpeningRecord /\ last.dev = d /\ last.handle = "open" /\ ~last.ok
         /\ last.faults = s.faults + 1 /\ last.alsa = a /\ last.twice = shut.twice
    BY <1>7, <1>9, <1>10 DEF OpeningRecord, first
  <1> HIDE DEF last
  <1> DEFINE p == [st |-> "prepared", kind |-> e, q |-> <<>>]
             b == [a EXCEPT !.kind = k]
  <1>12. opened = [FailedLast(e, s, shut) EXCEPT !.ok = TRUE, !.faults = s.faults, !.alsa = b, !.dev = p]
    BY <1>11 DEF Opened, last
  <1>13. p \in DevRecord /\ p.st = "prepared" /\ p.kind = e /\ p.q = <<>>
    BY Names, MusicIs DEF DevRecord
  <1>14. /\ b \in AlsaRecord /\ b.kind = k /\ b.mmap = mmap /\ b.size = BufferOf[e]
         /\ b.period = PeriodOf[e] /\ b.buf = buf
    BY <1>10 DEF AlsaRecord
  <1> HIDE DEF p, b
  <1>15. /\ opened \in OpeningRecord /\ opened.dev = p /\ opened.handle = "open" /\ opened.ok
         /\ opened.faults = s.faults /\ opened.alsa = b /\ opened.twice = shut.twice
    BY <1>3, <1>11, <1>12, <1>13, <1>14 DEF OpeningRecord, last
  <1> HIDE DEF opened
  <1>16. CASE t = [shut EXCEPT !.ok = FALSE] /\ ~present
    <2>1. /\ t \in OpeningRecord /\ t.dev = NoDevice /\ t.handle = shut.handle /\ ~t.ok
          /\ t.faults = s.faults /\ t.alsa = shut.alsa /\ t.twice = shut.twice
      BY <1>2, <1>16 DEF OpeningRecord
    <2> QED BY <1>2, <1>3, <1>16, <2>1 DEF Attempted
  <1>17. CASE t = opened /\ e \in SetFor(k)
    BY <1>2, <1>3, <1>8, <1>13, <1>14, <1>15, <1>17 DEF Attempted
  <1>18. CASE t = failed
    BY <1>2, <1>3, <1>4, <1>18 DEF Attempted
  <1>19. CASE t = first
    BY <1>2, <1>3, <1>6, <1>7, <1>19 DEF Attempted
  <1>20. CASE t = last
    BY <1>2, <1>3, <1>6, <1>8, <1>10, <1>11, <1>20 DEF Attempted
  <1>21. CASE t = [failed EXCEPT !.handle = "stale"]
    <2>1. /\ t \in OpeningRecord /\ t.dev = NoDevice /\ t.handle = "stale" /\ ~t.ok
          /\ t.faults = s.faults + 1 /\ t.alsa = shut.alsa /\ t.twice = shut.twice
      BY <1>4, <1>21, Names DEF OpeningRecord
    <2> QED BY <1>2, <1>3, <2>1 DEF Attempted
  <1> QED BY <1>1, <1>16, <1>17, <1>18, <1>19, <1>20, <1>21

LEMMA OpenDeviceKeeps ==
  ASSUME Inv, OpenDevice
  PROVE  Inv'
  <1>0. /\ UNCHANGED <<setup, running, out, recoverCount, cur, pos, pause, delayed, present, heard, toggles>>
        /\ pc = "open" /\ (handle = "null" \/ alsa.kind # cur)
    BY DEF OpenDevice, outVars
  <1>1. /\ setup \in Setups /\ cur \in Kinds /\ cur # NoKind /\ Opening \in OpeningRecord
        /\ SomeBuffer(Opening.alsa.buf) /\ Opening.handle = handle /\ ~Opening.twice
        /\ Opening.faults = faults /\ Opening.alsa.buf = alsa.buf /\ faults \in Nat /\ loc \in LocRecord
    <2>1. SomeBuffer(alsa.buf)
      BY DEF Inv, HandleInv, SomeBuffer
    <2> QED BY <2>1, AlsaAssumption DEF Inv, Typed, Opening, OpeningRecord
  <1>2. PICK first \in (IF setup.reopen THEN AlsaOpen(cur, Opening) ELSE {Opening}) :
          \E s \in AlsaOpen(cur, first) :
            /\ handle' = s.handle /\ alsa' = s.alsa /\ dev' = s.dev /\ faults' = s.faults
            /\ closedTwice' = (closedTwice \/ s.twice)
            /\ errorOpening' = ~s.ok
            /\ loc' = [loc EXCEPT !.start = s.ok \/ loc.start]
            /\ pc' \in {IF s.ok THEN "check" ELSE "loop"} \cup (IF s.twice THEN {"aborted"} ELSE {})
    BY DEF OpenDevice
  <1>3. PICK s \in AlsaOpen(cur, first) :
            /\ handle' = s.handle /\ alsa' = s.alsa /\ dev' = s.dev /\ faults' = s.faults
            /\ closedTwice' = (closedTwice \/ s.twice)
            /\ errorOpening' = ~s.ok
            /\ loc' = [loc EXCEPT !.start = s.ok \/ loc.start]
            /\ pc' \in {IF s.ok THEN "check" ELSE "loop"} \cup (IF s.twice THEN {"aborted"} ELSE {})
    BY <1>2
  <1>4. /\ first \in OpeningRecord /\ SomeBuffer(first.alsa.buf) /\ first.faults >= faults
        /\ first.twice => handle = "stale"
        /\ first.handle = "stale" => handle = "stale" \/ ~present \/ first.faults > 0
    <2>1. CASE first = Opening
      BY <1>1, <2>1
    <2>2. CASE first \in AlsaOpen(cur, Opening)
      <3>1. Attempted(cur, Opening, first)
        BY <1>1, <2>2, OutcomeIs
      <3> QED BY <1>1, <3>1 DEF Attempted
    <2> QED BY <1>2, <2>1, <2>2
  <1>5. Attempted(cur, first, s)
    BY <1>1, <1>3, <1>4, OutcomeIs
  <1>6. s \in OpeningRecord /\ s.faults \in Nat /\ first.faults \in Nat /\ s.ok \in BOOLEAN
    BY <1>4, <1>5 DEF Attempted, OpeningRecord
  <1>7. faults' \in Nat /\ faults' >= faults /\ (faults > 0 => faults' > 0) /\ (first.faults > 0 => faults' > 0)
    BY <1>1, <1>3, <1>4, <1>5, <1>6 DEF Attempted
  <1>8. ~present \/ handle = "stale" => faults > 0
    BY DEF Inv, HandleInv
  <1>9. /\ s.twice => faults' > 0
        /\ s.handle = "stale" => faults' > 0
        /\ ~s.ok => faults' > 0
    <2>1. s.twice => first.twice \/ first.handle = "stale"
      BY <1>5 DEF Attempted
    <2>2. ~present => faults' > 0
      BY <1>7, <1>8
    <2>3. (s.handle = "stale" \/ ~s.ok) => faults' > 0
      BY <1>3, <1>5, <2>2 DEF Attempted
    <2> QED BY <1>4, <1>7, <1>8, <2>1, <2>2, <2>3
  <1>10. /\ loc' \in LocRecord /\ loc'.avail = loc.avail /\ loc'.silent = loc.silent /\ loc'.off = loc.off
    <2>1. PICK b \in BOOLEAN : b = (s.ok \/ loc.start)
      OBVIOUS
    <2>2. loc' = [loc EXCEPT !.start = b]
      BY <1>3, <2>1
    <2> QED BY <1>1, <2>1, <2>2 DEF LocRecord
  <1>11. pc' \in {"check", "loop", "aborted"} /\ (pc' = "check" => s.ok) /\ (pc' = "aborted" => s.twice)
    BY <1>3
  <1>12. Typed'
    <2>1. handle' \in Handles /\ alsa' \in AlsaRecord /\ dev' \in DevRecord
      BY <1>3, <1>6 DEF OpeningRecord
    <2>2. closedTwice' \in BOOLEAN /\ errorOpening' \in BOOLEAN /\ pc' \in Pcs
      BY <1>3, <1>11, PcNames
    <2> QED BY <1>0, <1>7, <1>10, <2>1, <2>2 DEF Inv, Typed
  <1>13. HandleInv'
    <2>1. dev'.q = <<>> /\ dev'.st \in {"none", "setup", "prepared"} /\ (handle' = "open" <=> dev'.st # "none")
      BY <1>3, <1>5 DEF Attempted
    <2>2. s.ok => /\ handle' = "open" /\ dev'.st = "prepared" /\ dev'.kind \in SetFor(cur)' /\ alsa'.kind = cur
                  /\ alsa'.size = BufferOf[dev'.kind] /\ alsa'.period = PeriodOf[dev'.kind] /\ ~errorOpening'
                  /\ (~alsa'.mmap /\ ~setup.native => alsa'.buf # 0)
      <3>1. SetFor(cur)' = SetFor(cur)
        BY <1>0 DEF SetFor
      <3> QED BY <1>3, <1>5, <3>1 DEF Attempted
    <2>3. ~s.ok => alsa'.kind = NoKind
      BY <1>3, <1>5 DEF Attempted
    <2>4. SomeBuffer(alsa'.buf)
      BY <1>3, <1>5 DEF Attempted
    <2>5. closedTwice => faults > 0
      BY DEF Inv, HandleInv
    <2>6. ~present' \/ handle' = "stale" \/ closedTwice' \/ dev'.st \in {"suspended", "gone"} => faults' > 0
      BY <1>0, <1>3, <1>7, <1>8, <1>9, <2>1, <2>5
    <2>7. alsa'.kind # NoKind => s.ok
      BY <2>3, <1>6
    <2> QED BY <1>0, <2>1, <2>2, <2>4, <2>6, <2>7 DEF HandleInv, SomeBuffer
  <1>14. AskInv'
    <2>1. loc.avail = 0 /\ ~loc.silent
      BY <1>0 DEF Inv, AskInv
    <2>2. dev'.q = <<>> /\ alsa'.size \in Nat /\ alsa'.period \in Nat
      BY <1>3, <1>5, <1>6 DEF Attempted, OpeningRecord, AlsaRecord
    <2>3. pc' \in Asking => handle' = "open" /\ alsa'.kind = cur
      <3>1. pc' \in Asking => pc' = "check"
        BY <1>11, PcNames
      <3> QED BY <1>3, <1>5, <1>11, <3>1 DEF Attempted
    <2> QED BY <1>0, <1>10, <1>11, <2>1, <2>2, <2>3 DEF AskInv
  <1>15. dev'.q = <<>> /\ Queued' = {}
    <2>1. dev'.q = <<>>
      BY <1>3, <1>5 DEF Attempted
    <2> QED BY <2>1 DEF Queued, ToSet
  <1>16. OrderInv'
    BY <1>0, <1>15 DEF Inv, OrderInv, HeardInOrder
  <1>17. EndInv'
    <2>1. SUFFICES ASSUME Unlost' PROVE EndInv'
      BY DEF EndInv
    <2>2. Unlost /\ faults' = 0 /\ s.ok /\ pc' = "check"
      <3>1. faults' = 0 /\ faults = 0
        BY <1>1, <1>7, <2>1 DEF Unlost
      <3>2. s.ok /\ ~s.twice
        BY <1>9, <3>1
      <3> QED BY <1>0, <1>3, <2>1, <3>1, <3>2 DEF Unlost
    <2>3. EndInv /\ Queued = {}
      BY <1>0, <2>2 DEF Inv, EndInv
    <2>4. out # "OFF"
      BY <1>0, <2>2, <2>3 DEF EndInv
    <2>5. delayed => \A i \in DOMAIN dev'.q : dev'.q[i] # 0 => i + setup.delay <= Len(dev'.q) + pause + Due'
      BY <1>15
    <2> QED BY <1>0, <1>15, <2>2, <2>3, <2>4, <2>5 DEF EndInv
  <1> QED BY <1>12, <1>13, <1>14, <1>16, <1>17 DEF Inv
-----------------------------------------------------------------------------
(* The invariant, and what it says of the device and of the music.          *)

LEMMA InitInv ==
  ASSUME Init
  PROVE  Inv
  <1>0. /\ setup \in Setups /\ handle = "null" /\ pc = "loop" /\ dev = NoDevice /\ pos = 1 /\ heard = {}
        /\ pause = 0 /\ ~delayed /\ faults = 0 /\ toggles = 0 /\ present /\ ~closedTwice /\ ~errorOpening
        /\ closedTwice \in BOOLEAN /\ errorOpening \in BOOLEAN /\ present \in BOOLEAN /\ delayed \in BOOLEAN
        /\ running \in BOOLEAN /\ out \in {"ON", "OFF"} /\ recoverCount \in Nat /\ cur \in Kinds
    BY AlsaAssumption DEF Init
  <1>1. dev \in DevRecord /\ dev.st = "none" /\ dev.q = <<>>
    BY <1>0, Names, MusicIs DEF NoDevice, DevRecord
  <1>2. /\ loc \in LocRecord /\ loc.avail = 0 /\ ~loc.silent /\ (out = "OFF" => loc.off)
    <2>1. setup.probe \in BOOLEAN /\ loc = [start |-> TRUE, off |-> out = "OFF", probe |-> setup.probe,
                                            avail |-> 0, silent |-> FALSE]
      BY AlsaAssumption DEF Init
    <2>2. PICK b \in BOOLEAN : b = (out = "OFF")
      OBVIOUS
    <2>3. loc = [start |-> TRUE, off |-> b, probe |-> setup.probe, avail |-> 0, silent |-> FALSE]
      BY <2>1, <2>2
    <2>4. loc \in LocRecord /\ loc.avail = 0 /\ ~loc.silent /\ loc.off = b
      BY <2>1, <2>3 DEF LocRecord
    <2> QED BY <2>2, <2>4
  <1>3. alsa \in AlsaRecord /\ alsa.kind = NoKind /\ alsa.size = 0 /\ alsa.period = 0 /\ alsa.buf = 0
    <2>1. setup.mmap \in BOOLEAN
      BY <1>0, AlsaAssumption
    <2> QED BY <2>1 DEF Init, AlsaRecord
  <1>4. Queued = {}
    BY <1>1 DEF Queued, ToSet
  <1>5. Typed
    BY <1>0, <1>1, <1>2, <1>3, Names, PcNames, MusicIs DEF Typed
  <1>6. HandleInv
    BY <1>0, <1>1, <1>3 DEF HandleInv
  <1>7. AskInv
    BY <1>0, <1>1, <1>2, <1>3, PcNames DEF AskInv
  <1>8. OrderInv
    BY <1>0, <1>1, <1>4 DEF OrderInv, HeardInOrder
  <1>9. EndInv
    <2>1. 1 .. (pos - 1) = heard \cup Queued
      BY <1>0, <1>4
    <2> QED BY <1>0, <1>2, <1>4, <2>1, SetupIs DEF EndInv
  <1> QED BY <1>5, <1>6, <1>7, <1>8, <1>9 DEF Inv

LEMMA StutterKeeps ==
  ASSUME Inv, UNCHANGED vars
  PROVE  Inv'
  <1>0. /\ UNCHANGED <<setup, running, out, pc, loc, handle, alsa, recoverCount, errorOpening, closedTwice>>
        /\ UNCHANGED <<cur, pos, pause, delayed, present, dev, heard, faults, toggles>>
    BY DEF vars, outVars, devVars, bounds
  <1>1. Typed' /\ HandleInv' /\ AskInv'
    BY <1>0 DEF Inv, Typed, HandleInv, AskInv, SetFor
  <1>2. Queued' = Queued /\ Due' = Due
    BY <1>0 DEF Queued, Due
  <1>3. OrderInv'
    BY <1>0, <1>2 DEF Inv, OrderInv, HeardInOrder, SetFor
  <1>4. EndInv'
    BY <1>0, <1>2 DEF Inv, EndInv, Unlost
  <1> QED BY <1>1, <1>3, <1>4 DEF Inv

LEMMA NextKeeps ==
  ASSUME Inv, [Next]_vars
  PROVE  Inv'
  <1>1. CASE Thread
    BY <1>1, LoopKeeps, OpenDeviceKeeps, IsOpenKeeps, CheckStateKeeps, CheckAvailKeeps, StartKeeps, WaitKeeps,
       TurnedOffKeeps, PassEnds, OutputFramesKeeps, TrackStartKeeps, AcceptKeeps, RefuseKeeps DEF Thread
  <1>2. CASE Play \/ Fault
    BY <1>2, PlayKeeps, FaultKeeps
  <1>3. CASE Replug \/ Toggle \/ OutputClose
    BY <1>3, OutsideKeeps
  <1>4. CASE UNCHANGED vars
    BY <1>4, StutterKeeps
  <1> QED BY <1>1, <1>2, <1>3, <1>4 DEF Next

LEMMA InvHolds == Spec => []Inv
  <1>1. Init => Inv
    BY InitInv
  <1>2. Inv /\ [Next]_vars => Inv'
    BY NextKeeps
  <1> QED BY <1>1, <1>2, PTL DEF Spec

(* Through openings that fail at any point, plugs, faults and the player    *)
(* turned off and on, the thread of output_alsa.c asks and feeds a device   *)
(* that is open and set for its stream, or has another rate only where one  *)
(* that is not hw: refused the stream's (SetFor); and it never writes more  *)
(* frames than the device, or write_buf, has room for.                      *)
THEOREM DeviceFit == Spec => []DeviceIsFit
  <1>1. Inv => DeviceIsFit
    <2> SUFFICES ASSUME Inv PROVE DeviceIsFit
      OBVIOUS
    <2>0. /\ loc.avail \in Nat /\ Len(dev.q) \in Nat /\ alsa.size \in Nat /\ alsa.kind \in Kinds \cup {NoKind}
      BY DEF Inv, Typed, LocRecord, AlsaRecord, DevRecord
    <2>1. TypeOK
      <3>1. Len(dev.q) <= alsa.size /\ loc.avail <= alsa.size
        BY <2>0 DEF Inv, AskInv
      <3> QED BY <2>0, <3>1 DEF Inv, Typed, TypeOK, Pcs, Handles
    <2>2. pc \in Asking => handle = "open" /\ alsa.kind = cur /\ alsa.kind # NoKind
      BY AlsaAssumption DEF Inv, Typed, AskInv
    <2>3. DeviceIsReady
      BY <2>2 DEF Inv, HandleInv, DeviceIsReady
    <2>4. WriteBufHolds
      <3> SUFFICES ASSUME pc = "frames", ~alsa.mmap, ~setup.native PROVE loc.avail <= alsa.buf
        BY DEF WriteBufHolds
      <3>0. SetFor(alsa.kind) \subseteq Kinds
        BY <2>0, <2>2, PcNames, AlsaAssumption DEF SetFor
      <3>1. (\E d \in Kinds : alsa.period = PeriodOf[d]) /\ alsa.buf # 0
        BY <2>0, <2>2, <3>0, PcNames DEF Inv, HandleInv
      <3>2. PICK k \in Kinds : alsa.buf = BufferOf[k]
        BY <3>1 DEF Inv, HandleInv
      <3>3. alsa.period <= alsa.buf /\ alsa.period \in Nat /\ alsa.buf \in Nat
        BY <3>1, <3>2, PeriodsFit, AlsaAssumption
      <3> QED BY <2>0, <3>3 DEF Inv, AskInv
    <2> QED BY <2>1, <2>3, <2>4 DEF DeviceIsFit
  <1> QED BY <1>1, InvHolds, PTL

(* Whatever the writes, underruns, faults and openings, the frames that     *)
(* _output_frames hands to output_alsa.c reach the device in order and once *)
(* each, at a device set for their kind or for the one that it has for it   *)
(* (SetFor); and with a rate delay of two buffers, while nothing fails,     *)
(* none is dropped when the device is opened anew for a track of another    *)
(* kind.                                                                    *)
THEOREM MusicWhole == Spec => []HeardWhole
  <1>1. Inv => HeardWhole
    BY DEF Inv, OrderInv, EndInv, Unlost, EndIsHeard, HeardWhole
  <1> QED BY <1>1, InvHolds, PTL
====
