-------------------------- MODULE CoreAudioProofs ---------------------------
(* Proofs about CoreAudio, for every set of rates, every number of tracks   *)
(* and every plan: what is closed is given back, what claims to be          *)
(* bit-perfect is, and the shared mixer is a last resort.                   *)
EXTENDS CoreAudio, TLAPS

(* The inductive invariant, in parts.                                       *)

Setup   == {"hog", "rate", "settle", "unit", "controls", "start", "physical", "listen", "opened"}
Without == {"mode", "find", "again", "count", "closed"}
Resting == {"rest", "idle", "join"}
Pcs     == Setup \cup Without \cup Resting \cup {"stop", "restore"}
Rated    == {"unit", "controls", "start", "physical", "listen", "opened"} \cup Resting
Controlled == {"start", "physical", "listen", "opened"} \cup Resting
Verified == {"listen", "opened"} \cup Resting
Sounding == {"controls", "start", "physical", "listen", "opened", "stop"} \cup Resting
Untouched == {"hog", "rate", "settle", "unit", "controls"}
Asks    == {"exclusive", "bitperfect", "strict"}
Changeable == {"rate", "unity", "profile"}
Verifiable == {"exclusive", "volume", "physical"}

States  == {"OFF", "STOPPED", "BUFFER", "RUNNING"}
Units   == {"none", "ready", "running"}
Thens   == {"mode", "again", "closed"}
MonPcs  == {"read", "act", "stopped"}
Owners  == {"none", "us", "other"}
SomeAsks == SUBSET Asks
SomeChanged == SUBSET Changeable
SomeVerified == SUBSET Verifiable

OutRecord == [state : States, rate : Rates, next : Rates \cup {None},
              reopen : BOOLEAN, error : BOOLEAN]
CaRecord  == [asked : SomeAsks, exclusive : BOOLEAN, bitperfect : BOOLEAN, fallback : BOOLEAN,
              device : Nat, unit : Units, hogged : BOOLEAN, rate : Nat,
              verified : SomeVerified, listening : BOOLEAN, changed : BOOLEAN,
              failures : Nat, age : Nat]
SavedRecord == [device : Nat, rate : Rates \cup {None}, unity : BOOLEAN, profile : BOOLEAN,
                changed : SomeChanged]
CtlRecord == [pc : Pcs, then : Thens, start : BOOLEAN, wasOff : BOOLEAN,
              found : BOOLEAN, refused : BOOLEAN, closing : BOOLEAN]
MonRecord == [pc : MonPcs, changed : BOOLEAN, failed : BOOLEAN]
HwRecord  == [present : BOOLEAN, id : Nat \ {0}, rate : Rates, unity : BOOLEAN, profile : BOOLEAN,
              integer : BOOLEAN, owner : Owners, pending : Rates \cup {None}]
HistRecord == [plan : Plans, due : [rate : Rates, unity : BOOLEAN, profile : BOOLEAN], tracks : Nat,
               changes : Nat, disturbed : BOOLEAN, again : BOOLEAN]

Typed ==
    /\ out \in OutRecord /\ ca \in CaRecord /\ saved \in SavedRecord /\ ctl \in CtlRecord
    /\ mon \in MonRecord /\ hw \in HwRecord /\ hist \in HistRecord
    /\ ca.failures <= MaxFailures /\ ca.age <= Ceiling
    /\ saved.device # None => saved.rate \in Rates

\* Which device is open, and how far.
DeviceInv ==
    /\ saved.device = ca.device /\ ca.device <= hw.id
    /\ ctl.pc \in Without => ca.device = None
    /\ ctl.pc \in Setup => ca.device # None
    /\ ca.device = None => ca.unit = "none" /\ ~ca.listening /\ ~ca.hogged
    /\ ca.unit # "none" => ctl.pc \in Sounding
    /\ ctl.pc = "restore" => ca.unit = "none" /\ ~ca.listening
    /\ hw.owner = "us" => ca.hogged /\ Alive

\* What is to be put back: while nobody has made a setting what the player
\* made it, restoring yields what the device should be left at.
UnityBack   == IF Alive /\ "unity" \in saved.changed /\ hw.unity THEN saved.unity ELSE hw.unity
ProfileBack == IF Alive /\ "profile" \in saved.changed /\ hw.profile THEN saved.profile ELSE hw.profile
RateBack    == IF Alive /\ "rate" \in saved.changed /\ hw.rate = ca.rate THEN saved.rate ELSE hw.rate

\* A rate has been asked for and is not known to be the device's.
Settling ==
    /\ hist.due.rate = saved.rate
    /\ saved.rate # out.rate => "rate" \in saved.changed
    /\ hw.rate = saved.rate \/ hw.rate = out.rate

Traced ==
    /\ UnityBack = hist.due.unity /\ ProfileBack = hist.due.profile
    /\ ctl.pc # "settle" \/ ~Alive => RateBack = hist.due.rate
    /\ Alive => saved.profile = hist.due.profile
    /\ Alive /\ ctl.pc = "settle" => Settling
    /\ Alive /\ ctl.pc \in {"hog", "rate"} => "rate" \notin saved.changed /\ saved.rate = hw.rate
    /\ Alive /\ ctl.pc \in Untouched => saved.unity = hw.unity /\ "unity" \notin saved.changed

SavedInv == /\ Prompt => hw.pending = None
            /\ Prompt /\ ~hist.again => Traced

\* What an open device that nobody disturbed is known to be.
ModeInv ==
    /\ ca.bitperfect => "bitperfect" \in ca.asked /\ (ca.exclusive <=> "exclusive" \in ca.asked)
    /\ ca.device # None /\ ~hist.disturbed =>
          /\ Alive
          /\ ca.exclusive /\ ctl.pc \in {"rate", "settle"} \cup Rated => hw.owner = "us"
          /\ Prompt /\ ctl.pc \in Rated => hw.rate = ca.rate
          /\ ca.bitperfect /\ ctl.pc \in Controlled => hw.unity
    /\ ca.device # None /\ ca.bitperfect /\ ctl.pc \in Verified => hw.integer

\* Why the shared mixer is used, if all has one rate and nothing else is at
\* fault: an open that does not end in a refusal ends for want of a format.
Forced  == ~hw.integer /\ "bitperfect" \in ca.asked
Calm    == TrackRates \subseteq {DefaultRate} /\ hist.changes = 0 /\ ~UnitFails
Failing == ctl.pc = "again" \/ (ctl.pc \in {"stop", "restore"} /\ ctl.then = "again")

OneRate ==
    /\ out.rate = DefaultRate /\ out.next \in {DefaultRate, None} /\ hw.pending \in {DefaultRate, None}
    /\ ca.device # None /\ ctl.pc \in Rated => hw.rate = DefaultRate

FallbackInv ==
    /\ TrackRates \subseteq {DefaultRate} /\ hist.changes = 0 => OneRate
    /\ hist.changes = 0 => (ca.device # None => Alive) /\ hw.owner # "other"
    /\ ctl.pc = "find" /\ ctl.found => ca.fallback
    /\ Calm /\ (ca.fallback \/ (ctl.found /\ ~ctl.refused /\ Failing)) => Forced

Inv == Typed /\ DeviceInv /\ SavedInv /\ ModeInv /\ FallbackInv
-----------------------------------------------------------------------------
(* The plan, and names.                                                     *)

LEMMA PlanIs ==
  ASSUME CoreAudioAssumption, Typed
  PROVE  /\ DefaultRate \in Rates /\ Rates \subseteq Nat \ {0} /\ TrackRates \subseteq Rates
         /\ Ceiling \in Nat \ {0} /\ MaxFailures \in Nat \ {0} /\ Autostart \subseteq BOOLEAN
  <1>1. hist.plan \in Plan
    BY DEF CoreAudioAssumption, Typed, HistRecord
  <1>2. TrackRates \subseteq Rates
    BY <1>1 DEF Plan, TrackRates
  <1>3. Autostart \subseteq BOOLEAN
    BY <1>1 DEF Plan, Autostart
  <1>4. Ceiling \in Nat \ {0}
    BY <1>1 DEF Plan, Ceiling
  <1>5. MaxFailures \in Nat \ {0}
    BY <1>1 DEF Plan, MaxFailures
  <1> QED BY <1>2, <1>3, <1>4, <1>5 DEF CoreAudioAssumption

\* Nobody changes the plan.
SamePlan == hist'.plan = hist.plan

LEMMA PlanSame ==
  ASSUME SamePlan
  PROVE  /\ Ceiling' = Ceiling /\ MaxFailures' = MaxFailures /\ TrackRates' = TrackRates
         /\ (Prompt' <=> Prompt) /\ UnitFails' = UnitFails
  BY DEF SamePlan, Ceiling, MaxFailures, TrackRates, Prompt, RateReplies, UnitFails

LEMMA Names ==
  /\ "OFF" \in States /\ "STOPPED" \in States /\ "BUFFER" \in States /\ "RUNNING" \in States
  /\ "none" \in Units /\ "ready" \in Units /\ "running" \in Units
  /\ "mode" \in Thens /\ "again" \in Thens /\ "closed" \in Thens
  /\ "read" \in MonPcs /\ "act" \in MonPcs /\ "stopped" \in MonPcs
  /\ "none" \in Owners /\ "us" \in Owners /\ "other" \in Owners
  BY DEF States, Units, Thens, MonPcs, Owners

LEMMA PcNames ==
  /\ \A p \in {"hog", "rate", "settle", "unit", "controls", "start", "physical", "listen", "opened"} : p \in Pcs
  /\ \A p \in {"mode", "find", "again", "count", "closed", "rest", "idle", "join", "stop", "restore"} : p \in Pcs
  BY DEF Pcs, Setup, Without, Resting

LEMMA EmptySets == {} \in SomeChanged /\ {} \in SomeVerified
  BY DEF SomeChanged, SomeVerified

LEMMA ChangedMore ==
  ASSUME NEW c \in SomeChanged, NEW x \in {"rate", "unity", "profile"}
  PROVE  c \cup {x} \in SomeChanged
  <1>1. x \in Changeable
    BY DEF Changeable
  <1> QED BY <1>1 DEF SomeChanged

LEMMA VerifiedMore ==
  ASSUME NEW v \in SomeVerified, NEW x \in {"exclusive", "volume", "physical"}
  PROVE  v \cup {x} \in SomeVerified
  <1>1. x \in Verifiable
    BY DEF Verifiable
  <1> QED BY <1>1 DEF SomeVerified
-----------------------------------------------------------------------------
(* What the steps do, field by field.                                       *)

LEMMA GotoIs ==
  ASSUME ctl \in CtlRecord, NEW p \in Pcs, Goto(p)
  PROVE  /\ ctl' \in CtlRecord /\ ctl'.pc = p /\ ctl'.then = ctl.then /\ ctl'.found = ctl.found
         /\ ctl'.refused = ctl.refused
  BY DEF CtlRecord, Goto

LEMMA FailIs ==
  ASSUME ctl \in CtlRecord, NEW r \in BOOLEAN, Fail(r)
  PROVE  /\ ctl' \in CtlRecord /\ ctl'.pc = "stop" /\ ctl'.then = "again" /\ ctl'.found = ctl.found
         /\ (ctl'.refused <=> ctl.refused \/ r)
  <1>1. PICK x \in BOOLEAN : /\ x <=> ctl.refused \/ r
                             /\ ctl' = [ctl EXCEPT !.pc = "stop", !.then = "again", !.refused = x]
    BY DEF Fail
  <1>2. "stop" \in Pcs /\ "again" \in Thens
    BY Names, PcNames
  <1> QED BY <1>1, <1>2 DEF CtlRecord

SameMode == /\ ca'.asked = ca.asked /\ ca'.exclusive = ca.exclusive
            /\ ca'.bitperfect = ca.bitperfect /\ ca'.fallback = ca.fallback
SameOpen == /\ ca'.device = ca.device /\ ca'.unit = ca.unit /\ ca'.hogged = ca.hogged
            /\ ca'.rate = ca.rate /\ ca'.listening = ca.listening
SameTime == ca'.failures = ca.failures /\ ca'.age = ca.age
SameTries == ctl'.then = ctl.then /\ ctl'.found = ctl.found /\ ctl'.refused = ctl.refused

LEMMA DisposeUnitIs ==
  ASSUME Typed, DisposeUnit
  PROVE  /\ Typed' /\ ctl.pc = "stop" /\ ctl'.pc = "restore" /\ SameTries /\ SameMode
         /\ ca'.device = ca.device /\ ca'.hogged = ca.hogged /\ ca'.rate = ca.rate
         /\ ca'.unit = "none" /\ ~ca'.listening
         /\ UNCHANGED <<out, saved, mon, hw, hist>>
  <1>1. /\ ca' \in CaRecord /\ SameMode /\ SameTime /\ ca'.device = ca.device
        /\ ca'.hogged = ca.hogged /\ ca'.rate = ca.rate /\ ca'.unit = "none" /\ ~ca'.listening
    BY Names DEF DisposeUnit, Typed, CaRecord, SameMode, SameTime
  <1>2. ctl' \in CtlRecord /\ ctl'.pc = "restore" /\ SameTries
    BY PcNames, GotoIs DEF DisposeUnit, Typed, SameTries
  <1>3. ctl.pc = "stop" /\ UNCHANGED <<out, saved, mon, hw, hist>>
    BY DEF DisposeUnit
  <1>4. Typed'
    BY <1>1, <1>2, <1>3 DEF Typed, SameTime, Ceiling, MaxFailures
  <1> QED BY <1>1, <1>2, <1>3, <1>4

\* A device that is restored has the settings that are to be put back.
LEMMA RestoredIs ==
  ASSUME Typed, saved.device = ca.device
  PROVE  /\ Restored \in HwRecord
         /\ Restored.unity = UnityBack /\ Restored.profile = ProfileBack /\ Restored.rate = RateBack
         /\ Restored.present = hw.present /\ Restored.id = hw.id /\ Restored.integer = hw.integer
         /\ Restored.owner = hw.owner /\ Restored.pending = hw.pending
  <1>1. hw \in HwRecord /\ saved \in SavedRecord
    BY DEF Typed
  <1>2. CASE ~Alive
    BY <1>1, <1>2 DEF Restored, UnityBack, ProfileBack, RateBack
  <1>3. CASE Alive
    <2>1. saved.rate \in Rates
      BY <1>1, <1>3 DEF Typed, Alive, HwRecord, None
    <2>2. UnityBack \in BOOLEAN /\ ProfileBack \in BOOLEAN /\ RateBack \in Rates
      BY <1>1, <2>1 DEF UnityBack, ProfileBack, RateBack, HwRecord, SavedRecord
    <2>3. Restored = [hw EXCEPT !.unity = UnityBack, !.profile = ProfileBack, !.rate = RateBack]
      BY <1>1, <1>3 DEF Restored, UnityBack, ProfileBack, RateBack, HwRecord
    <2> QED BY <1>1, <2>2, <2>3 DEF HwRecord
  <1> QED BY <1>2, <1>3

LEMMA ReleasedIs ==
  ASSUME NEW d \in HwRecord
  PROVE  /\ Released(d) \in HwRecord
         /\ Released(d).owner = IF ca.hogged /\ Alive /\ d.owner = "us" THEN "none" ELSE d.owner
         /\ Released(d).unity = d.unity /\ Released(d).profile = d.profile /\ Released(d).rate = d.rate
         /\ Released(d).present = d.present /\ Released(d).id = d.id /\ Released(d).integer = d.integer
         /\ Released(d).pending = d.pending
  BY Names DEF Released, HwRecord

LEMMA DisposeDeviceIs ==
  ASSUME Typed, DeviceInv, DisposeDevice
  PROVE  /\ Typed' /\ ctl.pc = "restore" /\ ctl'.pc = ctl.then /\ SameTries /\ SameMode
         /\ ca'.device = None /\ ~ca'.hogged /\ ca'.unit = ca.unit /\ ca'.listening = ca.listening
         /\ saved'.device = None
         /\ hw'.owner = IF ca.hogged /\ Alive /\ hw.owner = "us" THEN "none" ELSE hw.owner
         /\ hw'.unity = UnityBack /\ hw'.profile = ProfileBack /\ hw'.rate = RateBack
         /\ hw'.id = hw.id /\ hw'.present = hw.present /\ hw'.integer = hw.integer /\ hw'.pending = hw.pending
         /\ UNCHANGED <<out, mon, hist>>
  <1>1. saved.device = ca.device
    BY DEF DeviceInv
  <1>2. /\ hw' \in HwRecord
        /\ hw'.owner = IF ca.hogged /\ Alive /\ hw.owner = "us" THEN "none" ELSE hw.owner
        /\ hw'.unity = UnityBack /\ hw'.profile = ProfileBack /\ hw'.rate = RateBack
        /\ hw'.id = hw.id /\ hw'.present = hw.present /\ hw'.integer = hw.integer /\ hw'.pending = hw.pending
    <2>1. hw' = Released(Restored)
      BY DEF DisposeDevice
    <2> QED BY <1>1, <2>1, RestoredIs, ReleasedIs
  <1>3. saved' \in SavedRecord /\ saved'.device = None
    <2>1. saved' = [device |-> 0, rate |-> 0, unity |-> TRUE, profile |-> TRUE, changed |-> {}]
      BY <1>1 DEF DisposeDevice, NothingSaved, None
    <2>2. {} \in SomeChanged
      BY EmptySets
    <2> QED BY <2>1, <2>2 DEF SavedRecord, None
  <1>4. /\ ca' \in CaRecord /\ SameMode /\ SameTime /\ ca'.device = None /\ ~ca'.hogged
        /\ ca'.unit = ca.unit /\ ca'.listening = ca.listening
    BY DEF DisposeDevice, Typed, CaRecord, SameMode, SameTime, None
  <1>5. ctl.then \in Pcs
    BY PcNames DEF Typed, CtlRecord, Thens
  <1>6. ctl' \in CtlRecord /\ ctl'.pc = ctl.then /\ SameTries
    BY <1>5, GotoIs DEF DisposeDevice, Typed, SameTries
  <1>7. ctl.pc = "restore" /\ UNCHANGED <<out, mon, hist>>
    BY DEF DisposeDevice
  <1>8. Typed'
    BY <1>2, <1>3, <1>4, <1>6, <1>7 DEF Typed, SameTime, Ceiling, MaxFailures
  <1> QED BY <1>2, <1>3, <1>4, <1>6, <1>7, <1>8

LEMMA OpenModeIs ==
  ASSUME Typed, OpenMode
  PROVE  /\ Typed' /\ ctl.pc = "mode" /\ ctl'.pc \in {"rest", "find"} /\ ~ctl'.found /\ SameOpen
         /\ ca'.asked = ca.asked /\ ~ca'.fallback
         /\ (ca'.exclusive <=> "exclusive" \in ca.asked) /\ (ca'.bitperfect <=> "bitperfect" \in ca.asked)
         /\ UNCHANGED <<out, saved, mon, hw, hist>>
  <1> DEFINE e == "exclusive" \in ca.asked
             b == "bitperfect" \in ca.asked
  <1>0. ca' = [ca EXCEPT !.exclusive = e, !.bitperfect = b, !.fallback = FALSE, !.verified = {}]
    BY DEF OpenMode
  <1>1. e \in BOOLEAN /\ b \in BOOLEAN /\ {} \in SomeVerified
    BY EmptySets
  <1> HIDE DEF e, b
  <1>2. /\ ca' \in CaRecord /\ SameOpen /\ SameTime /\ ca'.asked = ca.asked /\ ~ca'.fallback
        /\ ca'.exclusive = e /\ ca'.bitperfect = b
    BY <1>0, <1>1 DEF Typed, CaRecord, SameOpen, SameTime
  <1>3. PICK p \in {"rest", "find"} : ctl' = [ctl EXCEPT !.pc = p, !.found = FALSE, !.refused = FALSE]
    BY DEF OpenMode
  <1>4. ctl' \in CtlRecord /\ ctl'.pc = p /\ ~ctl'.found
    BY <1>3, PcNames DEF Typed, CtlRecord
  <1>5. ctl.pc = "mode" /\ UNCHANGED <<out, saved, mon, hw, hist>>
    BY DEF OpenMode
  <1>6. Typed'
    BY <1>2, <1>4, <1>5 DEF Typed, SameTime, Ceiling, MaxFailures
  <1> QED BY <1>2, <1>3, <1>4, <1>5, <1>6 DEF e, b

LEMMA OpenFindIs ==
  ASSUME Typed, OpenFind
  PROVE  /\ Typed' /\ ctl.pc = "find" /\ SameMode
         /\ ca'.unit = ca.unit /\ ca'.hogged = ca.hogged /\ ca'.rate = ca.rate /\ ca'.listening = ca.listening
         /\ hist'.plan = hist.plan /\ hist'.due = hist.due /\ hist'.changes = hist.changes
         /\ hist'.again = hist.again /\ ~hist'.disturbed
         /\ \/ /\ hw.present /\ ca'.device = hw.id /\ ctl'.pc = "hog"
               /\ saved'.device = hw.id /\ saved'.rate = hw.rate /\ saved'.unity = hw.unity
               /\ saved'.profile = hw.profile /\ saved'.changed = {}
            \/ /\ ~hw.present /\ ca'.device = ca.device /\ saved' = saved
               /\ ctl'.pc = "stop" /\ ctl'.then = "again" /\ ctl'.found = ctl.found
         /\ UNCHANGED <<out, mon, hw>>
  <1>1. hw.id \in Nat /\ hw.rate \in Rates /\ hw.unity \in BOOLEAN /\ hw.profile \in BOOLEAN
    BY DEF Typed, HwRecord
  <1>2. /\ hist' \in HistRecord /\ hist'.plan = hist.plan /\ hist'.due = hist.due
        /\ hist'.changes = hist.changes /\ hist'.again = hist.again /\ ~hist'.disturbed
    BY DEF OpenFind, Typed, HistRecord
  <1>3. ctl.pc = "find" /\ UNCHANGED <<out, mon, hw>>
    BY DEF OpenFind
  <1>4. CASE hw.present
    <2>1. ca' = [ca EXCEPT !.device = hw.id]
      BY <1>4 DEF OpenFind
    <2>2. /\ ca' \in CaRecord /\ SameMode /\ SameTime /\ ca'.device = hw.id /\ ca'.unit = ca.unit
          /\ ca'.hogged = ca.hogged /\ ca'.rate = ca.rate /\ ca'.listening = ca.listening
      BY <1>1, <2>1 DEF Typed, CaRecord, SameMode, SameTime
    <2>3. saved' = [device |-> hw.id, rate |-> hw.rate, unity |-> hw.unity, profile |-> hw.profile, changed |-> {}]
      BY <1>4 DEF OpenFind, NothingSaved
    <2>4. /\ saved'.device = hw.id /\ saved'.rate = hw.rate /\ saved'.unity = hw.unity
          /\ saved'.profile = hw.profile /\ saved'.changed = {}
      BY <2>3
    <2>5. ctl' = [ctl EXCEPT !.pc = "hog", !.found = TRUE]
      BY <1>4 DEF OpenFind
    <2>6. ctl' \in CtlRecord /\ ctl'.pc = "hog"
      BY <2>5, PcNames DEF Typed, CtlRecord
    <2>7. saved' \in SavedRecord /\ saved'.rate \in Rates
      <3>1. {} \in SomeChanged
        BY EmptySets
      <3> QED BY <1>1, <2>3, <3>1 DEF SavedRecord
    <2>8. Typed'
      BY <1>2, <1>3, <2>2, <2>6, <2>7 DEF Typed, SameTime, Ceiling, MaxFailures
    <2> QED BY <1>2, <1>3, <1>4, <2>2, <2>4, <2>6, <2>8
  <1>5. CASE ~hw.present
    <2>1. Fail(FALSE) /\ ca' = ca /\ saved' = saved
      BY <1>5 DEF OpenFind
    <2>2. ctl' \in CtlRecord /\ ctl'.pc = "stop" /\ ctl'.then = "again" /\ ctl'.found = ctl.found
      BY <2>1, FailIs DEF Typed
    <2>3. Typed'
      BY <1>2, <1>3, <2>1, <2>2 DEF Typed, Ceiling, MaxFailures
    <2> QED BY <1>2, <1>3, <1>5, <2>1, <2>2, <2>3 DEF SameMode
  <1> QED BY <1>4, <1>5

LEMMA OpenHogIs ==
  ASSUME Typed, OpenHog
  PROVE  /\ Typed' /\ ctl.pc = "hog" /\ SameMode /\ ctl'.found = ctl.found
         /\ ca'.device = ca.device /\ ca'.unit = ca.unit /\ ca'.rate = ca.rate /\ ca'.listening = ca.listening
         /\ \/ ~ca.exclusive /\ ctl'.pc = "rate" /\ ca'.hogged = ca.hogged /\ hw' = hw
            \/ /\ ca.exclusive /\ Alive /\ ctl'.pc = "rate" /\ ca'.hogged
               /\ hw' = [hw EXCEPT !.owner = "us"]
            \/ /\ ctl'.pc = "stop" /\ ctl'.then = "again" /\ ~(Alive /\ hw.owner # "other")
               /\ ca'.hogged = ca.hogged /\ hw' = hw
         /\ UNCHANGED <<out, saved, mon, hist>>
  <1>1. ctl.pc = "hog" /\ UNCHANGED <<out, saved, mon, hist>>
    BY DEF OpenHog
  <1>2. CASE ~ca.exclusive
    <2>1. Goto("rate") /\ ca' = ca /\ hw' = hw
      BY <1>2 DEF OpenHog
    <2>2. ctl' \in CtlRecord /\ ctl'.pc = "rate" /\ ctl'.found = ctl.found
      BY <2>1, GotoIs, PcNames DEF Typed
    <2> QED BY <1>1, <1>2, <2>1, <2>2 DEF Typed, Ceiling, MaxFailures, SameMode
  <1>3. CASE ca.exclusive /\ Alive /\ hw.owner # "other"
    <2>1. /\ Goto("rate") /\ hw' = [hw EXCEPT !.owner = "us"]
          /\ ca' = [ca EXCEPT !.hogged = TRUE, !.verified = ca.verified \cup {"exclusive"}]
      BY <1>3 DEF OpenHog
    <2>2. ctl' \in CtlRecord /\ ctl'.pc = "rate" /\ ctl'.found = ctl.found
      BY <2>1, GotoIs, PcNames DEF Typed
    <2>3. hw' \in HwRecord
      BY <2>1, Names DEF Typed, HwRecord
    <2>4. PICK v \in SomeVerified : ca' = [ca EXCEPT !.hogged = TRUE, !.verified = v]
      <3>1. ca.verified \in SomeVerified
        BY DEF Typed, CaRecord
      <3> QED BY <2>1, <3>1, VerifiedMore
    <2>5. /\ ca' \in CaRecord /\ SameMode /\ SameTime /\ ca'.device = ca.device /\ ca'.unit = ca.unit
          /\ ca'.rate = ca.rate /\ ca'.listening = ca.listening /\ ca'.hogged
      BY <2>4 DEF Typed, CaRecord, SameMode, SameTime
    <2>6. Typed'
      BY <1>1, <2>2, <2>3, <2>5 DEF Typed, Ceiling, MaxFailures, SameTime
    <2> QED BY <1>1, <1>3, <2>1, <2>2, <2>5, <2>6
  <1>4. CASE ca.exclusive /\ ~(Alive /\ hw.owner # "other")
    <2>1. Fail(FALSE) /\ ca' = ca /\ hw' = hw
      BY <1>4 DEF OpenHog
    <2>2. ctl' \in CtlRecord /\ ctl'.pc = "stop" /\ ctl'.then = "again" /\ ctl'.found = ctl.found
      BY <2>1, FailIs DEF Typed
    <2> QED BY <1>1, <1>4, <2>1, <2>2 DEF Typed, Ceiling, MaxFailures, SameMode
  <1> QED BY <1>2, <1>3, <1>4

\* What a setting of the rate leaves of the device.
SameHw == /\ hw'.present = hw.present /\ hw'.id = hw.id /\ hw'.unity = hw.unity
          /\ hw'.profile = hw.profile /\ hw'.integer = hw.integer /\ hw'.owner = hw.owner
SameSaved == /\ saved'.device = saved.device /\ saved'.rate = saved.rate /\ saved'.unity = saved.unity
             /\ saved'.profile = saved.profile

LEMMA OpenRateIs ==
  ASSUME CoreAudioAssumption, Typed, OpenRate
  PROVE  /\ Typed' /\ ctl.pc = "rate" /\ SameHw /\ SameSaved /\ ctl'.found = ctl.found
         /\ \/ ctl'.pc = "settle" /\ Alive /\ hw.rate = out.rate /\ hw' = hw /\ saved' = saved
            \/ ctl'.pc = "stop" /\ ctl'.then = "again" /\ ctl'.refused /\ hw' = hw /\ saved' = saved
            \/ /\ ctl'.pc = "settle" /\ Alive
               /\ \/ hw'.rate = out.rate /\ hw'.pending = None
                  \/ hw'.rate = hw.rate /\ hw'.pending = None
                  \/ hw'.rate = hw.rate /\ hw'.pending = out.rate /\ ~Prompt
               /\ saved'.changed = IF saved.rate # out.rate THEN saved.changed \cup {"rate"} ELSE saved.changed
         /\ UNCHANGED <<out, ca, mon, hist>>
  <1>1. ctl.pc = "rate" /\ UNCHANGED <<out, ca, mon, hist>>
    BY DEF OpenRate
  <1>2. CASE Alive /\ hw.rate = out.rate
    <2>1. Goto("settle") /\ saved' = saved /\ hw' = hw
      BY <1>2 DEF OpenRate
    <2>2. ctl' \in CtlRecord /\ ctl'.pc = "settle" /\ ctl'.found = ctl.found
      BY <2>1, GotoIs, PcNames DEF Typed
    <2>3. Typed'
      BY <1>1, <2>1, <2>2 DEF Typed, Ceiling, MaxFailures
    <2> QED BY <1>1, <1>2, <2>1, <2>2, <2>3 DEF SameHw, SameSaved
  <1>3. CASE ~(Alive /\ hw.rate = out.rate)
    <2>1. PICK reply \in IF Alive THEN RateReplies ELSE {"refused"} :
            IF reply = "refused" THEN Fail(TRUE) /\ UNCHANGED <<saved, hw>>
            ELSE /\ hw' = RateSet(reply, out.rate)
                 /\ saved' = [saved EXCEPT !.changed = IF saved.rate # out.rate THEN saved.changed \cup {"rate"}
                                                       ELSE saved.changed]
                 /\ Goto("settle")
      BY <1>3 DEF OpenRate
    <2>2. CASE reply = "refused"
      <3>1. ctl' \in CtlRecord /\ ctl'.pc = "stop" /\ ctl'.then = "again" /\ ctl'.found = ctl.found /\ ctl'.refused
        BY <2>1, <2>2, FailIs DEF Typed
      <3>2. Typed'
        BY <1>1, <2>1, <2>2, <3>1 DEF Typed, Ceiling, MaxFailures
      <3> QED BY <1>1, <2>1, <2>2, <3>1, <3>2 DEF SameHw, SameSaved
    <2>3. CASE reply # "refused"
      <3>1. ctl' \in CtlRecord /\ ctl'.pc = "settle" /\ ctl'.found = ctl.found /\ Alive
        BY <2>1, <2>3, GotoIs, PcNames DEF Typed
      <3>2. reply \in RateReplies /\ reply \in {"now", "late", "never", "direct"}
        <4>1. reply \in RateReplies
          BY <2>1, <2>3
        <4>2. RateReplies \subseteq {"now", "late", "never", "direct", "refused"}
          BY DEF CoreAudioAssumption, Typed, HistRecord, Plan, RateReplies
        <4> QED BY <2>3, <4>1, <4>2
      <3>3. out.rate \in Rates
        BY DEF Typed, OutRecord
      <3>4. /\ hw' \in HwRecord /\ SameHw
            /\ \/ hw'.rate = out.rate /\ hw'.pending = None
               \/ hw'.rate = hw.rate /\ hw'.pending = None
               \/ hw'.rate = hw.rate /\ hw'.pending = out.rate /\ reply = "late"
        <4>1. hw' = RateSet(reply, out.rate)
          BY <2>1, <2>3
        <4>2. CASE reply = "now"
          <5>1. hw' = [hw EXCEPT !.rate = out.rate, !.pending = None]
            BY <4>1, <4>2 DEF RateSet
          <5> QED BY <3>3, <5>1 DEF Typed, HwRecord, SameHw
        <4>3. CASE reply = "late"
          <5>1. hw' = [hw EXCEPT !.pending = out.rate]
            BY <4>1, <4>3 DEF RateSet
          <5> QED BY <3>3, <4>3, <5>1 DEF Typed, HwRecord, SameHw
        <4>4. CASE reply \in {"never", "direct"}
          <5>1. hw' = [hw EXCEPT !.pending = None]
            BY <4>1, <4>4 DEF RateSet
          <5> QED BY <5>1 DEF Typed, HwRecord, SameHw
        <4> QED BY <3>2, <4>2, <4>3, <4>4
      <3>5. reply = "late" => ~Prompt
        BY <3>2 DEF Prompt
      <3>6. PICK c \in SomeChanged :
              /\ c = IF saved.rate # out.rate THEN saved.changed \cup {"rate"} ELSE saved.changed
              /\ saved' = [saved EXCEPT !.changed = c]
        <4>1. saved.changed \in SomeChanged
          BY DEF Typed, SavedRecord
        <4>2. saved.changed \cup {"rate"} \in SomeChanged
          BY <4>1, ChangedMore
        <4> QED BY <2>1, <2>3, <4>1, <4>2
      <3>7. saved' \in SavedRecord /\ SameSaved /\ saved'.changed = c
        BY <3>6 DEF Typed, SavedRecord, SameSaved
      <3>8. Typed'
        BY <1>1, <3>1, <3>4, <3>7 DEF Typed, Ceiling, MaxFailures, SameSaved
      <3> QED BY <1>1, <3>1, <3>4, <3>5, <3>6, <3>7, <3>8
    <2> QED BY <2>2, <2>3
  <1> QED BY <1>2, <1>3

LEMMA OpenSettleIs ==
  ASSUME CoreAudioAssumption, Typed, OpenSettle
  PROVE  /\ Typed' /\ ctl.pc = "settle" /\ SameHw /\ SameMode /\ ctl'.found = ctl.found
         /\ ca'.device = ca.device /\ ca'.unit = ca.unit /\ ca'.hogged = ca.hogged
         /\ ca'.listening = ca.listening /\ hw'.pending = hw.pending
         /\ \/ ctl'.pc = "unit" /\ Alive /\ hw'.rate = out.rate /\ ca'.rate = out.rate
            \/ /\ ctl'.pc = "stop" /\ ctl'.then = "again" /\ ctl'.refused /\ ~(Alive /\ hw.rate = out.rate)
               /\ ca' = ca /\ hw' = hw
         /\ UNCHANGED <<out, saved, mon, hist>>
  <1>1. ctl.pc = "settle" /\ UNCHANGED <<out, saved, mon, hist>>
    BY DEF OpenSettle
  <1>2. CASE /\ Alive /\ hw' = [hw EXCEPT !.rate = out.rate] /\ ca' = [ca EXCEPT !.rate = out.rate]
             /\ Goto("unit")
    <2>1. ctl' \in CtlRecord /\ ctl'.pc = "unit" /\ ctl'.found = ctl.found
      BY <1>2, GotoIs, PcNames DEF Typed
    <2>2. out.rate \in Rates /\ out.rate \in Nat
      BY DEF Typed, OutRecord, CoreAudioAssumption
    <2>3. hw' \in HwRecord /\ SameHw /\ hw'.pending = hw.pending /\ hw'.rate = out.rate
      BY <1>2, <2>2 DEF Typed, HwRecord, SameHw
    <2>4. /\ ca' \in CaRecord /\ SameMode /\ SameTime /\ ca'.device = ca.device /\ ca'.unit = ca.unit
          /\ ca'.hogged = ca.hogged /\ ca'.listening = ca.listening /\ ca'.rate = out.rate
      BY <1>2, <2>2 DEF Typed, CaRecord, SameMode, SameTime
    <2>5. Typed'
      BY <1>1, <2>1, <2>3, <2>4 DEF Typed, Ceiling, MaxFailures, SameTime
    <2> QED BY <1>1, <1>2, <2>1, <2>3, <2>4, <2>5
  <1>3. CASE ~(Alive /\ hw.rate = out.rate) /\ Fail(TRUE) /\ ca' = ca /\ hw' = hw
    <2>1. ctl' \in CtlRecord /\ ctl'.pc = "stop" /\ ctl'.then = "again" /\ ctl'.found = ctl.found /\ ctl'.refused
      BY <1>3, FailIs DEF Typed
    <2>2. Typed'
      BY <1>1, <1>3, <2>1 DEF Typed, Ceiling, MaxFailures
    <2> QED BY <1>1, <1>3, <2>1, <2>2 DEF SameHw, SameMode
  <1> QED BY <1>2, <1>3 DEF OpenSettle

LEMMA OpenUnitIs ==
  ASSUME Typed, OpenUnit
  PROVE  /\ Typed' /\ ctl.pc = "unit" /\ SameMode /\ SameSaved /\ ctl'.found = ctl.found
         /\ ca'.device = ca.device /\ ca'.hogged = ca.hogged /\ ca'.rate = ca.rate /\ ca'.listening = ca.listening
         /\ hw' = IF Alive THEN [hw EXCEPT !.profile = TRUE] ELSE hw
         /\ saved'.changed = IF Alive /\ ~saved.profile THEN saved.changed \cup {"profile"} ELSE saved.changed
         /\ \/ ctl'.pc = "controls" /\ Alive
            \/ ctl'.pc = "stop" /\ ctl'.then = "again" /\ (UnitFails \/ ~Alive) /\ ca' = ca
         /\ UNCHANGED <<out, mon, hist>>
  <1>1. /\ ctl.pc = "unit" /\ UNCHANGED <<out, mon, hist>>
        /\ hw' = IF Alive THEN [hw EXCEPT !.profile = TRUE] ELSE hw
    BY DEF OpenUnit
  <1>2. hw' \in HwRecord
    BY <1>1 DEF Typed, HwRecord
  <1>3. PICK c \in SomeChanged :
           /\ c = IF Alive /\ ~saved.profile THEN saved.changed \cup {"profile"} ELSE saved.changed
           /\ saved' = [saved EXCEPT !.changed = c]
    <2>1. saved.changed \in SomeChanged
      BY DEF Typed, SavedRecord
    <2>2. saved.changed \cup {"profile"} \in SomeChanged
      BY <2>1, ChangedMore
    <2> QED BY <2>1, <2>2 DEF OpenUnit
  <1>4. saved' \in SavedRecord /\ SameSaved /\ saved'.changed = c
    BY <1>3 DEF Typed, SavedRecord, SameSaved
  <1>5. CASE Alive /\ Goto("controls") /\ ca' = [ca EXCEPT !.unit = "ready"]
    <2>1. ctl' \in CtlRecord /\ ctl'.pc = "controls" /\ ctl'.found = ctl.found
      BY <1>5, GotoIs, PcNames DEF Typed
    <2>2. /\ ca' \in CaRecord /\ SameMode /\ SameTime /\ ca'.device = ca.device
          /\ ca'.hogged = ca.hogged /\ ca'.rate = ca.rate /\ ca'.listening = ca.listening
      BY <1>5, Names DEF Typed, CaRecord, SameMode, SameTime
    <2>3. Typed'
      BY <1>1, <1>2, <1>4, <2>1, <2>2 DEF Typed, Ceiling, MaxFailures, SameTime, SameSaved
    <2> QED BY <1>1, <1>3, <1>4, <1>5, <2>1, <2>2, <2>3
  <1>6. CASE (UnitFails \/ ~Alive) /\ Fail(FALSE) /\ ca' = ca
    <2>1. ctl' \in CtlRecord /\ ctl'.pc = "stop" /\ ctl'.then = "again" /\ ctl'.found = ctl.found
      BY <1>6, FailIs DEF Typed
    <2>2. Typed'
      BY <1>1, <1>2, <1>4, <1>6, <2>1 DEF Typed, Ceiling, MaxFailures, SameSaved
    <2> QED BY <1>1, <1>3, <1>4, <1>6, <2>1, <2>2 DEF SameMode
  <1> QED BY <1>5, <1>6 DEF OpenUnit

LEMMA OpenControlsIs ==
  ASSUME Typed, OpenControls
  PROVE  /\ Typed' /\ ctl.pc = "controls" /\ SameMode /\ SameOpen /\ SameSaved /\ ctl'.found = ctl.found
         /\ hw' = IF Alive /\ ca.bitperfect THEN [hw EXCEPT !.unity = TRUE] ELSE hw
         /\ saved'.changed = IF Alive /\ ca.bitperfect /\ ~hw.unity /\ ~saved.unity
                             THEN saved.changed \cup {"unity"} ELSE saved.changed
         /\ \/ ctl'.pc = "start" /\ (ca.bitperfect => Alive /\ hw'.unity)
            \/ ctl'.pc = "stop" /\ ctl'.then = "again" /\ ~Alive
         /\ UNCHANGED <<out, mon, hist>>
  <1>1. /\ ctl.pc = "controls" /\ UNCHANGED <<out, mon, hist>>
        /\ hw' = IF Alive /\ ca.bitperfect THEN [hw EXCEPT !.unity = TRUE] ELSE hw
    BY DEF OpenControls
  <1>2. hw' \in HwRecord /\ (Alive /\ ca.bitperfect => hw'.unity)
    BY <1>1 DEF Typed, HwRecord
  <1>3. PICK c \in SomeChanged :
           /\ c = IF Alive /\ ca.bitperfect /\ ~hw.unity /\ ~saved.unity
                  THEN saved.changed \cup {"unity"} ELSE saved.changed
           /\ saved' = [saved EXCEPT !.changed = c]
    <2>1. saved.changed \in SomeChanged
      BY DEF Typed, SavedRecord
    <2>2. saved.changed \cup {"unity"} \in SomeChanged
      BY <2>1, ChangedMore
    <2> QED BY <2>1, <2>2 DEF OpenControls
  <1>4. saved' \in SavedRecord /\ SameSaved /\ saved'.changed = c
    BY <1>3 DEF Typed, SavedRecord, SameSaved
  <1>5. PICK v \in SomeVerified : ca' = [ca EXCEPT !.verified = v]
    <2>1. ca.verified \in SomeVerified
      BY DEF Typed, CaRecord
    <2>2. ca.verified \cup {"volume"} \in SomeVerified
      BY <2>1, VerifiedMore
    <2> QED BY <2>1, <2>2 DEF OpenControls
  <1>6. ca' \in CaRecord /\ SameMode /\ SameOpen /\ SameTime
    BY <1>5 DEF Typed, CaRecord, SameMode, SameOpen, SameTime
  <1>7. IF ca.bitperfect /\ ~(Alive /\ hw'.unity) THEN Fail(FALSE) ELSE Goto("start")
    BY DEF OpenControls
  <1>8. /\ ctl' \in CtlRecord /\ ctl'.found = ctl.found
        /\ \/ ctl'.pc = "start" /\ (ca.bitperfect => Alive /\ hw'.unity)
           \/ ctl'.pc = "stop" /\ ctl'.then = "again" /\ ~Alive
    <2>1. CASE ca.bitperfect /\ ~(Alive /\ hw'.unity)
      <3>1. ctl' \in CtlRecord /\ ctl'.pc = "stop" /\ ctl'.then = "again" /\ ctl'.found = ctl.found
        BY <1>7, <2>1, FailIs DEF Typed
      <3> QED BY <1>2, <2>1, <3>1
    <2>2. CASE ~(ca.bitperfect /\ ~(Alive /\ hw'.unity))
      <3>1. ctl' \in CtlRecord /\ ctl'.pc = "start" /\ ctl'.found = ctl.found
        BY <1>7, <2>2, GotoIs, PcNames DEF Typed
      <3> QED BY <2>2, <3>1
    <2> QED BY <2>1, <2>2
  <1>9. Typed'
    BY <1>1, <1>2, <1>4, <1>6, <1>8 DEF Typed, Ceiling, MaxFailures, SameTime, SameSaved
  <1> QED BY <1>1, <1>3, <1>4, <1>6, <1>8, <1>9

LEMMA OpenStartIs ==
  ASSUME Typed, OpenStart
  PROVE  /\ Typed' /\ ctl.pc = "start" /\ SameMode /\ ctl'.found = ctl.found
         /\ ca'.device = ca.device /\ ca'.hogged = ca.hogged /\ ca'.rate = ca.rate /\ ca'.listening = ca.listening
         /\ \/ ctl'.pc = "physical" /\ Alive
            \/ ctl'.pc = "stop" /\ ctl'.then = "again" /\ (UnitFails \/ ~Alive) /\ ca' = ca
         /\ UNCHANGED <<out, saved, mon, hw, hist>>
  <1>1. ctl.pc = "start" /\ UNCHANGED <<out, saved, mon, hw, hist>>
    BY DEF OpenStart
  <1>2. CASE Alive /\ Goto("physical") /\ ca' = [ca EXCEPT !.unit = "running"]
    <2>1. ctl' \in CtlRecord /\ ctl'.pc = "physical" /\ ctl'.found = ctl.found
      BY <1>2, GotoIs, PcNames DEF Typed
    <2>2. /\ ca' \in CaRecord /\ SameMode /\ SameTime /\ ca'.device = ca.device
          /\ ca'.hogged = ca.hogged /\ ca'.rate = ca.rate /\ ca'.listening = ca.listening
      BY <1>2, Names DEF Typed, CaRecord, SameMode, SameTime
    <2>3. Typed'
      BY <1>1, <2>1, <2>2 DEF Typed, Ceiling, MaxFailures, SameTime
    <2> QED BY <1>1, <1>2, <2>1, <2>2, <2>3
  <1>3. CASE (UnitFails \/ ~Alive) /\ Fail(FALSE) /\ ca' = ca
    <2>1. ctl' \in CtlRecord /\ ctl'.pc = "stop" /\ ctl'.then = "again" /\ ctl'.found = ctl.found
      BY <1>3, FailIs DEF Typed
    <2>2. Typed'
      BY <1>1, <1>3, <2>1 DEF Typed, Ceiling, MaxFailures
    <2> QED BY <1>1, <1>3, <2>1, <2>2 DEF SameMode
  <1> QED BY <1>2, <1>3 DEF OpenStart

LEMMA OpenPhysicalIs ==
  ASSUME Typed, OpenPhysical
  PROVE  /\ Typed' /\ ctl.pc = "physical" /\ SameMode /\ SameOpen /\ ctl'.found = ctl.found
         /\ \/ ctl'.pc = "listen" /\ (ca.bitperfect => hw.integer)
            \/ /\ ctl'.pc = "stop" /\ ctl'.then = "again"
               /\ ~(Alive /\ hw.rate = out.rate /\ (ca.bitperfect => hw.integer))
         /\ UNCHANGED <<out, saved, mon, hw, hist>>
  <1>1. ctl.pc = "physical" /\ UNCHANGED <<out, saved, mon, hw, hist>>
    BY DEF OpenPhysical
  <1> DEFINE fits == Alive /\ hw.rate = out.rate /\ (ca.bitperfect => hw.integer)
  <1>2. CASE fits
    <2>1. Goto("listen") /\ ca' = [ca EXCEPT !.verified = ca.verified \cup {"physical"}]
      BY <1>2 DEF OpenPhysical
    <2>2. ctl' \in CtlRecord /\ ctl'.pc = "listen" /\ ctl'.found = ctl.found
      BY <2>1, GotoIs, PcNames DEF Typed
    <2>3. PICK v \in SomeVerified : ca' = [ca EXCEPT !.verified = v]
      <3>1. ca.verified \in SomeVerified
        BY DEF Typed, CaRecord
      <3> QED BY <2>1, <3>1, VerifiedMore
    <2>4. ca' \in CaRecord /\ SameMode /\ SameOpen /\ SameTime
      BY <2>3 DEF Typed, CaRecord, SameMode, SameOpen, SameTime
    <2>5. Typed'
      BY <1>1, <2>2, <2>4 DEF Typed, Ceiling, MaxFailures, SameTime
    <2> QED BY <1>1, <1>2, <2>2, <2>4, <2>5
  <1>3. CASE ~fits
    <2>1. Fail(FALSE) /\ ca' = ca
      BY <1>3 DEF OpenPhysical
    <2>2. ctl' \in CtlRecord /\ ctl'.pc = "stop" /\ ctl'.then = "again" /\ ctl'.found = ctl.found
      BY <2>1, FailIs DEF Typed
    <2>3. Typed'
      BY <1>1, <2>1, <2>2 DEF Typed, Ceiling, MaxFailures
    <2> QED BY <1>1, <1>3, <2>1, <2>2, <2>3 DEF SameMode, SameOpen
  <1> QED BY <1>2, <1>3

LEMMA OpenListenIs ==
  ASSUME Typed, OpenListen
  PROVE  /\ Typed' /\ ctl.pc = "listen" /\ ctl'.pc = "opened" /\ SameMode /\ SameTries
         /\ ca'.device = ca.device /\ ca'.unit = ca.unit /\ ca'.hogged = ca.hogged /\ ca'.rate = ca.rate
         /\ UNCHANGED <<out, saved, mon, hw, hist>>
  <1>1. ctl.pc = "listen" /\ UNCHANGED <<out, saved, mon, hw, hist>>
    BY DEF OpenListen
  <1>2. ctl' \in CtlRecord /\ ctl'.pc = "opened" /\ SameTries
    BY GotoIs, PcNames DEF Typed, OpenListen, SameTries
  <1>3. /\ ca' \in CaRecord /\ SameMode /\ SameTime /\ ca'.device = ca.device /\ ca'.unit = ca.unit
        /\ ca'.hogged = ca.hogged /\ ca'.rate = ca.rate
    BY DEF OpenListen, Typed, CaRecord, SameMode, SameTime
  <1>4. Typed'
    BY <1>1, <1>2, <1>3 DEF Typed, Ceiling, MaxFailures, SameTime
  <1> QED BY <1>1, <1>2, <1>3, <1>4

LEMMA OpenAgainIs ==
  ASSUME Typed, OpenAgain
  PROVE  /\ Typed' /\ ctl.pc = "again" /\ SameTries /\ SameOpen /\ ca'.asked = ca.asked
         /\ out'.rate = out.rate /\ out'.next = out.next
         /\ \/ /\ ctl'.pc = "find" /\ ctl.found /\ ~ctl.refused
               /\ ca'.fallback /\ ~ca'.exclusive /\ ~ca'.bitperfect
            \/ ctl'.pc = "count" /\ SameMode
         /\ UNCHANGED <<saved, mon, hw, hist>>
  <1>1. ctl.pc = "again" /\ UNCHANGED <<saved, mon, hw, hist>>
    BY DEF OpenAgain
  <1>2. CASE MayFallBack
    <2>1. /\ ca' = [ca EXCEPT !.fallback = TRUE, !.exclusive = FALSE, !.bitperfect = FALSE]
          /\ Goto("find") /\ out' = out
      BY <1>2 DEF OpenAgain
    <2>2. ctl' \in CtlRecord /\ ctl'.pc = "find" /\ SameTries
      BY <2>1, GotoIs, PcNames DEF Typed, SameTries
    <2>3. /\ ca' \in CaRecord /\ SameOpen /\ SameTime /\ ca'.asked = ca.asked
          /\ ca'.fallback /\ ~ca'.exclusive /\ ~ca'.bitperfect
      BY <2>1 DEF Typed, CaRecord, SameOpen, SameTime
    <2>4. Typed'
      BY <1>1, <2>1, <2>2, <2>3 DEF Typed, Ceiling, MaxFailures, SameTime
    <2> QED BY <1>1, <1>2, <2>1, <2>2, <2>3, <2>4 DEF MayFallBack
  <1>3. CASE ~MayFallBack
    <2>1. /\ out' = [out EXCEPT !.error = TRUE] /\ ca' = [ca EXCEPT !.verified = {}]
          /\ Goto("count")
      BY <1>3 DEF OpenAgain
    <2>2. ctl' \in CtlRecord /\ ctl'.pc = "count" /\ SameTries
      BY <2>1, GotoIs, PcNames DEF Typed, SameTries
    <2>3. out' \in OutRecord /\ out'.rate = out.rate /\ out'.next = out.next
      BY <2>1 DEF Typed, OutRecord
    <2>4. ca' \in CaRecord /\ SameOpen /\ SameTime /\ SameMode
      BY <2>1, EmptySets DEF Typed, CaRecord, SameOpen, SameTime, SameMode
    <2>5. Typed'
      BY <1>1, <2>2, <2>3, <2>4 DEF Typed, Ceiling, MaxFailures, SameTime
    <2> QED BY <1>1, <2>2, <2>3, <2>4, <2>5 DEF SameMode
  <1> QED BY <1>2, <1>3
-----------------------------------------------------------------------------
(* Steps that leave the device, and what is known of it, as they are.       *)

SameHist == /\ hist'.plan = hist.plan /\ hist'.due = hist.due /\ hist'.changes = hist.changes
            /\ hist'.disturbed = hist.disturbed /\ hist'.again = hist.again

\* Only an output at rest, or one whose open is over, is disposed of or comes to rest.
Stays ==
    /\ SameMode /\ SameOpen /\ saved' = saved /\ hw' = hw /\ SameHist
    /\ out'.next \in {out.next, None} \cup TrackRates
    /\ \/ out'.rate = out.rate
       \/ ctl.pc # "settle" /\ out'.rate = DefaultRate
       \/ ctl.pc # "settle" /\ out'.rate = out.next /\ out.next # None
    /\ \/ ctl'.pc = ctl.pc /\ SameTries
       \/ /\ ctl.pc \in Resting \cup {"opened", "count"}
          /\ ctl'.pc \in Resting \/ (ctl'.pc = "stop" /\ ctl'.then # "again")

LEMMA AtRestIs ==
  ASSUME NEW o \in OutRecord, NEW x \in AtRest(o)
  PROVE  x \in OutRecord /\ x.rate = o.rate /\ x.next = o.next
  <1>1. PICK s \in States : x = o \/ x = [o EXCEPT !.state = s]
    BY Names DEF AtRest
  <1> QED BY <1>1 DEF OutRecord

LEMMA OpenDoneStays ==
  ASSUME CoreAudioAssumption, Typed, OpenDone
  PROVE  Typed' /\ Stays
  <1>1. ctl.pc = "opened" /\ UNCHANGED <<saved, mon, hw, hist>>
    BY DEF OpenDone
  <1>2. out' \in OutRecord /\ out'.rate = out.rate /\ out'.next = out.next
    BY DEF OpenDone, Typed, OutRecord
  <1>3. ca' \in CaRecord /\ SameMode /\ SameOpen /\ ca'.failures = 0 /\ ca'.age = ca.age
    BY DEF OpenDone, Typed, CaRecord, SameMode, SameOpen
  <1>4. ctl' \in CtlRecord /\ ctl'.pc = "rest"
    BY GotoIs, PcNames DEF Typed, OpenDone
  <1>5. Typed'
    BY <1>1, <1>2, <1>3, <1>4, PlanIs DEF Typed, Ceiling, MaxFailures
  <1> QED BY <1>1, <1>2, <1>3, <1>4, <1>5 DEF Stays, SameHist, Resting

LEMMA OpenCountStays ==
  ASSUME CoreAudioAssumption, Typed, OpenCount
  PROVE  Typed' /\ Stays
  <1>1. ctl.pc = "count" /\ UNCHANGED <<out, saved, mon, hw, hist>>
    BY DEF OpenCount
  <1>2. PICK f \in Nat : f <= MaxFailures /\ ca' = [ca EXCEPT !.failures = f, !.age = 0]
    <2>1. ca.failures \in Nat /\ ca.failures <= MaxFailures /\ MaxFailures \in Nat
      BY PlanIs DEF Typed, CaRecord
    <2>2. ca' = [ca EXCEPT !.failures = IF ca.failures < MaxFailures THEN ca.failures + 1 ELSE ca.failures,
                           !.age = 0]
      BY DEF OpenCount
    <2>3. CASE ca.failures < MaxFailures
      <3>1. ca.failures + 1 \in Nat /\ ca.failures + 1 <= MaxFailures
        BY <2>1, <2>3
      <3> QED BY <2>2, <2>3, <3>1
    <2>4. CASE ~(ca.failures < MaxFailures)
      BY <2>1, <2>2, <2>4
    <2> QED BY <2>3, <2>4
  <1>3. ca' \in CaRecord /\ SameMode /\ SameOpen /\ ca'.failures = f /\ ca'.age = 0
    BY <1>2 DEF Typed, CaRecord, SameMode, SameOpen
  <1>4. ctl' \in CtlRecord /\ ctl'.pc = "rest"
    BY GotoIs, PcNames DEF Typed, OpenCount
  <1>5. Typed'
    BY <1>1, <1>2, <1>3, <1>4, PlanIs DEF Typed, Ceiling, MaxFailures
  <1> QED BY <1>1, <1>3, <1>4, <1>5 DEF Stays, SameHist, Resting

LEMMA PassStays ==
  ASSUME Typed, Pass
  PROVE  Typed' /\ Stays
  <1>1. ctl.pc = "idle" /\ UNCHANGED <<ca, saved, mon, hw, hist>>
    BY DEF Pass
  <1> DEFINE starts == ctl.start /\ out.state \in {"STOPPED", "OFF"}
             o == [out EXCEPT !.state = IF starts THEN "BUFFER" ELSE out.state,
                              !.reopen = out.reopen \/ (starts /\ out.state = "OFF")]
             wasOff == starts /\ out.state = "OFF"
  <1>2. IF o.reopen
        THEN /\ out' = [o EXCEPT !.reopen = FALSE]
             /\ ctl' = [ctl EXCEPT !.pc = "stop", !.then = "mode", !.start = FALSE, !.wasOff = wasOff]
        ELSE /\ out' \in AtRest(o)
             /\ ctl' = [ctl EXCEPT !.start = FALSE, !.wasOff = FALSE]
    BY DEF Pass
  <1>3. o \in OutRecord /\ o.rate = out.rate /\ o.next = out.next
    <2>1. PICK s \in States, b \in BOOLEAN : o = [out EXCEPT !.state = s, !.reopen = b]
      BY Names DEF Typed, OutRecord
    <2> HIDE DEF o
    <2> QED BY <2>1 DEF Typed, OutRecord
  <1>4. wasOff \in BOOLEAN
    OBVIOUS
  <1> HIDE DEF o, wasOff
  <1>5. CASE o.reopen
    <2>1. out' \in OutRecord /\ out'.rate = out.rate /\ out'.next = out.next
      BY <1>2, <1>3, <1>5 DEF OutRecord
    <2>2. ctl' \in CtlRecord /\ ctl'.pc = "stop" /\ ctl'.then = "mode"
      BY <1>2, <1>4, <1>5, Names, PcNames DEF Typed, CtlRecord
    <2>3. Typed'
      BY <1>1, <2>1, <2>2 DEF Typed, Ceiling, MaxFailures
    <2> QED BY <1>1, <2>1, <2>2, <2>3 DEF Stays, SameHist, SameMode, SameOpen, Resting
  <1>6. CASE ~o.reopen
    <2>1. out' \in OutRecord /\ out'.rate = out.rate /\ out'.next = out.next
      BY <1>2, <1>3, <1>6, AtRestIs
    <2>2. ctl' \in CtlRecord /\ ctl'.pc = ctl.pc /\ SameTries
      BY <1>2, <1>6 DEF Typed, CtlRecord, SameTries
    <2>3. Typed'
      BY <1>1, <2>1, <2>2 DEF Typed, Ceiling, MaxFailures
    <2> QED BY <1>1, <2>1, <2>2, <2>3 DEF Stays, SameHist, SameMode, SameOpen
  <1> QED BY <1>5, <1>6

LEMMA PassRestStays ==
  ASSUME Typed, PassRest
  PROVE  Typed' /\ Stays
  <1>1. ctl.pc = "rest" /\ UNCHANGED <<ca, saved, mon, hw, hist>>
    BY DEF PassRest
  <1>2. out' \in OutRecord /\ out'.rate = out.rate /\ out'.next = out.next
    BY AtRestIs DEF PassRest, Typed
  <1>3. ctl' \in CtlRecord /\ ctl'.pc = "idle"
    BY PcNames DEF PassRest, Typed, CtlRecord
  <1>4. Typed'
    BY <1>1, <1>2, <1>3 DEF Typed, Ceiling, MaxFailures
  <1> QED BY <1>1, <1>2, <1>3, <1>4 DEF Stays, SameHist, SameMode, SameOpen, Resting

LEMMA StrmSStays ==
  ASSUME CoreAudioAssumption, Typed, StrmS
  PROVE  Typed' /\ Stays
  <1>1. ctl.pc = "idle" /\ UNCHANGED <<ca, saved, mon, hw>>
    BY DEF StrmS
  <1>2. PICK r \in Rates, auto \in BOOLEAN : /\ r \in TrackRates
                                             /\ out' = [out EXCEPT !.next = r]
                                             /\ ctl' = [ctl EXCEPT !.start = auto]
    BY PlanIs DEF StrmS
  <1>3. out' \in OutRecord /\ out'.rate = out.rate /\ out'.next = r
    BY <1>2 DEF Typed, OutRecord
  <1>4. ctl' \in CtlRecord /\ ctl'.pc = ctl.pc /\ SameTries
    BY <1>2 DEF Typed, CtlRecord, SameTries
  <1>5. hist' \in HistRecord /\ SameHist
    <2>1. hist.tracks + 1 \in Nat
      BY DEF Typed, HistRecord
    <2> QED BY <2>1 DEF StrmS, Typed, HistRecord, SameHist
  <1>6. Typed'
    BY <1>1, <1>3, <1>4, <1>5 DEF Typed, Ceiling, MaxFailures, SameHist
  <1> QED BY <1>1, <1>2, <1>3, <1>4, <1>5, <1>6 DEF Stays, SameMode, SameOpen

LEMMA SetsStays ==
  ASSUME Typed, NEW s \in States, NEW c, Sets(c, [out EXCEPT !.state = s])
  PROVE  Typed' /\ Stays
  <1>1. out' = [out EXCEPT !.state = s] /\ UNCHANGED <<ca, saved, ctl, mon, hw, hist>>
    BY DEF Sets
  <1>2. out' \in OutRecord /\ out'.rate = out.rate /\ out'.next = out.next
    BY <1>1 DEF Typed, OutRecord
  <1>3. Typed'
    BY <1>1, <1>2 DEF Typed, Ceiling, MaxFailures
  <1> QED BY <1>1, <1>2, <1>3 DEF Stays, SameHist, SameMode, SameOpen, SameTries

LEMMA CommandStays ==
  ASSUME Typed, StrmU \/ StrmP \/ AudeOff \/ AudeOn
  PROVE  Typed' /\ Stays
  <1>1. PICK c \in {"u", "p", "aude"}, s \in States : Sets(c, [out EXCEPT !.state = s])
    BY Names DEF StrmU, StrmP, AudeOff, AudeOn, Typed, OutRecord
  <1> QED BY <1>1, SetsStays

LEMMA StrmQStays ==
  ASSUME CoreAudioAssumption, Typed, StrmQ
  PROVE  Typed' /\ Stays
  <1>1. ctl.pc = "idle" /\ UNCHANGED <<ca, saved, mon, hw, hist>>
    BY DEF StrmQ
  <1>2. PICK s \in States, r \in {out.rate, DefaultRate} :
           out' = [out EXCEPT !.next = None, !.state = s, !.rate = r]
    BY Names DEF StrmQ, Typed, OutRecord
  <1>3. out' \in OutRecord /\ out'.rate = r /\ out'.next = None
    BY <1>2, PlanIs DEF Typed, OutRecord
  <1>4. ctl' \in CtlRecord /\ ctl'.pc = ctl.pc /\ SameTries
    BY DEF StrmQ, Typed, CtlRecord, SameTries
  <1>5. Typed'
    BY <1>1, <1>3, <1>4 DEF Typed, Ceiling, MaxFailures
  <1> QED BY <1>1, <1>3, <1>4, <1>5 DEF Stays, SameHist, SameMode, SameOpen

LEMMA CloseStays ==
  ASSUME Typed, Close \/ Join
  PROVE  Typed' /\ Stays
  <1>1. ctl.pc \in Resting /\ UNCHANGED <<out, ca, saved, mon, hw, hist>>
    BY DEF Close, Join, Resting
  <1>2. ctl' \in CtlRecord /\ (ctl'.pc = "join" \/ (ctl'.pc = "stop" /\ ctl'.then # "again"))
    BY Names, PcNames DEF Close, Join, Typed, CtlRecord
  <1>3. Typed'
    BY <1>1, <1>2 DEF Typed, Ceiling, MaxFailures
  <1> QED BY <1>1, <1>2, <1>3 DEF Stays, SameHist, SameMode, SameOpen, Resting

LEMMA RenderStays ==
  ASSUME Typed, DeviceInv, Render
  PROVE  Typed' /\ Stays
  <1>1. ctl.pc # "settle" /\ UNCHANGED <<ca, saved, ctl, mon, hw, hist>>
    BY DEF Render, DeviceInv, Sounding, Resting
  <1>2. PICK b \in BOOLEAN : \/ out' = [out EXCEPT !.reopen = b]
                             \/ /\ out.next # None
                                /\ out' = [out EXCEPT !.state = "RUNNING", !.rate = out.next, !.next = None,
                                                      !.reopen = b]
    <2> DEFINE plays == out.state \in {"BUFFER", "RUNNING"} /\ out.next # None
               o == IF plays THEN [out EXCEPT !.state = "RUNNING", !.rate = out.next, !.next = None] ELSE out
               again == o.reopen \/ o.state = "OFF" \/ ca.rate # o.rate
    <2>1. out' = [o EXCEPT !.reopen = again]
      BY DEF Render
    <2>2. again \in BOOLEAN
      OBVIOUS
    <2> HIDE DEF again
    <2> QED BY <2>1, <2>2 DEF Typed, OutRecord
  <1>3. /\ out' \in OutRecord
        /\ \/ out'.rate = out.rate /\ out'.next = out.next
           \/ out'.rate = out.next /\ out.next # None /\ out'.next = None
    BY <1>2, Names DEF Typed, OutRecord
  <1>4. Typed'
    BY <1>1, <1>3 DEF Typed, Ceiling, MaxFailures
  <1> QED BY <1>1, <1>3, <1>4 DEF Stays, SameHist, SameMode, SameOpen, SameTries

LEMMA MonitorStays ==
  ASSUME CoreAudioAssumption, Typed, Monitor
  PROVE  Typed' /\ Stays
  <1>1. CASE MonitorRead
    <2>1. UNCHANGED <<out, saved, ctl, hw, hist>>
      BY <1>1 DEF MonitorRead
    <2>2. mon' \in MonRecord
      BY <1>1, Names DEF MonitorRead, Typed, MonRecord, CaRecord, OutRecord
    <2>3. ca' \in CaRecord /\ SameMode /\ SameOpen /\ SameTime
      BY <1>1 DEF MonitorRead, Typed, CaRecord, SameMode, SameOpen, SameTime
    <2>4. Typed'
      BY <2>1, <2>2, <2>3 DEF Typed, Ceiling, MaxFailures, SameTime
    <2> QED BY <2>1, <2>3, <2>4 DEF Stays, SameHist, SameTries
  <1>2. CASE MonitorAct
    <2>1. UNCHANGED <<saved, ctl, hw, hist>>
      BY <1>2 DEF MonitorAct
    <2>2. mon' \in MonRecord
      BY <1>2, Names DEF MonitorAct, Typed, MonRecord
    <2>3. PICK f \in {0, ca.failures} : ca' = [ca EXCEPT !.failures = f]
      BY <1>2 DEF MonitorAct
    <2>4. ca' \in CaRecord /\ SameMode /\ SameOpen /\ ca'.failures = f /\ ca'.age = ca.age
      BY <2>3 DEF Typed, CaRecord, SameMode, SameOpen
    <2>5. PICK b \in BOOLEAN : out' = [out EXCEPT !.reopen = b]
      BY <1>2 DEF MonitorAct
    <2>6. out' \in OutRecord /\ out'.rate = out.rate /\ out'.next = out.next
      BY <2>5 DEF Typed, OutRecord
    <2>7. Typed'
      BY <2>1, <2>2, <2>4, <2>6, PlanIs DEF Typed, Ceiling, MaxFailures
    <2> QED BY <2>1, <2>4, <2>6, <2>7 DEF Stays, SameHist, SameTries
  <1> QED BY <1>1, <1>2 DEF Monitor

LEMMA TickStays ==
  ASSUME CoreAudioAssumption, Typed, Tick
  PROVE  Typed' /\ Stays
  <1>1. UNCHANGED <<out, saved, ctl, mon, hw, hist>>
    BY DEF Tick
  <1>2. ca.age + 1 \in Nat /\ ca.age + 1 <= Ceiling
    BY PlanIs DEF Tick, Typed, CaRecord
  <1>3. ca' \in CaRecord /\ SameMode /\ SameOpen /\ ca'.failures = ca.failures /\ ca'.age = ca.age + 1
    BY <1>2 DEF Tick, Typed, CaRecord, SameMode, SameOpen
  <1>4. Typed'
    BY <1>1, <1>2, <1>3 DEF Typed, Ceiling, MaxFailures
  <1> QED BY <1>1, <1>3, <1>4 DEF Stays, SameHist, SameTries

LEMMA StaysKeeps ==
  ASSUME CoreAudioAssumption, Inv, Typed', Stays
  PROVE  Inv'
  <1>1. DeviceInv'
    <2>1. Alive' <=> Alive
      BY DEF Stays, SameOpen, Alive
    <2> QED BY <2>1 DEF Inv, DeviceInv, Stays, SameOpen, Without, Setup, Sounding, Resting, None
  <1> USE DEF SameHist
  <1>2. SavedInv'
    <2>1. (Prompt' <=> Prompt) /\ (Alive' <=> Alive)
      BY PlanSame DEF Stays, SameOpen, SamePlan, Alive
    <2>2. UnityBack' = UnityBack /\ ProfileBack' = ProfileBack /\ RateBack' = RateBack
      BY <2>1 DEF Stays, SameOpen, UnityBack, ProfileBack, RateBack
    <2>3. ctl.pc = "settle" => ctl'.pc = "settle" /\ out'.rate = out.rate
      BY DEF Stays, Resting
    <2>4. ctl'.pc \in Untouched => ctl'.pc = ctl.pc
      BY DEF Stays, Untouched, Resting
    <2>5. Traced => Traced'
      <3>1. ctl'.pc = "settle" => ctl.pc = "settle"
        BY <2>4 DEF Untouched
      <3>2. ctl'.pc \in {"hog", "rate"} => ctl'.pc = ctl.pc
        BY <2>4 DEF Untouched
      <3> QED BY <2>1, <2>2, <2>3, <2>4, <3>1, <3>2 DEF Traced, Settling, Stays
    <2> QED BY <2>1, <2>5 DEF Inv, SavedInv, Stays
  <1>3. ModeInv'
    <2>1. (Prompt' <=> Prompt) /\ (Alive' <=> Alive)
      BY PlanSame DEF Stays, SameOpen, SamePlan, Alive
    <2>2. ca.device # None =>
             /\ ctl'.pc \in {"rate", "settle"} \cup Rated => ctl.pc \in {"rate", "settle"} \cup Rated
             /\ ctl'.pc \in Rated => ctl.pc \in Rated
             /\ ctl'.pc \in Controlled => ctl.pc \in Controlled
             /\ ctl'.pc \in Verified => ctl.pc \in Verified
      <3>1. ctl.pc = "count" => ca.device = None
        BY DEF Inv, DeviceInv, Without
      <3> QED BY <3>1 DEF Stays, Rated, Controlled, Verified, Resting
    <2> QED BY <2>1, <2>2 DEF Inv, ModeInv, Stays, SameMode, SameOpen
  <1>4. FallbackInv'
    <2>1. TrackRates' = TrackRates /\ UnitFails' = UnitFails /\ (Alive' <=> Alive)
      BY PlanSame DEF Stays, SameOpen, SamePlan, Alive
    <2>2. ca.device # None /\ ctl'.pc \in Rated => ctl.pc \in Rated
      <3>1. ctl.pc = "count" => ca.device = None
        BY DEF Inv, DeviceInv, Without
      <3> QED BY <3>1 DEF Stays, Rated, Resting
    <2>3. TrackRates \subseteq {DefaultRate} /\ OneRate => OneRate'
      BY <2>2 DEF OneRate, Stays, SameOpen
    <2>4. ctl'.pc = "find" => ctl.pc = "find" /\ SameTries
      BY DEF Stays, Resting
    <2>5. Failing' => Failing /\ SameTries
      BY DEF Stays, Failing, Resting, SameTries
    <2>6. (Forced' <=> Forced) /\ (Calm' <=> Calm)
      BY <2>1 DEF Forced, Calm, Stays, SameMode
    <2> QED BY <2>1, <2>3, <2>4, <2>5, <2>6 DEF Inv, FallbackInv, Stays, SameMode, SameOpen, SameTries
  <1> QED BY <1>1, <1>2, <1>3, <1>4 DEF Inv
-----------------------------------------------------------------------------
(* The steps of an open.                                                    *)

LEMMA DisposeUnitKeeps ==
  ASSUME CoreAudioAssumption, Inv, DisposeUnit
  PROVE  Inv'
  <1>1. /\ Typed' /\ ctl.pc = "stop" /\ ctl'.pc = "restore" /\ SameTries /\ SameMode
        /\ ca'.device = ca.device /\ ca'.hogged = ca.hogged /\ ca'.rate = ca.rate
        /\ ca'.unit = "none" /\ ~ca'.listening
        /\ UNCHANGED <<out, saved, mon, hw, hist>>
    BY DisposeUnitIs DEF Inv
  <1>p. (Prompt' <=> Prompt) /\ (Alive' <=> Alive) /\ TrackRates' = TrackRates /\ UnitFails' = UnitFails
    BY <1>1, PlanSame DEF SamePlan, Alive
  <1>2. DeviceInv'
    BY <1>1, <1>p DEF Inv, DeviceInv, Without, Setup
  <1>3. SavedInv'
    <2>1. UnityBack' = UnityBack /\ ProfileBack' = ProfileBack /\ RateBack' = RateBack
      BY <1>1, <1>p DEF UnityBack, ProfileBack, RateBack
    <2>2. Traced => Traced'
      BY <1>1, <1>p, <2>1 DEF Traced, Untouched
    <2> QED BY <1>1, <1>p, <2>2 DEF Inv, SavedInv
  <1>4. ModeInv'
    <2>1. ctl'.pc \notin {"rate", "settle"} \cup Rated /\ ctl'.pc \notin Controlled /\ ctl'.pc \notin Verified
          /\ ctl'.pc \notin Rated
      BY <1>1 DEF Rated, Controlled, Verified, Resting
    <2> QED BY <1>1, <1>p, <2>1 DEF Inv, ModeInv, SameMode
  <1>5. FallbackInv'
    <2>1. ctl'.pc \notin Rated /\ ctl'.pc # "find" /\ (Failing' => Failing)
      BY <1>1 DEF Rated, Resting, Failing, SameTries
    <2>2. (Forced' <=> Forced) /\ (Calm' <=> Calm)
      BY <1>1, <1>p DEF Forced, Calm, SameMode
    <2>3. OneRate => OneRate'
      BY <1>1, <2>1 DEF OneRate
    <2> QED BY <1>1, <1>p, <2>1, <2>2, <2>3 DEF Inv, FallbackInv, SameMode, SameTries
  <1> QED BY <1>1, <1>2, <1>3, <1>4, <1>5 DEF Inv

LEMMA DisposeDeviceKeeps ==
  ASSUME CoreAudioAssumption, Inv, DisposeDevice
  PROVE  Inv'
  <1>1. /\ Typed' /\ ctl.pc = "restore" /\ ctl'.pc = ctl.then /\ SameTries /\ SameMode
        /\ ca'.device = None /\ ~ca'.hogged /\ ca'.unit = ca.unit /\ ca'.listening = ca.listening
        /\ saved'.device = None
        /\ hw'.owner = IF ca.hogged /\ Alive /\ hw.owner = "us" THEN "none" ELSE hw.owner
        /\ hw'.unity = UnityBack /\ hw'.profile = ProfileBack /\ hw'.rate = RateBack
        /\ hw'.id = hw.id /\ hw'.present = hw.present /\ hw'.integer = hw.integer /\ hw'.pending = hw.pending
        /\ UNCHANGED <<out, mon, hist>>
    BY DisposeDeviceIs DEF Inv
  <1>2. ctl'.pc \in {"mode", "again", "closed"} /\ hw'.id \in Nat \ {0}
    BY <1>1 DEF Inv, Typed, CtlRecord, Thens, HwRecord
  <1>3. ~Alive' /\ hw'.owner # "us"
    BY <1>1, <1>2 DEF Alive, Inv, DeviceInv, None
  <1>p. (Prompt' <=> Prompt) /\ TrackRates' = TrackRates /\ UnitFails' = UnitFails
    BY <1>1, PlanSame DEF SamePlan
  <1>4. DeviceInv'
    BY <1>1, <1>2, <1>3 DEF Inv, DeviceInv, Without, Setup, None
  <1>5. SavedInv'
    <2>1. Traced => Traced'
      BY <1>1, <1>2, <1>3 DEF Traced, Untouched, UnityBack, ProfileBack, RateBack
    <2> QED BY <1>1, <1>p, <2>1 DEF Inv, SavedInv
  <1>6. ModeInv'
    BY <1>1 DEF Inv, ModeInv, SameMode
  <1>7. FallbackInv'
    <2>1. ctl'.pc # "find" /\ (Failing' => Failing)
      BY <1>1, <1>2 DEF Failing
    <2>2. (Forced' <=> Forced) /\ (Calm' <=> Calm)
      BY <1>1, <1>p DEF Forced, Calm, SameMode
    <2>3. OneRate => OneRate'
      BY <1>1 DEF OneRate
    <2> QED BY <1>1, <1>p, <2>1, <2>2, <2>3 DEF Inv, FallbackInv, SameMode, SameTries
  <1> QED BY <1>1, <1>4, <1>5, <1>6, <1>7 DEF Inv

LEMMA OpenModeKeeps ==
  ASSUME CoreAudioAssumption, Inv, OpenMode
  PROVE  Inv'
  <1>1. /\ Typed' /\ ctl.pc = "mode" /\ ctl'.pc \in {"rest", "find"} /\ ~ctl'.found /\ SameOpen
        /\ ca'.asked = ca.asked /\ ~ca'.fallback
        /\ (ca'.exclusive <=> "exclusive" \in ca.asked) /\ (ca'.bitperfect <=> "bitperfect" \in ca.asked)
        /\ UNCHANGED <<out, saved, mon, hw, hist>>
    BY OpenModeIs DEF Inv
  <1>2. ca.device = None /\ ca'.device = None /\ ca'.unit = "none"
    BY <1>1 DEF Inv, DeviceInv, Without, SameOpen
  <1>p. (Prompt' <=> Prompt) /\ (Alive' <=> Alive) /\ TrackRates' = TrackRates /\ UnitFails' = UnitFails
    BY <1>1, PlanSame DEF SamePlan, Alive, SameOpen
  <1>3. DeviceInv'
    BY <1>1, <1>2, <1>p DEF Inv, DeviceInv, Without, Setup, SameOpen
  <1>4. SavedInv'
    <2>1. ~Alive
      BY <1>2 DEF Alive, None, Inv, Typed, HwRecord
    <2>2. UnityBack' = UnityBack /\ ProfileBack' = ProfileBack /\ RateBack' = RateBack
      BY <1>1, <1>p, <2>1 DEF UnityBack, ProfileBack, RateBack
    <2>3. Traced => Traced'
      BY <1>1, <1>p, <2>1, <2>2 DEF Traced
    <2> QED BY <1>1, <1>p, <2>3 DEF Inv, SavedInv
  <1>5. ModeInv'
    BY <1>1, <1>2 DEF ModeInv
  <1>6. FallbackInv'
    <2>1. ~Failing'
      BY <1>1 DEF Failing
    <2>2. OneRate => OneRate'
      BY <1>1, <1>2 DEF OneRate
    <2> QED BY <1>1, <1>2, <1>p, <2>1, <2>2 DEF Inv, FallbackInv
  <1> QED BY <1>1, <1>3, <1>4, <1>5, <1>6 DEF Inv

LEMMA OpenFindKeeps ==
  ASSUME CoreAudioAssumption, Inv, OpenFind
  PROVE  Inv'
  <1>1. /\ Typed' /\ ctl.pc = "find" /\ SameMode
        /\ ca'.unit = ca.unit /\ ca'.hogged = ca.hogged /\ ca'.rate = ca.rate /\ ca'.listening = ca.listening
        /\ hist'.plan = hist.plan /\ hist'.due = hist.due /\ hist'.changes = hist.changes
        /\ hist'.again = hist.again /\ ~hist'.disturbed
        /\ UNCHANGED <<out, mon, hw>>
    BY OpenFindIs DEF Inv
  <1>2. \/ /\ hw.present /\ ca'.device = hw.id /\ ctl'.pc = "hog"
           /\ saved'.device = hw.id /\ saved'.rate = hw.rate /\ saved'.unity = hw.unity
           /\ saved'.profile = hw.profile /\ saved'.changed = {}
        \/ /\ ~hw.present /\ ca'.device = ca.device /\ saved' = saved
           /\ ctl'.pc = "stop" /\ ctl'.then = "again" /\ ctl'.found = ctl.found
    BY OpenFindIs DEF Inv
  <1>3. ca.device = None /\ ca.unit = "none" /\ ~ca.listening /\ ~ca.hogged /\ hw.id \in Nat \ {0} /\ ~Alive
    BY <1>1 DEF Inv, DeviceInv, Without, Typed, HwRecord, Alive, None
  <1>p. (Prompt' <=> Prompt) /\ TrackRates' = TrackRates /\ UnitFails' = UnitFails
    BY <1>1, PlanSame DEF SamePlan
  <1>4. DeviceInv'
    BY <1>1, <1>2, <1>3 DEF Inv, DeviceInv, Without, Setup, None, Alive
  <1>5. SavedInv'
    <2>1. UnityBack' = UnityBack /\ ProfileBack' = ProfileBack /\ RateBack' = RateBack
      BY <1>1, <1>2, <1>3 DEF UnityBack, ProfileBack, RateBack, Alive
    <2>2. UnityBack = hw.unity /\ ProfileBack = hw.profile /\ RateBack = hw.rate
      BY <1>3 DEF UnityBack, ProfileBack, RateBack
    <2>3. ctl'.pc # "settle" /\ ctl.pc # "settle"
      BY <1>1, <1>2
    <2>4. Alive' => saved'.rate = hw.rate /\ saved'.unity = hw.unity /\ saved'.profile = hw.profile /\ saved'.changed = {}
      BY <1>1, <1>2, <1>3 DEF Alive
    <2>5. Traced => Traced'
      BY <1>1, <1>2, <2>1, <2>2, <2>3, <2>4 DEF Traced
    <2> QED BY <1>1, <1>p, <2>5 DEF Inv, SavedInv
  <1>6. ModeInv'
    <2>1. ctl'.pc \notin {"rate", "settle"} \cup Rated /\ ctl'.pc \notin Rated
          /\ ctl'.pc \notin Controlled /\ ctl'.pc \notin Verified
      BY <1>2 DEF Rated, Controlled, Verified, Resting
    <2>2. ca'.device # None => Alive'
      BY <1>1, <1>2, <1>3 DEF Alive
    <2> QED BY <1>1, <2>1, <2>2 DEF Inv, ModeInv, SameMode
  <1>7. FallbackInv'
    <2>1. ctl'.pc \notin Rated /\ ctl'.pc # "find"
      BY <1>2 DEF Rated, Resting
    <2>2. ca'.device # None => Alive'
      BY <1>1, <1>2, <1>3 DEF Alive
    <2>3. Failing' /\ ctl'.found => ca'.fallback
      BY <1>1, <1>2 DEF Failing, Inv, FallbackInv, SameMode
    <2>4. (Forced' <=> Forced) /\ (Calm' <=> Calm)
      BY <1>1, <1>p DEF Forced, Calm, SameMode
    <2>5. OneRate => OneRate'
      BY <1>1, <2>1 DEF OneRate
    <2> QED BY <1>1, <1>p, <2>1, <2>2, <2>3, <2>4, <2>5 DEF Inv, FallbackInv, SameMode
  <1> QED BY <1>1, <1>4, <1>5, <1>6, <1>7 DEF Inv

LEMMA OpenHogKeeps ==
  ASSUME CoreAudioAssumption, Inv, OpenHog
  PROVE  Inv'
  <1>1. /\ Typed' /\ ctl.pc = "hog" /\ SameMode /\ ctl'.found = ctl.found
        /\ ca'.device = ca.device /\ ca'.unit = ca.unit /\ ca'.rate = ca.rate /\ ca'.listening = ca.listening
        /\ UNCHANGED <<out, saved, mon, hist>>
    BY OpenHogIs DEF Inv
  <1>2. \/ ~ca.exclusive /\ ctl'.pc = "rate" /\ ca'.hogged = ca.hogged /\ hw' = hw
        \/ ca.exclusive /\ Alive /\ ctl'.pc = "rate" /\ ca'.hogged /\ hw' = [hw EXCEPT !.owner = "us"]
        \/ /\ ctl'.pc = "stop" /\ ctl'.then = "again" /\ ~(Alive /\ hw.owner # "other")
           /\ ca'.hogged = ca.hogged /\ hw' = hw
    BY OpenHogIs DEF Inv
  <1>3. /\ hw'.present = hw.present /\ hw'.id = hw.id /\ hw'.unity = hw.unity /\ hw'.profile = hw.profile
        /\ hw'.rate = hw.rate /\ hw'.integer = hw.integer /\ hw'.pending = hw.pending
        /\ hw'.owner = hw.owner \/ (hw'.owner = "us" /\ ca'.hogged /\ Alive)
    BY <1>2 DEF Inv, Typed, HwRecord
  <1>4. ca.device # None /\ ca.unit = "none"
    BY <1>1 DEF Inv, DeviceInv, Setup, Sounding, Resting
  <1>p. (Prompt' <=> Prompt) /\ (Alive' <=> Alive) /\ TrackRates' = TrackRates /\ UnitFails' = UnitFails
    BY <1>1, <1>3, PlanSame DEF SamePlan, Alive
  <1>5. DeviceInv'
    BY <1>1, <1>2, <1>3, <1>4, <1>p DEF Inv, DeviceInv, Without, Setup
  <1>6. SavedInv'
    <2>1. UnityBack' = UnityBack /\ ProfileBack' = ProfileBack /\ RateBack' = RateBack
      BY <1>1, <1>3, <1>p DEF UnityBack, ProfileBack, RateBack
    <2>2. ctl.pc \in Untouched /\ ctl'.pc # "settle"
      BY <1>1, <1>2 DEF Untouched
    <2>3. Traced => Traced'
      BY <1>1, <1>3, <1>p, <2>1, <2>2 DEF Traced
    <2> QED BY <1>1, <1>3, <1>p, <2>3 DEF Inv, SavedInv
  <1>7. ModeInv'
    <2>1. ctl'.pc \notin Rated /\ ctl'.pc \notin Controlled /\ ctl'.pc \notin Verified
      BY <1>2 DEF Rated, Controlled, Verified, Resting
    <2>2. ca'.exclusive /\ ctl'.pc \in {"rate", "settle"} => hw'.owner = "us"
      BY <1>1, <1>2 DEF SameMode, Inv, Typed, HwRecord
    <2> QED BY <1>1, <1>p, <2>1, <2>2 DEF Inv, ModeInv, SameMode
  <1>8. FallbackInv'
    <2>1. ctl'.pc \notin Rated /\ ctl'.pc # "find"
      BY <1>2 DEF Rated, Resting
    <2>2. hist.changes = 0 => ~Failing'
      BY <1>2, <1>4 DEF Failing, Inv, FallbackInv
    <2>3. (Forced' <=> Forced) /\ (Calm' <=> Calm)
      BY <1>1, <1>3, <1>p DEF Forced, Calm, SameMode
    <2>4. OneRate => OneRate'
      BY <1>1, <1>3, <2>1 DEF OneRate
    <2> QED BY <1>1, <1>3, <1>p, <2>1, <2>2, <2>3, <2>4 DEF Inv, FallbackInv, SameMode, Calm
  <1> QED BY <1>1, <1>5, <1>6, <1>7, <1>8 DEF Inv

LEMMA OpenRateKeeps ==
  ASSUME CoreAudioAssumption, Inv, OpenRate
  PROVE  Inv'
  <1>1. /\ Typed' /\ ctl.pc = "rate" /\ SameHw /\ SameSaved /\ ctl'.found = ctl.found
        /\ UNCHANGED <<out, ca, mon, hist>>
    BY OpenRateIs DEF Inv
  <1>2. \/ ctl'.pc = "settle" /\ Alive /\ hw.rate = out.rate /\ hw' = hw /\ saved' = saved
        \/ ctl'.pc = "stop" /\ ctl'.then = "again" /\ ctl'.refused /\ hw' = hw /\ saved' = saved
        \/ /\ ctl'.pc = "settle" /\ Alive
           /\ \/ hw'.rate = out.rate /\ hw'.pending = None
              \/ hw'.rate = hw.rate /\ hw'.pending = None
              \/ hw'.rate = hw.rate /\ hw'.pending = out.rate /\ ~Prompt
           /\ saved'.changed = IF saved.rate # out.rate THEN saved.changed \cup {"rate"} ELSE saved.changed
    BY OpenRateIs DEF Inv
  <1>3. ca.device # None /\ ca.unit = "none"
    BY <1>1 DEF Inv, DeviceInv, Setup, Sounding, Resting
  <1>p. (Prompt' <=> Prompt) /\ (Alive' <=> Alive) /\ TrackRates' = TrackRates /\ UnitFails' = UnitFails
    BY <1>1, PlanSame DEF SamePlan, Alive, SameHw
  <1>4. DeviceInv'
    BY <1>1, <1>2, <1>3, <1>p DEF Inv, DeviceInv, Without, Setup, SameHw, SameSaved
  <1>5. SavedInv'
    <2>1. CASE hw' = hw /\ saved' = saved /\ ctl'.pc = "stop"
      <3>1. UnityBack' = UnityBack /\ ProfileBack' = ProfileBack /\ RateBack' = RateBack
        BY <1>1, <1>p, <2>1 DEF UnityBack, ProfileBack, RateBack
      <3>2. Traced => Traced'
        BY <1>1, <1>p, <2>1, <3>1 DEF Traced, Untouched
      <3> QED BY <1>1, <1>p, <2>1, <3>2 DEF Inv, SavedInv
    <2>2. CASE ctl'.pc = "settle"
      <3>1. Alive /\ ctl.pc \in Untouched /\ ctl.pc # "settle"
        BY <1>1, <1>2, <2>2 DEF Untouched
      <3>2. "unity" \in saved'.changed <=> "unity" \in saved.changed
        BY <1>2, <2>2
      <3>3. "profile" \in saved'.changed <=> "profile" \in saved.changed
        BY <1>2, <2>2
      <3>4. UnityBack' = UnityBack /\ ProfileBack' = ProfileBack
        BY <1>1, <1>p, <3>2, <3>3 DEF UnityBack, ProfileBack, SameHw, SameSaved
      <3>5. Traced => hist.due.rate = saved.rate /\ saved.rate = hw.rate
        BY <1>1, <3>1 DEF Traced, RateBack
      <3>6. hw'.rate = hw.rate \/ hw'.rate = out.rate
        BY <1>2, <2>2
      <3>7. Traced => (saved.rate # out.rate => "rate" \in saved'.changed)
        BY <1>2, <2>2, <3>5
      <3>8. Traced => Settling'
        BY <1>1, <3>5, <3>6, <3>7 DEF Settling, SameSaved
      <3>9. Traced => Traced'
        BY <1>1, <1>p, <2>2, <3>1, <3>2, <3>4, <3>8 DEF Traced, SameHw, SameSaved
      <3>10. Prompt /\ hw.pending = None => hw'.pending = None
        BY <1>2
      <3> QED BY <1>1, <1>p, <3>9, <3>10 DEF Inv, SavedInv
    <2> QED BY <1>2, <2>1, <2>2
  <1>6. ModeInv'
    <2>1. ctl'.pc \notin Rated /\ ctl'.pc \notin Controlled /\ ctl'.pc \notin Verified
      BY <1>2 DEF Rated, Controlled, Verified, Resting
    <2> QED BY <1>1, <1>2, <1>p, <2>1 DEF Inv, ModeInv, SameHw
  <1>7. FallbackInv'
    <2>1. ctl'.pc \notin Rated /\ ctl'.pc # "find"
      BY <1>2 DEF Rated, Resting
    <2>2. Failing' => ctl'.refused
      BY <1>2 DEF Failing
    <2>3. (Forced' <=> Forced) /\ (Calm' <=> Calm)
      BY <1>1, <1>p DEF Forced, Calm, SameHw
    <2>4. OneRate => OneRate'
      BY <1>1, <1>2, <2>1 DEF OneRate
    <2> QED BY <1>1, <1>p, <2>1, <2>2, <2>3, <2>4 DEF Inv, FallbackInv, SameHw
  <1> QED BY <1>1, <1>4, <1>5, <1>6, <1>7 DEF Inv

LEMMA OpenSettleKeeps ==
  ASSUME CoreAudioAssumption, Inv, OpenSettle
  PROVE  Inv'
  <1>1. /\ Typed' /\ ctl.pc = "settle" /\ SameHw /\ SameMode /\ ctl'.found = ctl.found
        /\ ca'.device = ca.device /\ ca'.unit = ca.unit /\ ca'.hogged = ca.hogged
        /\ ca'.listening = ca.listening /\ hw'.pending = hw.pending
        /\ UNCHANGED <<out, saved, mon, hist>>
    BY OpenSettleIs DEF Inv
  <1>2. \/ ctl'.pc = "unit" /\ Alive /\ hw'.rate = out.rate /\ ca'.rate = out.rate
        \/ /\ ctl'.pc = "stop" /\ ctl'.then = "again" /\ ctl'.refused /\ ~(Alive /\ hw.rate = out.rate)
           /\ ca' = ca /\ hw' = hw
    BY OpenSettleIs DEF Inv
  <1>3. ca.device # None /\ ca.unit = "none"
    BY <1>1 DEF Inv, DeviceInv, Setup, Sounding, Resting
  <1>p. (Prompt' <=> Prompt) /\ (Alive' <=> Alive) /\ TrackRates' = TrackRates /\ UnitFails' = UnitFails
    BY <1>1, PlanSame DEF SamePlan, Alive, SameHw
  <1>4. DeviceInv'
    BY <1>1, <1>2, <1>3, <1>p DEF Inv, DeviceInv, Without, Setup, SameHw
  <1>5. SavedInv'
    <2>1. UnityBack' = UnityBack /\ ProfileBack' = ProfileBack
      BY <1>1, <1>p DEF UnityBack, ProfileBack, SameHw
    <2>2. Traced => RateBack' = hist.due.rate
      <3>1. CASE ~Alive
        BY <1>1, <1>2, <1>p, <3>1 DEF Traced, RateBack
      <3>2. CASE Alive
        <4>1. Traced => Settling
          BY <1>1, <3>2 DEF Traced
        <4>2. CASE ctl'.pc = "unit"
          BY <1>1, <1>2, <1>p, <3>2, <4>1, <4>2 DEF Settling, RateBack
        <4>3. CASE ctl'.pc = "stop"
          BY <1>1, <1>2, <1>p, <3>2, <4>1, <4>3 DEF Settling, RateBack
        <4> QED BY <1>2, <4>2, <4>3
      <3> QED BY <3>1, <3>2
    <2>3. ctl'.pc \notin {"settle", "hog", "rate"} /\ ctl.pc \in Untouched
      BY <1>1, <1>2 DEF Untouched
    <2>4. Traced => Traced'
      BY <1>1, <1>p, <2>1, <2>2, <2>3 DEF Traced, SameHw
    <2> QED BY <1>1, <1>p, <2>4 DEF Inv, SavedInv
  <1>6. ModeInv'
    <2>1. ctl'.pc \notin Controlled /\ ctl'.pc \notin Verified
      BY <1>2 DEF Controlled, Verified, Resting
    <2>2. ctl'.pc \in {"rate", "settle"} \cup Rated => ctl'.pc = "unit"
      BY <1>2 DEF Rated, Resting
    <2> QED BY <1>1, <1>2, <1>p, <2>1, <2>2 DEF Inv, ModeInv, SameMode, SameHw
  <1>7. FallbackInv'
    <2>1. Failing' => ctl'.refused
      BY <1>2 DEF Failing
    <2>2. (Forced' <=> Forced) /\ (Calm' <=> Calm)
      BY <1>1, <1>p DEF Forced, Calm, SameHw, SameMode
    <2>3. OneRate => OneRate'
      <3>1. ctl'.pc \in Rated => hw'.rate = out.rate
        BY <1>2 DEF Rated, Resting
      <3> QED BY <1>1, <3>1 DEF OneRate
    <2>4. ctl'.pc # "find"
      BY <1>2
    <2> QED BY <1>1, <1>p, <2>1, <2>2, <2>3, <2>4 DEF Inv, FallbackInv, SameHw, SameMode
  <1> QED BY <1>1, <1>4, <1>5, <1>6, <1>7 DEF Inv

LEMMA OpenUnitKeeps ==
  ASSUME CoreAudioAssumption, Inv, OpenUnit
  PROVE  Inv'
  <1>1. /\ Typed' /\ ctl.pc = "unit" /\ SameMode /\ SameSaved /\ ctl'.found = ctl.found
        /\ ca'.device = ca.device /\ ca'.hogged = ca.hogged /\ ca'.rate = ca.rate /\ ca'.listening = ca.listening
        /\ hw' = IF Alive THEN [hw EXCEPT !.profile = TRUE] ELSE hw
        /\ saved'.changed = IF Alive /\ ~saved.profile THEN saved.changed \cup {"profile"} ELSE saved.changed
        /\ UNCHANGED <<out, mon, hist>>
    BY OpenUnitIs DEF Inv
  <1>2. \/ ctl'.pc = "controls" /\ Alive
        \/ ctl'.pc = "stop" /\ ctl'.then = "again" /\ (UnitFails \/ ~Alive) /\ ca' = ca
    BY OpenUnitIs DEF Inv
  <1>3. /\ hw'.present = hw.present /\ hw'.id = hw.id /\ hw'.unity = hw.unity /\ hw'.rate = hw.rate
        /\ hw'.integer = hw.integer /\ hw'.owner = hw.owner /\ hw'.pending = hw.pending
        /\ hw'.profile = IF Alive THEN TRUE ELSE hw.profile
    BY <1>1 DEF Inv, Typed, HwRecord
  <1>4. ca.device # None
    BY <1>1 DEF Inv, DeviceInv, Setup
  <1>p. (Prompt' <=> Prompt) /\ (Alive' <=> Alive) /\ TrackRates' = TrackRates /\ UnitFails' = UnitFails
    BY <1>1, <1>3, PlanSame DEF SamePlan, Alive
  <1>5. DeviceInv'
    BY <1>1, <1>2, <1>3, <1>4, <1>p DEF Inv, DeviceInv, Without, Setup, Sounding, SameSaved
  <1>6. SavedInv'
    <2>1. ("unity" \in saved'.changed <=> "unity" \in saved.changed)
          /\ ("rate" \in saved'.changed <=> "rate" \in saved.changed)
      BY <1>1
    <2>2. UnityBack' = UnityBack /\ RateBack' = RateBack
      BY <1>1, <1>3, <1>p, <2>1 DEF UnityBack, RateBack, SameSaved
    <2>3. Traced => ProfileBack' = hist.due.profile
      <3>1. CASE ~Alive
        BY <1>3, <1>p, <3>1 DEF Traced, ProfileBack
      <3>2. CASE Alive
        <4>1. saved.profile \in BOOLEAN /\ saved'.profile = saved.profile /\ hw'.profile = TRUE
          BY <1>1, <1>3, <3>2 DEF Inv, Typed, SavedRecord, SameSaved
        <4>2. Traced => saved.profile = hist.due.profile
          BY <3>2 DEF Traced
        <4>3. ~saved.profile => "profile" \in saved'.changed
          BY <1>1, <3>2
        <4> QED BY <1>p, <3>2, <4>1, <4>2, <4>3 DEF ProfileBack
      <3> QED BY <3>1, <3>2
    <2>4. ctl.pc \in Untouched /\ ctl.pc # "settle" /\ ctl'.pc \notin {"settle", "hog", "rate"}
      BY <1>1, <1>2 DEF Untouched
    <2>5. Traced => Traced'
      BY <1>1, <1>3, <1>p, <2>1, <2>2, <2>3, <2>4 DEF Traced, SameSaved
    <2> QED BY <1>1, <1>3, <1>p, <2>5 DEF Inv, SavedInv
  <1>7. ModeInv'
    <2>1. ctl.pc \in Rated /\ ctl'.pc \notin Controlled /\ ctl'.pc \notin Verified
      BY <1>1, <1>2 DEF Rated, Controlled, Verified, Resting
    <2> QED BY <1>1, <1>3, <1>p, <2>1 DEF Inv, ModeInv, SameMode
  <1>8. FallbackInv'
    <2>1. Calm => ~Failing'
      BY <1>2, <1>4 DEF Failing, Calm, Inv, FallbackInv
    <2>2. (Forced' <=> Forced) /\ (Calm' <=> Calm)
      BY <1>1, <1>3, <1>p DEF Forced, Calm, SameMode
    <2>3. OneRate => OneRate'
      BY <1>1, <1>3 DEF OneRate, Rated
    <2>4. ctl'.pc # "find"
      BY <1>2
    <2> QED BY <1>1, <1>3, <1>p, <2>1, <2>2, <2>3, <2>4 DEF Inv, FallbackInv, SameMode
  <1> QED BY <1>1, <1>5, <1>6, <1>7, <1>8 DEF Inv

LEMMA OpenControlsKeeps ==
  ASSUME CoreAudioAssumption, Inv, OpenControls
  PROVE  Inv'
  <1>1. /\ Typed' /\ ctl.pc = "controls" /\ SameMode /\ SameOpen /\ SameSaved /\ ctl'.found = ctl.found
        /\ hw' = IF Alive /\ ca.bitperfect THEN [hw EXCEPT !.unity = TRUE] ELSE hw
        /\ saved'.changed = IF Alive /\ ca.bitperfect /\ ~hw.unity /\ ~saved.unity
                            THEN saved.changed \cup {"unity"} ELSE saved.changed
        /\ UNCHANGED <<out, mon, hist>>
    BY OpenControlsIs DEF Inv
  <1>2. \/ ctl'.pc = "start" /\ (ca.bitperfect => Alive /\ hw'.unity)
        \/ ctl'.pc = "stop" /\ ctl'.then = "again" /\ ~Alive
    BY OpenControlsIs DEF Inv
  <1>3. /\ hw'.present = hw.present /\ hw'.id = hw.id /\ hw'.profile = hw.profile /\ hw'.rate = hw.rate
        /\ hw'.integer = hw.integer /\ hw'.owner = hw.owner /\ hw'.pending = hw.pending
        /\ hw'.unity = IF Alive /\ ca.bitperfect THEN TRUE ELSE hw.unity
    BY <1>1 DEF Inv, Typed, HwRecord
  <1>4. ca.device # None
    BY <1>1 DEF Inv, DeviceInv, Setup
  <1>p. (Prompt' <=> Prompt) /\ (Alive' <=> Alive) /\ TrackRates' = TrackRates /\ UnitFails' = UnitFails
    BY <1>1, <1>3, PlanSame DEF SamePlan, Alive, SameOpen
  <1>5. DeviceInv'
    BY <1>1, <1>2, <1>3, <1>4, <1>p DEF Inv, DeviceInv, Without, Setup, Sounding, SameSaved, SameOpen
  <1>6. SavedInv'
    <2>1. ("profile" \in saved'.changed <=> "profile" \in saved.changed)
          /\ ("rate" \in saved'.changed <=> "rate" \in saved.changed)
      BY <1>1
    <2>2. ProfileBack' = ProfileBack /\ RateBack' = RateBack
      BY <1>1, <1>3, <1>p, <2>1 DEF ProfileBack, RateBack, SameSaved, SameOpen
    <2>3. Traced => UnityBack' = hist.due.unity
      <3>1. CASE ~(Alive /\ ca.bitperfect)
        BY <1>1, <1>3, <1>p, <3>1 DEF Traced, UnityBack, SameSaved
      <3>2. CASE Alive /\ ca.bitperfect
        <4>1. saved.unity \in BOOLEAN /\ saved'.unity = saved.unity /\ hw'.unity = TRUE
          BY <1>1, <1>3, <3>2 DEF Inv, Typed, SavedRecord, SameSaved
        <4>2. Traced => saved.unity = hw.unity /\ hw.unity = hist.due.unity
          BY <1>1, <3>2 DEF Traced, UnityBack, Untouched
        <4>3. ~saved.unity /\ saved.unity = hw.unity => "unity" \in saved'.changed
          BY <1>1, <3>2
        <4> QED BY <1>p, <3>2, <4>1, <4>2, <4>3 DEF UnityBack
      <3> QED BY <3>1, <3>2
    <2>4. ctl.pc # "settle" /\ ctl'.pc \notin Untouched /\ ctl'.pc \notin {"settle", "hog", "rate"}
      BY <1>1, <1>2 DEF Untouched
    <2>5. Traced => Traced'
      BY <1>1, <1>3, <1>p, <2>1, <2>2, <2>3, <2>4 DEF Traced, SameSaved
    <2> QED BY <1>1, <1>3, <1>p, <2>5 DEF Inv, SavedInv
  <1>7. ModeInv'
    <2>1. ctl.pc \in Rated /\ ctl'.pc \notin Verified
      BY <1>1, <1>2 DEF Rated, Verified, Resting
    <2>2. ca'.bitperfect /\ ctl'.pc \in Controlled => hw'.unity
      BY <1>1, <1>2 DEF SameMode, Controlled, Resting
    <2> QED BY <1>1, <1>3, <1>p, <2>1, <2>2 DEF Inv, ModeInv, SameMode, SameOpen
  <1>8. FallbackInv'
    <2>1. Calm => ~Failing'
      BY <1>2, <1>4 DEF Failing, Calm, Inv, FallbackInv
    <2>2. (Forced' <=> Forced) /\ (Calm' <=> Calm)
      BY <1>1, <1>3, <1>p DEF Forced, Calm, SameMode
    <2>3. OneRate => OneRate'
      BY <1>1, <1>3 DEF OneRate, Rated, SameOpen
    <2>4. ctl'.pc # "find"
      BY <1>2
    <2> QED BY <1>1, <1>3, <1>p, <2>1, <2>2, <2>3, <2>4 DEF Inv, FallbackInv, SameMode, SameOpen
  <1> QED BY <1>1, <1>5, <1>6, <1>7, <1>8 DEF Inv

\* The unit is started, its format is looked at, or the listeners are added:
\* nothing of the device changes.
LEMMA LooksKeeps ==
  ASSUME CoreAudioAssumption, Inv, Typed', SameMode, ctl'.found = ctl.found,
         ca'.device = ca.device, ca'.hogged = ca.hogged, ca'.rate = ca.rate,
         UNCHANGED <<out, saved, mon, hw, hist>>,
         ctl.pc \in {"start", "physical", "listen"}, ca'.unit # "none" => ctl'.pc \in Sounding,
         ctl'.pc \in {"physical", "listen", "opened", "stop"},
         ctl'.pc \in {"listen", "opened"} /\ ca.bitperfect => hw.integer,
         Calm /\ ctl'.pc = "stop" /\ ctl'.then = "again" => Forced
  PROVE  Inv'
  <1>p. (Prompt' <=> Prompt) /\ (Alive' <=> Alive) /\ TrackRates' = TrackRates /\ UnitFails' = UnitFails
    BY PlanSame DEF SamePlan, Alive
  <1>1. ca.device # None
    BY DEF Inv, DeviceInv, Setup
  <1>2. DeviceInv'
    BY <1>1, <1>p DEF Inv, DeviceInv, Without
  <1>3. SavedInv'
    <2>1. UnityBack' = UnityBack /\ ProfileBack' = ProfileBack /\ RateBack' = RateBack
      BY <1>p DEF UnityBack, ProfileBack, RateBack
    <2>2. Traced => Traced'
      BY <1>p, <2>1 DEF Traced, Untouched
    <2> QED BY <1>p, <2>2 DEF Inv, SavedInv
  <1>4. ModeInv'
    <2>1. ctl.pc \in Rated /\ ctl.pc \in Controlled
      BY DEF Rated, Controlled
    <2>2. ca'.bitperfect /\ ctl'.pc \in Verified => hw'.integer
      BY DEF Verified, Resting, SameMode
    <2> QED BY <1>p, <2>1, <2>2 DEF Inv, ModeInv, SameMode
  <1>5. FallbackInv'
    <2>1. (Forced' <=> Forced) /\ (Calm' <=> Calm)
      BY <1>p DEF Forced, Calm, SameMode
    <2>2. OneRate => OneRate'
      BY DEF OneRate, Rated
    <2>3. Calm /\ Failing' => Forced
      BY DEF Failing
    <2>4. ctl'.pc # "find"
      OBVIOUS
    <2> QED BY <1>p, <2>1, <2>2, <2>3, <2>4 DEF Inv, FallbackInv, SameMode
  <1> QED BY <1>2, <1>3, <1>4, <1>5 DEF Inv

LEMMA OpenStartKeeps ==
  ASSUME CoreAudioAssumption, Inv, OpenStart
  PROVE  Inv'
  <1>1. /\ Typed' /\ ctl.pc = "start" /\ SameMode /\ ctl'.found = ctl.found
        /\ ca'.device = ca.device /\ ca'.hogged = ca.hogged /\ ca'.rate = ca.rate
        /\ UNCHANGED <<out, saved, mon, hw, hist>>
    BY OpenStartIs DEF Inv
  <1>2. \/ ctl'.pc = "physical" /\ Alive
        \/ ctl'.pc = "stop" /\ ctl'.then = "again" /\ (UnitFails \/ ~Alive) /\ ca' = ca
    BY OpenStartIs DEF Inv
  <1>3. ca.device # None
    BY <1>1 DEF Inv, DeviceInv, Setup
  <1>4. Calm => Alive /\ ~UnitFails
    BY <1>3 DEF Calm, Inv, FallbackInv
  <1>5. ctl'.pc \in Sounding
    BY <1>2 DEF Sounding
  <1> QED BY <1>1, <1>2, <1>4, <1>5, LooksKeeps

LEMMA OpenPhysicalKeeps ==
  ASSUME CoreAudioAssumption, Inv, OpenPhysical
  PROVE  Inv'
  <1>1. /\ Typed' /\ ctl.pc = "physical" /\ SameMode /\ SameOpen /\ ctl'.found = ctl.found
        /\ UNCHANGED <<out, saved, mon, hw, hist>>
    BY OpenPhysicalIs DEF Inv
  <1>2. \/ ctl'.pc = "listen" /\ (ca.bitperfect => hw.integer)
        \/ /\ ctl'.pc = "stop" /\ ctl'.then = "again"
           /\ ~(Alive /\ hw.rate = out.rate /\ (ca.bitperfect => hw.integer))
    BY OpenPhysicalIs DEF Inv
  <1>3. ca.device # None
    BY <1>1 DEF Inv, DeviceInv, Setup
  <1>4. Calm => Alive /\ hw.rate = out.rate
    BY <1>1, <1>3 DEF Calm, Inv, FallbackInv, OneRate, Rated
  <1>5. Calm /\ ctl'.pc = "stop" => Forced
    BY <1>2, <1>4 DEF Forced, Inv, ModeInv
  <1>6. ctl'.pc \in Sounding
    BY <1>2 DEF Sounding
  <1> QED BY <1>1, <1>2, <1>5, <1>6, LooksKeeps DEF SameOpen

LEMMA OpenListenKeeps ==
  ASSUME CoreAudioAssumption, Inv, OpenListen
  PROVE  Inv'
  <1>1. /\ Typed' /\ ctl.pc = "listen" /\ ctl'.pc = "opened" /\ SameMode /\ SameTries
        /\ ca'.device = ca.device /\ ca'.unit = ca.unit /\ ca'.hogged = ca.hogged /\ ca'.rate = ca.rate
        /\ UNCHANGED <<out, saved, mon, hw, hist>>
    BY OpenListenIs DEF Inv
  <1>2. ctl'.pc \in Sounding
    BY <1>1 DEF Sounding
  <1>3. ca.bitperfect => hw.integer
    BY <1>1 DEF Inv, ModeInv, DeviceInv, Setup, Verified
  <1> QED BY <1>1, <1>2, <1>3, LooksKeeps DEF SameTries

LEMMA OpenAgainKeeps ==
  ASSUME CoreAudioAssumption, Inv, OpenAgain
  PROVE  Inv'
  <1>1. /\ Typed' /\ ctl.pc = "again" /\ SameTries /\ SameOpen /\ ca'.asked = ca.asked
        /\ out'.rate = out.rate /\ out'.next = out.next
        /\ UNCHANGED <<saved, mon, hw, hist>>
    BY OpenAgainIs DEF Inv
  <1>2. \/ /\ ctl'.pc = "find" /\ ctl.found /\ ~ctl.refused
           /\ ca'.fallback /\ ~ca'.exclusive /\ ~ca'.bitperfect
        \/ ctl'.pc = "count" /\ SameMode
    BY OpenAgainIs DEF Inv
  <1>3. ca.device = None /\ ca'.device = None /\ ca'.unit = "none" /\ ~Alive /\ ~Alive'
    BY <1>1 DEF Inv, DeviceInv, Without, SameOpen, Alive, None, Typed, HwRecord
  <1>p. (Prompt' <=> Prompt) /\ TrackRates' = TrackRates /\ UnitFails' = UnitFails
    BY <1>1, PlanSame DEF SamePlan
  <1>4. DeviceInv'
    BY <1>1, <1>2, <1>3 DEF Inv, DeviceInv, Without, Setup, SameOpen
  <1>5. SavedInv'
    <2>1. UnityBack' = UnityBack /\ ProfileBack' = ProfileBack /\ RateBack' = RateBack
      BY <1>1, <1>3 DEF UnityBack, ProfileBack, RateBack
    <2>2. Traced => Traced'
      BY <1>1, <1>3, <2>1 DEF Traced
    <2> QED BY <1>1, <1>p, <2>2 DEF Inv, SavedInv
  <1>6. ModeInv'
    BY <1>1, <1>2, <1>3 DEF Inv, ModeInv, SameMode
  <1>7. FallbackInv'
    <2>1. ~Failing' /\ Failing
      BY <1>1, <1>2 DEF Failing
    <2>2. (Forced' <=> Forced) /\ (Calm' <=> Calm)
      BY <1>1, <1>p DEF Forced, Calm
    <2>3. OneRate => OneRate'
      BY <1>1, <1>3 DEF OneRate
    <2>4. Calm' /\ ca'.fallback => Forced'
      BY <1>2, <2>1, <2>2 DEF Inv, FallbackInv, SameMode
    <2> QED BY <1>1, <1>2, <1>3, <1>p, <2>1, <2>3, <2>4 DEF Inv, FallbackInv
  <1> QED BY <1>1, <1>4, <1>5, <1>6, <1>7 DEF Inv
-----------------------------------------------------------------------------
(* The device and others.                                                   *)

LEMMA SettleKeeps ==
  ASSUME CoreAudioAssumption, Inv, Settle
  PROVE  Inv'
  <1>1. UNCHANGED <<out, ca, saved, ctl, mon, hist>> /\ hw.pending # None
    BY DEF Settle
  <1>2. hw' = [hw EXCEPT !.rate = hw.pending, !.pending = None] /\ hw.pending \in Rates
    BY <1>1 DEF Settle, Inv, Typed, HwRecord
  <1>3. /\ hw' \in HwRecord /\ SameHw /\ hw'.rate = hw.pending /\ hw'.pending = None
    BY <1>2 DEF Inv, Typed, HwRecord, SameHw
  <1>p. (Prompt' <=> Prompt) /\ (Alive' <=> Alive) /\ TrackRates' = TrackRates /\ UnitFails' = UnitFails
    BY <1>1, <1>3, PlanSame DEF SamePlan, Alive, SameHw
  <1>4. ~Prompt
    BY <1>1 DEF Inv, SavedInv
  <1>5. Typed'
    BY <1>1, <1>3 DEF Inv, Typed, Ceiling, MaxFailures
  <1>6. DeviceInv'
    BY <1>1, <1>3, <1>p DEF Inv, DeviceInv, SameHw
  <1>7. SavedInv'
    BY <1>p, <1>4 DEF SavedInv
  <1>8. ModeInv'
    BY <1>1, <1>3, <1>p, <1>4 DEF Inv, ModeInv, SameHw
  <1>9. FallbackInv'
    <2>1. OneRate => OneRate'
      BY <1>1, <1>3 DEF OneRate
    <2>2. (Forced' <=> Forced) /\ (Calm' <=> Calm) /\ (Failing' <=> Failing)
      BY <1>1, <1>3, <1>p DEF Forced, Calm, SameHw, Failing
    <2> QED BY <1>1, <1>3, <1>p, <2>1, <2>2 DEF Inv, FallbackInv, SameHw
  <1> QED BY <1>5, <1>6, <1>7, <1>8, <1>9 DEF Inv

\* What others do is heard by whoever listens.
LEMMA HeardIs ==
  ASSUME Typed, ca' = [ca EXCEPT !.changed = ca.changed \/ ca.listening]
  PROVE  ca' \in CaRecord /\ SameMode /\ SameOpen /\ SameTime
  <1>1. PICK b \in BOOLEAN : ca' = [ca EXCEPT !.changed = b]
    OBVIOUS
  <1> QED BY <1>1 DEF Typed, CaRecord, SameMode, SameOpen, SameTime

LEMMA ReplugKeeps ==
  ASSUME CoreAudioAssumption, Inv, Replug
  PROVE  Inv'
  <1>1. UNCHANGED <<out, saved, ctl, mon, hist>> /\ ~hw.present
    BY DEF Replug
  <1>2. ca' \in CaRecord /\ SameMode /\ SameOpen /\ SameTime
    BY HeardIs DEF Replug, Inv
  <1>3. hw' = [hw EXCEPT !.present = TRUE, !.id = hw.id + 1] /\ hw.id + 1 \in Nat \ {0} /\ hw.id \in Nat
    BY DEF Replug, Inv, Typed, HwRecord
  <1>4. /\ hw' \in HwRecord /\ hw'.id = hw.id + 1 /\ hw'.rate = hw.rate /\ hw'.unity = hw.unity
        /\ hw'.profile = hw.profile /\ hw'.integer = hw.integer /\ hw'.owner = hw.owner
        /\ hw'.pending = hw.pending
    BY <1>3 DEF Inv, Typed, HwRecord
  <1>5. ~Alive /\ ca.device \in Nat /\ ca.device <= hw.id
    BY <1>1 DEF Alive, Inv, Typed, CaRecord, DeviceInv
  <1>6. ~Alive' /\ ca'.device <= hw'.id
    BY <1>2, <1>3, <1>4, <1>5 DEF Alive, SameOpen
  <1>p. (Prompt' <=> Prompt) /\ TrackRates' = TrackRates /\ UnitFails' = UnitFails
    BY <1>1, PlanSame DEF SamePlan
  <1>7. Typed'
    BY <1>1, <1>2, <1>4 DEF Inv, Typed, Ceiling, MaxFailures, SameTime
  <1>8. DeviceInv'
    BY <1>1, <1>2, <1>4, <1>5, <1>6 DEF Inv, DeviceInv, SameOpen
  <1>9. SavedInv'
    <2>1. Traced => Traced'
      BY <1>1, <1>4, <1>5, <1>6 DEF Traced, UnityBack, ProfileBack, RateBack
    <2> QED BY <1>1, <1>4, <1>p, <2>1 DEF Inv, SavedInv
  <1>10. ModeInv'
    BY <1>1, <1>2, <1>4, <1>5, <1>p DEF Inv, ModeInv, SameMode, SameOpen
  <1>11. FallbackInv'
    <2>1. OneRate => OneRate'
      BY <1>1, <1>2, <1>4 DEF OneRate, SameOpen
    <2>2. (Forced' <=> Forced) /\ (Calm' <=> Calm) /\ (Failing' <=> Failing)
      BY <1>1, <1>2, <1>4, <1>p DEF Forced, Calm, SameMode, Failing
    <2> QED BY <1>1, <1>2, <1>4, <1>5, <1>p, <2>1, <2>2 DEF Inv, FallbackInv, SameMode, SameOpen
  <1> QED BY <1>7, <1>8, <1>9, <1>10, <1>11 DEF Inv

\* A disturbance is noted, and it is then all the device that matters.
LEMMA DisturbKeeps ==
  ASSUME CoreAudioAssumption, Inv, NEW who, NEW d \in HwRecord,
         NEW due \in [rate : Rates, unity : BOOLEAN, profile : BOOLEAN], NEW again \in BOOLEAN,
         Disturb(who, d, due, again),
         d.id = hw.id, d.integer = hw.integer, d.owner = "us" => hw.owner = "us" /\ d.present
  PROVE  /\ Typed' /\ DeviceInv' /\ ModeInv' /\ FallbackInv' /\ (Prompt' <=> Prompt)
         /\ hw' = d /\ hist'.due = due /\ (hist'.again <=> hist.again \/ again)
         /\ SameOpen /\ UNCHANGED <<out, saved, ctl>>
  <1>1. UNCHANGED <<out, saved, ctl, mon>> /\ hw' = d
    BY DEF Disturb
  <1>2. ca' \in CaRecord /\ SameMode /\ SameOpen /\ SameTime
    BY HeardIs DEF Disturb, Inv
  <1>3. PICK b \in BOOLEAN : /\ b <=> hist.again \/ again
                             /\ hist' = [hist EXCEPT !.changes = hist.changes + 1, !.disturbed = TRUE,
                                                     !.due = due, !.again = b]
    BY DEF Disturb
  <1>4. hist.changes \in Nat /\ hist.changes + 1 \in Nat /\ hist.changes + 1 # 0
    BY DEF Inv, Typed, HistRecord
  <1>5. /\ hist' \in HistRecord /\ hist'.plan = hist.plan /\ hist'.due = due /\ hist'.again = b
        /\ hist'.disturbed /\ hist'.changes # 0
    BY <1>3, <1>4 DEF Inv, Typed, HistRecord
  <1>p. (Prompt' <=> Prompt) /\ TrackRates' = TrackRates /\ UnitFails' = UnitFails
    BY <1>5, PlanSame DEF SamePlan
  <1>6. Typed'
    BY <1>1, <1>2, <1>5 DEF Inv, Typed, Ceiling, MaxFailures, SameTime
  <1>7. DeviceInv'
    BY <1>1, <1>2 DEF Inv, DeviceInv, SameOpen, Alive
  <1>8. ModeInv'
    BY <1>1, <1>2, <1>5 DEF Inv, ModeInv, SameMode, SameOpen
  <1>9. FallbackInv'
    BY <1>1, <1>2, <1>5 DEF Inv, FallbackInv, SameMode, Calm
  <1> QED BY <1>1, <1>2, <1>3, <1>5, <1>6, <1>7, <1>8, <1>9, <1>p

LEMMA OthersSetRateKeeps ==
  ASSUME CoreAudioAssumption, Inv, OthersSetRate
  PROVE  Inv'
  <1> DEFINE again(r) == Alive /\ "rate" \in saved.changed /\ r = ca.rate
  <1>1. PICK r \in Rates :
          Disturb("rate", [hw EXCEPT !.rate = r], [hist.due EXCEPT !.rate = r], again(r))
    BY DEF OthersSetRate
  <1>2. ~Quiet /\ ctl.pc \notin Untouched /\ ctl.pc \notin {"settle", "hog", "rate"}
    BY DEF OthersSetRate, Quiet, Untouched
  <1> DEFINE d == [hw EXCEPT !.rate = r]
             due == [hist.due EXCEPT !.rate = r]
  <1>3. /\ d \in HwRecord /\ d.id = hw.id /\ d.integer = hw.integer /\ d.owner = hw.owner
        /\ d.present = hw.present /\ d.unity = hw.unity /\ d.profile = hw.profile /\ d.rate = r
        /\ d.pending = hw.pending
    BY DEF Inv, Typed, HwRecord
  <1>4. /\ due \in [rate : Rates, unity : BOOLEAN, profile : BOOLEAN]
        /\ due.rate = r /\ due.unity = hist.due.unity /\ due.profile = hist.due.profile
    BY DEF Inv, Typed, HistRecord
  <1>5. hw.owner # "us"
    BY DEF OthersSetRate
  <1>6. again(r) \in BOOLEAN
    OBVIOUS
  <1> HIDE DEF d, due, again
  <1>7. /\ Typed' /\ DeviceInv' /\ ModeInv' /\ FallbackInv' /\ (Prompt' <=> Prompt)
        /\ hw' = d /\ hist'.due = due /\ (hist'.again <=> hist.again \/ again(r))
        /\ SameOpen /\ UNCHANGED <<out, saved, ctl>>
    <2>1. Disturb("rate", d, due, again(r))
      BY <1>1 DEF d, due
    <2> QED BY <1>3, <1>4, <1>5, <1>6, <2>1, DisturbKeeps
  <1>8. SavedInv'
    <2>1. Alive' <=> Alive
      BY <1>3, <1>7 DEF Alive, SameOpen
    <2>2. UnityBack' = UnityBack /\ ProfileBack' = ProfileBack
      BY <1>3, <1>7, <2>1 DEF UnityBack, ProfileBack
    <2>3. ~again(r) => RateBack' = r
      BY <1>3, <1>7, <2>1 DEF RateBack, again, SameOpen
    <2>4. Traced /\ ~again(r) => Traced'
      BY <1>2, <1>3, <1>4, <1>7, <2>1, <2>2, <2>3 DEF Traced
    <2> QED BY <1>3, <1>7, <2>4 DEF Inv, SavedInv
  <1> QED BY <1>7, <1>8 DEF Inv

LEMMA OthersSetVolumeKeeps ==
  ASSUME CoreAudioAssumption, Inv, OthersSetVolume
  PROVE  Inv'
  <1> DEFINE again == Alive /\ "unity" \in saved.changed /\ ~hw.unity
             d == [hw EXCEPT !.unity = ~hw.unity]
             due == [hist.due EXCEPT !.unity = ~hw.unity]
  <1>1. Disturb("volume", d, due, again) /\ hw.present
    BY DEF OthersSetVolume
  <1>2. ctl.pc \notin Untouched /\ ctl.pc \notin {"settle", "hog", "rate"}
    BY DEF OthersSetVolume, Quiet, Untouched
  <1>3. PICK u \in BOOLEAN : (u <=> ~hw.unity) /\ d = [hw EXCEPT !.unity = u] /\ due = [hist.due EXCEPT !.unity = u]
    OBVIOUS
  <1>4. again \in BOOLEAN
    OBVIOUS
  <1> HIDE DEF d, due, again
  <1>5. /\ d \in HwRecord /\ d.id = hw.id /\ d.integer = hw.integer /\ d.owner = hw.owner
        /\ d.present = hw.present /\ d.unity = u /\ d.profile = hw.profile /\ d.rate = hw.rate
        /\ d.pending = hw.pending
    BY <1>3 DEF Inv, Typed, HwRecord
  <1>6. /\ due \in [rate : Rates, unity : BOOLEAN, profile : BOOLEAN]
        /\ due.rate = hist.due.rate /\ due.unity = u /\ due.profile = hist.due.profile
    BY <1>3 DEF Inv, Typed, HistRecord
  <1>7. /\ Typed' /\ DeviceInv' /\ ModeInv' /\ FallbackInv' /\ (Prompt' <=> Prompt)
        /\ hw' = d /\ hist'.due = due /\ (hist'.again <=> hist.again \/ again)
        /\ SameOpen /\ UNCHANGED <<out, saved, ctl>>
    BY <1>1, <1>4, <1>5, <1>6, DisturbKeeps
  <1>8. SavedInv'
    <2>1. Alive' <=> Alive
      BY <1>5, <1>7 DEF Alive, SameOpen
    <2>2. RateBack' = RateBack /\ ProfileBack' = ProfileBack
      BY <1>5, <1>7, <2>1 DEF RateBack, ProfileBack, SameOpen
    <2>3. ~again => UnityBack' = u
      BY <1>3, <1>5, <1>7, <2>1 DEF UnityBack, again
    <2>4. Traced /\ ~again => Traced'
      BY <1>2, <1>5, <1>6, <1>7, <2>1, <2>2, <2>3 DEF Traced
    <2> QED BY <1>5, <1>7, <2>4 DEF Inv, SavedInv
  <1> QED BY <1>7, <1>8 DEF Inv

LEMMA OthersHogKeeps ==
  ASSUME CoreAudioAssumption, Inv, OthersHog
  PROVE  Inv'
  <1> DEFINE d == [hw EXCEPT !.owner = "other"]
             due == hist.due
  <1>1. Disturb("hog", d, due, FALSE)
    BY DEF OthersHog
  <1>2. /\ d \in HwRecord /\ d.id = hw.id /\ d.integer = hw.integer /\ d.owner = "other"
        /\ d.present = hw.present /\ d.unity = hw.unity /\ d.profile = hw.profile /\ d.rate = hw.rate
        /\ d.pending = hw.pending
    BY Names DEF Inv, Typed, HwRecord
  <1>3. due \in [rate : Rates, unity : BOOLEAN, profile : BOOLEAN]
    BY DEF Inv, Typed, HistRecord
  <1> HIDE DEF d, due
  <1>4. /\ Typed' /\ DeviceInv' /\ ModeInv' /\ FallbackInv' /\ (Prompt' <=> Prompt)
        /\ hw' = d /\ hist'.due = due /\ (hist'.again <=> hist.again)
        /\ SameOpen /\ UNCHANGED <<out, saved, ctl>>
    BY <1>1, <1>2, <1>3, DisturbKeeps
  <1>5. SavedInv'
    <2>1. Alive' <=> Alive
      BY <1>2, <1>4 DEF Alive, SameOpen
    <2>2. UnityBack' = UnityBack /\ RateBack' = RateBack /\ ProfileBack' = ProfileBack
      BY <1>2, <1>4, <2>1 DEF UnityBack, RateBack, ProfileBack, SameOpen
    <2>3. Traced => Traced'
      BY <1>2, <1>4, <2>1, <2>2 DEF Traced, Settling, due
    <2> QED BY <1>2, <1>4, <2>3 DEF Inv, SavedInv
  <1> QED BY <1>4, <1>5 DEF Inv

LEMMA UnplugKeeps ==
  ASSUME CoreAudioAssumption, Inv, Unplug
  PROVE  Inv'
  <1> DEFINE d == [hw EXCEPT !.present = FALSE, !.owner = "none", !.pending = None]
             due == Settings(hw)
  <1>1. Disturb("unplug", d, due, FALSE)
    BY DEF Unplug
  <1>2. /\ d \in HwRecord /\ d.id = hw.id /\ d.integer = hw.integer /\ d.owner = "none"
        /\ ~d.present /\ d.unity = hw.unity /\ d.profile = hw.profile /\ d.rate = hw.rate
        /\ d.pending = None
    BY Names DEF Inv, Typed, HwRecord
  <1>3. /\ due \in [rate : Rates, unity : BOOLEAN, profile : BOOLEAN]
        /\ due.rate = hw.rate /\ due.unity = hw.unity /\ due.profile = hw.profile
    BY DEF Inv, Typed, HwRecord, Settings
  <1> HIDE DEF d, due
  <1>4. /\ Typed' /\ DeviceInv' /\ ModeInv' /\ FallbackInv' /\ (Prompt' <=> Prompt)
        /\ hw' = d /\ hist'.due = due /\ (hist'.again <=> hist.again)
        /\ SameOpen /\ UNCHANGED <<out, saved, ctl>>
    BY <1>1, <1>2, <1>3, DisturbKeeps
  <1>5. SavedInv'
    <2>1. ~Alive'
      BY <1>2, <1>4 DEF Alive
    <2>2. Traced'
      BY <1>2, <1>3, <1>4, <2>1 DEF Traced, UnityBack, RateBack, ProfileBack
    <2> QED BY <1>2, <1>4, <2>2 DEF SavedInv
  <1> QED BY <1>4, <1>5 DEF Inv
-----------------------------------------------------------------------------
(* The theorems.                                                            *)

LEMMA InitInv ==
  ASSUME CoreAudioAssumption, Init
  PROVE  Inv
  <1>1. PICK plan \in Plans, present \in BOOLEAN, rate \in Rates, unity \in BOOLEAN :
        \E integer \in plan.integer, m \in plan.modes :
          /\ present \/ "unplug" \in plan.others
          /\ hw = [present |-> present, id |-> 1, rate |-> rate, unity |-> unity, profile |-> FALSE,
                   integer |-> integer, owner |-> "none", pending |-> None]
          /\ out = [state |-> IF plan.idle THEN "OFF" ELSE "STOPPED", rate |-> DefaultRate,
                    next |-> None, reopen |-> FALSE, error |-> ~present]
          /\ ca = [asked |-> m, exclusive |-> FALSE, bitperfect |-> FALSE, fallback |-> FALSE,
                   device |-> None, unit |-> "none", hogged |-> FALSE, rate |-> None,
                   verified |-> {}, listening |-> FALSE, changed |-> FALSE,
                   failures |-> 0, age |-> plan.ceiling]
          /\ hist = [plan |-> plan, due |-> Settings(hw), tracks |-> 0, changes |-> 0,
                     disturbed |-> FALSE, again |-> FALSE]
    BY DEF Init
  <1>2. PICK integer \in plan.integer, m \in plan.modes :
          /\ hw = [present |-> present, id |-> 1, rate |-> rate, unity |-> unity, profile |-> FALSE,
                   integer |-> integer, owner |-> "none", pending |-> None]
          /\ out = [state |-> IF plan.idle THEN "OFF" ELSE "STOPPED", rate |-> DefaultRate,
                    next |-> None, reopen |-> FALSE, error |-> ~present]
          /\ ca = [asked |-> m, exclusive |-> FALSE, bitperfect |-> FALSE, fallback |-> FALSE,
                   device |-> None, unit |-> "none", hogged |-> FALSE, rate |-> None,
                   verified |-> {}, listening |-> FALSE, changed |-> FALSE,
                   failures |-> 0, age |-> plan.ceiling]
          /\ hist = [plan |-> plan, due |-> Settings(hw), tracks |-> 0, changes |-> 0,
                     disturbed |-> FALSE, again |-> FALSE]
    BY <1>1
  <1>3. plan \in Plan
    BY DEF CoreAudioAssumption
  <1>4. /\ integer \in BOOLEAN /\ m \in SomeAsks
        /\ plan.ceiling \in Nat /\ plan.maxFailures \in Nat
    <2>1. plan.integer \subseteq BOOLEAN
      BY <1>3 DEF Plan
    <2>2. plan.modes \subseteq SomeAsks
      BY <1>3 DEF Plan, SomeAsks, Asks
    <2>3. plan.ceiling \in Nat /\ plan.maxFailures \in Nat
      BY <1>3 DEF Plan
    <2> QED BY <2>1, <2>2, <2>3
  <1>5. /\ hw \in HwRecord /\ hw.present = present /\ hw.id = 1 /\ hw.rate = rate /\ hw.unity = unity
        /\ hw.profile = FALSE /\ hw.owner = "none" /\ hw.pending = None
    BY <1>2, <1>4, Names DEF HwRecord, None
  <1>6. out \in OutRecord /\ out.rate = DefaultRate /\ out.next = None
    <2>1. PICK s \in States, e \in BOOLEAN :
             out = [state |-> s, rate |-> DefaultRate, next |-> None, reopen |-> FALSE, error |-> e]
      BY <1>2, Names
    <2> QED BY <2>1 DEF OutRecord, None, CoreAudioAssumption
  <1>7. /\ ca \in CaRecord /\ ca.device = None /\ ca.unit = "none" /\ ~ca.listening /\ ~ca.hogged
        /\ ~ca.bitperfect /\ ~ca.fallback /\ ca.failures = 0 /\ ca.age = plan.ceiling
    <2>1. {} \in SomeVerified
      BY EmptySets
    <2> QED BY <1>2, <1>4, <2>1, Names DEF CaRecord, None
  <1>8. /\ hist \in HistRecord /\ hist.plan = plan
        /\ hist.due.rate = rate /\ hist.due.unity = unity /\ hist.due.profile = FALSE
    <2>1. Settings(hw) = [rate |-> rate, unity |-> unity, profile |-> FALSE]
      BY <1>5 DEF Settings
    <2>2. hist = [plan |-> plan, due |-> [rate |-> rate, unity |-> unity, profile |-> FALSE], tracks |-> 0,
                  changes |-> 0, disturbed |-> FALSE, again |-> FALSE]
      BY <1>2, <2>1
    <2> QED BY <2>2 DEF HistRecord
  <1>9. saved \in SavedRecord /\ saved.device = None
    <2>1. {} \in SomeChanged
      BY EmptySets
    <2> QED BY <2>1 DEF Init, NothingSaved, SavedRecord, None
  <1>10. /\ ctl \in CtlRecord /\ ctl.pc = "stop" /\ ctl.then = "mode"
         /\ mon \in MonRecord
    BY Names, PcNames DEF Init, CtlRecord, MonRecord
  <1>11. ~Alive
    BY <1>5, <1>7 DEF Alive, None
  <1>12. Typed
    <2>1. ca.failures <= MaxFailures /\ ca.age <= Ceiling
      BY <1>4, <1>7, <1>8 DEF MaxFailures, Ceiling
    <2> QED BY <1>5, <1>6, <1>7, <1>8, <1>9, <1>10, <2>1 DEF Typed
  <1>13. DeviceInv
    BY <1>5, <1>7, <1>9, <1>10 DEF DeviceInv, Without, Setup, None
  <1>14. SavedInv
    BY <1>5, <1>8, <1>11 DEF SavedInv, Traced, UnityBack, ProfileBack, RateBack
  <1>15. ModeInv
    BY <1>7 DEF ModeInv
  <1>16. FallbackInv
    BY <1>5, <1>6, <1>7, <1>10 DEF FallbackInv, OneRate, Failing
  <1> QED BY <1>12, <1>13, <1>14, <1>15, <1>16 DEF Inv

LEMMA ControllerKeeps ==
  ASSUME CoreAudioAssumption, Inv, Controller
  PROVE  Inv'
  <1>1. CASE OpenDone
    BY <1>1, OpenDoneStays, StaysKeeps DEF Inv
  <1>2. CASE OpenCount
    BY <1>2, OpenCountStays, StaysKeeps DEF Inv
  <1>3. CASE Pass
    BY <1>3, PassStays, StaysKeeps DEF Inv
  <1>4. CASE PassRest
    BY <1>4, PassRestStays, StaysKeeps DEF Inv
  <1>5. CASE Join
    BY <1>5, CloseStays, StaysKeeps DEF Inv
  <1> QED BY <1>1, <1>2, <1>3, <1>4, <1>5, DisposeUnitKeeps, DisposeDeviceKeeps, OpenModeKeeps, OpenFindKeeps,
             OpenHogKeeps, OpenRateKeeps, OpenSettleKeeps, OpenUnitKeeps, OpenControlsKeeps, OpenStartKeeps,
             OpenPhysicalKeeps, OpenListenKeeps, OpenAgainKeeps DEF Controller, Open

LEMMA NextKeeps ==
  ASSUME CoreAudioAssumption, Inv, [Next]_vars
  PROVE  Inv'
  <1>1. CASE Server
    <2>1. Typed' /\ Stays
      BY <1>1, StrmSStays, CommandStays, StrmQStays, CloseStays DEF Inv, Server
    <2> QED BY <2>1, StaysKeeps
  <1>2. CASE Render
    BY <1>2, RenderStays, StaysKeeps DEF Inv
  <1>3. CASE Monitor
    BY <1>3, MonitorStays, StaysKeeps DEF Inv
  <1>4. CASE Tick
    BY <1>4, TickStays, StaysKeeps DEF Inv
  <1>5. CASE UNCHANGED vars
    <2>1. Typed'
      BY <1>5 DEF Inv, Typed, vars, Ceiling, MaxFailures
    <2>2. Stays
      BY <1>5 DEF vars, Stays, SameHist, SameMode, SameOpen, SameTries
    <2> QED BY <2>1, <2>2, StaysKeeps
  <1> QED BY <1>1, <1>2, <1>3, <1>4, <1>5, ControllerKeeps, SettleKeeps, ReplugKeeps, OthersSetRateKeeps,
             OthersSetVolumeKeeps, OthersHogKeeps, UnplugKeeps DEF Next, Disturbance

LEMMA InvHolds ==
  ASSUME CoreAudioAssumption
  PROVE  Spec => []Inv
  <1>1. Init => Inv
    BY InitInv
  <1>2. Inv /\ [Next]_vars => Inv'
    BY NextKeeps
  <1> QED BY <1>1, <1>2, PTL DEF Spec

\* What ca_dispose leaves behind: once no device is open, the settings of the device that is there
\* are what they were before the player changed them, or what others made them meanwhile, and it
\* belongs to nobody on the player's account; only a device that is open is used
\* (output_coreaudio.c: ca_snapshot_device_state, ca_restore_device_state, ca_release_hog).
THEOREM Returned == ASSUME CoreAudioAssumption PROVE Spec => []GivenBack
  <1>1. ASSUME Inv PROVE TypeOK
    <2>1. /\ ca.failures \in 0 .. MaxFailures /\ ca.age \in 0 .. Ceiling
      BY <1>1, PlanIs DEF Inv, Typed, CaRecord
    <2>2. /\ ca.unit \in {"none", "ready", "running"}
          /\ ca.verified \subseteq {"exclusive", "volume", "physical"}
      BY <1>1 DEF Inv, Typed, CaRecord, Units, SomeVerified, Verifiable
    <2>3. /\ out.state \in {"OFF", "STOPPED", "BUFFER", "RUNNING"}
          /\ out.rate \in Rates /\ out.next \in Rates \cup {None}
      BY <1>1 DEF Inv, Typed, OutRecord, States
    <2>4. ca.hogged \/ ca.listening \/ ca.unit # "none" => ca.device # None
      BY <1>1 DEF Inv, DeviceInv
    <2> QED BY <2>1, <2>2, <2>3, <2>4 DEF TypeOK
  <1>2. ASSUME Inv, Prompt, ~hist.again PROVE SettingsRestored
    <2>1. SUFFICES ASSUME ca.device = None PROVE Settings(hw) = hist.due /\ hw.owner # "us"
      BY DEF SettingsRestored, Closed
    <2>2. ~Alive
      BY <1>2, <2>1 DEF Inv, Typed, HwRecord, Alive, None
    <2>3. hist.due.unity = hw.unity /\ hist.due.profile = hw.profile /\ hist.due.rate = hw.rate
      BY <1>2, <2>2 DEF Inv, SavedInv, Traced, UnityBack, ProfileBack, RateBack
    <2>4. hist.due \in [rate : Rates, unity : BOOLEAN, profile : BOOLEAN]
      BY <1>2 DEF Inv, Typed, HistRecord
    <2>5. Settings(hw) = hist.due
      BY <2>3, <2>4 DEF Settings
    <2>6. hw.owner # "us"
      BY <1>2, <2>2 DEF Inv, DeviceInv
    <2> QED BY <2>5, <2>6
  <1>3. Inv => GivenBack
    BY <1>1, <1>2 DEF GivenBack
  <1> QED BY <1>3, InvHolds, PTL

\* What plays undisturbed as bit-perfect is: an integer format at unity volume, at the rate that the
\* open verified, on a device of its own if that was asked for, whatever the open met on its way
\* (output_coreaudio.c: _coreaudio_open).
THEOREM BitPerfectTrue == ASSUME CoreAudioAssumption PROVE Spec => []BitPerfectIsTrue
  <1>1. ASSUME Inv, Prompt, ctl.pc = "idle", ca.unit = "running", ca.bitperfect, ~hist.disturbed
        PROVE  /\ hw.integer /\ hw.unity /\ hw.rate = ca.rate
               /\ "exclusive" \in ca.asked => hw.owner = "us"
    <2>1. ca.device # None
      BY <1>1 DEF Inv, DeviceInv
    <2>2. ctl.pc \in Rated /\ ctl.pc \in Controlled /\ ctl.pc \in Verified
      BY <1>1 DEF Rated, Controlled, Verified, Resting
    <2>3. hw.integer /\ hw.unity /\ hw.rate = ca.rate
      BY <1>1, <2>1, <2>2 DEF Inv, ModeInv
    <2>4. "exclusive" \in ca.asked => hw.owner = "us"
      BY <1>1, <2>1, <2>2 DEF Inv, ModeInv
    <2> QED BY <2>3, <2>4
  <1>2. Inv => BitPerfectIsTrue
    BY <1>1 DEF BitPerfectIsTrue
  <1> QED BY <1>2, InvHolds, PTL

\* While all has one rate, nobody interferes and the Audio Unit works, the shared mixer is used only
\* for want of an integer format (output_coreaudio.c: the fallback in _coreaudio_open).
THEOREM FallbackForced == ASSUME CoreAudioAssumption PROVE Spec => []FallbackOnlyIfNeeded
  <1>1. Inv => FallbackOnlyIfNeeded
    BY DEF Inv, FallbackInv, Calm, Forced, FallbackOnlyIfNeeded
  <1> QED BY <1>1, InvHolds, PTL
=============================================================================
