----------------------------- MODULE CoreAudio ------------------------------
(* output_coreaudio.c: opening, losing and reopening the audio device.     *)
(*                                                                         *)
(* The controller carries out _coreaudio_open step by step, inside its     *)
(* pass and with the outputbuf mutex released, because stopping an Audio   *)
(* Unit waits for its callback.  Meanwhile the callback (ca_render) runs   *)
(* as soon as the unit is started, the monitor asks for a reopen after a   *)
(* failure or a change, and the device and other applications do what they *)
(* like.  The three meet in atomic flags and in output.state.              *)
(*                                                                         *)
(* Volume and mute are one setting, at unity or not; the buffer size is    *)
(* the profile's or not; what is in outputbuf is the rate of the next      *)
(* track.  Time is counted in seconds, and only since the last failure.    *)
EXTENDS Integers

CONSTANTS
    Rates,        \* sample rates of the device and of the tracks
    DefaultRate,  \* output.default_sample_rate
    Tracks,       \* how many tracks the server starts
    Plans         \* what a player is up to: each behaviour follows one plan

Plan == [modes : SUBSET SUBSET {"exclusive", "bitperfect", "strict"},    \* what -a asked for
         idle : BOOLEAN,                 \* whether -C set an idle timeout
         trackRates : SUBSET Rates,      \* the rates of the tracks
         commands : SUBSET {"u", "p", "q", "aude", "close"},  \* what the server sends besides
         autostart : SUBSET BOOLEAN,     \* whether strm s starts the output itself
         integer : SUBSET BOOLEAN,       \* whether the device offers an integer format at unity volume
         rateReplies : SUBSET {"now", "late", "never", "direct", "refused"},  \* how it takes a rate;
                                         \* "direct": with a physical format only
         others : SUBSET {"unplug", "rate", "volume", "hog"},    \* what others do,
         changes : Nat,                  \* how often,
         settled : BOOLEAN,              \* and whether between opens only
         ceiling : Nat \ {0},            \* the longest retry delay, in seconds
         maxFailures : Nat \ {0},        \* bound: failures in a row that are told apart
         unitFails : BOOLEAN]            \* whether the Audio Unit may fail to be set up or started

CoreAudioAssumption ==
    /\ Rates \subseteq Nat \ {0} /\ DefaultRate \in Rates /\ Tracks \in Nat
    /\ Plans \subseteq Plan

VARIABLES
    out,      \* struct outputstate, and the rate of the track that waits in outputbuf
    ca,       \* the statics of output_coreaudio.c
    saved,    \* ca_saved: what the device was set to
    ctl,      \* the controller: its next step and its locals
    mon,      \* the monitor thread: its next step and its locals
    hw,       \* the device
    hist      \* the plan, and as a history: what the device should be left at, tracks started,
              \* changes made by others, whether there was one since the open began, and whether
              \* one set a setting to what the player had made it

vars == <<out, ca, saved, ctl, mon, hw, hist>>

None == 0

Idle == hist.plan.idle
TrackRates == hist.plan.trackRates
Commands == hist.plan.commands
Autostart == hist.plan.autostart
RateReplies == hist.plan.rateReplies
Others == hist.plan.others
Changes == hist.plan.changes
UnitFails == hist.plan.unitFails
Ceiling == hist.plan.ceiling
MaxFailures == hist.plan.maxFailures

Settings(d) == [rate |-> d.rate, unity |-> d.unity, profile |-> d.profile]

NothingSaved == [device |-> None, rate |-> None, unity |-> TRUE, profile |-> TRUE,
                 changed |-> {}]

\* output_init_coreaudio, up to its call of _coreaudio_open.
Init ==
    /\ \E plan \in Plans, present \in BOOLEAN, rate \in Rates, unity \in BOOLEAN :
       \E integer \in plan.integer, m \in plan.modes :
          /\ present \/ "unplug" \in plan.others
          /\ hw = [present |-> present, id |-> 1, rate |-> rate, unity |-> unity, profile |-> FALSE,
                   integer |-> integer, owner |-> "none", pending |-> None]
          /\ out = [state |-> IF plan.idle THEN "OFF" ELSE "STOPPED", rate |-> DefaultRate,
                    next |-> None, reopen |-> FALSE, error |-> ~present]
          /\ ca = [asked |-> m, exclusive |-> FALSE, bitperfect |-> FALSE, fallback |-> FALSE,
                   device |-> None, unit |-> "none", hogged |-> FALSE, rate |-> None,
                   verified |-> {}, listening |-> FALSE, changed |-> FALSE,
                   failures |-> 0, age |-> plan.ceiling]
          /\ hist = [plan |-> plan, due |-> Settings(hw), tracks |-> 0, changes |-> 0,
                     disturbed |-> FALSE, again |-> FALSE]
    /\ saved = NothingSaved
    /\ ctl = [pc |-> "stop", then |-> "mode", start |-> FALSE, wasOff |-> FALSE, found |-> FALSE,
              refused |-> FALSE, closing |-> FALSE]
    /\ mon = [pc |-> "read", changed |-> FALSE, failed |-> FALSE]
-----------------------------------------------------------------------------
(* The device as the code sees it.                                         *)

\* audio_device still names the device.
Alive == hw.present /\ ca.device = hw.id

\* What the device does once its rate was set to r.
RateSet(reply, r) ==
    CASE reply = "now"   -> [hw EXCEPT !.rate = r, !.pending = None]
      [] reply = "late"  -> [hw EXCEPT !.pending = r]
      [] reply \in {"never", "direct"} -> [hw EXCEPT !.pending = None]
-----------------------------------------------------------------------------
(* ca_dispose and _coreaudio_open, called by the controller.               *)

Goto(pc) == ctl' = [ctl EXCEPT !.pc = pc]

\* goto failed, where the device is disposed of again.
Fail(refused) == ctl' = [ctl EXCEPT !.pc = "stop", !.then = "again", !.refused = @ \/ refused]

\* ca_dispose: the listeners go and the unit is stopped, which waits for a
\* callback that is being made.
DisposeUnit ==
    /\ ctl.pc = "stop"
    /\ ca' = [ca EXCEPT !.listening = FALSE, !.unit = "none"]
    /\ Goto("restore")
    /\ UNCHANGED <<out, saved, mon, hw, hist>>

\* Faulty variant: what somebody else has set since is overwritten.
RestoredAlways ==
    IF saved.device # ca.device \/ ~Alive THEN hw
    ELSE [hw EXCEPT !.unity = saved.unity, !.profile = saved.profile, !.rate = saved.rate]

\* ca_restore_device_state: a setting is put back unless somebody else has
\* changed it since.
Restored ==
    IF saved.device # ca.device \/ ~Alive THEN hw
    ELSE [hw EXCEPT !.unity   = IF "unity" \in saved.changed /\ @ THEN saved.unity ELSE @,
                    !.profile = IF "profile" \in saved.changed /\ @ THEN saved.profile ELSE @,
                    !.rate    = IF "rate" \in saved.changed /\ @ = ca.rate THEN saved.rate ELSE @]

\* ca_release_hog
Released(d) == IF ca.hogged /\ Alive /\ d.owner = "us" THEN [d EXCEPT !.owner = "none"] ELSE d

\* Faulty variant: exclusive ownership is kept.
DisposeDeviceHeld ==
    /\ ctl.pc = "restore"
    /\ hw' = Restored
    /\ saved' = IF saved.device = ca.device THEN NothingSaved ELSE saved
    /\ ca' = [ca EXCEPT !.device = None]
    /\ Goto(ctl.then)
    /\ UNCHANGED <<out, mon, hist>>

\* ca_dispose: the device is given back.
DisposeDevice ==
    /\ ctl.pc = "restore"
    /\ hw' = Released(Restored)
    /\ saved' = IF saved.device = ca.device THEN NothingSaved ELSE saved
    /\ ca' = [ca EXCEPT !.hogged = FALSE, !.device = None]
    /\ Goto(ctl.then)
    /\ UNCHANGED <<out, mon, hist>>

\* Every open starts from the mode asked for; an output that is off stays closed.
OpenMode ==
    /\ ctl.pc = "mode"
    /\ ca' = [ca EXCEPT !.exclusive = "exclusive" \in ca.asked, !.bitperfect = "bitperfect" \in ca.asked,
                        !.fallback = FALSE, !.verified = {}]
    /\ ctl' = [ctl EXCEPT !.pc = IF out.state = "OFF" THEN "rest" ELSE "find",
                          !.found = FALSE, !.refused = FALSE]
    /\ UNCHANGED <<out, saved, mon, hw, hist>>

\* ca_find_device and ca_snapshot_device_state
OpenFind ==
    /\ ctl.pc = "find"
    /\ IF hw.present
       THEN /\ ca' = [ca EXCEPT !.device = hw.id]
            /\ saved' = [NothingSaved EXCEPT !.device = hw.id, !.rate = hw.rate, !.unity = hw.unity,
                                             !.profile = hw.profile]
            /\ ctl' = [ctl EXCEPT !.pc = "hog", !.found = TRUE]
       ELSE Fail(FALSE) /\ UNCHANGED <<ca, saved>>
    /\ hist' = [hist EXCEPT !.disturbed = FALSE]
    /\ UNCHANGED <<out, mon, hw>>

\* ca_acquire_hog
OpenHog ==
    /\ ctl.pc = "hog"
    /\ IF ~ca.exclusive THEN Goto("rate") /\ UNCHANGED <<ca, hw>>
       ELSE IF Alive /\ hw.owner # "other"
            THEN /\ hw' = [hw EXCEPT !.owner = "us"]
                 /\ ca' = [ca EXCEPT !.hogged = TRUE, !.verified = @ \cup {"exclusive"}]
                 /\ Goto("rate")
            ELSE Fail(FALSE) /\ UNCHANGED <<ca, hw>>
    /\ UNCHANGED <<out, saved, mon, hist>>

\* ca_set_nominal_rate: nothing is written if the rate is right.
OpenRate ==
    /\ ctl.pc = "rate"
    /\ IF Alive /\ hw.rate = out.rate
       THEN Goto("settle") /\ UNCHANGED <<saved, hw>>
       ELSE \E reply \in IF Alive THEN RateReplies ELSE {"refused"} :
            IF reply = "refused" THEN Fail(TRUE) /\ UNCHANGED <<saved, hw>>
            ELSE /\ hw' = RateSet(reply, out.rate)
                 /\ saved' = [saved EXCEPT !.changed = IF saved.rate # out.rate THEN @ \cup {"rate"} ELSE @]
                 /\ Goto("settle")
    /\ UNCHANGED <<out, ca, mon, hist>>

\* Faulty variant: a refused rate is not told from other failures.
OpenSettleUnknown ==
    /\ ctl.pc = "settle"
    /\ \/ /\ Alive
          /\ hw.rate = out.rate \/ "direct" \in RateReplies
          /\ hw' = [hw EXCEPT !.rate = out.rate]
          /\ ca' = [ca EXCEPT !.rate = out.rate]
          /\ Goto("unit")
       \/ /\ ~(Alive /\ hw.rate = out.rate)
          /\ Fail(FALSE)
          /\ UNCHANGED <<ca, hw>>
    /\ UNCHANGED <<out, saved, mon, hist>>

\* It waits for the rate to be applied, asks again, asks for the physical
\* format, and gives up.
OpenSettle ==
    /\ ctl.pc = "settle"
    /\ \/ /\ Alive
          /\ hw.rate = out.rate \/ "direct" \in RateReplies
          /\ hw' = [hw EXCEPT !.rate = out.rate]
          /\ ca' = [ca EXCEPT !.rate = out.rate]
          /\ Goto("unit")
       \/ /\ ~(Alive /\ hw.rate = out.rate)
          /\ Fail(TRUE)
          /\ UNCHANGED <<ca, hw>>
    /\ UNCHANGED <<out, saved, mon, hist>>

\* ca_configure_buffer, then the Audio Unit is set up and its format verified.
OpenUnit ==
    /\ ctl.pc = "unit"
    /\ hw' = IF Alive THEN [hw EXCEPT !.profile = TRUE] ELSE hw
    /\ saved' = [saved EXCEPT !.changed = IF Alive /\ ~saved.profile THEN @ \cup {"profile"} ELSE @]
    /\ \/ Alive /\ Goto("controls") /\ ca' = [ca EXCEPT !.unit = "ready"]
       \/ (UnitFails \/ ~Alive) /\ Fail(FALSE) /\ UNCHANGED ca
    /\ UNCHANGED <<out, mon, hist>>

\* ca_verify_hardware_controls: bit-perfect playback needs unity.
OpenControls ==
    /\ ctl.pc = "controls"
    /\ hw' = IF Alive /\ ca.bitperfect THEN [hw EXCEPT !.unity = TRUE] ELSE hw
    /\ saved' = [saved EXCEPT !.changed = IF Alive /\ ca.bitperfect /\ ~hw.unity /\ ~saved.unity
                                          THEN @ \cup {"unity"} ELSE @]
    /\ LET ok == Alive /\ hw'.unity IN
       /\ ca' = [ca EXCEPT !.verified = IF ok THEN @ \cup {"volume"} ELSE @]
       /\ IF ca.bitperfect /\ ~ok THEN Fail(FALSE) ELSE Goto("start")
    /\ UNCHANGED <<out, mon, hist>>

\* AudioOutputUnitStart: from here on the callback runs.
OpenStart ==
    /\ ctl.pc = "start"
    /\ \/ Alive /\ Goto("physical") /\ ca' = [ca EXCEPT !.unit = "running"]
       \/ (UnitFails \/ ~Alive) /\ Fail(FALSE) /\ UNCHANGED ca
    /\ UNCHANGED <<out, saved, mon, hw, hist>>

\* Faulty variant: any format will do.
OpenPhysicalAny ==
    /\ ctl.pc = "physical"
    /\ IF Alive /\ hw.rate = out.rate
       THEN Goto("listen") /\ ca' = [ca EXCEPT !.verified = @ \cup {"physical"}]
       ELSE Fail(FALSE) /\ UNCHANGED ca
    /\ UNCHANGED <<out, saved, mon, hw, hist>>

\* ca_physical_format, which reads output.current_sample_rate once more.
OpenPhysical ==
    /\ ctl.pc = "physical"
    /\ IF Alive /\ hw.rate = out.rate /\ (ca.bitperfect => hw.integer)
       THEN Goto("listen") /\ ca' = [ca EXCEPT !.verified = @ \cup {"physical"}]
       ELSE Fail(FALSE) /\ UNCHANGED ca
    /\ UNCHANGED <<out, saved, mon, hw, hist>>

\* ca_add_listeners
OpenListen ==
    /\ ctl.pc = "listen"
    /\ ca' = [ca EXCEPT !.listening = TRUE]
    /\ Goto("opened")
    /\ UNCHANGED <<out, saved, mon, hw, hist>>

\* The output is open: what is left of earlier failures and changes is cleared.
OpenDone ==
    /\ ctl.pc = "opened"
    /\ out' = [out EXCEPT !.error = FALSE]
    /\ ca' = [ca EXCEPT !.changed = FALSE, !.failures = 0]
    /\ Goto("rest")
    /\ UNCHANGED <<saved, mon, hw, hist>>

\* ca_retry_delay_ms
RetryDelay(failures) ==
    LET shift == IF failures = 0 THEN 0 ELSE IF failures > 6 THEN 5 ELSE failures - 1
    IN  IF 2 ^ shift > Ceiling THEN Ceiling ELSE 2 ^ shift

MayFallBack == /\ ctl.found /\ ~ctl.refused /\ ~ca.fallback
               /\ "strict" \notin ca.asked /\ (ca.exclusive \/ ca.bitperfect)

\* Faulty variant: a failure is not noted.
OpenAgainUnnoted ==
    /\ ctl.pc = "again"
    /\ IF MayFallBack
       THEN /\ ca' = [ca EXCEPT !.fallback = TRUE, !.exclusive = FALSE, !.bitperfect = FALSE]
            /\ Goto("find")
       ELSE ca' = [ca EXCEPT !.verified = {}] /\ Goto("count")
    /\ UNCHANGED <<out, saved, mon, hw, hist>>

\* The open failed: try the shared mixer if that may help, else give up for
\* now ...
OpenAgain ==
    /\ ctl.pc = "again"
    /\ IF MayFallBack
       THEN /\ ca' = [ca EXCEPT !.fallback = TRUE, !.exclusive = FALSE, !.bitperfect = FALSE]
            /\ Goto("find")
            /\ UNCHANGED out
       ELSE /\ out' = [out EXCEPT !.error = TRUE]
            /\ ca' = [ca EXCEPT !.verified = {}]
            /\ Goto("count")
    /\ UNCHANGED <<saved, mon, hw, hist>>

\* ... and only then count the failure.
OpenCount ==
    /\ ctl.pc = "count"
    /\ ca' = [ca EXCEPT !.failures = IF @ < MaxFailures THEN @ + 1 ELSE @, !.age = 0]
    /\ Goto("rest")
    /\ UNCHANGED <<out, saved, mon, hw, hist>>

Open == DisposeUnit \/ DisposeDevice \/ OpenMode \/ OpenFind \/ OpenHog \/ OpenRate \/ OpenSettle
          \/ OpenUnit \/ OpenControls \/ OpenStart \/ OpenPhysical \/ OpenListen \/ OpenDone \/ OpenAgain \/ OpenCount
-----------------------------------------------------------------------------
(* The controller's pass, under the outputbuf mutex, and its commands.     *)

\* The end of the pass: an output that ran dry stops, and one that has been
\* stopped for long is switched off.
AtRest(o) ==
    {o} \cup (IF o.state = "RUNNING" /\ o.next = None THEN {[o EXCEPT !.state = "STOPPED"]} ELSE {})
        \cup (IF o.state = "STOPPED" /\ Idle THEN {[o EXCEPT !.state = "OFF"]} ELSE {})

\* Faulty variant: an output that was off is not reopened.
PassCold ==
    /\ ctl.pc = "idle"
    /\ LET starts == ctl.start /\ out.state \in {"STOPPED", "OFF"}
           o      == [out EXCEPT !.state = IF starts THEN "BUFFER" ELSE @]
       IN  IF o.reopen
           THEN /\ out' = [o EXCEPT !.reopen = FALSE]
                /\ ctl' = [ctl EXCEPT !.pc = "stop", !.then = "mode", !.start = FALSE]
           ELSE /\ out' \in AtRest(o)
                /\ ctl' = [ctl EXCEPT !.start = FALSE, !.wasOff = FALSE]
    /\ UNCHANGED <<ca, saved, mon, hw, hist>>

\* slimproto_run: start the output, reopen it if that was asked for.
Pass ==
    /\ ctl.pc = "idle"
    /\ LET starts == ctl.start /\ out.state \in {"STOPPED", "OFF"}
           o      == [out EXCEPT !.state = IF starts THEN "BUFFER" ELSE @,
                                 !.reopen = @ \/ (starts /\ out.state = "OFF")]
       IN  IF o.reopen
           THEN /\ out' = [o EXCEPT !.reopen = FALSE]
                /\ ctl' = [ctl EXCEPT !.pc = "stop", !.then = "mode", !.start = FALSE,
                                      !.wasOff = starts /\ out.state = "OFF"]
           ELSE /\ out' \in AtRest(o)
                /\ ctl' = [ctl EXCEPT !.start = FALSE, !.wasOff = FALSE]
    /\ UNCHANGED <<ca, saved, mon, hw, hist>>

PassRest ==
    /\ ctl.pc = "rest"
    /\ out' \in AtRest(out)
    /\ ctl' = [ctl EXCEPT !.pc = "idle", !.wasOff = FALSE]
    /\ UNCHANGED <<ca, saved, mon, hw, hist>>

\* strm s and what the decoder makes of it: a track waits in outputbuf, and
\* the output is started in the next pass if the server said so.
StrmS == \E r \in TrackRates, auto \in Autostart :
    /\ ctl.pc = "idle" /\ out.next = None /\ ~ctl.start /\ hist.tracks < Tracks
    /\ out' = [out EXCEPT !.next = r]
    /\ ctl' = [ctl EXCEPT !.start = auto]
    /\ hist' = [hist EXCEPT !.tracks = @ + 1]
    /\ UNCHANGED <<ca, saved, mon, hw>>

\* The other commands only touch the output.
Sets(command, o) ==
    /\ ctl.pc = "idle" /\ command \in Commands
    /\ out' = o
    /\ UNCHANGED <<ca, saved, ctl, mon, hw, hist>>

StrmU == Sets("u", [out EXCEPT !.state = "RUNNING"])
StrmP == Sets("p", [out EXCEPT !.state = IF @ = "OFF" THEN @ ELSE "STOPPED"])

\* strm q: decode_flush and output_flush
StrmQ ==
    /\ ctl.pc = "idle" /\ "q" \in Commands
    /\ out' = [out EXCEPT !.next = None, !.state = IF @ = "OFF" THEN @ ELSE "STOPPED",
                          !.rate = IF out.error /\ out.state # "OFF" THEN DefaultRate ELSE @]
    /\ ctl' = [ctl EXCEPT !.start = FALSE]
    /\ UNCHANGED <<ca, saved, mon, hw, hist>>

\* process_aude
AudeOff == Sets("aude", [out EXCEPT !.state = "OFF"])
AudeOn  == Sets("aude", [out EXCEPT !.state = IF @ = "OFF" /\ ~Idle THEN "STOPPED" ELSE @])

\* output_close_coreaudio: the monitor is joined, the device given back.
Close ==
    /\ ctl.pc = "idle" /\ "close" \in Commands
    /\ ctl' = [ctl EXCEPT !.pc = "join", !.closing = TRUE]
    /\ UNCHANGED <<out, ca, saved, mon, hw, hist>>

Join ==
    /\ ctl.pc = "join" /\ mon.pc = "stopped"
    /\ ctl' = [ctl EXCEPT !.pc = "stop", !.then = "closed"]
    /\ UNCHANGED <<out, ca, saved, mon, hw, hist>>

Controller == Open \/ Pass \/ PassRest \/ Join

Server == StrmS \/ StrmU \/ StrmP \/ StrmQ \/ AudeOff \/ AudeOn \/ Close
-----------------------------------------------------------------------------
(* The callback, the monitor, the clock, and everybody else.               *)

\* Faulty variant: a change of rate is not noticed.
RenderSameRate ==
    /\ ca.unit = "running" /\ Alive
    /\ LET plays == out.state \in {"BUFFER", "RUNNING"} /\ out.next # None
           o     == IF plays THEN [out EXCEPT !.state = "RUNNING", !.rate = out.next, !.next = None] ELSE out
       IN  out' = [o EXCEPT !.reopen = @ \/ o.state = "OFF"]
    /\ UNCHANGED <<ca, saved, ctl, mon, hw, hist>>

\* ca_render: the track that waits is started, and a reopen asked for if the
\* device has another rate or the output is off.
Render ==
    /\ ca.unit = "running" /\ Alive
    /\ LET plays == out.state \in {"BUFFER", "RUNNING"} /\ out.next # None
           o     == IF plays THEN [out EXCEPT !.state = "RUNNING", !.rate = out.next, !.next = None] ELSE out
       IN  out' = [o EXCEPT !.reopen = @ \/ o.state = "OFF" \/ ca.rate # o.rate]
    /\ UNCHANGED <<ca, saved, ctl, mon, hw, hist>>

\* ca_monitor, every 200 ms: what changed, what failed ...
MonitorRead ==
    /\ mon.pc = "read"
    /\ IF ctl.closing THEN mon' = [mon EXCEPT !.pc = "stopped"] /\ UNCHANGED ca
       ELSE /\ mon' = [pc |-> "act", changed |-> ca.changed, failed |-> out.error]
            /\ ca' = [ca EXCEPT !.changed = FALSE]
    /\ UNCHANGED <<out, saved, ctl, hw, hist>>

\* ... and whether to retry.
MonitorAct ==
    /\ mon.pc = "act"
    /\ LET failures == IF mon.changed THEN 0 ELSE ca.failures IN
       /\ ca' = [ca EXCEPT !.failures = failures]
       /\ out' = [out EXCEPT !.reopen = @ \/ mon.changed
                                          \/ (mon.failed /\ ca.age >= RetryDelay(failures))]
    /\ mon' = [mon EXCEPT !.pc = "read"]
    /\ UNCHANGED <<saved, ctl, hw, hist>>

Monitor == MonitorRead \/ MonitorAct

\* A second passes; only the time since the last failure is kept.
Tick ==
    /\ ca.age < Ceiling
    /\ ca' = [ca EXCEPT !.age = @ + 1]
    /\ UNCHANGED <<out, saved, ctl, mon, hw, hist>>

\* The device applies a rate it was late to apply.
Settle ==
    /\ hw.present /\ hw.pending # None
    /\ hw' = [hw EXCEPT !.rate = hw.pending, !.pending = None]
    /\ UNCHANGED <<out, ca, saved, ctl, mon, hist>>

\* Others change the device, and ca_listener hears of it.  While it is being
\* set up they leave its settings alone: whose they are then nobody can say.
Disturb(who, d, due, again) ==
    /\ who \in Others /\ hist.changes < Changes /\ (hist.plan.settled => ctl.pc = "idle")
    /\ hw' = d
    /\ ca' = [ca EXCEPT !.changed = @ \/ ca.listening]
    /\ hist' = [hist EXCEPT !.changes = @ + 1, !.disturbed = TRUE, !.due = due, !.again = @ \/ again]
    /\ UNCHANGED <<out, saved, ctl, mon>>

Quiet == ctl.pc \in {"hog", "rate", "settle", "unit", "controls", "again", "restore", "stop"}

OthersSetRate == \E r \in Rates \ {hw.rate} :
    /\ hw.present /\ hw.owner # "us" /\ ~Quiet
    /\ Disturb("rate", [hw EXCEPT !.rate = r], [hist.due EXCEPT !.rate = r],
               Alive /\ "rate" \in saved.changed /\ r = ca.rate)

OthersSetVolume ==
    /\ hw.present /\ ~Quiet
    /\ Disturb("volume", [hw EXCEPT !.unity = ~@], [hist.due EXCEPT !.unity = ~hw.unity],
               Alive /\ "unity" \in saved.changed /\ ~hw.unity)

OthersHog ==
    /\ hw.present /\ hw.owner = "none"
    /\ Disturb("hog", [hw EXCEPT !.owner = "other"], hist.due, FALSE)

\* Unplugged, the device keeps its settings; plugged in again it has a new
\* AudioDeviceID.
Unplug ==
    /\ hw.present
    /\ Disturb("unplug", [hw EXCEPT !.present = FALSE, !.owner = "none", !.pending = None],
               Settings(hw), FALSE)

Replug ==
    /\ ~hw.present
    /\ hw' = [hw EXCEPT !.present = TRUE, !.id = @ + 1]
    /\ ca' = [ca EXCEPT !.changed = @ \/ ca.listening]
    /\ UNCHANGED <<out, saved, ctl, mon, hist>>

Disturbance == OthersSetRate \/ OthersSetVolume \/ OthersHog \/ Unplug

Next == Controller \/ Server \/ Render \/ Monitor \/ Tick \/ Settle \/ Replug \/ Disturbance

\* The controller makes a pass at least every second and carries an open
\* through, the monitor looks every 200 ms, a started unit calls back, time
\* passes, and the listener plugs the device in again.  That a track ends or
\* an idle timeout passes is not assumed.
Fairness ==
    /\ WF_vars(Pass /\ (ctl.start \/ out.reopen)) /\ WF_vars(Open \/ PassRest)
    /\ WF_vars(Render) /\ WF_vars(Monitor) /\ WF_vars(Tick) /\ WF_vars(Replug)

Spec == Init /\ [][Next]_vars

FairSpec == Spec /\ Fairness
-----------------------------------------------------------------------------
Closed == ca.device = None /\ ca.unit = "none"

\* Only a device that was found is hogged, listened to or played on, whatever
\* was lost under the hands of an open that was under way.
TypeOK ==
    /\ ca.hogged \/ ca.listening \/ ca.unit # "none" => ca.device # None
    /\ ca.unit \in {"none", "ready", "running"}
    /\ ca.verified \subseteq {"exclusive", "volume", "physical"}
    /\ out.state \in {"OFF", "STOPPED", "BUFFER", "RUNNING"}
    /\ out.rate \in Rates /\ out.next \in Rates \cup {None}
    /\ ca.failures \in 0 .. MaxFailures /\ ca.age \in 0 .. Ceiling

\* A rate is applied at once, at once with a physical format, or never.
Prompt == "late" \notin RateReplies

\* "Hardware rate, buffer size, mute, volume and exclusive ownership are
\* captured, verified and restored on close or failed open"
\* (docs/VULN-REMEDIATION.md): with the device closed its settings are what
\* they were, or what others made them meanwhile.
SettingsRestored == Closed /\ hw.present => Settings(hw) = hist.due /\ hw.owner # "us"

\* They are as far as what somebody else has set can be told from what the
\* player has, and no device is used that was not found.
GivenBack == TypeOK /\ (Prompt /\ ~hist.again => SettingsRestored)

\* Bit-perfect playback that is not disturbed is that: an integer format, at
\* unity volume, at the rate of the track that was opened for, on a device
\* of its own if that was asked for.
BitPerfectIsTrue ==
    Prompt /\ ctl.pc = "idle" /\ ca.unit = "running" /\ ca.bitperfect /\ ~hist.disturbed
      => /\ hw.integer /\ hw.unity /\ hw.rate = ca.rate
         /\ "exclusive" \in ca.asked => hw.owner = "us"

\* The player "falls back to shared Float32 when exclusive bit-perfect output
\* is impossible" (README.md), and only then, while all has one rate.
FallbackOnlyIfNeeded ==
    TrackRates \subseteq {DefaultRate} /\ ca.fallback /\ hist.changes = 0 /\ ~UnitFails
      => ~hw.integer /\ "bitperfect" \in ca.asked

\* "Reopen retries back off from 1 s to 30 s" (README.md): after a failure
\* the monitor does not have the device opened again before the delay is over.
BacksOff ==
    ctl.pc = "mode" /\ out.error /\ ca.failures > 0 /\ out.state # "OFF" /\ ~ctl.wasOff
      => ca.age >= RetryDelay(ca.failures)

\* "Reopen the CoreAudio Audio Unit in the same controller pass when playback
\* resumes from idle, avoiding an indefinite LMS waitingToPlay state"
\* (doc/release-v1.0-rc3.md), and "failed opens are retried without leaving
\* an idle dead end" (docs/VULN-REMEDIATION.md): what was started is heard.
Resumes ==
    hist.plan.settled /\ out.next # None /\ out.state \in {"BUFFER", "RUNNING"}
      ~> out.next = None \/ out.state \in {"STOPPED", "OFF"}

\* "Device-list, default-device, alive-state, sample-rate ... listeners with
\* automatic reopen attempts" (doc/coreaudio-intel-candidate.md): the device
\* does not stay at another rate than what is played on it.
RateFollows ==
    hist.plan.settled /\ ca.unit = "running" /\ hw.rate # out.rate
      ~> hw.rate = out.rate \/ ca.unit # "running"
=============================================================================
