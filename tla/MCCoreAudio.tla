---------------------------- MODULE MCCoreAudio -----------------------------
(* CoreAudio on a device of two rates, under three plans: opened and closed *)
(* while others change what it is set to, asked for modes it may refuse,    *)
(* and playing tracks while others disturb it between opens.                *)
EXTENDS CoreAudio

OpenedPlan ==
    [modes |-> {{"exclusive", "bitperfect"}}, idle |-> FALSE, trackRates |-> {2},
     commands |-> {"close"}, autostart |-> {TRUE}, integer |-> {TRUE, FALSE},
     rateReplies |-> {"now", "direct", "refused"}, others |-> {"unplug", "rate", "volume", "hog"},
     changes |-> 1, settled |-> FALSE, unitFails |-> FALSE, ceiling |-> 1,
     maxFailures |-> 1]

AskedPlan ==
    [modes |-> {{"bitperfect"}, {"exclusive", "bitperfect"}, {"exclusive", "bitperfect", "strict"}},
     idle |-> TRUE, trackRates |-> {1}, commands |-> {"u", "p", "q", "aude"},
     autostart |-> {TRUE, FALSE}, integer |-> {TRUE, FALSE},
     rateReplies |-> {"now", "late", "never", "direct", "refused"}, others |-> {},
     changes |-> 0, settled |-> FALSE, unitFails |-> FALSE, ceiling |-> 2,
     maxFailures |-> 2]

LivePlan ==
    [modes |-> {{}, {"exclusive", "bitperfect"}}, idle |-> TRUE, trackRates |-> {1, 2},
     commands |-> {"q"}, autostart |-> {TRUE}, integer |-> {TRUE}, rateReplies |-> {"now"},
     others |-> {"unplug", "rate"}, changes |-> 1, settled |-> TRUE, unitFails |-> FALSE, ceiling |-> 1,
     maxFailures |-> 1]

ThreePlans == {OpenedPlan, AskedPlan, LivePlan}

\* A server that only lets the output run (MCCoreAudioIdleUnpause).
UnpausePlans ==
    {[LivePlan EXCEPT !.modes = {{}}, !.trackRates = {1}, !.commands = {"u"}, !.autostart = {FALSE},
                      !.others = {}, !.changes = 0]}

ASSUME CoreAudioAssumption

\* The fairness of CoreAudio, for the plan whose music is to be heard.
Owed(A) == hist.plan.settled /\ A
MCSpec == /\ Spec
          /\ WF_vars(Owed(Pass /\ (ctl.start \/ out.reopen))) /\ WF_vars(Owed(Open \/ PassRest))
          /\ WF_vars(Owed(Render)) /\ WF_vars(Owed(Monitor)) /\ WF_vars(Owed(Tick))
          /\ WF_vars(Owed(Replug))
=============================================================================
