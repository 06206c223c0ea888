--------------------------- MODULE MCOutputFrames ---------------------------
(* OutputFrames on tracks of a few frames and a ring of a few slots, over   *)
(* the same variables: with the constants of the configuration, three short *)
(* tracks with fades in and out, delays, skips and strm f; and as Cross, two *)
(* longer ones that are crossfaded.                                         *)
EXTENDS OutputFrames

VARIABLE which

Cross(plan) == INSTANCE OutputFrames WITH
    Tracks <- 2, Threshold <- 1, TrackLen <- plan.len,
    BufFrames <- CrossFrames, Wanted <- plan.wanted, FadeFrames <- plan.fade,
    Formats <- plan.formats, FadeModes <- plan.modes, Commands <- plan.commands

\* Crossfades with callbacks of one or two frames, stops and strm q; with strm
\* f, pauses and timed starts; with skips; beside fades of other kinds; and as
\* long as the ring, so that their length is capped, inside a frame.  (A track of
\* another format is not crossfaded: two plans have both.)
Plans ==
    LET one == {CHOOSE f \in Formats : TRUE} IN
    [called   |-> [fade |-> 2, len |-> 6, wanted |-> {1, 2}, formats |-> Formats,
                   modes |-> {"CROSSFADE"}, commands |-> {"q", "p"}],
     flushed  |-> [fade |-> 2, len |-> 6, wanted |-> {1}, formats |-> Formats,
                   modes |-> {"CROSSFADE"}, commands |-> {"f", "pause", "at"}],
     skipped  |-> [fade |-> 2, len |-> 4, wanted |-> {1}, formats |-> one,
                   modes |-> {"CROSSFADE"}, commands |-> {"a"}],
     replaced |-> [fade |-> 2, len |-> 6, wanted |-> {1}, formats |-> one,
                   modes |-> {"CROSSFADE", "OUT", "IN"}, commands |-> {"u"}],
     capped   |-> [fade |-> 8, len |-> 10, wanted |-> {2}, formats |-> one,
                   modes |-> {"CROSSFADE"}, commands |-> {"f"}]]

ASSUME OutputAssumption /\ \A p \in DOMAIN Plans : Cross(Plans[p])!OutputAssumption

MCInit == \/ which = "short" /\ Init
          \/ \E p \in DOMAIN Plans : which = p /\ Cross(Plans[p])!Init

MCNext == /\ UNCHANGED which
          /\ \/ which = "short" /\ NextConsiderate
             \/ \E p \in DOMAIN Plans :
                  which = p /\ Cross(Plans[p])!NextConsiderate

MCSpec == MCInit /\ [][MCNext]_<<which, vars>>
=============================================================================
