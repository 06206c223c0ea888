------------------------------ MODULE MCPlayer ------------------------------
(* Player on two tracks of two units, under three plans: a server that only *)
(* pauses and lets the tracks play out, one that stops and flushes at any   *)
(* time while connections and codecs fail, and one that flushes only what   *)
(* was refused.                                                             *)
EXTENDS Player

OrderPlan == [streamCap |-> 3, outCap |-> 2, autostarts |-> 0 .. 3,
              kinds |-> {"http", "file", "unknown"}, commands |-> {"p"}, faults |-> {}]
FlushPlan == [streamCap |-> 1, outCap |-> 1, autostarts |-> {3}, kinds |-> {"http", "file"},
              commands |-> {"q", "f"}, faults |-> {"connect", "headers", "reset", "codec"}]
FailedPlan == [streamCap |-> 2, outCap |-> 2, autostarts |-> {1}, kinds |-> {"http"},
               commands |-> {}, faults |-> {"connect", "codec"}]
ThreePlans == {OrderPlan, FlushPlan, FailedPlan}

\* Connections are reset (MCPlayerLostEnd).
ResetPlans == {[FailedPlan EXCEPT !.faults = {"reset"}]}

ASSUME PlayerAssumption

\* The fairness of Player, for the plans whose tracks are to be heard or reported.
Owed(A) == server.plan # FlushPlan /\ A
MCSpec == /\ Spec
          /\ WF_vars(Owed(StreamThread)) /\ WF_vars(Owed(DecodeThread)) /\ WF_vars(Owed(Render))
          /\ WF_vars(Owed(Pass)) /\ SF_vars(Owed(Command)) /\ WF_vars(Owed(Answer))
=============================================================================
