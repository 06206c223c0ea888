------------------------------ MODULE Reports -------------------------------
(* What the server may rely on: the order in which a player reports on the *)
(* tracks it is told to stream, one after the other and without a flush.   *)
(* Player implements it.                                                   *)
EXTENDS Naturals

CONSTANT Tracks

VARIABLES streamed,   \* strm s commands carried out
          started,    \* STMs: tracks that have begun to be heard
          decoded,    \* STMd: tracks that are decoded to the end
          dry         \* STMu: everything was played

vars == <<streamed, started, decoded, dry>>

Init == streamed = 0 /\ started = 0 /\ decoded = 0 /\ dry = FALSE

Complete == started = streamed /\ decoded = streamed

Stream == /\ Complete /\ streamed < Tracks
          /\ streamed' = streamed + 1 /\ dry' = FALSE
          /\ UNCHANGED <<started, decoded>>

STMs == started < streamed /\ started' = started + 1 /\ UNCHANGED <<streamed, decoded, dry>>

STMd == decoded < streamed /\ decoded' = decoded + 1 /\ UNCHANGED <<streamed, started, dry>>

STMu == Complete /\ streamed > 0 /\ ~dry /\ dry' = TRUE /\ UNCHANGED <<streamed, started, decoded>>

Next == Stream \/ STMs \/ STMd \/ STMu

Spec == Init /\ [][Next]_vars
=============================================================================
