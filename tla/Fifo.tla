-------------------------------- MODULE Fifo --------------------------------
(* What a struct buffer promises its two users: a bounded queue.  A writer *)
(* appends what fits, a reader consumes from the front, and a flush drops  *)
(* everything.  RingBuffer is shown to implement this.                     *)
EXTENDS Sequences, Integers

CONSTANTS Data,     \* the values a writer stores
          Caps      \* the capacities the buffer may have

VARIABLES q,        \* the unread values, oldest first
          cap,      \* how many it can hold
          did       \* what was done last: a loss is neither a write nor a read

vars == <<q, cap, did>>

Init == q = <<>> /\ cap \in Caps /\ did = "nothing"

\* A writer appends a non-empty run of values that fits.
Put == \E k \in 1 .. (cap - Len(q)) : \E s \in [1 .. k -> Data] :
          q' = q \o s /\ did' = "write" /\ UNCHANGED cap

\* The reader consumes a non-empty prefix.
Take == \E k \in 1 .. Len(q) :
          q' = SubSeq(q, k + 1, Len(q)) /\ did' = "read" /\ UNCHANGED cap

\* Everything is dropped; the capacity may change at the same time.
Clear == q' = <<>> /\ cap' \in Caps /\ did' = "empty"

Next == Put \/ Take \/ Clear

Spec == Init /\ [][Next]_vars
=============================================================================
