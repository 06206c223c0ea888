---- MODULE MCSlimproto ----
(* Two servers that come and go, and packets of every kind and of lengths at and past the limits. *)
EXTENDS Slimproto
CONSTANTS A, B, cap

P(op, len, to, c, n) == [op |-> op, len |-> len, to |-> to, cap |-> c, name |-> n]
MCServers == {A, B}
MCHomes == {A, None}
MCPackets ==
    {P("strm", 1, None, None, 0), P("strm", MaxBuf + 1, None, None, 0),
     P("serv", 1, A, None, 0), P("serv", 2, B, cap, 0), P("serv", 2, None, cap, 0),
     P("setd", 2, None, None, 1), P("setd", 2, None, None, 3)}
====
