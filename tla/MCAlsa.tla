---- MODULE MCAlsa ----
(* Music of two kinds on devices with and without mmap, plug, rate delay and the reopen option, and
   on one that plays one kind only. *)
EXTENDS Alsa

CONSTANTS cd, hires
MCKinds == {cd, hires}
MCMusic == <<cd, cd, hires, hires>>
MCBufferOf == [k \in MCKinds |-> IF k = cd THEN 2 ELSE 3]
MCPeriodOf == [k \in MCKinds |-> IF k = cd THEN 1 ELSE 2]

S(mmap, mmapped, native, device, reopen, probe, delay, n) ==
    [mmap |-> mmap, mmapped |-> mmapped, native |-> native, device |-> device, reopen |-> reopen,
     probe |-> probe, delay |-> delay, faults |-> n]
MCSetups ==
    {S(TRUE, TRUE, TRUE, "plug", FALSE, FALSE, 3, 1), S(TRUE, FALSE, FALSE, "hw", FALSE, TRUE, 0, 1),
     S(FALSE, TRUE, FALSE, "plug", FALSE, FALSE, 3, 1), S(TRUE, TRUE, TRUE, "hw", TRUE, FALSE, 0, 1),
     S(FALSE, TRUE, TRUE, "plug", FALSE, TRUE, 0, 2), S(TRUE, TRUE, TRUE, "fixed", FALSE, FALSE, 3, 1)}
====
