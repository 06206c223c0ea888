---------------------------- MODULE MCRingBuffer ----------------------------
(* RingBuffer on a block of 6 units that can be resized to 5 and aligned   *)
(* to frames of 2, 4 and 7: frames that divide the block, frames that do   *)
(* not, and one larger than the block.  Atoms of up to 3 are unwrapped:     *)
(* readp 4 and 5 with every writep below them reach each branch.           *)
EXTENDS BufUnwrap
CONSTANT v1, v2
MCData == {v1, v2}
MCSizes == {5}
MCMods == {2, 4, 7}
=============================================================================
