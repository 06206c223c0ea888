------------------------------ MODULE RingOps ------------------------------
(* The pointer arithmetic of struct buffer (squeezelite.h, buffer.c).      *)
(*                                                                         *)
(* The C code keeps four pointers into one malloc'd block: buf, readp,     *)
(* writep and wrap = buf + size.  Here a pointer is its offset from buf,   *)
(* so buf is 0 and wrap is size.  r, w and n below are readp, writep and   *)
(* size.  The unit (byte or frame) is the caller's: outputbuf only ever    *)
(* moves by whole frames, streambuf by bytes.                              *)
EXTENDS Integers

\* _buf_used: what lies between readp and writep, around the wrap.
Used(r, w, n) == IF w >= r THEN w - r ELSE n - (r - w)

\* Faulty variant: every slot is offered to the writer.
SpaceAll(r, w, n) == n - Used(r, w, n)

\* _buf_space: one slot is never filled, so that full differs from empty.
Space(r, w, n) == n - Used(r, w, n) - 1

\* _buf_cont_read: what can be read without wrapping.
ContRead(r, w, n) == IF w >= r THEN w - r ELSE n - r

\* _buf_cont_write: what can be written without wrapping.
ContWrite(r, w, n) == IF w >= r THEN n - w ELSE r - w

\* Faulty variant: a pointer that reaches wrap stays there.
IncPtrPast(p, by, n) == IF p + by > n THEN p + by - n ELSE p + by

\* _buf_inc_readp and _buf_inc_writep.
IncPtr(p, by, n) == (p + (by % n)) % n

\* Faulty variant: the size is left as it is.
AdjustedSizeNone(base, mod) == base

\* The size buf_adjust gives a block of base units to hold whole frames.
AdjustedSize(base, mod) == IF base \div mod = 0 THEN base ELSE (base \div mod) * mod

\* The idiom min(_buf_space, _buf_cont_write) of every writer of a buffer.
Writable(r, w, n) ==
    IF Space(r, w, n) <= ContWrite(r, w, n) THEN Space(r, w, n) ELSE ContWrite(r, w, n)
=============================================================================
