----------------------------- MODULE BufUnwrap ------------------------------
(* buffer.c, _buf_unwrap: slide the unread bytes down inside the block so  *)
(* that the first cont of them are contiguous.  The ALAC container parser  *)
(* calls it on streambuf, under its mutex, for an atom that straddles the  *)
(* wrap (alac.c:364); everything else the buffer does is RingBuffer's.     *)
EXTENDS RingBuffer

CONSTANT MaxCont      \* longest atom that is unwrapped
\* Half the block: beyond it the scratch branch is asked to move a negative
\* number of bytes (len - by - overlap = 2 * (size - cont) - readp), which C
\* leaves undefined.
ASSUME ContAssumption == MaxCont \in Nat /\ 2 * MaxCont <= BufSize

\* memmove(buf + dst, buf + src, n), and memcpy of disjoint runs.
Move(m, dst, src, n) ==
    [i \in DOMAIN m |-> IF i >= dst /\ i < dst + n THEN m[src + i - dst] ELSE m[i]]

\* The branches of _buf_unwrap on a buffer b = [m, r, w] of n bytes.
\* Not wrapped: the unread bytes move down as they are.
SlideDown(b, by) ==
    [m |-> Move(b.m, b.r - by, b.r, b.w - b.r), r |-> b.r - by, w |-> b.w - by]

\* Faulty variant: readp is not moved down with the bytes.
SlideIntoGapInPlace(b, by, n) ==
    [m |-> Move(b.m, b.r - by, b.r, n - b.r), r |-> b.r, w |-> b.w]

\* Wrapped, and the gap between writep and readp is at least by wide.
SlideIntoGap(b, by, n) ==
    LET len == b.w
        up  == Move(b.m, b.r - by, b.r, n - b.r)
        mid == Move(up, n - by, 0, IF len < by THEN len ELSE by)
    IN  IF len > by
        THEN [m |-> Move(mid, 0, by, len - by), r |-> b.r - by, w |-> b.w - by]
        ELSE [m |-> mid, r |-> b.r - by, w |-> b.w + n - by]

\* Faulty variant: the bytes put aside are not put back.
SlideOverScratchLost(b, by, n) ==
    LET up   == Move(b.m, b.r - by, b.r, n - b.r)
        mid  == Move(up, n - by, 0, by)
    IN  [m |-> Move(mid, 0, by, 2 * b.w - b.r - by), r |-> b.r - by, w |-> b.w - by]

\* Wrapped, and the bytes in the way are put aside in a scratch block.
SlideOverScratch(b, by, n) ==
    LET overlap == by - (b.r - b.w)
        scratch == [i \in 0 .. overlap - 1 |-> b.m[b.w - overlap + i]]
        up   == Move(b.m, b.r - by, b.r, n - b.r)
        mid  == Move(up, n - by, 0, by)
        down == Move(mid, 0, by, b.w - by - overlap)
        w1   == b.w - by
    IN  [m |-> [i \in DOMAIN down |->
                  IF i >= w1 - overlap /\ i < w1 THEN scratch[i - (w1 - overlap)] ELSE down[i]],
         r |-> b.r - by, w |-> w1]

\* _buf_unwrap: the buffers it may leave behind.  The scratch block is
\* malloc'd and malloc may fail, at each level of the recursion.
RECURSIVE Unwrapped(_, _, _)
Unwrapped(b, cont, n) ==
    LET by == cont - (n - b.r) IN
    IF by <= 0 \/ cont >= n THEN {b}
    ELSE IF b.w >= b.r      THEN {SlideDown(b, by)}
    ELSE IF by <= b.r - b.w THEN {SlideIntoGap(b, by, n)}
    ELSE {SlideOverScratch(b, by, n)}
           \cup UNION {Unwrapped(h, cont - cont \div 2, n) : h \in Unwrapped(b, cont \div 2, n)}

Unwrap == \E cont \in 1 .. MaxCont :
    /\ \E b \in Unwrapped([m |-> mem, r |-> readp, w |-> writep], cont, size) :
          mem' = b.m /\ readp' = b.r /\ writep' = b.w
    /\ UNCHANGED <<size, base, frame, did>>

\* "Ring advances use modular arithmetic" (docs/VULN-REMEDIATION.md, F-005):
\* both pointers stay below wrap.  On wrap, writep offers the next writer a
\* contiguous run of no bytes at all although space is left, and recv() of
\* no bytes returns 0, which stream_thread takes for the end of the stream.
Inside == readp < size /\ writep < size

\* The buffer that is unwrapped is streambuf, which is read in bytes then and keeps its size.
Bytes == frame = 1 /\ size = BufSize /\ Inside
NextUnwrap == Next \/ (Bytes /\ Unwrap /\ Inside')

SpecUnwrap == Init /\ [][NextUnwrap]_vars
-----------------------------------------------------------------------------
\* Unwrapping moves bytes and loses, duplicates or reorders none: the queue
\* of unread bytes is the same before and after.  The one case left out, in
\* which writep ends on wrap, is the subject of Inside.
UnwrapKeepsQueue ==
    [][Bytes /\ Unwrap /\ Inside' => Contents' = Contents]_vars

\* "make sure there is 'len' contiguous space" (alac.c:363): unless malloc
\* fails, an atom that is all there can be read without wrapping.
UnwrapMakesContiguous ==
    \A cont \in 1 .. MaxCont :
       Bytes /\ used >= cont =>
         LET b == [m |-> mem, r |-> readp, w |-> writep]
             after == Unwrapped(b, cont, size)
         IN  \E c \in after : ContRead(c.r, c.w, size) >= cont

\* Whatever the branch, _buf_unwrap moves the atom its caller asked for into one piece, and neither
\* loses nor reorders a byte of streambuf.
Unwraps == []UnwrapMakesContiguous /\ UnwrapKeepsQueue
=============================================================================
