----------------------------- MODULE RingBuffer -----------------------------
(* buffer.c: the circular buffer behind streambuf and outputbuf.           *)
(*                                                                         *)
(* Every operation runs under the buffer's mutex, so each is one atomic    *)
(* step.  A writer copies into the contiguous free run and then advances   *)
(* writep, a reader advances readp: the callers (stream.c, output.c, the   *)
(* codecs) never write more than min(_buf_space, _buf_cont_write) nor read *)
(* more than _buf_used, and those guards are part of Write and Read.       *)
(* _buf_unwrap has its own module, BufUnwrap.                              *)
EXTENDS RingOps, Sequences

CONSTANTS Data,       \* the values written
          Junk,       \* what a byte of fresh malloc memory holds
          BufSize,    \* size given to buf_init
          Sizes,      \* sizes given to _buf_resize
          Mods        \* frame sizes given to buf_adjust

ASSUME ConstAssumption ==
    /\ Junk \notin Data
    /\ BufSize \in Nat \ {0, 1}     \* buf_init refuses a smaller buffer
    /\ Sizes \subseteq Nat \ {0}    \* _buf_resize ignores 0
    /\ Mods \subseteq Nat \ {0}     \* buf_adjust ignores 0

VARIABLES mem,        \* the malloc'd block, base_size long
          readp,      \* offset of the next unit to read
          writep,     \* offset of the next unit to write
          size,       \* offset of wrap; the part of the block in use
          base,       \* base_size
          frame,      \* the unit of the reader: what the last buf_adjust aligned to
          did         \* history: what was done last, for Fifo to compare

vars == <<mem, readp, writep, size, base, frame, did>>

used      == Used(readp, writep, size)
space     == Space(readp, writep, size)
cont_read == ContRead(readp, writep, size)

TypeOK ==
    /\ base \in Nat \ {0}
    /\ size \in 1 .. base
    /\ readp \in 0 .. size - 1
    /\ writep \in 0 .. size - 1
    /\ mem \in [0 .. base - 1 -> Data \cup {Junk}]
    /\ frame \in Nat \ {0}
    /\ did \in {"nothing", "write", "read", "empty"}
-----------------------------------------------------------------------------
\* buf_init
Init ==
    /\ mem = [i \in 0 .. BufSize - 1 |-> Junk]
    /\ readp = 0 /\ writep = 0
    /\ size = BufSize /\ base = BufSize
    /\ frame = 1
    /\ did = "nothing"

\* A writer fills k contiguous units and advances writep.
Write == \E k \in 1 .. Writable(readp, writep, size) : \E s \in [1 .. k -> Data] :
    /\ mem' = [i \in 0 .. base - 1 |->
                 IF i >= writep /\ i < writep + k THEN s[i - writep + 1] ELSE mem[i]]
    /\ writep' = IncPtr(writep, k, size)
    /\ did' = "write"
    /\ UNCHANGED <<readp, size, base, frame>>

\* The reader consumes k units, whole frames of its own.
Read == \E k \in 1 .. used :
    /\ k % frame = 0
    /\ readp' = IncPtr(readp, k, size)
    /\ did' = "read"
    /\ UNCHANGED <<mem, writep, size, base, frame>>

\* Every way of emptying the buffer puts both pointers back to buf.
Emptied == readp' = 0 /\ writep' = 0 /\ did' = "empty"

\* buf_flush
Flush == Emptied /\ UNCHANGED <<mem, size, base, frame>>

\* buf_adjust
Adjust == \E mod \in Mods :
    /\ Emptied
    /\ size' = AdjustedSize(base, mod)
    /\ frame' = mod
    /\ UNCHANGED <<mem, base>>

\* Faulty variant: the pointers of the old block are kept.
ResizeKeepsPointers == \E n \in Sizes :
    /\ mem' = [i \in 0 .. n - 1 |-> Junk]
    /\ size' = n /\ base' = n
    /\ frame' = 1 /\ did' = "empty"
    /\ UNCHANGED <<readp, writep>>

\* _buf_resize, malloc succeeding.  Nobody has aligned the new block.
ResizeOk == \E n \in Sizes :
    /\ mem' = [i \in 0 .. n - 1 |-> Junk]
    /\ Emptied
    /\ size' = n /\ base' = n
    /\ frame' = 1

\* _buf_resize, malloc failing: the old block is kept, its contents dropped.
ResizeFail ==
    /\ Sizes # {}
    /\ Emptied
    /\ UNCHANGED <<mem, size, base, frame>>

Next == Write \/ Read \/ Flush \/ Adjust \/ ResizeOk \/ ResizeFail

Spec == Init /\ [][Next]_vars
-----------------------------------------------------------------------------
\* The unread values, oldest first.
Contents == [i \in 1 .. used |-> mem[(readp + i - 1) % size]]

\* The reader is never handed memory nobody wrote: what lies between readp
\* and writep is what writers stored since the last flush, also after
\* buf_adjust or _buf_resize changed the size under a wrapped buffer.
UnreadIsWritten == \A i \in 1 .. used : Contents[i] \in Data

\* "adjust buffer to multiple of mod bytes so reading in multiple always
\* wraps on frame boundary" (buf_adjust): a whole unread frame is contiguous,
\* whatever the sizes of the writes were.
FrameNeverStraddles == used >= frame => cont_read >= frame

\* The capacities of the queue: one per size the block may be given.
Caps == {BufSize - 1} \cup {n - 1 : n \in Sizes}
          \cup {AdjustedSize(b, m) - 1 : b \in {BufSize} \cup Sizes, m \in Mods}

\* The ring is a bounded queue of size - 1 units, which loses nothing unless
\* it is emptied on purpose.
Queue == INSTANCE Fifo WITH q <- Contents, cap <- size - 1
Implements == Queue!Spec
=============================================================================
