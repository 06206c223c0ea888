-------------------------- MODULE RingBufferProofs --------------------------
(* Proofs about RingBuffer, for every block size, every frame size and     *)
(* every set of values.                                                    *)
EXTENDS RingBuffer, SequenceTheorems, TLAPS

\* A pointer increment that stays inside the block does not wrap.
LEMMA ModSmall == ASSUME NEW n \in Nat \ {0}, NEW x \in 0 .. n - 1
                  PROVE  x % n = x
  BY SMT

\* A sum of two offsets wraps at most once.
LEMMA ModOnce == ASSUME NEW n \in Nat \ {0}, NEW x \in n .. 2 * n - 1
                 PROVE  x % n = x - n
  BY SMT

\* _buf_inc_readp and _buf_inc_writep by less than a whole block.
LEMMA IncPtrValue ==
  ASSUME NEW n \in Nat \ {0}, NEW p \in 0 .. n - 1, NEW by \in 0 .. n - 1
  PROVE  IncPtr(p, by, n) = IF p + by < n THEN p + by ELSE p + by - n
  <1>1. by % n = by
    BY ModSmall
  <1>2. CASE p + by < n
    BY <1>1, <1>2, ModSmall DEF IncPtr
  <1>3. CASE p + by >= n
    BY <1>1, <1>3, ModOnce DEF IncPtr
  <1> QED BY <1>2, <1>3

LEMMA UsedRange ==
  ASSUME NEW n \in Nat \ {0}, NEW r \in 0 .. n - 1, NEW w \in 0 .. n - 1
  PROVE  /\ Used(r, w, n) \in 0 .. n - 1
         /\ Space(r, w, n) = n - 1 - Used(r, w, n)
         /\ Writable(r, w, n) \in 0 .. Space(r, w, n)
  BY DEF Used, Space, Writable, ContWrite

LEMMA UsedOfState ==
  ASSUME TypeOK
  PROVE  /\ used \in 0 .. size - 1 /\ size \in Nat \ {0}
         /\ Writable(readp, writep, size) \in 0 .. (size - 1 - used)
  <1>1. size \in Nat \ {0} /\ readp \in 0 .. size - 1 /\ writep \in 0 .. size - 1
    BY DEF TypeOK
  <1>2. /\ Used(readp, writep, size) \in 0 .. size - 1
        /\ Writable(readp, writep, size) \in 0 .. (size - 1 - Used(readp, writep, size))
    BY <1>1, UsedRange
  <1> QED BY <1>1, <1>2 DEF used

LEMMA UsedAfterWrite ==
  ASSUME NEW n \in Nat \ {0}, NEW r \in 0 .. n - 1, NEW w \in 0 .. n - 1,
         NEW k \in 1 .. Writable(r, w, n)
  PROVE  /\ IncPtr(w, k, n) \in 0 .. n - 1
         /\ Used(r, IncPtr(w, k, n), n) = Used(r, w, n) + k
         /\ w + k <= n
  <1>1. k \in 0 .. n - 1 /\ k <= Space(r, w, n) /\ w + k <= n
    BY DEF Writable, Space, Used, ContWrite
  <1>2. IncPtr(w, k, n) = IF w + k < n THEN w + k ELSE w + k - n
    BY <1>1, IncPtrValue
  <1> QED BY <1>1, <1>2 DEF Used, Space

LEMMA UsedAfterRead ==
  ASSUME NEW n \in Nat \ {0}, NEW r \in 0 .. n - 1, NEW w \in 0 .. n - 1,
         NEW k \in 1 .. Used(r, w, n)
  PROVE  /\ IncPtr(r, k, n) \in 0 .. n - 1
         /\ Used(IncPtr(r, k, n), w, n) = Used(r, w, n) - k
  <1>1. k \in 0 .. n - 1
    BY UsedRange DEF Used
  <1>2. IncPtr(r, k, n) = IF r + k < n THEN r + k ELSE r + k - n
    BY <1>1, IncPtrValue
  <1> QED BY <1>1, <1>2 DEF Used

LEMMA AdjustedSizeRange ==
  ASSUME NEW n \in Nat \ {0}, NEW m \in Nat \ {0}
  PROVE  AdjustedSize(n, m) \in 1 .. n
  <1>1. n \div m \in Nat
    BY SMT
  <1>2. n = m * (n \div m) + (n % m) /\ n % m \in 0 .. m - 1
    BY SMT
  <1>3. (n \div m) * m \in Nat /\ (n \div m) * m <= n
    BY <1>1, <1>2, SMT
  <1>4. CASE n \div m = 0
    BY <1>4 DEF AdjustedSize
  <1>5. CASE n \div m # 0
    <2>1. (n \div m) * m >= 1
      BY <1>1, <1>5, SMT
    <2> QED BY <2>1, <1>3, <1>5 DEF AdjustedSize
  <1> QED BY <1>4, <1>5
-----------------------------------------------------------------------------
\* The pointers stay inside the block and the block keeps its shape, for any
\* sequence of writes, reads, flushes, alignments and resizes.
THEOREM TypeCorrect == Spec => []TypeOK
  <1>1. Init => TypeOK
    BY ConstAssumption DEF Init, TypeOK
  <1>2. TypeOK /\ [Next]_vars => TypeOK'
    <2> SUFFICES ASSUME TypeOK, [Next]_vars PROVE TypeOK'
      OBVIOUS
    <2> USE DEF TypeOK
    <2>1. CASE Write
      <3>1. PICK k \in 1 .. Writable(readp, writep, size) : \E s \in [1 .. k -> Data] :
              /\ mem' = [i \in 0 .. base - 1 |->
                   IF i >= writep /\ i < writep + k THEN s[i - writep + 1] ELSE mem[i]]
              /\ writep' = IncPtr(writep, k, size)
              /\ UNCHANGED <<readp, size, base, frame>>
        BY <2>1 DEF Write
      <3>2. PICK s \in [1 .. k -> Data] :
              mem' = [i \in 0 .. base - 1 |->
                   IF i >= writep /\ i < writep + k THEN s[i - writep + 1] ELSE mem[i]]
        BY <3>1
      <3>3. writep' \in 0 .. size - 1
        BY <3>1, UsedAfterWrite
      <3>4. k \in Nat
        BY UsedRange
      <3>5. mem' \in [0 .. base - 1 -> Data \cup {Junk}]
        BY <3>2, <3>4
      <3> QED BY <2>1, <3>1, <3>3, <3>5 DEF Write
    <2>2. CASE Read
      <3>1. PICK k \in 1 .. used : readp' = IncPtr(readp, k, size)
        BY <2>2 DEF Read
      <3>2. readp' \in 0 .. size - 1
        BY <3>1, UsedAfterRead DEF used
      <3> QED BY <3>2, <2>2 DEF Read
    <2>3. CASE Flush
      BY <2>3 DEF Flush, Emptied
    <2>4. CASE Adjust
      <3>1. PICK mod \in Mods : size' = AdjustedSize(base, mod) /\ frame' = mod
        BY <2>4 DEF Adjust
      <3>2. mod \in Nat \ {0}
        BY <3>1, ConstAssumption
      <3>3. size' \in 1 .. base
        BY <3>1, <3>2, AdjustedSizeRange
      <3> QED BY <3>1, <3>2, <3>3, <2>4 DEF Adjust, Emptied
    <2>5. CASE ResizeOk
      BY <2>5, ConstAssumption DEF ResizeOk, Emptied
    <2>6. CASE ResizeFail
      BY <2>6 DEF ResizeFail, Emptied
    <2>7. CASE UNCHANGED vars
      BY <2>7 DEF vars
    <2> QED BY <2>1, <2>2, <2>3, <2>4, <2>5, <2>6, <2>7 DEF Next
  <1> QED BY <1>1, <1>2, PTL DEF Spec
-----------------------------------------------------------------------------
\* The offset of the i-th unread unit.
Slot(r, i, n) == (r + i - 1) % n

LEMMA SlotValue ==
  ASSUME NEW n \in Nat \ {0}, NEW r \in 0 .. n - 1, NEW i \in 1 .. n
  PROVE  Slot(r, i, n) = IF r + i - 1 < n THEN r + i - 1 ELSE r + i - 1 - n
  <1>1. CASE r + i - 1 < n
    BY <1>1, ModSmall DEF Slot
  <1>2. CASE r + i - 1 >= n
    BY <1>2, ModOnce DEF Slot
  <1> QED BY <1>1, <1>2

\* A write leaves every unread unit where it was and appends its run behind
\* them: the k units at writep are exactly the new tail of the queue.
LEMMA WriteAppends ==
  ASSUME NEW n \in Nat \ {0}, NEW r \in 0 .. n - 1, NEW w \in 0 .. n - 1,
         NEW k \in 1 .. Writable(r, w, n), NEW i \in 1 .. Used(r, w, n) + k
  PROVE  /\ i <= Used(r, w, n) => ~(Slot(r, i, n) >= w /\ Slot(r, i, n) < w + k)
         /\ i > Used(r, w, n) => Slot(r, i, n) = w + i - Used(r, w, n) - 1
         /\ Slot(r, i, n) \in 0 .. n - 1
  <1>1. Used(r, w, n) \in 0 .. n - 1 /\ k \in Nat /\ k <= Space(r, w, n)
        /\ Space(r, w, n) = n - 1 - Used(r, w, n)
    BY UsedRange
  <1>2. i \in 1 .. n
    BY <1>1
  <1>3. Slot(r, i, n) = IF r + i - 1 < n THEN r + i - 1 ELSE r + i - 1 - n
    BY <1>2, SlotValue
  <1>4. w + k <= n
    BY UsedAfterWrite
  <1>5. Writable(r, w, n) <= ContWrite(r, w, n)
    BY DEF Writable, Space, Used, ContWrite
  <1> QED BY <1>1, <1>2, <1>3, <1>4, <1>5 DEF Used, ContWrite

\* A read of k units moves the front of the queue by k.
LEMMA ReadAdvances ==
  ASSUME NEW n \in Nat \ {0}, NEW r \in 0 .. n - 1, NEW w \in 0 .. n - 1,
         NEW k \in 1 .. Used(r, w, n), NEW i \in 1 .. Used(r, w, n) - k
  PROVE  Slot(IncPtr(r, k, n), i, n) = Slot(r, i + k, n)
  <1>1. Used(r, w, n) \in 0 .. n - 1
    BY UsedRange
  <1>2. k \in 0 .. n - 1 /\ i \in 1 .. n /\ i + k \in 1 .. n
    BY <1>1
  <1>3. IncPtr(r, k, n) = IF r + k < n THEN r + k ELSE r + k - n
    BY <1>2, IncPtrValue
  <1>4. IncPtr(r, k, n) \in 0 .. n - 1
    BY <1>2, <1>3
  <1>5. Slot(r, i + k, n) = IF r + i + k - 1 < n THEN r + i + k - 1 ELSE r + i + k - 1 - n
    BY <1>2, SlotValue
  <1>6. Slot(IncPtr(r, k, n), i, n) =
          IF IncPtr(r, k, n) + i - 1 < n THEN IncPtr(r, k, n) + i - 1 ELSE IncPtr(r, k, n) + i - 1 - n
    BY <1>2, <1>4, SlotValue
  <1> QED BY <1>2, <1>3, <1>5, <1>6
-----------------------------------------------------------------------------
\* What a write does to the queue of unread values.
LEMMA ContentsAfterWrite ==
  ASSUME TypeOK,
         NEW k \in 1 .. Writable(readp, writep, size), NEW s \in [1 .. k -> Data],
         mem' = [i \in 0 .. base - 1 |->
                   IF i >= writep /\ i < writep + k THEN s[i - writep + 1] ELSE mem[i]],
         writep' = IncPtr(writep, k, size),
         UNCHANGED <<readp, size, base, frame>>
  PROVE  /\ used' = used + k
         /\ \A i \in 1 .. used : Contents'[i] = Contents[i]
         /\ \A i \in used + 1 .. used + k : Contents'[i] = s[i - used]
  <1> USE DEF TypeOK
  <1>1. used' = used + k
    BY UsedAfterWrite DEF used
  <1>2. used \in Nat /\ k \in Nat \ {0}
    BY UsedRange DEF used
  <1>3. ASSUME NEW i \in 1 .. used + k
        PROVE  /\ i <= used => ~(Slot(readp, i, size) >= writep /\ Slot(readp, i, size) < writep + k)
               /\ i > used => Slot(readp, i, size) = writep + i - used - 1
               /\ Slot(readp, i, size) \in 0 .. base - 1
    BY WriteAppends DEF used
  <1>4. ASSUME NEW i \in 1 .. used + k
        PROVE  Contents'[i] = mem'[Slot(readp, i, size)]
    BY <1>1 DEF Contents, Slot
  <1>5. ASSUME NEW i \in 1 .. used PROVE Contents'[i] = Contents[i]
    <2>1. i \in 1 .. used + k
      BY <1>2
    <2>2. mem'[Slot(readp, i, size)] = mem[Slot(readp, i, size)]
      BY <1>2, <1>3, <2>1
    <2>3. Contents[i] = mem[Slot(readp, i, size)]
      BY DEF Contents, Slot
    <2> QED BY <1>4, <2>1, <2>2, <2>3
  <1>6. ASSUME NEW i \in used + 1 .. used + k PROVE Contents'[i] = s[i - used]
    <2>1. i \in 1 .. used + k /\ i > used /\ i \in Int
      BY <1>2
    <2>2. Slot(readp, i, size) = writep + i - used - 1 /\ Slot(readp, i, size) \in 0 .. base - 1
      BY <1>3, <2>1
    <2>3. mem'[Slot(readp, i, size)] = s[Slot(readp, i, size) - writep + 1]
      BY <1>2, <2>1, <2>2
    <2>4. Slot(readp, i, size) - writep + 1 = i - used
      BY <1>2, <2>1, <2>2
    <2> QED BY <1>4, <2>1, <2>3, <2>4
  <1> QED BY <1>1, <1>5, <1>6

\* What a read does to it.
LEMMA ContentsAfterRead ==
  ASSUME TypeOK, NEW k \in 1 .. used, readp' = IncPtr(readp, k, size),
         UNCHANGED <<mem, writep, size, base, frame>>
  PROVE  /\ used' = used - k
         /\ \A i \in 1 .. used - k : Contents'[i] = Contents[i + k]
  <1> USE DEF TypeOK
  <1>1. used' = used - k
    BY UsedAfterRead DEF used
  <1>2. used \in Nat /\ k \in Nat \ {0}
    <2>1. used \in 0 .. size - 1 /\ size \in Nat
      BY UsedOfState
    <2> QED BY <2>1
  <1>3. ASSUME NEW i \in 1 .. used - k PROVE Contents'[i] = Contents[i + k]
    <2>1. Contents'[i] = mem[Slot(readp', i, size)]
      BY <1>1 DEF Contents, Slot
    <2>2. i + k \in 1 .. used
      BY <1>2
    <2>3. Contents[i + k] = mem[Slot(readp, i + k, size)]
      BY <2>2 DEF Contents, Slot
    <2>4. Slot(readp', i, size) = Slot(readp, i + k, size)
      BY ReadAdvances DEF used
    <2> QED BY <2>1, <2>3, <2>4
  <1> QED BY <1>1, <1>3

\* Every reset of the pointers empties the queue.
LEMMA EmptyAfterReset ==
  ASSUME readp' = 0, writep' = 0
  PROVE  used' = 0 /\ Contents' = <<>>
  <1>1. used' = 0
    BY DEF used, Used
  <1>2. Contents' = [i \in 1 .. 0 |-> mem'[(readp' + i - 1) % size']]
    BY <1>1 DEF Contents
  <1> QED BY <1>1, <1>2

\* The reader is only ever handed units a writer stored since the last flush.
THEOREM UnreadWritten == Spec => []UnreadIsWritten
  <1>1. Init => UnreadIsWritten
    BY DEF Init, UnreadIsWritten, used, Used
  <1>2. TypeOK /\ UnreadIsWritten /\ [Next]_vars => UnreadIsWritten'
    <2> SUFFICES ASSUME TypeOK, UnreadIsWritten, [Next]_vars PROVE UnreadIsWritten'
      OBVIOUS
    <2>0. used \in Nat
      BY UsedOfState
    <2>1. CASE Write
      <3>0. PICK k \in 1 .. Writable(readp, writep, size) : \E s \in [1 .. k -> Data] :
              /\ mem' = [i \in 0 .. base - 1 |->
                   IF i >= writep /\ i < writep + k THEN s[i - writep + 1] ELSE mem[i]]
              /\ writep' = IncPtr(writep, k, size)
              /\ UNCHANGED <<readp, size, base, frame>>
        BY <2>1 DEF Write
      <3>1. PICK s \in [1 .. k -> Data] :
              /\ mem' = [i \in 0 .. base - 1 |->
                   IF i >= writep /\ i < writep + k THEN s[i - writep + 1] ELSE mem[i]]
              /\ writep' = IncPtr(writep, k, size)
              /\ UNCHANGED <<readp, size, base, frame>>
        BY <3>0
      <3>2. /\ used' = used + k
            /\ \A i \in 1 .. used : Contents'[i] = Contents[i]
            /\ \A i \in used + 1 .. used + k : Contents'[i] = s[i - used]
        BY <3>1, ContentsAfterWrite
      <3>3. k \in Nat
        BY UsedRange DEF TypeOK
      <3>4. ASSUME NEW i \in 1 .. used' PROVE Contents'[i] \in Data
        <4>1. CASE i <= used
          BY <2>0, <3>2, <3>3, <4>1 DEF UnreadIsWritten
        <4>2. CASE i > used
          <5>1. i \in used + 1 .. used + k /\ i - used \in 1 .. k
            BY <2>0, <3>2, <3>3, <4>2
          <5> QED BY <5>1, <3>2
        <4> QED BY <2>0, <3>2, <3>3, <4>1, <4>2
      <3> QED BY <3>4 DEF UnreadIsWritten
    <2>2. CASE Read
      <3>1. PICK k \in 1 .. used :
              /\ readp' = IncPtr(readp, k, size)
              /\ UNCHANGED <<mem, writep, size, base, frame>>
        BY <2>2 DEF Read
      <3>2. used' = used - k /\ \A i \in 1 .. used - k : Contents'[i] = Contents[i + k]
        BY <3>1, ContentsAfterRead
      <3>3. ASSUME NEW i \in 1 .. used' PROVE Contents'[i] \in Data
        <4>1. i + k \in 1 .. used /\ i \in 1 .. used - k
          BY <2>0, <3>2
        <4> QED BY <3>2, <4>1 DEF UnreadIsWritten
      <3> QED BY <3>3 DEF UnreadIsWritten
    <2>3. CASE Flush \/ Adjust \/ ResizeOk \/ ResizeFail
      <3>1. readp' = 0 /\ writep' = 0
        BY <2>3 DEF Flush, Adjust, ResizeOk, ResizeFail, Emptied
      <3> QED BY <3>1, EmptyAfterReset DEF UnreadIsWritten
    <2>4. CASE UNCHANGED vars
      BY <2>4 DEF vars, UnreadIsWritten, Contents, used
    <2> QED BY <2>1, <2>2, <2>3, <2>4 DEF Next
  <1> QED BY <1>1, <1>2, TypeCorrect, PTL DEF Spec
-----------------------------------------------------------------------------
\* The unread values form a sequence.
LEMMA ContentsSeq ==
  ASSUME TypeOK, UnreadIsWritten
  PROVE  /\ used \in 0 .. size - 1
         /\ Contents \in Seq(Data)
         /\ Len(Contents) = used
         /\ DOMAIN Contents = 1 .. used
  <1>1. used \in 0 .. size - 1
    BY UsedOfState
  <1>2. Contents \in [1 .. used -> Data]
    BY DEF Contents, UnreadIsWritten
  <1>3. used \in Nat
    BY UsedOfState
  <1> QED BY <1>1, <1>2, <1>3

\* The block is always as large as buf_init or the last _buf_resize made it,
\* and the part in use is that or what buf_adjust made of it.
SizeOK ==
    /\ base \in {BufSize} \cup Sizes
    /\ size - 1 \in Caps

THEOREM SizeCorrect == Spec => []SizeOK
  <1>1. Init => SizeOK
    BY DEF Init, SizeOK, Caps
  <1>2. SizeOK /\ [Next]_vars => SizeOK'
    <2> SUFFICES ASSUME SizeOK, [Next]_vars PROVE SizeOK'
      OBVIOUS
    <2>1. CASE Adjust
      BY <2>1 DEF Adjust, SizeOK, Caps
    <2>2. CASE ResizeOk
      BY <2>2 DEF ResizeOk, SizeOK, Caps
    <2>3. CASE UNCHANGED <<size, base>>
      BY <2>3 DEF SizeOK
    <2> QED BY <2>1, <2>2, <2>3 DEF Next, vars, Write, Read, Flush, ResizeFail
  <1> QED BY <1>1, <1>2, PTL DEF Spec

\* The circular buffer implements a bounded queue of size - 1 units: every
\* operation of buffer.c is one operation of the queue, or none.
THEOREM RingIsQueue == Spec => Implements
  <1>1. Init => Queue!Init
    BY EmptyAfterReset, ConstAssumption DEF Init, Queue!Init, Contents, used, Used, Caps
  <1>2. ASSUME TypeOK, TypeOK', UnreadIsWritten, UnreadIsWritten', SizeOK, SizeOK', [Next]_vars
        PROVE  [Queue!Next]_(Queue!vars)
    <2>1. CASE Write
      <3>0. PICK k \in 1 .. Writable(readp, writep, size) : \E s \in [1 .. k -> Data] :
              /\ mem' = [i \in 0 .. base - 1 |->
                   IF i >= writep /\ i < writep + k THEN s[i - writep + 1] ELSE mem[i]]
              /\ writep' = IncPtr(writep, k, size)
              /\ UNCHANGED <<readp, size, base, frame>>
        BY <1>2, <2>1 DEF Write
      <3>1. PICK s \in [1 .. k -> Data] :
              /\ mem' = [i \in 0 .. base - 1 |->
                   IF i >= writep /\ i < writep + k THEN s[i - writep + 1] ELSE mem[i]]
              /\ writep' = IncPtr(writep, k, size)
              /\ UNCHANGED <<readp, size, base, frame>>
        BY <3>0
      <3>2. /\ used' = used + k
            /\ \A i \in 1 .. used : Contents'[i] = Contents[i]
            /\ \A i \in used + 1 .. used + k : Contents'[i] = s[i - used]
        BY <1>2, <3>1, ContentsAfterWrite
      <3>3. k \in Nat \ {0} /\ k <= size - 1 - used /\ used \in Nat
        <4>1. used \in 0 .. size - 1 /\ size \in Nat
          BY <1>2, UsedOfState
        <4>2. Writable(readp, writep, size) \in 0 .. (size - 1 - used)
          BY <1>2, UsedOfState
        <4> QED BY <4>1, <4>2
      <3>4. s \in Seq(Data) /\ Len(s) = k
        BY <3>3
      <3>5. /\ Contents \in Seq(Data) /\ Len(Contents) = used
            /\ Contents' \in Seq(Data) /\ Len(Contents') = used'
        <4>1. Contents \in Seq(Data) /\ Len(Contents) = used
          BY <1>2, ContentsSeq
        <4>2. used' \in Nat
          BY <3>2, <3>3
        <4>3. Contents' \in [1 .. used' -> Data]
          BY <1>2 DEF Contents, UnreadIsWritten
        <4> QED BY <4>1, <4>2, <4>3
      <3>6. Contents \o s \in Seq(Data) /\ Len(Contents \o s) = used + k
        BY <3>4, <3>5
      <3>7. \A i \in 1 .. used + k : Contents'[i] = (Contents \o s)[i]
        <4> SUFFICES ASSUME NEW i \in 1 .. used + k PROVE Contents'[i] = (Contents \o s)[i]
          OBVIOUS
        <4>1. CASE i <= used
          <5>1. i \in 1 .. used
            BY <4>1, <3>3
          <5>2. (Contents \o s)[i] = Contents[i]
            BY <5>1, <3>3, <3>4, <3>5, ConcatProperties
          <5> QED BY <5>1, <5>2, <3>2
        <4>2. CASE i > used
          <5>1. i \in used + 1 .. used + k
            BY <4>2, <3>3
          <5>2. (Contents \o s)[i] = s[i - used]
            BY <5>1, <3>3, <3>4, <3>5, ConcatProperties
          <5> QED BY <5>1, <5>2, <3>2
        <4>3. i <= used \/ i > used
          BY <3>3
        <4> QED BY <4>1, <4>2, <4>3
      <3>8. Contents' = Contents \o s
        BY <3>2, <3>5, <3>6, <3>7
      <3>9. k \in 1 .. ((size - 1) - Len(Contents)) /\ UNCHANGED (size - 1)
        BY <1>2, <3>1, <3>3, <3>5 DEF TypeOK
      <3>10. Queue!Put
        BY <2>1, <3>8, <3>9 DEF Write, Queue!Put
      <3> QED BY <3>10 DEF Queue!Next
    <2>2. CASE Read
      <3>1. PICK k \in 1 .. used :
              /\ readp' = IncPtr(readp, k, size)
              /\ UNCHANGED <<mem, writep, size, base, frame>>
        BY <2>2 DEF Read
      <3>2. used' = used - k /\ \A i \in 1 .. used - k : Contents'[i] = Contents[i + k]
        BY <1>2, <3>1, ContentsAfterRead
      <3>3. used \in Nat /\ k \in Nat \ {0} /\ k <= used
        <4>1. used \in 0 .. size - 1
          BY <1>2, ContentsSeq
        <4> QED BY <4>1
      <3>4. Contents \in Seq(Data) /\ Len(Contents) = used
        BY <1>2, ContentsSeq
      <3>5. Contents' \in Seq(Data) /\ Len(Contents') = used'
        <4>1. used' \in Nat
          BY <3>2, <3>3
        <4>2. Contents' \in [1 .. used' -> Data]
          BY <1>2 DEF Contents, UnreadIsWritten
        <4> QED BY <4>1, <4>2
      <3>6. /\ SubSeq(Contents, k + 1, used) \in Seq(Data)
            /\ Len(SubSeq(Contents, k + 1, used)) = used - k
            /\ \A i \in 1 .. used - k : SubSeq(Contents, k + 1, used)[i] = Contents[i + k]
        BY <3>3, <3>4
      <3>7. Contents' = SubSeq(Contents, k + 1, used)
        BY <3>2, <3>5, <3>6
      <3>8. Queue!Take
        BY <2>2, <3>1, <3>4, <3>7 DEF Read, Queue!Take
      <3> QED BY <3>8 DEF Queue!Next
    <2>3. CASE Flush \/ Adjust \/ ResizeOk \/ ResizeFail
      <3>1. Contents' = <<>>
        BY <2>3, EmptyAfterReset DEF Flush, Adjust, ResizeOk, ResizeFail, Emptied
      <3>2. did' = "empty"
        BY <2>3 DEF Flush, Adjust, ResizeOk, ResizeFail, Emptied
      <3>3. Queue!Clear
        BY <1>2, <3>1, <3>2 DEF Queue!Clear, SizeOK, Caps
      <3> QED BY <3>3 DEF Queue!Next
    <2>4. CASE UNCHANGED vars
      BY <2>4 DEF vars, Queue!vars, Contents, used
    <2> QED BY <1>2, <2>1, <2>2, <2>3, <2>4 DEF Next
  <1> QED BY <1>1, <1>2, TypeCorrect, UnreadWritten, SizeCorrect, PTL DEF Spec, Implements, Queue!Spec
-----------------------------------------------------------------------------
\* The strengthening of FrameNeverStraddles: unless a frame is larger than
\* the whole buffer, wrap and readp are both whole numbers of frames away
\* from buf.  writep need not be: the stream thread writes any byte count.
FrameAligned ==
    \/ size < frame
    \/ \E q, r \in Nat : size = frame * q /\ readp = frame * r

\* Every size and every offset is a whole number of frames of one unit.
LEMMA OneUnit == \A n \in Nat : n = 1 * n
  BY SMT

LEMMA FrameInductive == ASSUME TypeOK, TypeOK', FrameAligned, [Next]_vars PROVE FrameAligned'
  <1>1. CASE Read
    <2>1. PICK k \in 1 .. used : k % frame = 0 /\ readp' = IncPtr(readp, k, size)
      BY <1>1 DEF Read
    <2>2. size' = size /\ frame' = frame /\ size \in Nat \ {0} /\ frame \in Nat \ {0}
      BY <1>1 DEF Read, TypeOK
    <2>3. k \in 0 .. size - 1 /\ readp \in 0 .. size - 1 /\ readp' \in 0 .. size - 1
      BY <2>2, UsedOfState DEF TypeOK
    <2>4. CASE size < frame
      BY <2>2, <2>4 DEF FrameAligned
    <2>5. CASE \E q, r \in Nat : size = frame * q /\ readp = frame * r
      <3>1. PICK q \in Nat, r \in Nat : size = frame * q /\ readp = frame * r
        BY <2>5
      <3>2. k = frame * (k \div frame) /\ k \div frame \in Nat
        BY <2>1, <2>2, <2>3, SMT
      <3>3. readp' = IF readp + k < size THEN readp + k ELSE readp + k - size
        BY <2>1, <2>2, <2>3, IncPtrValue
      <3>4. CASE readp + k < size
        <4>1. readp' = frame * (r + (k \div frame)) /\ r + (k \div frame) \in Nat
          BY <2>2, <3>1, <3>2, <3>3, <3>4, SMT
        <4> QED BY <2>2, <3>1, <4>1 DEF FrameAligned
      <3>5. CASE readp + k >= size
        <4> DEFINE t == r + (k \div frame) - q
        <4>1. t \in Int /\ readp' = frame * t
          BY <2>2, <2>3, <3>1, <3>2, <3>3, <3>5, SMT
        <4>2. t >= 0
          BY <4>1, <2>2, <2>3, SMT
        <4>3. t \in Nat
          BY <4>1, <4>2
        <4> QED BY <2>2, <3>1, <4>1, <4>3 DEF FrameAligned
      <3> QED BY <2>2, <2>3, <3>4, <3>5
    <2> QED BY <2>4, <2>5 DEF FrameAligned
  <1>2. CASE Adjust
    <2>1. PICK mod \in Mods : size' = AdjustedSize(base, mod) /\ frame' = mod /\ readp' = 0
      BY <1>2 DEF Adjust, Emptied
    <2>2. mod \in Nat \ {0} /\ base \in Nat \ {0}
      BY ConstAssumption DEF TypeOK
    <2>3. CASE base \div mod = 0
      <3>1. base < mod
        BY <2>2, <2>3, SMT
      <3>2. size' < frame'
        BY <2>1, <2>3, <3>1 DEF AdjustedSize
      <3> QED BY <3>2 DEF FrameAligned
    <2>4. CASE base \div mod # 0
      <3>1. size' = frame' * (base \div mod) /\ readp' = frame' * 0 /\ base \div mod \in Nat
        <4>1. size' = (base \div mod) * mod
          BY <2>1, <2>4 DEF AdjustedSize
        <4>2. base \div mod \in Nat
          BY <2>2, SMT
        <4>3. (base \div mod) * mod = mod * (base \div mod) /\ mod * 0 = 0
          BY <2>2, <4>2, SMT
        <4> QED BY <2>1, <4>1, <4>2, <4>3
      <3> QED BY <3>1 DEF FrameAligned
    <2> QED BY <2>3, <2>4
  <1>3. CASE ResizeOk
    <2>1. frame' = 1 /\ readp' = 0 /\ size' \in Nat
      BY <1>3, ConstAssumption DEF ResizeOk, Emptied
    <2>2. \E q, r \in Nat : size' = 1 * q /\ readp' = 1 * r
      BY <2>1, OneUnit
    <2> QED BY <2>1, <2>2 DEF FrameAligned
  <1>4. CASE UNCHANGED <<size, frame>> /\ readp' = 0
    <2>1. frame \in Nat
      BY DEF TypeOK
    <2>2. CASE size < frame
      BY <1>4, <2>2 DEF FrameAligned
    <2>3. CASE \E q, r \in Nat : size = frame * q /\ readp = frame * r
      <3>1. PICK q \in Nat : size = frame * q
        BY <2>3
      <3>2. readp' = frame * 0
        BY <1>4, <2>1, SMT
      <3> QED BY <1>4, <3>1, <3>2 DEF FrameAligned
    <2> QED BY <2>2, <2>3 DEF FrameAligned
  <1>5. CASE UNCHANGED <<size, frame, readp>>
    BY <1>5 DEF FrameAligned
  <1> QED BY <1>1, <1>2, <1>3, <1>4, <1>5 DEF Next, vars, Write, Flush, ResizeFail, Emptied

\* A whole number of frames between readp and wrap is at least one frame.
LEMMA FrameFits ==
  ASSUME NEW f \in Nat \ {0}, NEW q \in Nat, NEW r \in Nat, f * r < f * q
  PROVE  f * q - f * r >= f
  <1>1. r < q
    BY SMT
  <1>2. f * (q - r) >= f
    BY <1>1, SMT
  <1> QED BY <1>2, SMT

\* A decoder that reads whole frames never finds one split by the wrap,
\* whatever byte counts the stream thread wrote.
THEOREM FrameContiguous == Spec => []FrameNeverStraddles
  <1>1. Init => FrameAligned
    <2> SUFFICES ASSUME Init PROVE FrameAligned
      OBVIOUS
    <2>1. size = frame * BufSize /\ readp = frame * 0 /\ BufSize \in Nat
      BY ConstAssumption DEF Init
    <2> QED BY <2>1 DEF FrameAligned
  <1>2. TypeOK /\ TypeOK' /\ FrameAligned /\ [Next]_vars => FrameAligned'
    BY FrameInductive
  <1>3. TypeOK /\ FrameAligned => FrameNeverStraddles
    <2> SUFFICES ASSUME TypeOK, FrameAligned, used >= frame PROVE cont_read >= frame
      BY DEF FrameNeverStraddles
    <2>1. /\ size \in Nat \ {0} /\ frame \in Nat \ {0}
          /\ readp \in 0 .. size - 1 /\ writep \in 0 .. size - 1 /\ used \in 0 .. size - 1
      BY UsedOfState DEF TypeOK
    <2>2. CASE writep >= readp
      BY <2>1, <2>2 DEF used, cont_read, Used, ContRead
    <2>3. CASE writep < readp
      <3>1. cont_read = size - readp
        BY <2>1, <2>3 DEF cont_read, ContRead
      <3>2. PICK q \in Nat, r \in Nat : size = frame * q /\ readp = frame * r
        BY <2>1 DEF FrameAligned
      <3>3. frame * r < frame * q
        BY <2>1, <3>2
      <3> QED BY <2>1, <3>1, <3>2, <3>3, FrameFits
    <2> QED BY <2>1, <2>2, <2>3
  <1> QED BY <1>1, <1>2, <1>3, TypeCorrect, PTL DEF Spec
=============================================================================
