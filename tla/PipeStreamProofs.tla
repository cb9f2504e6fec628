-------------------------- MODULE PipeStreamProofs --------------------------
(***************************************************************************)
(* Theorems about the bytes that go through Pipe: they arrive in order,    *)
(* the results of read and write are right, and the pipe implements the    *)
(* stream of ByteStream.  Counters and indices wrap at WORD, and the place *)
(* of a byte in the ring is its number modulo PIPESIZE as long as WORD is  *)
(* a multiple of PIPESIZE or no counter has wrapped.                       *)
(***************************************************************************)
EXTENDS PipeProofs, Wrap, SequenceTheorems

\* WORD is 2^32; PIPESIZE is 512 in pipe_part1.c and 3 in pipe_part2.c.
Divides == WORD % PIPESIZE = 0
Aligned == Divides \/ Len(sent) <= WORD

\* Where the ring has byte number j, counted from 0.
Cell(j) == (j % WORD) % PIPESIZE

\* The counters are the lengths of the histories, wrapped.
Counters ==
  /\ Len(sent) - Len(rcvd) \in 0..PIPESIZE
  /\ nread = Len(rcvd) % WORD /\ nwrite = Len(sent) % WORD

\* Fifo by the numbers of the bytes.
Contents ==
  Aligned =>
    /\ \A k \in 1..Len(rcvd) : rcvd[k] = sent[k]
    /\ \A j \in Len(rcvd)..(Len(sent) - 1) : data[Cell(j)] = sent[j + 1]

\* A reader that is in the second loop and has copied nothing has found a byte, or
\* the write end closed, and that is still so: it has held the lock since.
ReaderHasReason ==
  \A p \in Procs : pc[p] = "r_copy" /\ i[p] = 0 => ~Empty \/ open["write"] = 0

SInv == Counters /\ Contents /\ ReaderHasReason

-----------------------------------------------------------------------------
(* Lemmas                                                                  *)

\* The lengths of the histories are numbers, and the reader is behind the writer.
LEMMA Lengths ==
  ASSUME IInv
  PROVE  /\ Len(sent) \in Nat /\ Len(rcvd) \in Nat
         /\ DOMAIN sent = 1..Len(sent) /\ DOMAIN rcvd = 1..Len(rcvd)
BY DEF IInv, TypeOK

\* The tests of the two loops, by the lengths of the histories.
LEMMA RingTests ==
  ASSUME IInv, Counters
  PROVE  /\ Empty <=> Len(sent) = Len(rcvd)
         /\ Full <=> Len(sent) - Len(rcvd) = PIPESIZE
<1> DEFINE s == Len(sent)
           r == Len(rcvd)
<1>1. s \in Int /\ r \in Int /\ r \in Nat /\ s - r \in 0..PIPESIZE
  <2>1. s \in Nat /\ r \in Nat
    BY Lengths
  <2>2. QED BY <2>1 DEF Counters
<1>2. WORD \in Nat \ {0} /\ PIPESIZE \in Int /\ PIPESIZE \in Nat /\ PIPESIZE < WORD
  BY PipeAssumption
<1>3. Empty <=> s = r
  <2>1. ASSUME Empty PROVE s = r
    <3>1. r % WORD = s % WORD
      BY <2>1 DEF Empty, Counters
    <3>2. s - r \in 0..(WORD - 1)
      BY <1>1, <1>2
    <3>3. QED BY <1>1, <1>2, <3>1, <3>2, ModInjective, Zenon
  <2>2. QED BY <2>1 DEF Empty, Counters
<1>4. (nread + PIPESIZE) % WORD = (r + PIPESIZE) % WORD
  <2>1. ((r % WORD) + PIPESIZE) % WORD = (r + PIPESIZE) % WORD
    BY <1>1, <1>2, ModThenAdd, Zenon
  <2>2. QED BY <2>1 DEF Counters
<1>5. Full <=> s = r + PIPESIZE
  <2>1. ASSUME Full PROVE s = r + PIPESIZE
    <3>1. s % WORD = (r + PIPESIZE) % WORD
      BY <2>1, <1>4 DEF Full, Counters
    <3>2. (r + PIPESIZE) - s \in 0..(WORD - 1) /\ r + PIPESIZE \in Int
      BY <1>1, <1>2
    <3>3. QED BY <1>1, <1>2, <3>1, <3>2, ModInjective, Zenon
  <2>2. QED BY <2>1, <1>4 DEF Full, Counters
<1>6. QED BY <1>1, <1>2, <1>3, <1>5

\* The cell of a byte, when PIPESIZE divides WORD or no counter has wrapped.
LEMMA CellOf ==
  ASSUME NEW top \in Nat, Divides \/ top <= WORD, NEW j \in Nat, j < top
  PROVE  Cell(j) = j % PIPESIZE
<1>1. WORD \in Nat \ {0} /\ PIPESIZE \in Nat \ {0}
  BY PipeAssumption
<1>2. CASE Divides
  <2>1. PICK K \in Nat : WORD = K * PIPESIZE
    BY <1>1, <1>2, ModZero DEF Divides
  <2>2. (j % WORD) % PIPESIZE = j % PIPESIZE
    <3>1. j \in Int
      OBVIOUS
    <3>2. QED BY <1>1, <2>1, <3>1, ModMultiple, Zenon
  <2>3. QED BY <2>2 DEF Cell
<1>3. CASE top <= WORD
  <2>1. j \in 0..(WORD - 1)
    BY <1>1, <1>3
  <2>2. j % WORD = j
    BY <1>1, <2>1, ModSmall
  <2>3. QED BY <2>2 DEF Cell
<1>4. QED BY <1>2, <1>3

\* Bytes in transit at the same time have different cells.
LEMMA CellsDiffer ==
  ASSUME NEW top \in Nat, Divides \/ top <= WORD,
         NEW j \in Nat, NEW k \in Nat, j < k, k < top, k - j < PIPESIZE
  PROVE  Cell(j) # Cell(k)
<1>1. PIPESIZE \in Nat \ {0}
  BY PipeAssumption
<1>2. Cell(j) = j % PIPESIZE /\ Cell(k) = k % PIPESIZE
  <2>1. j < top
    OBVIOUS
  <2>2. QED BY <2>1, CellOf
<1>3. k - j \in 0..(PIPESIZE - 1)
  BY <1>1
<1>4. j \in Int /\ k \in Int /\ j # k
  OBVIOUS
<1>5. j % PIPESIZE # k % PIPESIZE
  BY <1>1, <1>3, <1>4, ModInjective, Zenon
<1>6. QED BY <1>2, <1>5

\* A cell of a byte is a cell of the ring.
LEMMA CellInRing == ASSUME NEW j \in Nat PROVE Cell(j) \in 0..(PIPESIZE - 1)
<1>1. WORD \in Nat \ {0} /\ PIPESIZE \in Nat \ {0}
  BY PipeAssumption
<1>2. j % WORD \in Int
  BY <1>1, DivMod
<1>3. QED BY <1>1, <1>2, DivMod DEF Cell

\* SInv says what Fifo says.
LEMMA AlignedFifo ==
  ASSUME IInv, SInv, Aligned
  PROVE  Fifo
<1> DEFINE s == Len(sent)
           r == Len(rcvd)
<1>1. s \in Int /\ r \in Int /\ r \in Nat /\ s - r \in 0..PIPESIZE
  <2>1. s \in Nat /\ r \in Nat
    BY Lengths
  <2>2. QED BY <2>1 DEF SInv, Counters
<1>2. WORD \in Nat \ {0} /\ PIPESIZE \in Int /\ PIPESIZE \in Nat /\ PIPESIZE < WORD
  BY PipeAssumption
<1>3. s - r = (nwrite - nread) % WORD
  <2>1. s - r \in 0..(WORD - 1)
    BY <1>1, <1>2
  <2>2. ((s % WORD) - (r % WORD)) % WORD = s - r
    BY <1>1, <1>2, <2>1, ModDistance, Zenon
  <2>3. QED BY <2>2 DEF SInv, Counters
<1>4. ASSUME NEW k \in 0..(s - r - 1)
      PROVE  data[((nread + k) % WORD) % PIPESIZE] = sent[r + k + 1]
  <2>1. (nread + k) % WORD = (r + k) % WORD
    <3>1. ((r % WORD) + k) % WORD = (r + k) % WORD
      <4>1. k \in Int
        OBVIOUS
      <4>2. QED BY <1>1, <1>2, <4>1, ModThenAdd, Zenon
    <3>2. QED BY <3>1 DEF SInv, Counters
  <2>2. r + k \in r..(s - 1)
    BY <1>1
  <2>3. data[Cell(r + k)] = sent[(r + k) + 1]
    BY <2>2 DEF SInv, Contents
  <2>4. QED BY <2>1, <2>3 DEF Cell
<1>5. QED BY <1>1, <1>3, <1>4 DEF Fifo, SInv, Contents

-----------------------------------------------------------------------------
(* Every action keeps the invariant                                        *)

\* A step that touches neither the ring nor the histories, and brings no reader to
\* the second loop.
LEMMA QuietKeepsStream ==
  ASSUME SInv, UNCHANGED <<nread, nwrite, data, open, hist>>,
         \A q \in Procs : pc'[q] = "r_copy" => pc[q] = "r_copy" /\ i'[q] = i[q]
  PROVE  SInv'
<1>1. Counters' /\ Contents'
  BY DEF SInv, Counters, Contents, Aligned, Divides, Cell, hist
<1>2. ReaderHasReason'
  BY DEF SInv, ReaderHasReason, Empty
<1>3. QED BY <1>1, <1>2 DEF SInv

\* A byte goes to a cell that no byte in transit has, as the ring is not full.
LEMMA WriteByteKeepsStream ==
  ASSUME IInv, SInv, NEW p \in Procs, NEW b \in Bytes, WriteByte(p, b)
  PROVE  SInv'
<1> DEFINE s == Len(sent)
           r == Len(rcvd)
<1>0. s \in Nat /\ r \in Nat /\ PIPESIZE \in Nat
  BY Lengths, PipeAssumption
<1>1. s \in Nat /\ r \in Nat /\ s \in Int /\ DOMAIN sent = 1..s /\ sent \in Seq(Bytes)
  BY Lengths DEF IInv, TypeOK
<1>2. WORD \in Nat \ {0} /\ PIPESIZE \in Nat \ {0} /\ 1 \in Int
  BY PipeAssumption
<1>3. s - r \in 0..(PIPESIZE - 1)
  <2>1. s - r \in 0..PIPESIZE /\ s - r # PIPESIZE
    BY RingTests DEF SInv, Counters, WriteByte
  <2>2. QED BY <2>1, <1>0
<1>4. /\ Len(sent') = s + 1 /\ rcvd' = rcvd /\ nread' = nread
      /\ sent'[s + 1] = b
      /\ \A k \in 1..s : sent'[k] = sent[k]
  BY <1>1 DEF WriteByte
<1>5. Counters'
  <2>1. ((s % WORD) + 1) % WORD = (s + 1) % WORD
    BY <1>1, <1>2, ModThenAdd, Zenon
  <2>2. nwrite' = (s + 1) % WORD
    BY <2>1 DEF WriteByte, SInv, Counters
  <2>3. (s + 1) - r \in 0..PIPESIZE
    BY <1>1, <1>2, <1>3
  <2>4. QED BY <2>2, <2>3, <1>4 DEF SInv, Counters
<1>6. Contents'
  <2> SUFFICES ASSUME Aligned'
               PROVE  /\ \A k \in 1..r : rcvd[k] = sent'[k]
                      /\ \A j \in r..s : data'[Cell(j)] = sent'[j + 1]
    BY <1>1, <1>4 DEF Contents, Cell
  <2>1. Divides \/ s + 1 <= WORD
    BY <1>4 DEF Aligned, Divides
  <2>2. Aligned
    BY <2>1, <1>1, <1>2 DEF Aligned
  <2>3. \A k \in 1..r : rcvd[k] = sent'[k]
    <3>1. \A k \in 1..r : k \in 1..s
      BY <1>1, <1>3
    <3>2. QED BY <2>2, <3>1, <1>4 DEF SInv, Contents
  <2>4. data' = [data EXCEPT ![Cell(s)] = b] /\ Cell(s) \in DOMAIN data
    BY <1>1, CellInRing DEF WriteByte, SInv, Counters, Cell, IInv, TypeOK
  <2>5. ASSUME NEW j \in r..s PROVE data'[Cell(j)] = sent'[j + 1]
    <3>1. CASE j = s
      BY <3>1, <2>4, <1>4
    <3>2. CASE j # s
      <4>1. j \in r..(s - 1) /\ j \in Nat /\ j < s /\ s < s + 1 /\ s - j < PIPESIZE
            /\ s + 1 \in Nat /\ j + 1 \in 1..s
        BY <3>2, <1>0, <1>3
      <4>2. Cell(j) # Cell(s)
        BY <4>1, <2>1, <1>1, CellsDiffer
      <4>3. data[Cell(j)] = sent[j + 1]
        BY <4>1, <2>2 DEF SInv, Contents
      <4>4. QED BY <4>1, <4>2, <4>3, <2>4, <1>4
    <3>3. QED BY <3>1, <3>2
  <2>6. QED BY <2>3, <2>5
<1>7. ReaderHasReason'
  <2>1. \A q \in Procs : pc'[q] # "r_copy"
    BY DEF WriteByte, IInv, LockDiscipline, Locked
  <2>2. QED BY <2>1 DEF ReaderHasReason
<1>8. QED BY <1>5, <1>6, <1>7 DEF SInv

\* The byte that is copied is the oldest one in transit.
LEMMA ReadByteTakesOldest ==
  ASSUME IInv, SInv, NEW p \in Procs, ReadByte(p)
  PROVE  /\ Len(rcvd) < Len(sent)
         /\ rcvd' = Append(rcvd, data[Cell(Len(rcvd))])
         /\ Aligned => rcvd' = Append(rcvd, sent[Len(rcvd) + 1])
<1> DEFINE s == Len(sent)
           r == Len(rcvd)
<1>1. s \in Nat /\ r \in Nat
  BY Lengths
<1>2. r < s
  <2>1. s - r \in 0..PIPESIZE /\ s # r
    BY RingTests DEF SInv, Counters, ReadByte
  <2>2. QED BY <2>1, <1>1
<1>3. rcvd' = Append(rcvd, data[Cell(r)])
  BY DEF ReadByte, SInv, Counters, Cell
<1>4. Aligned => data[Cell(r)] = sent[r + 1]
  <2>1. r \in r..(s - 1)
    BY <1>1, <1>2
  <2>2. QED BY <2>1 DEF SInv, Contents
<1>5. QED BY <1>2, <1>3, <1>4

\* The oldest byte leaves the bytes in transit, the others keep their cells.
LEMMA ReadByteKeepsStream ==
  ASSUME IInv, SInv, NEW p \in Procs, ReadByte(p)
  PROVE  SInv'
<1> DEFINE s == Len(sent)
           r == Len(rcvd)
           x == data[Cell(r)]
<1>1. s \in Nat /\ r \in Nat /\ r \in Int /\ rcvd \in Seq(Bytes)
  BY Lengths DEF IInv, TypeOK
<1>2. WORD \in Nat \ {0} /\ PIPESIZE \in Nat \ {0} /\ 1 \in Int
  BY PipeAssumption
<1>3. r < s /\ s - r \in 0..PIPESIZE
  BY ReadByteTakesOldest DEF SInv, Counters
<1>4. /\ rcvd' = Append(rcvd, x) /\ x \in Bytes
      /\ UNCHANGED <<sent, nwrite, data, open>>
  BY <1>1, ReadByteTakesOldest, CellInRing DEF ReadByte, IInv, TypeOK
<1>5. /\ Len(rcvd') = r + 1
      /\ rcvd'[r + 1] = x
      /\ \A k \in 1..r : rcvd'[k] = rcvd[k]
  BY <1>1, <1>4
<1>6. Counters'
  <2>1. ((r % WORD) + 1) % WORD = (r + 1) % WORD
    BY <1>1, <1>2, ModThenAdd, Zenon
  <2>2. nread' = (r + 1) % WORD
    BY <2>1 DEF ReadByte, SInv, Counters
  <2>3. s - (r + 1) \in 0..PIPESIZE
    BY <1>1, <1>2, <1>3
  <2>4. QED BY <2>2, <2>3, <1>4, <1>5 DEF SInv, Counters
<1>7. Contents'
  <2> SUFFICES ASSUME Aligned
               PROVE  /\ \A k \in 1..(r + 1) : rcvd'[k] = sent[k]
                      /\ \A j \in (r + 1)..(s - 1) : data[Cell(j)] = sent[j + 1]
    BY <1>4, <1>5 DEF Contents, Cell, Aligned, Divides
  <2>1. x = sent[r + 1]
    <3>1. r \in r..(s - 1)
      BY <1>1, <1>3
    <3>2. QED BY <3>1 DEF SInv, Contents
  <2>2. ASSUME NEW k \in 1..(r + 1) PROVE rcvd'[k] = sent[k]
    <3>1. CASE k = r + 1
      BY <3>1, <2>1, <1>5
    <3>2. CASE k # r + 1
      <4>1. k \in 1..r
        BY <3>2, <1>1
      <4>2. QED BY <4>1, <1>5 DEF SInv, Contents
    <3>3. QED BY <3>1, <3>2
  <2>3. \A j \in (r + 1)..(s - 1) : j \in r..(s - 1)
    BY <1>1
  <2>4. QED BY <2>2, <2>3 DEF SInv, Contents
<1>8. ReaderHasReason'
  <2>1. pc' = pc /\ i' = [i EXCEPT ![p] = i[p] + 1] /\ i \in [Procs -> Nat] /\ pc[p] = "r_copy"
    BY DEF ReadByte, IInv, TypeOK
  <2>2. \A q \in Procs \ {p} : pc[q] # "r_copy"
    BY <2>1 DEF IInv, LockDiscipline, Locked
  <2>3. QED BY <2>1, <2>2 DEF ReaderHasReason
<1>9. QED BY <1>6, <1>7, <1>8 DEF SInv

\* The second loop begins with the reason for which the first has ended.
LEMMA ReadStartKeepsStream ==
  ASSUME IInv, SInv, NEW p \in Procs, ReadStart(p)
  PROVE  SInv'
<1>1. Counters' /\ Contents'
  BY DEF ReadStart, ring, hist, SInv, Counters, Contents, Aligned, Divides, Cell
<1>2. ReaderHasReason'
  <2>1. (~Empty \/ open["write"] = 0)'
    BY DEF ReadStart, ring, Empty
  <2>2. QED BY <2>1 DEF ReaderHasReason
<1>3. QED BY <1>1, <1>2 DEF SInv

\* pipeclose has the lock, so that nobody is in the second loop.
LEMMA PipeCloseKeepsStream ==
  ASSUME IInv, SInv, NEW p \in Procs, PipeClose(p)
  PROVE  SInv'
<1>1. Counters' /\ Contents'
  BY DEF PipeClose, hist, SInv, Counters, Contents, Aligned, Divides, Cell
<1>2. \A q \in Procs : pc'[q] # "r_copy"
  <2>1. \A q \in Procs : pc[q] # "r_copy"
    BY DEF PipeClose, IInv, LockDiscipline, Locked
  <2>2. QED BY <2>1 DEF PipeClose, WakeReaders, WakeWriters, Wakeup
<1>3. QED BY <1>1, <1>2 DEF SInv, ReaderHasReason

\* Every step of the pipe keeps the histories in agreement with the ring.
LEMMA NextSInv == IInv /\ SInv /\ [Next]_vars => SInv'
<1> SUFFICES ASSUME IInv, SInv, [Next]_vars PROVE SInv'
  OBVIOUS
<1> USE DEF table, ring, frame, hist
<1>0. pc \in [Procs -> PCs]
  BY DEF IInv, TypeOK
<1>1. ASSUME NEW p \in Procs, WriteStep(p) PROVE SInv'
  <2>1. CASE \E b \in Bytes : WriteByte(p, b)
    BY <2>1, WriteByteKeepsStream
  <2>2. CASE WriteAcquire(p)
    BY <2>2, <1>0, QuietKeepsStream DEF WriteAcquire, Goto
  <2>3. CASE WriteAbort(p)
    BY <2>3, <1>0, QuietKeepsStream DEF WriteAbort, Goto
  <2>4. CASE WriteFull(p)
    BY <2>4, <1>0, QuietKeepsStream DEF WriteFull, WakeReaders, Wakeup
  <2>5. CASE WriteSleep(p)
    BY <2>5, <1>0, QuietKeepsStream DEF WriteSleep, Goto
  <2>6. CASE WriteDone(p)
    BY <2>6, <1>0, QuietKeepsStream DEF WriteDone, WakeReaders, Wakeup
  <2>7. QED BY <1>1, <2>1, <2>2, <2>3, <2>4, <2>5, <2>6 DEF WriteStep
<1>2. ASSUME NEW p \in Procs, ReadStep(p) PROVE SInv'
  <2>1. CASE ReadByte(p)
    BY <2>1, ReadByteKeepsStream
  <2>2. CASE ReadStart(p)
    BY <2>2, ReadStartKeepsStream
  <2>3. CASE ReadAcquire(p)
    BY <2>3, <1>0, QuietKeepsStream DEF ReadAcquire, Goto
  <2>4. CASE ReadKilled(p)
    BY <2>4, <1>0, QuietKeepsStream DEF ReadKilled, Goto
  <2>5. CASE ReadEmpty(p)
    BY <2>5, <1>0, QuietKeepsStream DEF ReadEmpty, Goto
  <2>6. CASE ReadSleep(p)
    BY <2>6, <1>0, QuietKeepsStream DEF ReadSleep, Goto
  <2>7. CASE ReadDone(p)
    BY <2>7, <1>0, QuietKeepsStream DEF ReadDone, WakeWriters, Wakeup
  <2>8. QED BY <1>2, <2>1, <2>2, <2>3, <2>4, <2>5, <2>6, <2>7 DEF ReadStep
<1>3. ASSUME NEW p \in Procs, CloseStep(p) PROVE SInv'
  <2>1. CASE PipeClose(p)
    BY <2>1, PipeCloseKeepsStream
  <2>2. CASE CloseAcquire(p)
    BY <2>2, <1>0, QuietKeepsStream DEF CloseAcquire, Goto
  <2>3. CASE Free(p)
    BY <2>3, <1>0, QuietKeepsStream DEF Free, Goto
  <2>4. QED BY <1>3, <2>1, <2>2, <2>3 DEF CloseStep
<1>4. ASSUME NEW p \in Procs, UserStep(p) PROVE SInv'
  <2>1. CASE Kill(p)
    BY <2>1, <1>0, QuietKeepsStream DEF Kill
  <2>2. ASSUME NEW k \in 0..MaxN, WriteCall(p, k) \/ ReadCall(p, k) PROVE SInv'
    <3>1. \A q \in Procs : pc'[q] = "r_copy" => pc[q] = "r_copy" /\ i'[q] = i[q]
      BY <2>2, <1>0 DEF WriteCall, ReadCall, Goto, IInv, TypeOK
    <3>2. QED BY <2>2, <3>1, QuietKeepsStream DEF WriteCall, ReadCall
  <2>3. ASSUME NEW e \in Ends, NEW s \in Slots, FileClose(p, e, s) PROVE SInv'
    BY <2>3, <1>0, QuietKeepsStream DEF FileClose, Goto
  <2>4. ASSUME NEW q \in Procs, NEW e \in Ends, NEW s \in Slots, FileDup(p, q, e, s) PROVE SInv'
    BY <2>4, QuietKeepsStream DEF FileDup
  <2>5. QED BY <1>4, <2>1, <2>2, <2>3, <2>4 DEF UserStep
<1>5. CASE UNCHANGED vars
  BY <1>5, QuietKeepsStream DEF vars
<1>6. QED BY <1>1, <1>2, <1>3, <1>4, <1>5 DEF Next, KernelStep

\* After pipealloc the ring and the histories are empty.
LEMMA InitSInv == Init => SInv
<1> SUFFICES ASSUME Init PROVE SInv
  OBVIOUS
<1>1. Len(sent) = 0 /\ Len(rcvd) = 0 /\ nread = 0 /\ nwrite = 0
  BY DEF Init
<1>2. 0 % WORD = 0
  BY PipeAssumption, ModSmall
<1>3. Counters
  BY <1>1, <1>2, PipeAssumption DEF Counters
<1>4. Contents /\ ReaderHasReason
  BY <1>1 DEF Init, Contents, ReaderHasReason
<1>5. QED BY <1>3, <1>4 DEF SInv

-----------------------------------------------------------------------------
(* Theorems                                                                *)

\* The stream part of the invariant holds in every reachable state.
THEOREM StreamInvariance == Spec => [](IInv /\ SInv)
<1>1. Init => IInv /\ SInv
  BY InitIInv, InitSInv
<1>2. (IInv /\ SInv) /\ [Next]_vars => (IInv /\ SInv)'
  BY NextIInv, NextSInv
<1>3. QED BY <1>1, <1>2, PTL DEF Spec

\* A process comes back from a call by a step of its own.
LEMMA ReturnIsOwnStep ==
  ASSUME IInv, Next, NEW p \in Procs, pc[p] # "idle", pc'[p] = "idle"
  PROVE  KernelStep(p)
<1>1. PICK q \in Procs : KernelStep(q) \/ UserStep(q)
  BY DEF Next
<1>2. pc \in [Procs -> PCs]
  BY DEF IInv, TypeOK
<1>3. ~UserStep(q)
  BY <1>2 DEF UserStep, WriteCall, ReadCall, FileClose, FileDup, Kill, Goto
<1>4. ASSUME p # q PROVE FALSE
  <2>1. CASE WriteStep(q)
    BY <2>1, <1>2, <1>4 DEF WriteStep, WriteAcquire, WriteByte, WriteAbort, WriteFull,
       WriteSleep, WriteDone, Goto, WakeReaders, Wakeup
  <2>2. CASE ReadStep(q)
    BY <2>2, <1>2, <1>4 DEF ReadStep, ReadAcquire, ReadKilled, ReadEmpty, ReadSleep,
       ReadStart, ReadByte, ReadDone, Goto, WakeWriters, Wakeup
  <2>3. CASE CloseStep(q)
    BY <2>3, <1>2, <1>4 DEF CloseStep, CloseAcquire, PipeClose, Free, Goto,
       WakeReaders, WakeWriters, Wakeup
  <2>4. QED BY <1>1, <1>3, <2>1, <2>2, <2>3 DEF KernelStep
<1>5. QED BY <1>1, <1>3, <1>4

\* The step that ends a read with 0 is the return at the end of piperead.
LEMMA ReturnsFromRead ==
  ASSUME IInv, Next, NEW p \in Procs, pc[p] \in ReadPCs, pc'[p] = "idle", ret'[p] = 0
  PROVE  ReadDone(p)
<1>1. KernelStep(p)
  BY ReturnIsOwnStep DEF ReadPCs
<1>2. pc \in [Procs -> PCs] /\ ret \in [Procs -> Nat \cup {-1}]
  BY DEF IInv, TypeOK
<1>3. ~WriteStep(p)
  BY DEF WriteStep, WriteAcquire, WriteByte, WriteAbort, WriteFull, WriteSleep,
     WriteDone, ReadPCs
<1>4. ~CloseStep(p)
  BY DEF CloseStep, CloseAcquire, PipeClose, Free, ReadPCs
<1>5. ~(ReadAcquire(p) \/ ReadKilled(p) \/ ReadEmpty(p) \/ ReadSleep(p) \/ ReadStart(p)
        \/ ReadByte(p))
  BY <1>2 DEF ReadAcquire, ReadKilled, ReadEmpty, ReadSleep, ReadStart, ReadByte, Goto
<1>6. QED BY <1>1, <1>3, <1>4, <1>5 DEF KernelStep, ReadStep

\* The step that ends a write with something else than n is the return of -1.
LEMMA ReturnsFromWrite ==
  ASSUME IInv, Next, NEW p \in Procs, pc[p] \in WritePCs, pc'[p] = "idle", ret'[p] # n[p]
  PROVE  WriteAbort(p)
<1>1. KernelStep(p)
  BY ReturnIsOwnStep DEF WritePCs
<1>2. pc \in [Procs -> PCs] /\ ret \in [Procs -> Nat \cup {-1}]
  BY DEF IInv, TypeOK
<1>3. ~ReadStep(p)
  BY DEF ReadStep, ReadAcquire, ReadKilled, ReadEmpty, ReadSleep, ReadStart, ReadByte,
     ReadDone, WritePCs
<1>4. ~CloseStep(p)
  BY DEF CloseStep, CloseAcquire, PipeClose, Free, WritePCs
<1>5. ~(WriteAcquire(p) \/ (\E b \in Bytes : WriteByte(p, b)) \/ WriteFull(p)
        \/ WriteSleep(p) \/ WriteDone(p))
  BY <1>2 DEF WriteAcquire, WriteByte, WriteFull, WriteSleep, WriteDone, Goto,
     WakeReaders, Wakeup
<1>6. QED BY <1>1, <1>3, <1>4, <1>5 DEF KernelStep, WriteStep

\* The ring of pipewrite and piperead gives the bytes back in the order in which
\* they were stored, and holds those in transit, for any ring whose size divides
\* 2^32, as 512 does, however often the counters wrap.
THEOREM BytesInOrder == Divides => (Spec => []Fifo)
<1> SUFFICES ASSUME Divides PROVE Spec => []Fifo
  OBVIOUS
<1>1. IInv /\ SInv => Fifo
  BY AlignedFifo DEF Aligned
<1>2. QED BY <1>1, StreamInvariance, PTL

\* With any PIPESIZE, the 3 of pipe_part2.c among them, that is so until the
\* counters wrap.
THEOREM BytesInOrderUntilWrap == Spec => []FifoUntilWrap
<1>1. IInv /\ SInv => FifoUntilWrap
  BY AlignedFifo DEF Aligned, FifoUntilWrap
<1>2. QED BY <1>1, StreamInvariance, PTL

\* piperead returns 0 for a request of bytes only at the end of the stream.
THEOREM ZeroIsEof == Divides => (Spec => EofMeansDrained)
<1> SUFFICES ASSUME Divides PROVE Spec => EofMeansDrained
  OBVIOUS
<1>1. ASSUME IInv, SInv, Next, NEW p \in Procs,
             pc[p] \in ReadPCs, pc'[p] = "idle", n[p] > 0, ret'[p] = 0
      PROVE  open["write"] = 0 /\ rcvd = sent
  <2>1. ReadDone(p)
    BY <1>1, ReturnsFromRead
  <2>2. Empty /\ i[p] = 0 /\ pc[p] = "r_copy"
    BY <2>1, <1>1 DEF ReadDone, IInv, TypeOK
  <2>3. open["write"] = 0
    BY <2>2, <1>1 DEF SInv, ReaderHasReason
  <2>4. Len(sent) = Len(rcvd) /\ \A k \in 1..Len(rcvd) : rcvd[k] = sent[k]
    BY <2>2, <1>1, RingTests DEF SInv, Contents, Aligned
  <2>5. rcvd = sent
    BY <2>4, <1>1 DEF IInv, TypeOK
  <2>6. QED BY <2>3, <2>5
<1>2. (IInv /\ SInv) /\ [Next]_vars =>
        [\A p \in Procs :
           pc[p] \in ReadPCs /\ pc'[p] = "idle" /\ n[p] > 0 /\ ret'[p] = 0
             => open["write"] = 0 /\ rcvd = sent]_vars
  BY <1>1
<1>3. QED BY <1>2, StreamInvariance, PTL DEF Spec, EofMeansDrained

\* pipewrite returns -1 only from a full pipe that nobody will read, or to a
\* process that was killed.
THEOREM FailureIsFinal == Spec => WriteFailsOnlyIfStuck
<1>1. ASSUME IInv, SInv, Next, NEW p \in Procs,
             pc[p] \in WritePCs, pc'[p] = "idle", ret'[p] # n[p]
      PROVE  /\ i[p] < n[p] /\ Len(sent) - Len(rcvd) = PIPESIZE
             /\ open["read"] = 0 \/ killed[p] = 1
  <2>1. WriteAbort(p)
    BY <1>1, ReturnsFromWrite
  <2>2. i[p] < n[p] /\ Full /\ (open["read"] = 0 \/ killed[p] = 1)
    BY <2>1 DEF WriteAbort
  <2>3. QED BY <2>2, <1>1, RingTests DEF SInv
<1>2. (IInv /\ SInv) /\ [Next]_vars =>
        [\A p \in Procs :
           pc[p] \in WritePCs /\ pc'[p] = "idle" /\ ret'[p] # n[p]
             => /\ i[p] < n[p] /\ Len(sent) - Len(rcvd) = PIPESIZE
                /\ open["read"] = 0 \/ killed[p] = 1]_vars
  BY <1>1
<1>3. QED BY <1>2, StreamInvariance, PTL DEF Spec, WriteFailsOnlyIfStuck

-----------------------------------------------------------------------------
(* The pipe implements the stream                                          *)

\* Storing a byte is the Put of the stream: there is room, and the end is open.
LEMMA WriteByteIsPut ==
  ASSUME IInv, SInv, NEW p \in Procs, NEW b \in Bytes, WriteByte(p, b)
  PROVE  Stream!Put(b)
<1> DEFINE s == Len(sent)
           r == Len(rcvd)
<1>1. open["write"] = 1
  BY BusyEndIsOpen DEF WriteByte, WritePCs
<1>2. s \in Nat /\ r \in Nat /\ PIPESIZE \in Nat
  BY Lengths, PipeAssumption
<1>3. s - r < PIPESIZE
  <2>1. s - r \in 0..PIPESIZE /\ s - r # PIPESIZE
    BY RingTests DEF SInv, Counters, WriteByte
  <2>2. QED BY <2>1, <1>2
<1>4. QED BY <1>1, <1>3 DEF WriteByte, Stream!Put

\* Copying a byte is the Take of the stream.
LEMMA ReadByteIsTake ==
  ASSUME IInv, SInv, Divides, NEW p \in Procs, ReadByte(p)
  PROVE  Stream!Take
<1>1. open["read"] = 1
  BY BusyEndIsOpen DEF ReadByte, ReadPCs
<1>2. Len(rcvd) < Len(sent) /\ rcvd' = Append(rcvd, sent[Len(rcvd) + 1])
  BY ReadByteTakesOldest DEF Aligned
<1>3. QED BY <1>1, <1>2 DEF ReadByte, Stream!Take

\* pipeclose is the Close of its end.
LEMMA PipeCloseIsClose ==
  ASSUME IInv, NEW p \in Procs, PipeClose(p)
  PROVE  Stream!Close(arg[p]) /\ arg[p] \in {"read", "write"}
BY DEF PipeClose, IInv, OneCloser, ClosePCs, TypeOK, Ends, hist, Stream!Close

\* Every other step is one that a program on the two ends does not see.
LEMMA OtherStepsStutter ==
  ASSUME NEW p \in Procs, KernelStep(p) \/ UserStep(p),
         ~ \E b \in Bytes : WriteByte(p, b), ~ReadByte(p), ~PipeClose(p)
  PROVE  UNCHANGED Stream!bsvars
<1> USE DEF ring, hist, Stream!bsvars
<1>1. CASE WriteStep(p)
  BY <1>1 DEF WriteStep, WriteAcquire, WriteAbort, WriteFull, WriteSleep, WriteDone
<1>2. CASE ReadStep(p)
  BY <1>2 DEF ReadStep, ReadAcquire, ReadKilled, ReadEmpty, ReadSleep, ReadStart, ReadDone
<1>3. CASE CloseStep(p)
  BY <1>3 DEF CloseStep, CloseAcquire, Free
<1>4. CASE UserStep(p)
  BY <1>4 DEF UserStep, WriteCall, ReadCall, FileClose, FileDup, Kill
<1>5. QED BY <1>1, <1>2, <1>3, <1>4 DEF KernelStep

\* Whatever the processes do, the ends of the pipe behave like the ends of one
\* bounded stream: a byte is stored when there is room and the write end is open,
\* the oldest byte is taken, and each end is closed once.
THEOREM ImplementsStream == Divides => (Spec => StreamSpec)
<1> SUFFICES ASSUME Divides PROVE Spec => StreamSpec
  OBVIOUS
<1>1. Init => Stream!Init
  BY DEF Init, Stream!Init, Ends
<1>2. ASSUME IInv, SInv, [Next]_vars
      PROVE  [Stream!Next]_(Stream!bsvars)
  <2>1. CASE UNCHANGED vars
    BY <2>1 DEF vars, Stream!bsvars
  <2>2. ASSUME NEW p \in Procs, KernelStep(p) \/ UserStep(p)
        PROVE  [Stream!Next]_(Stream!bsvars)
    <3>1. CASE \E b \in Bytes : WriteByte(p, b)
      BY <3>1, <1>2, WriteByteIsPut DEF Stream!Next
    <3>2. CASE ReadByte(p)
      BY <3>2, <1>2, ReadByteIsTake DEF Stream!Next
    <3>3. CASE PipeClose(p)
      BY <3>3, <1>2, PipeCloseIsClose DEF Stream!Next
    <3>4. QED BY <2>2, <3>1, <3>2, <3>3, OtherStepsStutter
  <2>3. QED BY <1>2, <2>1, <2>2 DEF Next
<1>3. QED BY <1>1, <1>2, StreamInvariance, PTL DEF Spec, StreamSpec, Stream!Spec
=============================================================================
