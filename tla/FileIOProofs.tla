---------------------------- MODULE FileIOProofs ----------------------------
(***************************************************************************)
(* Theorems about FileIO, for any number of processes and of struct files  *)
(* open on the inode, and calls of any length.  The inductive invariant    *)
(* IInv is a conjunction of named parts; there is one lemma per action,    *)
(* with one step per part.                                                 *)
(***************************************************************************)
EXTENDS FileIO, TLAPS, FiniteSetTheorems

WritePCs == {"w_loop", "w_lock", "w_copy", "w_off", "w_end", "w_ret"}
ReadPCs == {"r_lock", "r_copy", "r_off"}
LockedPCs == {"w_copy", "w_off", "r_copy", "r_off"}   \* between ilock and iunlock
CopiedPCs == {"w_off", "r_off"}    \* the bytes are copied, the offset is old

TypeOK ==
  /\ size \in Nat /\ off \in [Files -> Nat]
  /\ lock \in Procs \cup {NoProc} /\ ops \subseteq Procs
  /\ fof \in [Procs -> Files]
  /\ pc \in [Procs -> {"idle"} \cup WritePCs \cup ReadPCs]
  /\ i \in [Procs -> Nat] /\ n \in [Procs -> Nat] /\ calls \in [Procs -> Nat]
  /\ r \in [Procs -> Int] /\ ret \in [Procs -> Int]
  /\ done \in [Files -> SUBSET Nat] /\ got \in [Procs -> SUBSET Nat]

\* A process between ilock and iunlock is the owner of the sleeplock.
Inside == \A p \in Procs : pc[p] \in LockedPCs => lock = p

\* Every position copied through a file is behind its offset, or will be when the
\* process that has copied it has advanced the offset.
Frontier ==
  \A f \in Files : \A x \in done[f] :
    \/ x < off[f]
    \/ \E p \in Procs : pc[p] \in CopiedPCs /\ fof[p] = f /\ x < off[f] + r[p]

\* No offset is beyond the end of the inode, now or when it is advanced.
WithinSize ==
  /\ \A f \in Files : off[f] <= size
  /\ \A p \in Procs : pc[p] \in CopiedPCs => off[fof[p]] + r[p] <= size

\* The next piece does not fit.
NoRoom(p) == off[fof[p]] + Piece(p) > MAXFILE

\* Where a write is: i counts the bytes of complete pieces, a piece is written
\* whole or not at all, and the last one fails because there is no room.
Progress ==
  \A p \in Procs :
    /\ pc[p] = "idle" => i[p] = 0
    /\ pc[p] = "w_loop" => i[p] <= n[p]
    /\ pc[p] \in WritePCs \ {"w_loop"} => i[p] < n[p]
    /\ pc[p] \in {"w_off", "w_end"} => r[p] = Piece(p) \/ (r[p] = -1 /\ NoRoom(p))
    /\ pc[p] = "w_ret" => NoRoom(p)

\* A write has copied as many positions as it counts: none of them twice.
Copies ==
  \A p \in Procs :
    /\ got[p] \subseteq done[fof[p]]
    /\ pc[p] = "idle" => got[p] = {}
    /\ pc[p] \in WritePCs =>
         /\ IsFiniteSet(got[p])
         /\ Cardinality(got[p]) =
              i[p] + (IF pc[p] \in {"w_off", "w_end"} /\ r[p] > 0 THEN r[p] ELSE 0)

IInv == TypeOK /\ Inside /\ Frontier /\ WithinSize /\ Progress /\ Copies

-----------------------------------------------------------------------------
(* Lemmas                                                                  *)

\* While p is between ilock and iunlock, nobody else has an offset to advance.
LEMMA Alone ==
  ASSUME IInv, NEW p \in Procs, pc[p] \in LockedPCs
  PROVE  \A q \in Procs \ {p} : pc[q] \notin LockedPCs /\ pc[q] \notin CopiedPCs
BY DEF IInv, Inside, LockedPCs, CopiedPCs

\* With the inode locked, everything copied through the file of p is behind its
\* offset until p copies more.
LEMMA BehindOffset ==
  ASSUME IInv, NEW p \in Procs, pc[p] \in LockedPCs \ CopiedPCs
  PROVE  \A f \in Files : \A x \in done[f] : x < off[f]
BY Alone DEF IInv, Frontier

\* A piece is at least one byte when there is something left to write.
LEMMA PieceSize ==
  ASSUME IInv, NEW p \in Procs
  PROVE  /\ Piece(p) \in Int
         /\ i[p] < n[p] => Piece(p) > 0
         /\ i[p] + Piece(p) <= n[p]
BY IOAssumption DEF IInv, TypeOK, Piece, Smaller

\* Copying a piece from the offset on keeps Frontier, as the offset is about to be
\* advanced by the length of the piece.
LEMMA CopyKeepsFrontier ==
  ASSUME IInv, NEW p \in Procs, NEW k \in Int, NEW to \in CopiedPCs,
         pc[p] \in LockedPCs \ CopiedPCs,
         Copied(p, off[fof[p]], k), r' = [r EXCEPT ![p] = k],
         pc' = [pc EXCEPT ![p] = to], UNCHANGED <<off, fof>>
  PROVE  /\ done' \in [Files -> SUBSET Nat] /\ got' \in [Procs -> SUBSET Nat]
         /\ Frontier'
<1>1. TypeOK BY DEF IInv
<1>2. off[fof[p]] .. (off[fof[p]] + k - 1) \subseteq Nat
  BY <1>1 DEF TypeOK
<1>3. done' \in [Files -> SUBSET Nat] /\ got' \in [Procs -> SUBSET Nat]
  BY <1>1, <1>2 DEF TypeOK, Copied
<1>4. ASSUME NEW f \in Files, NEW x \in done'[f] PROVE x < off[f] \/ (f = fof[p] /\ x < off[f] + k)
  <2>1. CASE x \in done[f]
    BY <2>1, <1>4, BehindOffset
  <2>2. CASE x \notin done[f]
    <3>1. f = fof[p] /\ x \in off[f] .. (off[f] + k - 1)
      BY <2>2, <1>4, <1>1 DEF TypeOK, Copied
    <3>2. QED BY <3>1, <1>1 DEF TypeOK
  <2>3. QED BY <2>1, <2>2
<1>5. pc'[p] \in CopiedPCs /\ r'[p] = k /\ fof'[p] = fof[p]
  BY <1>1 DEF TypeOK
<1>6. QED BY <1>3, <1>4, <1>5 DEF Frontier

\* Advancing the offset past what was copied, and giving up the inode, keeps
\* Frontier and WithinSize; no offset goes back.
LEMMA AdvanceKeepsFrontier ==
  ASSUME IInv, NEW p \in Procs, NEW to,
         pc[p] \in CopiedPCs, to \notin CopiedPCs,
         Advance(p), pc' = [pc EXCEPT ![p] = to],
         \A q \in Procs \ {p} : r'[q] = r[q],
         UNCHANGED <<size, fof, done>>
  PROVE  /\ off' \in [Files -> Nat] /\ \A f \in Files : off'[f] >= off[f]
         /\ Frontier' /\ WithinSize'
<1>1. TypeOK BY DEF IInv
<1>2. \A q \in Procs : pc'[q] \notin CopiedPCs
  BY <1>1, Alone DEF TypeOK, LockedPCs, CopiedPCs
<1>3. off' \in [Files -> Nat] /\ \A f \in Files : off'[f] >= off[f]
  BY <1>1 DEF TypeOK, Advance
<1>4. \A f \in Files : off'[f] = IF f = fof[p] /\ r[p] > 0 THEN off[f] + r[p] ELSE off[f]
  BY <1>1 DEF TypeOK, Advance
<1>5. WithinSize'
  BY <1>1, <1>2, <1>4 DEF IInv, TypeOK, WithinSize
<1>6. Frontier'
  <2> SUFFICES ASSUME NEW f \in Files, NEW x \in done[f] PROVE x < off'[f]
    BY <1>2 DEF Frontier
  <2>1. x < off[f] \/ (fof[p] = f /\ x < off[f] + r[p])
    BY Alone DEF IInv, Frontier, LockedPCs, CopiedPCs
  <2>2. x \in Nat /\ r[p] \in Int /\ off[f] \in Nat
    BY <1>1 DEF TypeOK
  <2>3. QED BY <2>1, <2>2, <1>4
<1>7. QED BY <1>3, <1>5, <1>6

\* A set that grows by an interval it does not meet grows by its length.
LEMMA GrowsBy ==
  ASSUME NEW S, IsFiniteSet(S), NEW a \in Nat, NEW k \in Int,
         S \cap (a .. (a + k - 1)) = {}
  PROVE  /\ IsFiniteSet(S \cup (a .. (a + k - 1)))
         /\ Cardinality(S \cup (a .. (a + k - 1))) = Cardinality(S) + (IF k > 0 THEN k ELSE 0)
<1>1. IsFiniteSet(a .. (a + k - 1))
      /\ Cardinality(a .. (a + k - 1)) = (IF k > 0 THEN k ELSE 0)
  <2>1. a + k - 1 \in Int OBVIOUS
  <2>2. IsFiniteSet(a .. (a + k - 1))
        /\ Cardinality(a .. (a + k - 1)) = IF a > a + k - 1 THEN 0 ELSE (a + k - 1) - a + 1
    BY <2>1, FS_Interval
  <2>3. QED BY <2>2
<1>2. Cardinality(S) \in Nat /\ Cardinality({}) = 0
  BY FS_CardinalityType, FS_EmptySet
<1>3. /\ IsFiniteSet(S \cup (a .. (a + k - 1)))
      /\ Cardinality(S \cup (a .. (a + k - 1))) =
           Cardinality(S) + Cardinality(a .. (a + k - 1)) - Cardinality(S \cap (a .. (a + k - 1)))
  <2>1. ASSUME NEW I, IsFiniteSet(I)
        PROVE  /\ IsFiniteSet(S \cup I)
               /\ Cardinality(S \cup I) = Cardinality(S) + Cardinality(I) - Cardinality(S \cap I)
    BY <2>1, FS_Union
  <2>2. QED BY <1>1, <2>1
<1>4. QED BY <1>1, <1>2, <1>3

-----------------------------------------------------------------------------
(* Every action keeps the invariant                                        *)

\* A write starts with nothing copied.
LEMMA WriteCallKeeps ==
  ASSUME IInv, NEW p \in Procs, NEW k \in 1..MaxN,
         WriteCall(p, k)
  PROVE  IInv'
<1>1. TypeOK'
  BY IOAssumption DEF IInv, WriteCall, Goto, TypeOK, WritePCs, ReadPCs
<1>2. Inside'
  BY DEF IInv, WriteCall, Goto, TypeOK, Inside, LockedPCs
<1>3. Frontier'
  BY DEF IInv, WriteCall, Goto, TypeOK, Frontier, CopiedPCs
<1>4. WithinSize'
  BY DEF IInv, WriteCall, Goto, TypeOK, WithinSize, CopiedPCs
<1>5. Progress'
  BY IOAssumption DEF IInv, WriteCall, Goto, TypeOK, Progress, NoRoom, Piece,
     WritePCs
<1>6. Copies'
  <2>1. got[p] = {} /\ i[p] = 0 /\ pc'[p] = "w_loop" /\ \A q \in Procs \ {p} : pc'[q] = pc[q]
    BY DEF IInv, TypeOK, WriteCall, Goto, Copies, Progress
  <2>2. UNCHANGED <<got, done, fof, i, r>>
    BY DEF WriteCall
  <2>3. ASSUME NEW q \in Procs \ {p}, pc'[q] \in WritePCs
        PROVE  /\ IsFiniteSet(got'[q])
               /\ Cardinality(got'[q]) =
                    i'[q] + (IF pc'[q] \in {"w_off", "w_end"} /\ r'[q] > 0 THEN r'[q] ELSE 0)
    BY <2>1, <2>2, <2>3 DEF IInv, Copies
  <2>4. IsFiniteSet(got'[p]) /\ Cardinality(got'[p]) = i'[p] + 0
    BY <2>1, <2>2, FS_EmptySet
  <2>5. QED BY <2>1, <2>2, <2>3, <2>4 DEF IInv, Copies
<1>7. QED BY <1>1, <1>2, <1>3, <1>4, <1>5, <1>6 DEF IInv

\* A read starts with nothing copied.
LEMMA ReadCallKeeps ==
  ASSUME IInv, NEW p \in Procs, NEW k \in 1..MaxN,
         ReadCall(p, k)
  PROVE  IInv'
<1>1. TypeOK'
  BY IOAssumption DEF IInv, ReadCall, Goto, TypeOK, WritePCs, ReadPCs
<1>2. Inside'
  BY DEF IInv, ReadCall, Goto, TypeOK, Inside, LockedPCs
<1>3. Frontier'
  BY DEF IInv, ReadCall, Goto, TypeOK, Frontier, CopiedPCs
<1>4. WithinSize'
  BY DEF IInv, ReadCall, Goto, TypeOK, WithinSize, CopiedPCs
<1>5. Progress'
  BY IOAssumption DEF IInv, ReadCall, Goto, TypeOK, Progress, NoRoom, Piece,
     WritePCs
<1>6. Copies'
  BY DEF IInv, ReadCall, Goto, TypeOK, Copies, WritePCs
<1>7. QED BY <1>1, <1>2, <1>3, <1>4, <1>5, <1>6 DEF IInv

\* begin_op changes only who has a transaction.
LEMMA BeginOpKeeps ==
  ASSUME IInv, NEW p \in Procs,
         BeginOp(p)
  PROVE  IInv'
<1>1. TypeOK'
  BY DEF IInv, BeginOp, Goto, TypeOK, WritePCs, ReadPCs
<1>2. Inside'
  BY DEF IInv, BeginOp, Goto, TypeOK, Inside, LockedPCs
<1>3. Frontier'
  BY DEF IInv, BeginOp, Goto, TypeOK, Frontier, CopiedPCs
<1>4. WithinSize'
  BY DEF IInv, BeginOp, Goto, TypeOK, WithinSize, CopiedPCs
<1>5. Progress'
  BY DEF IInv, BeginOp, Goto, TypeOK, Progress, NoRoom, Piece, WritePCs
<1>6. Copies'
  BY DEF IInv, BeginOp, Goto, TypeOK, Copies, WritePCs
<1>7. QED BY <1>1, <1>2, <1>3, <1>4, <1>5, <1>6 DEF IInv

\* ilock lets one process in.
LEMMA WriteLockKeeps ==
  ASSUME IInv, NEW p \in Procs,
         WriteLock(p)
  PROVE  IInv'
<1>1. TypeOK'
  BY DEF IInv, WriteLock, ILock, Goto, TypeOK, WritePCs, ReadPCs
<1>2. Inside'
  BY IOAssumption DEF IInv, WriteLock, ILock, Goto, TypeOK, Inside, LockedPCs
<1>3. Frontier'
  BY DEF IInv, WriteLock, ILock, Goto, TypeOK, Frontier, CopiedPCs
<1>4. WithinSize'
  BY DEF IInv, WriteLock, ILock, Goto, TypeOK, WithinSize, CopiedPCs
<1>5. Progress'
  BY DEF IInv, WriteLock, ILock, Goto, TypeOK, Progress, NoRoom, Piece,
     WritePCs
<1>6. Copies'
  BY DEF IInv, WriteLock, ILock, Goto, TypeOK, Copies, WritePCs
<1>7. QED BY <1>1, <1>2, <1>3, <1>4, <1>5, <1>6 DEF IInv

\* ilock lets one process in.
LEMMA ReadLockKeeps ==
  ASSUME IInv, NEW p \in Procs,
         ReadLock(p)
  PROVE  IInv'
<1>1. TypeOK'
  BY DEF IInv, ReadLock, ILock, Goto, TypeOK, WritePCs, ReadPCs
<1>2. Inside'
  BY IOAssumption DEF IInv, ReadLock, ILock, Goto, TypeOK, Inside, LockedPCs
<1>3. Frontier'
  BY DEF IInv, ReadLock, ILock, Goto, TypeOK, Frontier, CopiedPCs
<1>4. WithinSize'
  BY DEF IInv, ReadLock, ILock, Goto, TypeOK, WithinSize, CopiedPCs
<1>5. Progress'
  BY DEF IInv, ReadLock, ILock, Goto, TypeOK, Progress, NoRoom, Piece, WritePCs
<1>6. Copies'
  BY DEF IInv, ReadLock, ILock, Goto, TypeOK, Copies, WritePCs
<1>7. QED BY <1>1, <1>2, <1>3, <1>4, <1>5, <1>6 DEF IInv

\* writei copies at the offset, where nobody has copied through this file, or
\* nothing when there is no room.
LEMMA WriteIKeeps ==
  ASSUME IInv, NEW p \in Procs,
         WriteI(p)
  PROVE  IInv'
<1> DEFINE k == writei(off[fof[p]], Piece(p))
<1>a. /\ pc[p] \in LockedPCs \ CopiedPCs /\ k \in Int /\ "w_off" \in CopiedPCs
      /\ Copied(p, off[fof[p]], k) /\ r' = [r EXCEPT ![p] = k]
      /\ pc' = [pc EXCEPT ![p] = "w_off"] /\ UNCHANGED <<off, fof>>
  BY PieceSize DEF WriteI, Goto, writei, LockedPCs, CopiedPCs
<1>b. /\ k = Piece(p) \/ (k = -1 /\ NoRoom(p))
      /\ size' \in Nat /\ size' >= size /\ off[fof[p]] + k <= size'
  <2>1. off[fof[p]] \in Nat /\ size \in Nat /\ off[fof[p]] <= size
    BY DEF IInv, TypeOK, WithinSize
  <2>2. Piece(p) \in Int
    BY PieceSize
  <2>3. size' = IF k > 0 /\ off[fof[p]] + k > size THEN off[fof[p]] + k ELSE size
    BY DEF WriteI
  <2>4. QED BY <2>1, <2>2, <2>3 DEF writei, NoRoom
<1>1. TypeOK'
  <2>1. done' \in [Files -> SUBSET Nat] /\ got' \in [Procs -> SUBSET Nat]
    BY <1>a, CopyKeepsFrontier
  <2>2. QED BY <2>1, <1>a, <1>b DEF IInv, WriteI, Goto, TypeOK, WritePCs, ReadPCs
<1>2. Inside'
  BY DEF IInv, WriteI, Goto, TypeOK, Inside, LockedPCs
<1>3. Frontier'
  BY <1>a, CopyKeepsFrontier
<1>4. WithinSize'
  BY <1>a, <1>b, Alone DEF IInv, WriteI, TypeOK, WithinSize, LockedPCs, CopiedPCs
<1>5. Progress'
  <2>1. r'[p] = Piece(p) \/ (r'[p] = -1 /\ NoRoom(p))
    BY <1>a, <1>b DEF IInv, TypeOK
  <2>2. \A q \in Procs : Piece(q)' = Piece(q) /\ (NoRoom(q)' <=> NoRoom(q))
    BY DEF WriteI, Piece, NoRoom
  <2>3. \A q \in Procs \ {p} : pc'[q] = pc[q] /\ r'[q] = r[q]
    BY <1>a DEF IInv, TypeOK
  <2>4. pc[p] = "w_copy" /\ pc'[p] = "w_off" /\ UNCHANGED <<i, n>>
    BY <1>a DEF IInv, TypeOK, WriteI
  <2>5. QED BY <2>1, <2>2, <2>3, <2>4 DEF IInv, Progress, WritePCs
<1>6. Copies'
  <2> DEFINE piece == off[fof[p]] .. (off[fof[p]] + k - 1)
  <2>1. done' = [done EXCEPT ![fof[p]] = @ \cup piece] /\ got' = [got EXCEPT ![p] = @ \cup piece]
    BY <1>a DEF Copied
  <2>2. got[p] \subseteq done[fof[p]] /\ IsFiniteSet(got[p]) /\ Cardinality(got[p]) = i[p]
    BY DEF IInv, TypeOK, Copies, WritePCs, WriteI
  <2>3. got[p] \cap piece = {}
    <3>1. \A x \in got[p] : x \in Nat /\ x < off[fof[p]]
      BY <2>2, <1>a, BehindOffset DEF IInv, TypeOK
    <3>2. QED BY <3>1, <1>a DEF IInv, TypeOK
  <2>4. IsFiniteSet(got[p] \cup piece)
        /\ Cardinality(got[p] \cup piece) = i[p] + (IF k > 0 THEN k ELSE 0)
    BY <2>2, <2>3, <1>a, GrowsBy DEF IInv, TypeOK
  <2>5. \A q \in Procs : got'[q] \subseteq done'[fof[q]]
    BY <2>1 DEF IInv, TypeOK, Copies
  <2>6. pc'[p] = "w_off" /\ r'[p] = k /\ got'[p] = got[p] \cup piece
    BY <1>a, <2>1 DEF IInv, TypeOK
  <2>7. \A q \in Procs \ {p} : pc'[q] = pc[q] /\ r'[q] = r[q] /\ got'[q] = got[q]
    BY <1>a, <2>1 DEF IInv, TypeOK
  <2>8. UNCHANGED <<i, fof>>
    BY DEF WriteI
  <2>9. ASSUME NEW q \in Procs \ {p}, pc'[q] \in WritePCs
        PROVE  /\ IsFiniteSet(got'[q])
               /\ Cardinality(got'[q]) =
                    i'[q] + (IF pc'[q] \in {"w_off", "w_end"} /\ r'[q] > 0 THEN r'[q] ELSE 0)
    BY <2>7, <2>8, <2>9 DEF IInv, Copies
  <2>10. \A q \in Procs : pc'[q] = "idle" => got'[q] = {}
    BY <2>6, <2>7 DEF IInv, Copies
  <2> HIDE DEF k, piece
  <2>11. QED BY <2>4, <2>5, <2>6, <2>8, <2>9, <2>10 DEF Copies
<1>7. QED BY <1>1, <1>2, <1>3, <1>4, <1>5, <1>6 DEF IInv

\* The offset passes the bytes that were copied, and the inode is given up.
LEMMA WriteOffKeeps ==
  ASSUME IInv, NEW p \in Procs,
         WriteOff(p)
  PROVE  IInv'
<1>a. /\ pc[p] \in CopiedPCs /\ "w_end" \notin CopiedPCs /\ Advance(p)
      /\ pc' = [pc EXCEPT ![p] = "w_end"] /\ UNCHANGED <<size, fof, done>>
      /\ \A q \in Procs \ {p} : r'[q] = r[q]
  BY DEF WriteOff, Goto, CopiedPCs
<1>b. /\ off' \in [Files -> Nat] /\ \A f \in Files : off'[f] >= off[f]
      /\ Frontier' /\ WithinSize'
  BY <1>a, AdvanceKeepsFrontier
<1>1. TypeOK'
  BY <1>b DEF IInv, WriteOff, Advance, IUnlock, Goto, TypeOK, WritePCs, ReadPCs
<1>2. Inside'
  BY DEF IInv, WriteOff, Advance, IUnlock, Goto, TypeOK, Inside, LockedPCs
<1>3. Frontier'
  BY <1>b
<1>4. WithinSize'
  BY <1>b
<1>5. Progress'
  <2>1. \A q \in Procs : Piece(q)' = Piece(q) /\ (NoRoom(q) => NoRoom(q)')
    <3>1. \A q \in Procs : Piece(q)' = Piece(q)
      BY DEF WriteOff, Piece
    <3>2. \A q \in Procs : off'[fof'[q]] >= off[fof[q]]
      BY <1>a, <1>b DEF IInv, TypeOK
    <3>3. \A q \in Procs : Piece(q) \in Int /\ off[fof[q]] \in Nat /\ off'[fof'[q]] \in Nat
      BY <1>a, <1>b, PieceSize DEF IInv, TypeOK
    <3>4. QED BY <3>1, <3>2, <3>3, IOAssumption DEF NoRoom
  <2>2. pc[p] = "w_off" /\ pc'[p] = "w_end" /\ \A q \in Procs \ {p} : pc'[q] = pc[q]
    BY <1>a DEF IInv, TypeOK, WriteOff
  <2>3. UNCHANGED <<i, n, r>>
    BY DEF WriteOff
  <2>4. QED BY <2>1, <2>2, <2>3 DEF IInv, Progress, WritePCs
<1>6. Copies'
  BY DEF IInv, WriteOff, Advance, IUnlock, Goto, TypeOK, Copies, WritePCs
<1>7. QED BY <1>1, <1>2, <1>3, <1>4, <1>5, <1>6 DEF IInv

\* The bytes of the piece are counted.
LEMMA EndOpKeeps ==
  ASSUME IInv, NEW p \in Procs,
         EndOp(p)
  PROVE  IInv'
<1>1. TypeOK'
  BY DEF IInv, EndOp, Ended, Goto, TypeOK, WritePCs, ReadPCs
<1>2. Inside'
  BY DEF IInv, EndOp, Ended, Goto, TypeOK, Inside, LockedPCs
<1>3. Frontier'
  BY DEF IInv, EndOp, Ended, Goto, TypeOK, Frontier, CopiedPCs
<1>4. WithinSize'
  BY DEF IInv, EndOp, Ended, Goto, TypeOK, WithinSize, CopiedPCs
<1>5. Progress'
  <2>1. i[p] < n[p] /\ (r[p] = Piece(p) \/ (r[p] = -1 /\ NoRoom(p)))
    BY DEF IInv, Progress, EndOp, WritePCs
  <2>2. CASE r[p] < 0
    <3>1. pc' = [pc EXCEPT ![p] = "w_ret"] /\ UNCHANGED <<off, fof, i, n, r>> /\ NoRoom(p)
      BY <2>1, <2>2, PieceSize DEF EndOp, Goto, IInv, TypeOK
    <3>2. \A q \in Procs : Piece(q)' = Piece(q) /\ (NoRoom(q)' <=> NoRoom(q))
      BY <3>1 DEF Piece, NoRoom
    <3>3. QED BY <2>1, <3>1, <3>2 DEF IInv, TypeOK, Progress, WritePCs
  <2>3. CASE ~(r[p] < 0)
    <3>1. /\ pc' = [pc EXCEPT ![p] = "w_loop"] /\ i' = [i EXCEPT ![p] = @ + r[p]]
          /\ UNCHANGED <<off, fof, n, r>> /\ r[p] = Piece(p)
      BY <2>1, <2>3 DEF EndOp, Goto
    <3>2. i'[p] <= n'[p]
      BY <3>1, PieceSize DEF IInv, TypeOK
    <3>3. \A q \in Procs \ {p} : pc'[q] = pc[q] /\ i'[q] = i[q]
      BY <3>1 DEF IInv, TypeOK
    <3>4. \A q \in Procs \ {p} : Piece(q)' = Piece(q) /\ (NoRoom(q)' <=> NoRoom(q))
      BY <3>1, <3>3 DEF Piece, NoRoom
    <3>5. pc'[p] = "w_loop"
      BY <3>1 DEF IInv, TypeOK
    <3>6. QED BY <3>1, <3>2, <3>3, <3>4, <3>5 DEF IInv, Progress, WritePCs
  <2>4. QED BY <2>2, <2>3
<1>6. Copies'
  BY DEF IInv, EndOp, Ended, Goto, TypeOK, Copies, WritePCs
<1>7. QED BY <1>1, <1>2, <1>3, <1>4, <1>5, <1>6 DEF IInv

\* The write leaves nothing behind but what it has copied.
LEMMA WriteReturnKeeps ==
  ASSUME IInv, NEW p \in Procs,
         WriteReturn(p)
  PROVE  IInv'
<1>1. TypeOK'
  <2>1. Outcome(p) \in Int
    BY DEF IInv, TypeOK, Outcome
  <2>2. QED BY <2>1 DEF IInv, WriteReturn, Leave, Goto, TypeOK, WritePCs, ReadPCs
<1>2. Inside'
  BY DEF IInv, WriteReturn, Leave, Goto, TypeOK, Inside, LockedPCs
<1>3. Frontier'
  BY DEF IInv, WriteReturn, Leave, Goto, TypeOK, Frontier, CopiedPCs
<1>4. WithinSize'
  BY DEF IInv, WriteReturn, Leave, Goto, TypeOK, WithinSize, CopiedPCs
<1>5. Progress'
  BY DEF IInv, WriteReturn, Leave, Goto, TypeOK, Progress, NoRoom, Piece,
     WritePCs
<1>6. Copies'
  BY DEF IInv, WriteReturn, Leave, Goto, TypeOK, Copies, WritePCs
<1>7. QED BY <1>1, <1>2, <1>3, <1>4, <1>5, <1>6 DEF IInv

\* readi copies from the offset at most what the file has left.
LEMMA ReadIKeeps ==
  ASSUME IInv, NEW p \in Procs,
         ReadI(p)
  PROVE  IInv'
<1> DEFINE k == readi(off[fof[p]], n[p])
<1>a. /\ pc[p] \in LockedPCs \ CopiedPCs /\ k \in Int /\ "r_off" \in CopiedPCs
      /\ Copied(p, off[fof[p]], k) /\ r' = [r EXCEPT ![p] = k]
      /\ pc' = [pc EXCEPT ![p] = "r_off"] /\ UNCHANGED <<off, fof>>
  BY DEF IInv, TypeOK, ReadI, Goto, readi, Smaller, LockedPCs, CopiedPCs
<1>b. off[fof[p]] + k <= size
  BY DEF IInv, TypeOK, WithinSize, readi, Smaller
<1>1. TypeOK'
  <2>1. done' \in [Files -> SUBSET Nat] /\ got' \in [Procs -> SUBSET Nat]
    BY <1>a, CopyKeepsFrontier
  <2>2. QED BY <2>1, <1>a DEF IInv, ReadI, Goto, TypeOK, WritePCs, ReadPCs
<1>2. Inside'
  BY DEF IInv, ReadI, Goto, TypeOK, Inside, LockedPCs
<1>3. Frontier'
  BY <1>a, CopyKeepsFrontier
<1>4. WithinSize'
  BY <1>a, <1>b, Alone DEF IInv, ReadI, TypeOK, WithinSize, LockedPCs, CopiedPCs
<1>5. Progress'
  BY DEF IInv, ReadI, Goto, TypeOK, Progress, NoRoom, Piece, WritePCs
<1>6. Copies'
  <2> DEFINE piece == off[fof[p]] .. (off[fof[p]] + k - 1)
  <2>1. done' = [done EXCEPT ![fof[p]] = @ \cup piece] /\ got' = [got EXCEPT ![p] = @ \cup piece]
    BY <1>a DEF Copied
  <2>2. \A q \in Procs : got'[q] \subseteq done'[fof[q]]
    BY <2>1 DEF IInv, TypeOK, Copies
  <2>3. pc'[p] = "r_off" /\ \A q \in Procs \ {p} : pc'[q] = pc[q] /\ r'[q] = r[q] /\ got'[q] = got[q]
    BY <1>a, <2>1 DEF IInv, TypeOK
  <2>4. UNCHANGED <<i, fof>>
    BY DEF ReadI
  <2>5. QED BY <2>2, <2>3, <2>4 DEF IInv, Copies, WritePCs
<1>7. QED BY <1>1, <1>2, <1>3, <1>4, <1>5, <1>6 DEF IInv

\* The offset passes the bytes that were read.
LEMMA ReadReturnKeeps ==
  ASSUME IInv, NEW p \in Procs,
         ReadReturn(p)
  PROVE  IInv'
<1>a. /\ pc[p] \in CopiedPCs /\ "idle" \notin CopiedPCs /\ Advance(p)
      /\ pc' = [pc EXCEPT ![p] = "idle"] /\ UNCHANGED <<size, fof, done>>
      /\ \A q \in Procs \ {p} : r'[q] = r[q]
  BY DEF IInv, TypeOK, ReadReturn, Leave, Goto, CopiedPCs
<1>b. /\ off' \in [Files -> Nat] /\ \A f \in Files : off'[f] >= off[f]
      /\ Frontier' /\ WithinSize'
  BY <1>a, AdvanceKeepsFrontier
<1>1. TypeOK'
  BY <1>b DEF IInv, ReadReturn, Advance, IUnlock, Leave, Goto, TypeOK, WritePCs, ReadPCs
<1>2. Inside'
  BY DEF IInv, ReadReturn, Advance, IUnlock, Leave, Goto, TypeOK, Inside,
     LockedPCs
<1>3. Frontier'
  BY <1>b
<1>4. WithinSize'
  BY <1>b
<1>5. Progress'
  <2>1. \A q \in Procs \ {p} : pc'[q] = pc[q] /\ i'[q] = i[q] /\ n'[q] = n[q] /\ r'[q] = r[q]
    BY <1>a DEF IInv, TypeOK, ReadReturn, Leave
  <2>2. \A q \in Procs \ {p} : Piece(q)' = Piece(q) /\ (NoRoom(q) => NoRoom(q)')
    <3>1. \A q \in Procs \ {p} : Piece(q)' = Piece(q)
      BY <2>1 DEF Piece
    <3>2. \A q \in Procs : off'[fof'[q]] >= off[fof[q]]
      BY <1>a, <1>b DEF IInv, TypeOK
    <3>3. \A q \in Procs : Piece(q) \in Int /\ off[fof[q]] \in Nat /\ off'[fof'[q]] \in Nat
      BY <1>a, <1>b, PieceSize DEF IInv, TypeOK
    <3>4. QED BY <3>1, <3>2, <3>3, IOAssumption DEF NoRoom
  <2>3. pc'[p] = "idle" /\ i'[p] = 0
    BY <1>a DEF IInv, TypeOK, ReadReturn, Leave
  <2>4. QED BY <2>1, <2>2, <2>3 DEF IInv, Progress, WritePCs
<1>6. Copies'
  BY DEF IInv, ReadReturn, Advance, IUnlock, Leave, Goto, TypeOK, Copies,
     WritePCs
<1>7. QED BY <1>1, <1>2, <1>3, <1>4, <1>5, <1>6 DEF IInv

-----------------------------------------------------------------------------
(* Theorems                                                                *)

\* Files that were just opened satisfy the invariant.
LEMMA InitIInv == Init => IInv
BY IOAssumption, FS_EmptySet DEF Init, IInv, TypeOK, Inside, Frontier, WithinSize,
   Progress, Copies, WritePCs, ReadPCs, LockedPCs, CopiedPCs

\* Every step keeps the invariant.
LEMMA NextIInv == IInv /\ [Next]_vars => IInv'
<1> SUFFICES ASSUME IInv, [Next]_vars PROVE IInv'
  OBVIOUS
<1>1. ASSUME NEW p \in Procs, Step(p) PROVE IInv'
  BY <1>1, BeginOpKeeps, WriteLockKeeps, WriteIKeeps, WriteOffKeeps, EndOpKeeps,
     WriteReturnKeeps, ReadLockKeeps, ReadIKeeps, ReadReturnKeeps DEF Step
<1>2. ASSUME NEW p \in Procs, NEW k \in 1..MaxN, WriteCall(p, k) \/ ReadCall(p, k) PROVE IInv'
  BY <1>2, WriteCallKeeps, ReadCallKeeps
<1>3. CASE UNCHANGED vars
  BY <1>3 DEF vars, IInv, TypeOK, Inside, Frontier, WithinSize, Progress, NoRoom, Piece, Copies
<1>4. QED BY <1>1, <1>2, <1>3 DEF Next

\* IInv holds in every state that fileread and filewrite reach in any
\* interleaving.
THEOREM Invariance == Spec => []IInv
BY InitIInv, NextIInv, PTL DEF Spec

\* ilock and iunlock enclose every use of the offset, on every path: at most one
\* process is between them.
THEOREM OneInside ==
  Spec => [](\A p, q \in Procs : pc[p] \in LockedPCs /\ pc[q] \in LockedPCs => p = q)
<1>1. IInv => \A p, q \in Procs : pc[p] \in LockedPCs /\ pc[q] \in LockedPCs => p = q
  BY DEF IInv, Inside
<1>2. QED BY <1>1, Invariance, PTL

\* fileread and filewrite copy no position through a file that was copied through
\* it before, although f->off is advanced only after the copy and filewrite lets
\* go of the inode between its pieces.
THEOREM OffsetsNotShared == Spec => NoOverlap
<1> DEFINE Fresh(p) == (got'[p] \ got[p]) \cap done[fof[p]] = {}
           A == \A p \in Procs : got'[p] \ got[p] # {} => Fresh(p)
<1>1. ASSUME IInv, [Next]_vars PROVE [A]_vars
  <2>1. ASSUME NEW p \in Procs, NEW k \in Int, pc[p] \in LockedPCs \ CopiedPCs,
               Copied(p, off[fof[p]], k)
        PROVE  A
    <3> SUFFICES ASSUME NEW q \in Procs, NEW x \in got'[q] \ got[q], x \in done[fof[q]]
                 PROVE  FALSE
      OBVIOUS
    <3>1. q = p /\ x \in off[fof[p]] .. (off[fof[p]] + k - 1)
      BY <1>1, <2>1 DEF IInv, TypeOK, Copied
    <3>2. x < off[fof[p]] /\ off[fof[p]] \in Nat /\ x \in Nat
      BY <1>1, <2>1, <3>1, BehindOffset DEF IInv, TypeOK
    <3>3. QED BY <3>1, <3>2
  <2>2. ASSUME NEW p \in Procs, WriteI(p) PROVE A
    <3>1. writei(off[fof[p]], Piece(p)) \in Int /\ pc[p] \in LockedPCs \ CopiedPCs
          /\ Copied(p, off[fof[p]], writei(off[fof[p]], Piece(p)))
      BY <1>1, <2>2, PieceSize DEF WriteI, writei, LockedPCs, CopiedPCs
    <3>2. QED BY <2>1, <3>1
  <2>3. ASSUME NEW p \in Procs, ReadI(p) PROVE A
    <3>1. readi(off[fof[p]], n[p]) \in Int /\ pc[p] \in LockedPCs \ CopiedPCs
          /\ Copied(p, off[fof[p]], readi(off[fof[p]], n[p]))
      BY <1>1, <2>3 DEF IInv, TypeOK, ReadI, readi, Smaller, LockedPCs, CopiedPCs
    <3>2. QED BY <2>1, <3>1
  <2>4. ASSUME NEW p \in Procs, Leave(p) PROVE A
    BY <1>1, <2>4 DEF IInv, TypeOK, Leave
  <2>5. ASSUME got' = got PROVE A
    BY <2>5
  <2>6. ASSUME NEW p \in Procs, Step(p) PROVE A
    BY <2>2, <2>3, <2>4, <2>5, <2>6 DEF Step, BeginOp, WriteLock, WriteOff, EndOp,
       WriteReturn, ReadLock, ReadReturn
  <2>7. ASSUME NEW p \in Procs, NEW k \in 1..MaxN, WriteCall(p, k) \/ ReadCall(p, k) PROVE A
    BY <2>5, <2>7 DEF WriteCall, ReadCall
  <2>8. QED BY <1>1, <2>6, <2>7 DEF Next
<1>2. QED BY <1>1, Invariance, PTL DEF Spec, NoOverlap

\* filewrite returns n exactly when it has copied n positions, each of them once,
\* and -1 when it stopped before because the next piece has no room.
THEOREM ResultIsHonest == Spec => WriteReturnsWhatItDid
<1> DEFINE Result(p) ==
             IF ret'[p] = n[p] THEN Cardinality(got[p]) = n[p]
             ELSE Cardinality(got[p]) < n[p] /\ off[fof[p]] + Piece(p) > MAXFILE
           A == \A p \in Procs :
                  pc[p] \in {"w_ret", "w_loop"} /\ pc'[p] = "idle" => Result(p)
<1>1. ASSUME IInv, [Next]_vars PROVE [A]_vars
  <2>1. ASSUME NEW p \in Procs, NEW to \in WritePCs \cup ReadPCs, Goto(p, to) PROVE A
    BY <1>1, <2>1 DEF IInv, TypeOK, Goto, WritePCs, ReadPCs
  <2>2. ASSUME NEW p \in Procs, WriteReturn(p) PROVE A
    <3>1. \A q \in Procs \ {p} : pc'[q] = pc[q]
      BY <1>1, <2>2 DEF IInv, TypeOK, WriteReturn, Leave, Goto
    <3>2. /\ Cardinality(got[p]) = i[p] /\ i[p] \in Nat /\ n[p] \in Nat
          /\ ret'[p] = (IF i[p] = n[p] THEN n[p] ELSE -1)
      BY <1>1, <2>2 DEF IInv, TypeOK, Copies, WritePCs, WriteReturn, Outcome
    <3>3. i[p] = n[p] \/ (i[p] < n[p] /\ NoRoom(p))
      BY <1>1, <2>2 DEF IInv, TypeOK, Progress, WritePCs, WriteReturn
    <3>4. Result(p)
      BY <3>2, <3>3 DEF NoRoom
    <3>5. QED BY <3>1, <3>4
  <2>3. ASSUME NEW p \in Procs, ReadReturn(p) PROVE A
    BY <1>1, <2>3 DEF IInv, TypeOK, ReadReturn, Leave, Goto
  <2>4. ASSUME NEW p \in Procs, Step(p) PROVE A
    <3>1. CASE EndOp(p)
      <4>1. Goto(p, "w_ret") \/ Goto(p, "w_loop")
        BY <3>1 DEF EndOp
      <4>2. QED BY <4>1, <2>1 DEF WritePCs
    <3>2. QED BY <2>1, <2>2, <2>3, <2>4, <3>1 DEF Step, BeginOp, WriteLock, WriteI,
                 WriteOff, ReadLock, ReadI, WritePCs, ReadPCs
  <2>5. ASSUME NEW p \in Procs, NEW k \in 1..MaxN, WriteCall(p, k) \/ ReadCall(p, k) PROVE A
    BY <2>1, <2>5 DEF WriteCall, ReadCall, WritePCs, ReadPCs
  <2>6. CASE UNCHANGED vars
    BY <2>6
  <2>7. QED BY <1>1, <2>4, <2>5, <2>6 DEF Next
<1>2. QED BY <1>1, Invariance, PTL DEF Spec, WriteReturnsWhatItDid
=============================================================================
