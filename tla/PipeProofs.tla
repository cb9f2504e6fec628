----------------------------- MODULE PipeProofs -----------------------------
(***************************************************************************)
(* Theorems about Pipe, for every number of processes and descriptors and  *)
(* every PIPESIZE and WORD that PipeAssumption allows.  The inductive      *)
(* invariant IInv is a conjunction of named parts; there is one lemma per  *)
(* action, with one step per part.                                         *)
(***************************************************************************)
EXTENDS Pipe, TLAPS, FiniteSetTheorems

\* f->ref is the number of descriptors.
RefCount ==
  \A e \in Ends : IsFiniteSet(fds[e]) /\ ref[e] = Cardinality(fds[e])

\* A process in a read or a write has a descriptor on that end.
CallersHold ==
  \A p \in Procs :
    /\ pc[p] \in WritePCs => Holds(p, "write")
    /\ pc[p] \in ReadPCs => Holds(p, "read")

\* An end is open as long as a descriptor refers to it or its last holder has
\* not run pipeclose yet, and that holder is the only one to run it.
OneCloser ==
  /\ \A e \in Ends : fds[e] # {} => open[e] = 1
  /\ \A p \in Procs : pc[p] \in ClosePCs => fds[arg[p]] = {} /\ open[arg[p]] = 1
  /\ \A p, q \in Procs :
       pc[p] \in ClosePCs /\ pc[q] \in ClosePCs /\ arg[p] = arg[q] => p = q
  /\ \A e \in Ends :
       open[e] = 1 /\ fds[e] = {} => \E p \in Procs : pc[p] \in ClosePCs /\ arg[p] = e

\* The page goes when both ends are closed, and one process frees it.
OneFree ==
  /\ page = "free" => \A e \in Ends : open[e] = 0
  /\ \A p \in Procs : pc[p] = "c_free" => page = "used" /\ \A e \in Ends : open[e] = 0
  /\ \A p, q \in Procs : pc[p] = "c_free" /\ pc[q] = "c_free" => p = q
  /\ (\A e \in Ends : open[e] = 0) /\ page = "used" => \E p \in Procs : pc[p] = "c_free"

\* A read or write returned -1 because its process was killed, and it is out of
\* the pipe for good, or because the read end is closed.
MinusOne ==
  \A p \in Procs :
    ret[p] = -1 => \/ open["read"] = 0
                   \/ killed[p] = 1 /\ pc[p] \notin WritePCs \cup ReadPCs

\* NoMissedWakeup with the states in which the lock is held: whoever has made a
\* sleeper's condition false still holds the lock and has its wakeup ahead.
Sleepers ==
  /\ \A p \in Procs :
       pc[p] = "r_asleep" =>
         /\ open["write"] = 1
         /\ Empty \/ Aborted \/ \E q \in Procs : pc[q] = "w_loop"
  /\ \A p \in Procs :
       pc[p] = "w_asleep" =>
         /\ open["read"] = 1
         /\ Full \/ \E q \in Procs : pc[q] = "r_copy"
  /\ \A p \in Procs : pc[p] = "r_sleep" => Empty /\ open["write"] = 1
  /\ \A p \in Procs : pc[p] = "w_sleep" =>
       /\ Full /\ open["read"] = 1
       /\ \A q \in Procs : pc[q] # "r_asleep"

IInv ==
  /\ TypeOK /\ RefCount /\ LockDiscipline /\ CallersHold
  /\ OneCloser /\ OneFree /\ MinusOne /\ Sleepers

-----------------------------------------------------------------------------
(* Lemmas                                                                  *)

\* An end that somebody is reading from or writing to is open.
LEMMA BusyEndIsOpen ==
  ASSUME IInv, NEW p \in Procs
  PROVE  /\ pc[p] \in ReadPCs => open["read"] = 1
         /\ pc[p] \in WritePCs => open["write"] = 1
BY DEF IInv, CallersHold, OneCloser, Holds, Ends

\* Of the descriptors of an end, x is the last exactly when ref is 1.
LEMMA LastReference ==
  ASSUME IInv, NEW e \in Ends, NEW x \in fds[e]
  PROVE  /\ IsFiniteSet(fds[e] \ {x})
         /\ Cardinality(fds[e] \ {x}) = ref[e] - 1
         /\ ref[e] - 1 \in Nat
         /\ ref[e] > 1 <=> fds[e] \ {x} # {}
<1>1. IsFiniteSet(fds[e]) /\ ref[e] = Cardinality(fds[e]) /\ ref[e] \in Nat
  BY DEF IInv, RefCount, TypeOK
<1>2. IsFiniteSet(fds[e] \ {x}) /\ Cardinality(fds[e] \ {x}) = ref[e] - 1
  BY <1>1, FS_RemoveElement
<1>3. ref[e] - 1 \in Nat
  BY <1>2, FS_CardinalityType
<1>4. fds[e] \ {x} = {} <=> ref[e] - 1 = 0
  BY <1>2, FS_EmptySet
<1>5. QED BY <1>1, <1>2, <1>3, <1>4

\* A change of the descriptors that leaves no end with its first or without its
\* last one does not matter to who closes.
LEMMA SameClosers ==
  ASSUME IInv, UNCHANGED <<open, pc, arg>>,
         \A f \in Ends : fds'[f] = {} <=> fds[f] = {}
  PROVE  OneCloser'
<1>1. OneCloser /\ arg \in [Procs -> Ends]
  BY DEF IInv, TypeOK
<1>2. QED BY <1>1 DEF OneCloser

\* The process that gives up the last descriptor of e becomes its closer.
LEMMA NewCloser ==
  ASSUME IInv, NEW p \in Procs, NEW e \in Ends,
         fds[e] # {}, pc[p] = "idle", open' = open,
         fds' = [fds EXCEPT ![e] = {}],
         pc' = [pc EXCEPT ![p] = "c_acquire"],
         arg' = [arg EXCEPT ![p] = e]
  PROVE  OneCloser'
<1>1. /\ fds \in [Ends -> SUBSET (Procs \X Slots)] /\ pc \in [Procs -> PCs]
      /\ arg \in [Procs -> Ends] /\ OneCloser
  BY DEF IInv, TypeOK
<1>2. open[e] = 1 /\ \A q \in Procs : pc[q] \in ClosePCs => arg[q] # e
  BY <1>1 DEF OneCloser
<1>3. \A q \in Procs : pc'[q] \in ClosePCs <=> pc[q] \in ClosePCs \/ q = p
  BY <1>1 DEF ClosePCs
<1>4. \A q \in Procs \ {p} : arg'[q] = arg[q]
  BY <1>1
<1>5. arg'[p] = e /\ fds'[e] = {} /\ \A f \in Ends \ {e} : fds'[f] = fds[f]
  BY <1>1
<1>6. \A f \in Ends : fds'[f] # {} => open'[f] = 1
  BY <1>1, <1>5 DEF OneCloser
<1>7. \A q \in Procs : pc'[q] \in ClosePCs => fds'[arg'[q]] = {} /\ open'[arg'[q]] = 1
  BY <1>1, <1>2, <1>3, <1>4, <1>5 DEF OneCloser
<1>8. \A q, r \in Procs :
        pc'[q] \in ClosePCs /\ pc'[r] \in ClosePCs /\ arg'[q] = arg'[r] => q = r
  BY <1>1, <1>2, <1>3, <1>4, <1>5 DEF OneCloser
<1>9. \A f \in Ends :
        open'[f] = 1 /\ fds'[f] = {} => \E q \in Procs : pc'[q] \in ClosePCs /\ arg'[q] = f
  <2> SUFFICES ASSUME NEW f \in Ends, open'[f] = 1, fds'[f] = {}
               PROVE  \E q \in Procs : pc'[q] \in ClosePCs /\ arg'[q] = f
    OBVIOUS
  <2>1. CASE f = e
    BY <2>1, <1>3, <1>5
  <2>2. CASE f # e
    <3>1. PICK q \in Procs : pc[q] \in ClosePCs /\ arg[q] = f
      BY <2>2, <1>1, <1>5 DEF OneCloser
    <3>2. q # p
      BY <3>1 DEF ClosePCs
    <3>3. QED BY <3>1, <3>2, <1>3, <1>4
  <2>3. QED BY <2>1, <2>2
<1>10. QED BY <1>6, <1>7, <1>8, <1>9 DEF OneCloser

-----------------------------------------------------------------------------
(* Every action keeps the invariant                                        *)

\* kill makes a sleeper runnable, not the holder of anything: nothing is lost.
LEMMA KillKeeps ==
  ASSUME IInv, NEW p \in Procs,
         Kill(p)
  PROVE  IInv'
<1> USE DEF IInv, Kill, table, ring, frame, hist, TypeOK
<1>1. TypeOK' /\ RefCount'
  <2>1. TypeOK'
    <3>1. pc' \in [Procs -> PCs]
      BY DEF PCs, WritePCs, ReadPCs
    <3>2. QED BY <3>1
  <2>2. RefCount'
    BY DEF RefCount, Ends
  <2>3. QED BY <2>1, <2>2
<1>2. OneCloser' /\ OneFree'
  <2>1. OneCloser'
    BY DEF OneCloser, ClosePCs
  <2>2. OneFree'
    BY DEF OneFree
  <2>3. QED BY <2>1, <2>2
<1>3. LockDiscipline'
  BY PipeAssumption DEF LockDiscipline, Locked
<1>4. CallersHold' /\ MinusOne'
  <2>1. CallersHold'
    BY DEF CallersHold, WritePCs, ReadPCs, Holds
  <2>2. MinusOne'
    BY DEF MinusOne, WritePCs, ReadPCs
  <2>3. QED BY <2>1, <2>2
<1>5. Sleepers'
  BY DEF Sleepers, LockDiscipline, Locked, Empty, Full, Aborted
<1>6. QED BY <1>1, <1>2, <1>3, <1>4, <1>5

\* A write starts with a descriptor on the write end, which therefore is open.
LEMMA WriteCallKeeps ==
  ASSUME IInv, NEW p \in Procs, NEW k \in 0..MaxN,
         WriteCall(p, k)
  PROVE  IInv'
<1>1. TypeOK' /\ RefCount'
  <2>1. k \in Nat
    BY PipeAssumption
  <2>2. pc' \in [Procs -> PCs] /\ arg' \in [Procs -> Ends]
    BY DEF IInv, WriteCall, Goto, TypeOK, PCs, WritePCs, Ends
  <2>3. TypeOK'
    <3>1. TypeOK
      BY DEF IInv
    <3>2. i' \in [Procs -> Nat] /\ n' \in [Procs -> Nat] /\ calls' \in [Procs -> Nat]
      BY <2>1, <3>1 DEF WriteCall, TypeOK
    <3>3. QED BY <2>2, <3>1, <3>2 DEF WriteCall, TypeOK, table, ring, hist
  <2>4. RefCount'
    BY DEF IInv, WriteCall, RefCount, table
  <2>5. QED BY <2>3, <2>4
<1>2. OneCloser' /\ OneFree'
  <2>1. OneCloser'
    BY DEF IInv, WriteCall, Goto, table, ring, frame, hist, TypeOK, OneCloser,
         ClosePCs
  <2>2. OneFree'
    BY DEF IInv, WriteCall, Goto, table, ring, frame, hist, TypeOK, OneFree,
         ClosePCs
  <2>3. QED BY <2>1, <2>2
<1>3. LockDiscipline'
  BY PipeAssumption DEF IInv, WriteCall, Goto, table, ring, frame, hist,
         TypeOK, LockDiscipline, Locked
<1>4. CallersHold' /\ MinusOne'
  <2>1. CallersHold'
    BY DEF IInv, WriteCall, Goto, table, TypeOK, CallersHold, Holds, WritePCs, ReadPCs
  <2>2. MinusOne'
    <3>1. ASSUME NEW q \in Procs, ret[q] = -1, open["read"] # 0
          PROVE  q # p /\ killed[q] = 1 /\ pc[q] \notin WritePCs \cup ReadPCs
      BY <3>1 DEF IInv, MinusOne, WriteCall
    <3>2. QED BY <3>1 DEF IInv, TypeOK, MinusOne, WriteCall, Goto, ring
  <2>3. QED BY <2>1, <2>2
<1>5. Sleepers'
  BY DEF IInv, WriteCall, Goto, table, ring, frame, hist, TypeOK, Sleepers,
         LockDiscipline, Locked, Empty, Full, Aborted
<1>6. QED BY <1>1, <1>2, <1>3, <1>4, <1>5 DEF IInv

\* A writer enters the section only when nobody is in it, first or after sleep.
LEMMA WriteAcquireKeeps ==
  ASSUME IInv, NEW p \in Procs,
         WriteAcquire(p)
  PROVE  IInv'
<1>1. TypeOK' /\ RefCount'
  <2>1. TypeOK'
    BY DEF IInv, WriteAcquire, Acquire, Goto, table, ring, frame, hist,
         TypeOK, Ends, PCs, WritePCs, ReadPCs, ClosePCs
  <2>2. RefCount'
    BY DEF IInv, WriteAcquire, Acquire, Goto, table, ring, frame, hist,
         TypeOK, RefCount, Ends
  <2>3. QED BY <2>1, <2>2
<1>2. OneCloser' /\ OneFree'
  <2>1. OneCloser'
    BY DEF IInv, WriteAcquire, Acquire, Goto, table, ring, frame, hist,
         TypeOK, OneCloser, ClosePCs
  <2>2. OneFree'
    BY DEF IInv, WriteAcquire, Acquire, Goto, table, ring, frame, hist,
         TypeOK, OneFree, ClosePCs
  <2>3. QED BY <2>1, <2>2
<1>3. LockDiscipline'
  BY PipeAssumption DEF IInv, WriteAcquire, Acquire, Goto, table, ring, frame,
         hist, TypeOK, LockDiscipline, Locked
<1>4. CallersHold' /\ MinusOne'
  BY DEF IInv, WriteAcquire, Acquire, Goto, table, ring, frame, hist, TypeOK,
         CallersHold, MinusOne, WritePCs, ReadPCs, Holds
<1>5. Sleepers'
  BY DEF IInv, WriteAcquire, Acquire, Goto, table, ring, frame, hist, TypeOK,
         Sleepers, LockDiscipline, Locked, Empty, Full, Aborted
<1>6. QED BY <1>1, <1>2, <1>3, <1>4, <1>5 DEF IInv

\* A byte fills the ring for a sleeping reader while its writer is still in the
\* loop, so that the wakeup is still to come.
LEMMA WriteByteKeeps ==
  ASSUME IInv, NEW p \in Procs, NEW b \in Bytes,
         WriteByte(p, b)
  PROVE  IInv'
<1>1. TypeOK' /\ RefCount'
  <2>1. (nwrite + 1) % WORD \in 0..(WORD - 1)
    BY PipeAssumption DEF IInv, TypeOK
  <2>2. data' \in [0..(PIPESIZE - 1) -> Bytes]
    BY DEF IInv, WriteByte, TypeOK
  <2>3. i' \in [Procs -> Nat]
    BY DEF IInv, WriteByte, TypeOK
  <2>4. sent' \in Seq(Bytes)
    BY DEF IInv, WriteByte, TypeOK
  <2>5. QED BY <2>1, <2>2, <2>3, <2>4 DEF IInv, WriteByte, TypeOK, RefCount, table, ring
<1>2. OneCloser' /\ OneFree'
  <2>1. OneCloser'
    BY DEF IInv, WriteByte, table, ring, frame, hist, TypeOK, OneCloser,
         ClosePCs
  <2>2. OneFree'
    BY DEF IInv, WriteByte, table, ring, frame, hist, TypeOK, OneFree,
         ClosePCs
  <2>3. QED BY <2>1, <2>2
<1>3. LockDiscipline'
  BY PipeAssumption DEF IInv, WriteByte, table, ring, frame, hist, TypeOK,
         LockDiscipline, Locked
<1>4. CallersHold' /\ MinusOne'
  BY DEF IInv, WriteByte, table, ring, frame, hist, TypeOK, CallersHold,
         MinusOne, WritePCs, ReadPCs, Holds
<1>5. Sleepers'
  BY DEF IInv, WriteByte, table, ring, frame, hist, TypeOK, Sleepers,
         LockDiscipline, Locked, Empty, Full, Aborted
<1>6. QED BY <1>1, <1>2, <1>3, <1>4, <1>5 DEF IInv

\* The write that returns -1 leaves no sleeper behind, or is the killed writer
\* that NoMissedWakeup excepts.
LEMMA WriteAbortKeeps ==
  ASSUME IInv, NEW p \in Procs,
         WriteAbort(p)
  PROVE  IInv'
<1>1. TypeOK' /\ RefCount'
  <2>1. TypeOK'
    BY DEF IInv, WriteAbort, Release, Goto, table, ring, frame, hist, TypeOK,
         Ends, PCs, WritePCs, ReadPCs, ClosePCs
  <2>2. RefCount'
    BY DEF IInv, WriteAbort, Release, Goto, table, ring, frame, hist, TypeOK,
         RefCount, Ends
  <2>3. QED BY <2>1, <2>2
<1>2. OneCloser' /\ OneFree'
  <2>1. OneCloser'
    BY DEF IInv, WriteAbort, Release, Goto, table, ring, frame, hist, TypeOK,
         OneCloser, ClosePCs
  <2>2. OneFree'
    BY DEF IInv, WriteAbort, Release, Goto, table, ring, frame, hist, TypeOK,
         OneFree, ClosePCs
  <2>3. QED BY <2>1, <2>2
<1>3. LockDiscipline'
  BY PipeAssumption DEF IInv, WriteAbort, Release, Goto, table, ring, frame,
         hist, TypeOK, LockDiscipline, Locked
<1>4. CallersHold' /\ MinusOne'
  BY DEF IInv, WriteAbort, Release, Goto, table, ring, frame, hist, TypeOK,
         CallersHold, MinusOne, WritePCs, ReadPCs, Holds
<1>5. Sleepers'
  <2>1. pc' = [pc EXCEPT ![p] = "idle"] /\ pc \in [Procs -> PCs] /\ pc[p] = "w_loop" /\ Sleepers
    BY DEF IInv, TypeOK, WriteAbort, Goto
  <2>2. \A q \in Procs \ {p} : pc[q] \notin Locked
    BY <2>1 DEF IInv, LockDiscipline, Locked
  <2>3. UNCHANGED <<Empty, Full, open, killed>>
    BY DEF WriteAbort, Empty, Full, ring
  <2>4. CASE killed[p] = 1
    <3>1. Aborted' BY <2>3, <2>4 DEF WriteAbort, Aborted, IInv, TypeOK
    <3>2. QED BY <2>1, <2>2, <2>3, <3>1 DEF Sleepers, Locked
  <2>5. CASE open["read"] = 0
    <3>1. \A q \in Procs : pc[q] # "r_asleep"
      BY <2>5, BusyEndIsOpen DEF ReadPCs
    <3>2. QED BY <2>1, <2>2, <2>3, <3>1 DEF Sleepers, Locked
  <2>6. QED BY <2>4, <2>5 DEF WriteAbort
<1>6. QED BY <1>1, <1>2, <1>3, <1>4, <1>5 DEF IInv

\* The writer wakes every reader before it sleeps on a full ring.
LEMMA WriteFullKeeps ==
  ASSUME IInv, NEW p \in Procs,
         WriteFull(p)
  PROVE  IInv'
<1>1. TypeOK' /\ RefCount'
  <2>1. TypeOK'
    BY DEF IInv, WriteFull, WakeReaders, Wakeup, table, ring, frame, hist,
         TypeOK, Ends, PCs, WritePCs, ReadPCs, ClosePCs
  <2>2. RefCount'
    BY DEF IInv, WriteFull, WakeReaders, Wakeup, table, ring, frame, hist,
         TypeOK, RefCount, Ends
  <2>3. QED BY <2>1, <2>2
<1>2. OneCloser' /\ OneFree'
  <2>1. OneCloser'
    BY DEF IInv, WriteFull, WakeReaders, Wakeup, table, ring, frame, hist,
         TypeOK, OneCloser, ClosePCs
  <2>2. OneFree'
    BY DEF IInv, WriteFull, WakeReaders, Wakeup, table, ring, frame, hist,
         TypeOK, OneFree, ClosePCs
  <2>3. QED BY <2>1, <2>2
<1>3. LockDiscipline'
  BY PipeAssumption DEF IInv, WriteFull, WakeReaders, Wakeup, table, ring,
         frame, hist, TypeOK, LockDiscipline, Locked
<1>4. CallersHold' /\ MinusOne'
  BY DEF IInv, WriteFull, WakeReaders, Wakeup, table, ring, frame, hist,
         TypeOK, CallersHold, MinusOne, WritePCs, ReadPCs, Holds
<1>5. Sleepers'
  BY DEF IInv, WriteFull, WakeReaders, Wakeup, table, ring, frame, hist,
         TypeOK, Sleepers, LockDiscipline, Locked, Empty, Full, Aborted
<1>6. QED BY <1>1, <1>2, <1>3, <1>4, <1>5 DEF IInv

\* The ring is still full when the writer sleeps: it holds the lock until then.
LEMMA WriteSleepKeeps ==
  ASSUME IInv, NEW p \in Procs,
         WriteSleep(p)
  PROVE  IInv'
<1>1. TypeOK' /\ RefCount'
  <2>1. TypeOK'
    BY DEF IInv, WriteSleep, Release, Goto, table, ring, frame, hist, TypeOK,
         Ends, PCs, WritePCs, ReadPCs, ClosePCs
  <2>2. RefCount'
    BY DEF IInv, WriteSleep, Release, Goto, table, ring, frame, hist, TypeOK,
         RefCount, Ends
  <2>3. QED BY <2>1, <2>2
<1>2. OneCloser' /\ OneFree'
  <2>1. OneCloser'
    BY DEF IInv, WriteSleep, Release, Goto, table, ring, frame, hist, TypeOK,
         OneCloser, ClosePCs
  <2>2. OneFree'
    BY DEF IInv, WriteSleep, Release, Goto, table, ring, frame, hist, TypeOK,
         OneFree, ClosePCs
  <2>3. QED BY <2>1, <2>2
<1>3. LockDiscipline'
  BY PipeAssumption DEF IInv, WriteSleep, Release, Goto, table, ring, frame,
         hist, TypeOK, LockDiscipline, Locked
<1>4. CallersHold' /\ MinusOne'
  BY DEF IInv, WriteSleep, Release, Goto, table, ring, frame, hist, TypeOK,
         CallersHold, MinusOne, WritePCs, ReadPCs, Holds
<1>5. Sleepers'
  BY DEF IInv, WriteSleep, Release, Goto, table, ring, frame, hist, TypeOK,
         Sleepers, LockDiscipline, Locked, Empty, Full, Aborted
<1>6. QED BY <1>1, <1>2, <1>3, <1>4, <1>5 DEF IInv

\* The complete write wakes every reader before it gives up the lock.
LEMMA WriteDoneKeeps ==
  ASSUME IInv, NEW p \in Procs,
         WriteDone(p)
  PROVE  IInv'
<1>1. TypeOK' /\ RefCount'
  <2>1. TypeOK'
    BY DEF IInv, WriteDone, WakeReaders, Wakeup, Release, table, ring, frame,
         hist, TypeOK, Ends, PCs, WritePCs, ReadPCs, ClosePCs
  <2>2. RefCount'
    BY DEF IInv, WriteDone, WakeReaders, Wakeup, Release, table, ring, frame,
         hist, TypeOK, RefCount, Ends
  <2>3. QED BY <2>1, <2>2
<1>2. OneCloser' /\ OneFree'
  <2>1. OneCloser'
    BY DEF IInv, WriteDone, WakeReaders, Wakeup, Release, table, ring, frame,
         hist, TypeOK, OneCloser, ClosePCs
  <2>2. OneFree'
    BY DEF IInv, WriteDone, WakeReaders, Wakeup, Release, table, ring, frame,
         hist, TypeOK, OneFree, ClosePCs
  <2>3. QED BY <2>1, <2>2
<1>3. LockDiscipline'
  BY PipeAssumption DEF IInv, WriteDone, WakeReaders, Wakeup, Release, table,
         ring, frame, hist, TypeOK, LockDiscipline, Locked
<1>4. CallersHold' /\ MinusOne'
  <2>1. /\ ret' = [ret EXCEPT ![p] = n[p]] /\ n[p] \in Nat
        /\ UNCHANGED <<open, killed, fds>>
    BY DEF IInv, TypeOK, WriteDone, ring, table
  <2>2. \A q \in Procs : /\ pc'[q] \in WritePCs => pc[q] \in WritePCs
                         /\ pc'[q] \in ReadPCs => pc[q] \in ReadPCs
    BY DEF WriteDone, WakeReaders, Wakeup, WritePCs, ReadPCs
  <2>3. MinusOne'
    BY <2>1, <2>2 DEF IInv, TypeOK, MinusOne
  <2>4. CallersHold'
    BY <2>1, <2>2 DEF IInv, CallersHold, Holds
  <2>5. QED BY <2>3, <2>4
<1>5. Sleepers'
  BY DEF IInv, WriteDone, WakeReaders, Wakeup, Release, table, ring, frame,
         hist, TypeOK, Sleepers, LockDiscipline, Locked, Empty, Full, Aborted
<1>6. QED BY <1>1, <1>2, <1>3, <1>4, <1>5 DEF IInv

\* A read starts with a descriptor on the read end, which therefore is open.
LEMMA ReadCallKeeps ==
  ASSUME IInv, NEW p \in Procs, NEW k \in 0..MaxN,
         ReadCall(p, k)
  PROVE  IInv'
<1>1. TypeOK' /\ RefCount'
  <2>1. k \in Nat
    BY PipeAssumption
  <2>2. pc' \in [Procs -> PCs] /\ arg' \in [Procs -> Ends]
    BY DEF IInv, ReadCall, Goto, TypeOK, PCs, ReadPCs, Ends
  <2>3. TypeOK'
    <3>1. TypeOK
      BY DEF IInv
    <3>2. i' \in [Procs -> Nat] /\ n' \in [Procs -> Nat] /\ calls' \in [Procs -> Nat]
      BY <2>1, <3>1 DEF ReadCall, TypeOK
    <3>3. QED BY <2>2, <3>1, <3>2 DEF ReadCall, TypeOK, table, ring, hist
  <2>4. RefCount'
    BY DEF IInv, ReadCall, RefCount, table
  <2>5. QED BY <2>3, <2>4
<1>2. OneCloser' /\ OneFree'
  <2>1. OneCloser'
    BY DEF IInv, ReadCall, Goto, table, ring, frame, hist, TypeOK, OneCloser,
         ClosePCs
  <2>2. OneFree'
    BY DEF IInv, ReadCall, Goto, table, ring, frame, hist, TypeOK, OneFree,
         ClosePCs
  <2>3. QED BY <2>1, <2>2
<1>3. LockDiscipline'
  BY PipeAssumption DEF IInv, ReadCall, Goto, table, ring, frame, hist, TypeOK,
         LockDiscipline, Locked
<1>4. CallersHold' /\ MinusOne'
  <2>1. CallersHold'
    BY DEF IInv, ReadCall, Goto, table, TypeOK, CallersHold, Holds, WritePCs, ReadPCs
  <2>2. MinusOne'
    <3>1. ASSUME NEW q \in Procs, ret[q] = -1, open["read"] # 0
          PROVE  q # p /\ killed[q] = 1 /\ pc[q] \notin WritePCs \cup ReadPCs
      BY <3>1 DEF IInv, MinusOne, ReadCall
    <3>2. QED BY <3>1 DEF IInv, TypeOK, MinusOne, ReadCall, Goto, ring
  <2>3. QED BY <2>1, <2>2
<1>5. Sleepers'
  BY DEF IInv, ReadCall, Goto, table, ring, frame, hist, TypeOK, Sleepers,
         LockDiscipline, Locked, Empty, Full, Aborted
<1>6. QED BY <1>1, <1>2, <1>3, <1>4, <1>5 DEF IInv

\* A reader enters the section only when nobody is in it, first or after sleep.
LEMMA ReadAcquireKeeps ==
  ASSUME IInv, NEW p \in Procs,
         ReadAcquire(p)
  PROVE  IInv'
<1>1. TypeOK' /\ RefCount'
  <2>1. TypeOK'
    BY DEF IInv, ReadAcquire, Acquire, Goto, table, ring, frame, hist, TypeOK,
         Ends, PCs, WritePCs, ReadPCs, ClosePCs
  <2>2. RefCount'
    BY DEF IInv, ReadAcquire, Acquire, Goto, table, ring, frame, hist, TypeOK,
         RefCount, Ends
  <2>3. QED BY <2>1, <2>2
<1>2. OneCloser' /\ OneFree'
  <2>1. OneCloser'
    BY DEF IInv, ReadAcquire, Acquire, Goto, table, ring, frame, hist, TypeOK,
         OneCloser, ClosePCs
  <2>2. OneFree'
    BY DEF IInv, ReadAcquire, Acquire, Goto, table, ring, frame, hist, TypeOK,
         OneFree, ClosePCs
  <2>3. QED BY <2>1, <2>2
<1>3. LockDiscipline'
  BY PipeAssumption DEF IInv, ReadAcquire, Acquire, Goto, table, ring, frame,
         hist, TypeOK, LockDiscipline, Locked
<1>4. CallersHold' /\ MinusOne'
  BY DEF IInv, ReadAcquire, Acquire, Goto, table, ring, frame, hist, TypeOK,
         CallersHold, MinusOne, WritePCs, ReadPCs, Holds
<1>5. Sleepers'
  BY DEF IInv, ReadAcquire, Acquire, Goto, table, ring, frame, hist, TypeOK,
         Sleepers, LockDiscipline, Locked, Empty, Full, Aborted
<1>6. QED BY <1>1, <1>2, <1>3, <1>4, <1>5 DEF IInv

\* A reader that was killed returns -1 and has taken nothing.
LEMMA ReadKilledKeeps ==
  ASSUME IInv, NEW p \in Procs,
         ReadKilled(p)
  PROVE  IInv'
<1>1. TypeOK' /\ RefCount'
  <2>1. TypeOK'
    BY DEF IInv, ReadKilled, Release, Goto, table, ring, frame, hist, TypeOK,
         Ends, PCs, WritePCs, ReadPCs, ClosePCs
  <2>2. RefCount'
    BY DEF IInv, ReadKilled, Release, Goto, table, ring, frame, hist, TypeOK,
         RefCount, Ends
  <2>3. QED BY <2>1, <2>2
<1>2. OneCloser' /\ OneFree'
  <2>1. OneCloser'
    BY DEF IInv, ReadKilled, Release, Goto, table, ring, frame, hist, TypeOK,
         OneCloser, ClosePCs
  <2>2. OneFree'
    BY DEF IInv, ReadKilled, Release, Goto, table, ring, frame, hist, TypeOK,
         OneFree, ClosePCs
  <2>3. QED BY <2>1, <2>2
<1>3. LockDiscipline'
  BY PipeAssumption DEF IInv, ReadKilled, Release, Goto, table, ring, frame,
         hist, TypeOK, LockDiscipline, Locked
<1>4. CallersHold' /\ MinusOne'
  BY DEF IInv, ReadKilled, Release, Goto, table, ring, frame, hist, TypeOK,
         CallersHold, MinusOne, WritePCs, ReadPCs, Holds
<1>5. Sleepers'
  BY DEF IInv, ReadKilled, Release, Goto, table, ring, frame, hist, TypeOK,
         Sleepers, LockDiscipline, Locked, Empty, Full, Aborted
<1>6. QED BY <1>1, <1>2, <1>3, <1>4, <1>5 DEF IInv

\* The reader that finds the ring empty and open goes to sleep with the lock held.
LEMMA ReadEmptyKeeps ==
  ASSUME IInv, NEW p \in Procs,
         ReadEmpty(p)
  PROVE  IInv'
<1>1. TypeOK' /\ RefCount'
  <2>1. TypeOK'
    BY DEF IInv, ReadEmpty, Goto, table, ring, frame, hist, TypeOK, Ends, PCs,
         WritePCs, ReadPCs, ClosePCs
  <2>2. RefCount'
    BY DEF IInv, ReadEmpty, Goto, table, ring, frame, hist, TypeOK, RefCount,
         Ends
  <2>3. QED BY <2>1, <2>2
<1>2. OneCloser' /\ OneFree'
  <2>1. OneCloser'
    BY DEF IInv, ReadEmpty, Goto, table, ring, frame, hist, TypeOK, OneCloser,
         ClosePCs
  <2>2. OneFree'
    BY DEF IInv, ReadEmpty, Goto, table, ring, frame, hist, TypeOK, OneFree,
         ClosePCs
  <2>3. QED BY <2>1, <2>2
<1>3. LockDiscipline'
  BY PipeAssumption DEF IInv, ReadEmpty, Goto, table, ring, frame, hist,
         TypeOK, LockDiscipline, Locked
<1>4. CallersHold' /\ MinusOne'
  BY DEF IInv, ReadEmpty, Goto, table, ring, frame, hist, TypeOK, CallersHold,
         MinusOne, WritePCs, ReadPCs, Holds
<1>5. Sleepers'
  BY DEF IInv, ReadEmpty, Goto, table, ring, frame, hist, TypeOK, Sleepers,
         LockDiscipline, Locked, Empty, Full, Aborted
<1>6. QED BY <1>1, <1>2, <1>3, <1>4, <1>5 DEF IInv

\* The ring is still empty and open when the reader sleeps.
LEMMA ReadSleepKeeps ==
  ASSUME IInv, NEW p \in Procs,
         ReadSleep(p)
  PROVE  IInv'
<1>1. TypeOK' /\ RefCount'
  <2>1. TypeOK'
    BY DEF IInv, ReadSleep, Release, Goto, table, ring, frame, hist, TypeOK,
         Ends, PCs, WritePCs, ReadPCs, ClosePCs
  <2>2. RefCount'
    BY DEF IInv, ReadSleep, Release, Goto, table, ring, frame, hist, TypeOK,
         RefCount, Ends
  <2>3. QED BY <2>1, <2>2
<1>2. OneCloser' /\ OneFree'
  <2>1. OneCloser'
    BY DEF IInv, ReadSleep, Release, Goto, table, ring, frame, hist, TypeOK,
         OneCloser, ClosePCs
  <2>2. OneFree'
    BY DEF IInv, ReadSleep, Release, Goto, table, ring, frame, hist, TypeOK,
         OneFree, ClosePCs
  <2>3. QED BY <2>1, <2>2
<1>3. LockDiscipline'
  BY PipeAssumption DEF IInv, ReadSleep, Release, Goto, table, ring, frame,
         hist, TypeOK, LockDiscipline, Locked
<1>4. CallersHold' /\ MinusOne'
  BY DEF IInv, ReadSleep, Release, Goto, table, ring, frame, hist, TypeOK,
         CallersHold, MinusOne, WritePCs, ReadPCs, Holds
<1>5. Sleepers'
  BY DEF IInv, ReadSleep, Release, Goto, table, ring, frame, hist, TypeOK,
         Sleepers, LockDiscipline, Locked, Empty, Full, Aborted
<1>6. QED BY <1>1, <1>2, <1>3, <1>4, <1>5 DEF IInv

\* The reader that stops waiting begins to copy with the lock held.
LEMMA ReadStartKeeps ==
  ASSUME IInv, NEW p \in Procs,
         ReadStart(p)
  PROVE  IInv'
<1>1. TypeOK' /\ RefCount'
  <2>1. TypeOK'
    BY DEF IInv, ReadStart, Goto, table, ring, frame, hist, TypeOK, Ends, PCs,
         WritePCs, ReadPCs, ClosePCs
  <2>2. RefCount'
    BY DEF IInv, ReadStart, Goto, table, ring, frame, hist, TypeOK, RefCount,
         Ends
  <2>3. QED BY <2>1, <2>2
<1>2. OneCloser' /\ OneFree'
  <2>1. OneCloser'
    BY DEF IInv, ReadStart, Goto, table, ring, frame, hist, TypeOK, OneCloser,
         ClosePCs
  <2>2. OneFree'
    BY DEF IInv, ReadStart, Goto, table, ring, frame, hist, TypeOK, OneFree,
         ClosePCs
  <2>3. QED BY <2>1, <2>2
<1>3. LockDiscipline'
  BY PipeAssumption DEF IInv, ReadStart, Goto, table, ring, frame, hist,
         TypeOK, LockDiscipline, Locked
<1>4. CallersHold' /\ MinusOne'
  BY DEF IInv, ReadStart, Goto, table, ring, frame, hist, TypeOK, CallersHold,
         MinusOne, WritePCs, ReadPCs, Holds
<1>5. Sleepers'
  BY DEF IInv, ReadStart, Goto, table, ring, frame, hist, TypeOK, Sleepers,
         LockDiscipline, Locked, Empty, Full, Aborted
<1>6. QED BY <1>1, <1>2, <1>3, <1>4, <1>5 DEF IInv

\* A byte makes room for a sleeping writer while its reader still copies, so that
\* the wakeup is still to come.
LEMMA ReadByteKeeps ==
  ASSUME IInv, NEW p \in Procs,
         ReadByte(p)
  PROVE  IInv'
<1>1. TypeOK' /\ RefCount'
  <2>1. /\ (nread + 1) % WORD \in 0..(WORD - 1)
        /\ nread % PIPESIZE \in 0..(PIPESIZE - 1)
    BY PipeAssumption DEF IInv, TypeOK
  <2>2. i' \in [Procs -> Nat] /\ rcvd' \in Seq(Bytes)
    BY <2>1 DEF IInv, ReadByte, TypeOK
  <2>3. QED BY <2>1, <2>2 DEF IInv, ReadByte, TypeOK, RefCount, table
<1>2. OneCloser' /\ OneFree'
  <2>1. OneCloser'
    BY DEF IInv, ReadByte, table, ring, frame, hist, TypeOK, OneCloser,
         ClosePCs
  <2>2. OneFree'
    BY DEF IInv, ReadByte, table, ring, frame, hist, TypeOK, OneFree, ClosePCs
  <2>3. QED BY <2>1, <2>2
<1>3. LockDiscipline'
  BY PipeAssumption DEF IInv, ReadByte, table, ring, frame, hist, TypeOK,
         LockDiscipline, Locked
<1>4. CallersHold' /\ MinusOne'
  BY DEF IInv, ReadByte, table, ring, frame, hist, TypeOK, CallersHold,
         MinusOne, WritePCs, ReadPCs, Holds
<1>5. Sleepers'
  BY DEF IInv, ReadByte, table, ring, frame, hist, TypeOK, Sleepers,
         LockDiscipline, Locked, Empty, Full, Aborted
<1>6. QED BY <1>1, <1>2, <1>3, <1>4, <1>5 DEF IInv

\* The read wakes every writer before it gives up the lock.
LEMMA ReadDoneKeeps ==
  ASSUME IInv, NEW p \in Procs,
         ReadDone(p)
  PROVE  IInv'
<1>1. TypeOK' /\ RefCount'
  <2>1. TypeOK'
    BY DEF IInv, ReadDone, WakeWriters, Wakeup, Release, table, ring, frame,
         hist, TypeOK, Ends, PCs, WritePCs, ReadPCs, ClosePCs
  <2>2. RefCount'
    BY DEF IInv, ReadDone, WakeWriters, Wakeup, Release, table, ring, frame,
         hist, TypeOK, RefCount, Ends
  <2>3. QED BY <2>1, <2>2
<1>2. OneCloser' /\ OneFree'
  <2>1. OneCloser'
    BY DEF IInv, ReadDone, WakeWriters, Wakeup, Release, table, ring, frame,
         hist, TypeOK, OneCloser, ClosePCs
  <2>2. OneFree'
    BY DEF IInv, ReadDone, WakeWriters, Wakeup, Release, table, ring, frame,
         hist, TypeOK, OneFree, ClosePCs
  <2>3. QED BY <2>1, <2>2
<1>3. LockDiscipline'
  BY PipeAssumption DEF IInv, ReadDone, WakeWriters, Wakeup, Release, table,
         ring, frame, hist, TypeOK, LockDiscipline, Locked
<1>4. CallersHold' /\ MinusOne'
  <2>1. /\ ret' = [ret EXCEPT ![p] = i[p]] /\ i[p] \in Nat
        /\ UNCHANGED <<open, killed, fds>>
    BY DEF IInv, TypeOK, ReadDone, ring, table
  <2>2. \A q \in Procs : /\ pc'[q] \in WritePCs => pc[q] \in WritePCs
                         /\ pc'[q] \in ReadPCs => pc[q] \in ReadPCs
    BY DEF ReadDone, WakeWriters, Wakeup, WritePCs, ReadPCs
  <2>3. MinusOne'
    BY <2>1, <2>2 DEF IInv, TypeOK, MinusOne
  <2>4. CallersHold'
    BY <2>1, <2>2 DEF IInv, CallersHold, Holds
  <2>5. QED BY <2>3, <2>4
<1>5. Sleepers'
  <2>1. /\ pc \in [Procs -> PCs] /\ pc[p] = "r_copy" /\ Sleepers /\ pc'[p] = "idle"
        /\ \A q \in Procs \ {p} : pc'[q] = IF pc[q] = "w_asleep" THEN "w_woken" ELSE pc[q]
    BY DEF IInv, TypeOK, ReadDone, WakeWriters, Wakeup
  <2>2. \A q \in Procs \ {p} : pc[q] \notin Locked
    BY <2>1 DEF IInv, LockDiscipline, Locked
  <2>3. UNCHANGED <<Empty, Full, open>>
    BY DEF ReadDone, Empty, Full, ring
  <2>4. \A q \in Procs : pc'[q] \notin {"w_asleep", "r_sleep", "w_sleep"} /\ (pc'[q] = "r_asleep" => pc[q] = "r_asleep")
    BY <2>1, <2>2 DEF Locked
  <2>5. ASSUME NEW q \in Procs, pc[q] = "r_asleep" PROVE Aborted => Aborted'
    <3>1. open["read"] = 1 
      BY <2>5, BusyEndIsOpen DEF ReadPCs
    <3>2. ret[p] # -1
      BY <3>1, <2>1 DEF IInv, MinusOne, ReadPCs
    <3>3. \A r \in Procs \ {p} : ret'[r] = ret[r]
      BY DEF ReadDone, IInv, TypeOK
    <3>4. QED BY <3>2, <3>3 DEF Aborted, ReadDone
  <2>6. \A q \in Procs : pc[q] # "w_loop" 
    BY <2>1, <2>2 DEF Locked
  <2>7. QED BY <2>1, <2>3, <2>4, <2>5, <2>6 DEF Sleepers
<1>6. QED BY <1>1, <1>2, <1>3, <1>4, <1>5 DEF IInv

\* filedup counts the new descriptor, and an end in use stays open.
LEMMA FileDupKeeps ==
  ASSUME IInv, NEW p \in Procs, NEW q \in Procs, NEW e \in Ends, NEW s \in Slots,
         FileDup(p, q, e, s)
  PROVE  IInv'
<1>1. TypeOK' /\ RefCount'
  <2>1. /\ IsFiniteSet(fds[e] \cup {<<q, s>>})
        /\ Cardinality(fds[e] \cup {<<q, s>>}) = Cardinality(fds[e]) + 1
    BY FS_AddElement DEF IInv, FileDup, RefCount
  <2>2. fds' \in [Ends -> SUBSET (Procs \X Slots)] /\ ref' \in [Ends -> Nat]
    <3>1. ref \in [Ends -> Nat] /\ fds \in [Ends -> SUBSET (Procs \X Slots)]
      BY DEF IInv, TypeOK
    <3>2. QED BY <3>1 DEF FileDup
  <2>3. TypeOK'
    BY <2>2 DEF IInv, FileDup, TypeOK, ring, frame, hist
  <2>4. ASSUME NEW f \in Ends
        PROVE  IsFiniteSet(fds'[f]) /\ ref'[f] = Cardinality(fds'[f])
    BY <2>1 DEF IInv, FileDup, RefCount, TypeOK
  <2>5. QED BY <2>3, <2>4 DEF RefCount
<1>2. OneCloser' /\ OneFree'
  <2>1. \A f \in Ends : fds'[f] = {} <=> fds[f] = {}
    BY DEF IInv, TypeOK, FileDup, Holds
  <2>2. OneCloser'
    BY <2>1, SameClosers DEF FileDup, ring, frame
  <2>3. QED BY <2>2 DEF IInv, OneFree, FileDup, ring
<1>3. LockDiscipline'
  BY PipeAssumption DEF IInv, FileDup, table, ring, frame, hist, TypeOK,
         LockDiscipline, Locked
<1>4. CallersHold' /\ MinusOne'
  <2>1. \A r \in Procs, f \in Ends : Holds(r, f) => Holds(r, f)'
    BY DEF IInv, TypeOK, FileDup, Holds
  <2>2. CallersHold'
    BY <2>1 DEF IInv, CallersHold, FileDup, Ends
  <2>3. QED BY <2>2 DEF IInv, MinusOne, FileDup, ring, frame
<1>5. Sleepers'
  BY DEF IInv, FileDup, table, ring, frame, hist, TypeOK, Sleepers,
         LockDiscipline, Locked, Empty, Full, Aborted
<1>6. QED BY <1>1, <1>2, <1>3, <1>4, <1>5 DEF IInv

\* fileclose counts a descriptor down, and the last one makes its holder the one
\* that runs pipeclose.
LEMMA FileCloseKeeps ==
  ASSUME IInv, NEW p \in Procs, NEW e \in Ends, NEW s \in Slots,
         FileClose(p, e, s)
  PROVE  IInv'
<1> DEFINE rest == fds[e] \ {<<p, s>>}
<1>1. TypeOK' /\ RefCount'
  <2>1. /\ IsFiniteSet(rest) /\ Cardinality(rest) = ref[e] - 1 /\ ref[e] - 1 \in Nat
        /\ fds' = [fds EXCEPT ![e] = rest] /\ ref' = [ref EXCEPT ![e] = ref[e] - 1]
    BY LastReference DEF FileClose
  <2>2. fds' \in [Ends -> SUBSET (Procs \X Slots)] /\ ref' \in [Ends -> Nat]
    BY <2>1 DEF IInv, TypeOK
  <2>3. pc' \in [Procs -> PCs] /\ arg' \in [Procs -> Ends]
    BY DEF IInv, TypeOK, FileClose, Goto, PCs, ClosePCs
  <2>4. TypeOK'
    BY <2>2, <2>3 DEF IInv, FileClose, TypeOK, ring, hist
  <2>5. ASSUME NEW f \in Ends
        PROVE  IsFiniteSet(fds'[f]) /\ ref'[f] = Cardinality(fds'[f])
    BY <2>1 DEF IInv, RefCount, TypeOK
  <2>6. QED BY <2>4, <2>5 DEF RefCount
<1>2. OneCloser' /\ OneFree'
  <2>1. fds' = [fds EXCEPT ![e] = rest] /\ (ref[e] > 1 <=> rest # {})
    BY LastReference DEF FileClose
  <2>2. OneCloser'
    <3>1. CASE rest # {}
      <4>1. \A f \in Ends : fds'[f] = {} <=> fds[f] = {}
        BY <3>1, <2>1 DEF IInv, TypeOK, FileClose
      <4>2. QED BY <4>1, <3>1, <2>1, SameClosers DEF FileClose, ring
    <3>2. CASE rest = {}
      BY <3>2, <2>1, NewCloser DEF FileClose, Goto, ring
    <3>3. QED BY <3>1, <3>2
  <2>3. OneFree'
    BY DEF IInv, TypeOK, OneFree, FileClose, Goto, ring
  <2>4. QED BY <2>2, <2>3
<1>3. LockDiscipline'
  BY PipeAssumption DEF IInv, FileClose, Goto, table, ring, frame, hist,
         TypeOK, LockDiscipline, Locked
<1>4. CallersHold' /\ MinusOne'
  <2>1. \A q \in Procs, f \in Ends : pc[q] # "idle" /\ Holds(q, f) => Holds(q, f)'
    BY DEF IInv, TypeOK, FileClose, Holds
  <2>2. \A q \in Procs : /\ pc'[q] \in WritePCs => pc[q] \in WritePCs
                         /\ pc'[q] \in ReadPCs => pc[q] \in ReadPCs
    BY DEF IInv, TypeOK, FileClose, Goto, WritePCs, ReadPCs
  <2>3. "idle" \notin WritePCs \cup ReadPCs
    BY DEF WritePCs, ReadPCs
  <2>4. CallersHold'
    BY <2>1, <2>2, <2>3 DEF IInv, CallersHold, Ends
  <2>5. MinusOne'
    BY <2>2 DEF IInv, MinusOne, FileClose, ring
  <2>6. QED BY <2>4, <2>5
<1>5. Sleepers'
  BY DEF IInv, FileClose, Goto, table, ring, frame, hist, TypeOK, Sleepers,
         LockDiscipline, Locked, Empty, Full, Aborted
<1>6. QED BY <1>1, <1>2, <1>3, <1>4, <1>5 DEF IInv

\* The closer enters the section only when nobody is in it.
LEMMA CloseAcquireKeeps ==
  ASSUME IInv, NEW p \in Procs,
         CloseAcquire(p)
  PROVE  IInv'
<1>1. TypeOK' /\ RefCount'
  <2>1. TypeOK'
    BY DEF IInv, CloseAcquire, Acquire, Goto, table, ring, frame, hist,
         TypeOK, Ends, PCs, WritePCs, ReadPCs, ClosePCs
  <2>2. RefCount'
    BY DEF IInv, CloseAcquire, Acquire, Goto, table, ring, frame, hist,
         TypeOK, RefCount, Ends
  <2>3. QED BY <2>1, <2>2
<1>2. OneCloser' /\ OneFree'
  <2>1. \A q \in Procs : /\ pc'[q] \in ClosePCs <=> pc[q] \in ClosePCs
                         /\ pc'[q] = "c_free" <=> pc[q] = "c_free"
    BY DEF IInv, CloseAcquire, Goto, TypeOK, ClosePCs
  <2>2. UNCHANGED <<open, fds, arg, page>>
    BY DEF CloseAcquire, table, ring, frame
  <2>3. QED BY <2>1, <2>2 DEF IInv, OneCloser, OneFree
<1>3. LockDiscipline'
  BY PipeAssumption DEF IInv, CloseAcquire, Acquire, Goto, table, ring, frame,
         hist, TypeOK, LockDiscipline, Locked
<1>4. CallersHold' /\ MinusOne'
  BY DEF IInv, CloseAcquire, Acquire, Goto, table, ring, frame, hist, TypeOK,
         CallersHold, MinusOne, WritePCs, ReadPCs, Holds
<1>5. Sleepers'
  BY DEF IInv, CloseAcquire, Acquire, Goto, table, ring, frame, hist, TypeOK,
         Sleepers, LockDiscipline, Locked, Empty, Full, Aborted
<1>6. QED BY <1>1, <1>2, <1>3, <1>4, <1>5 DEF IInv

\* pipeclose closes the end that has no descriptors, wakes whoever sleeps at the
\* other end, and the second of two closes alone goes on to kfree.
LEMMA PipeCloseKeeps ==
  ASSUME IInv, NEW p \in Procs, PipeClose(p)
  PROVE  IInv'
<1> DEFINE mine == arg[p]
<1>1. /\ mine \in Ends /\ fds[mine] = {} /\ open[mine] = 1
      /\ open \in [Ends -> 0..1] /\ pc \in [Procs -> PCs] /\ pc[p] = "c_body"
      /\ open' = [open EXCEPT ![mine] = 0]
      /\ UNCHANGED <<table, nread, nwrite, data, page, frame, killed, hist>>
  BY DEF IInv, TypeOK, OneCloser, ClosePCs, PipeClose
<1>2. /\ \A f \in Ends \ {mine} : open'[f] = open[f]
      /\ open'[mine] = 0
  BY <1>1
<1>3. /\ \A q \in Procs \ {p} : pc[q] \notin Locked
      /\ lock' = NoProc
  BY <1>1 DEF IInv, LockDiscipline, Locked, PipeClose, Release
<1>4. /\ pc' \in [Procs -> PCs]
      /\ pc'[p] = IF BothClosed(p) THEN "c_free" ELSE "idle"
      /\ \A q \in Procs \ {p} :
           pc'[q] = IF mine = "write" 
                      THEN IF pc[q] = "r_asleep" THEN "r_woken" ELSE pc[q]
                      ELSE IF pc[q] = "w_asleep" THEN "w_woken" ELSE pc[q]
  BY <1>1 DEF PipeClose, WakeReaders, WakeWriters, Wakeup, PCs, ReadPCs, WritePCs
<1>5. BothClosed(p) <=> \A f \in Ends : open'[f] = 0
  BY <1>1, <1>2 DEF BothClosed
<1>6. \A q \in Procs \ {p} :
        /\ pc'[q] \in WritePCs <=> pc[q] \in WritePCs
        /\ pc'[q] \in ReadPCs <=> pc[q] \in ReadPCs
        /\ pc'[q] \in ClosePCs <=> pc[q] \in ClosePCs
        /\ pc'[q] = "c_free" <=> pc[q] = "c_free"
        /\ pc'[q] \notin Locked
  BY <1>3, <1>4 DEF WritePCs, ReadPCs, ClosePCs, Locked
<1>7. pc'[p] \in {"idle", "c_free"}
  BY <1>4
<1>11. TypeOK'
  BY <1>1, <1>3, <1>4 DEF IInv, TypeOK, table, frame, hist
<1>12. RefCount'
  BY <1>1 DEF IInv, RefCount, table
<1>13. LockDiscipline'
  BY <1>3, <1>6, <1>7, PipeAssumption DEF LockDiscipline, Locked
<1>14. CallersHold'
  BY <1>1, <1>6, <1>7 DEF IInv, CallersHold, WritePCs, ReadPCs, table, Holds
<1>15. OneCloser'
  <2>1. OneCloser /\ arg' = arg /\ fds' = fds BY <1>1 DEF IInv, frame, table
  <2>2. pc'[p] \notin ClosePCs /\ pc[p] \in ClosePCs BY <1>1, <1>7 DEF ClosePCs
  <2>3. \A f \in Ends : fds'[f] # {} => open'[f] = 1
    BY <1>1, <1>2, <2>1 DEF OneCloser
  <2>4. \A q \in Procs : pc'[q] \in ClosePCs => fds'[arg'[q]] = {} /\ open'[arg'[q]] = 1
    <3> SUFFICES ASSUME NEW q \in Procs, pc'[q] \in ClosePCs
                 PROVE  fds'[arg'[q]] = {} /\ open'[arg'[q]] = 1
      OBVIOUS
    <3>1. q # p /\ pc[q] \in ClosePCs BY <1>6, <2>2
    <3>2. arg[q] # mine /\ arg[q] \in Ends BY <3>1, <2>1, <2>2 DEF OneCloser, IInv, TypeOK
    <3>3. QED BY <3>1, <3>2, <2>1, <1>2 DEF OneCloser
  <2>5. \A q, r \in Procs :
       pc'[q] \in ClosePCs /\ pc'[r] \in ClosePCs /\ arg'[q] = arg'[r] => q = r
    BY <1>6, <2>1, <2>2 DEF OneCloser
  <2>6. \A f \in Ends :
       open'[f] = 1 /\ fds'[f] = {} => \E q \in Procs : pc'[q] \in ClosePCs /\ arg'[q] = f
    BY <1>1, <1>2, <1>6, <2>1, <2>2 DEF OneCloser
  <2>7. QED BY <2>3, <2>4, <2>5, <2>6 DEF OneCloser
<1>16. OneFree'
  <2>1. OneFree /\ page' = page /\ page \in {"used", "free"} BY <1>1 DEF IInv, TypeOK
  <2>2. page = "used" /\ \A q \in Procs : pc[q] # "c_free"
    BY <2>1, <1>1 DEF OneFree
  <2>3. QED BY <2>1, <2>2, <1>4, <1>5, <1>6 DEF OneFree
<1>17. MinusOne'
  BY <1>1, <1>2, <1>6, <1>7 DEF IInv, MinusOne, frame, WritePCs, ReadPCs, Ends
<1>18. Sleepers'
  <2>1. /\ UNCHANGED <<Empty, Full, Aborted>> 
        /\ Sleepers
    BY <1>1 DEF IInv, Empty, Full, Aborted, frame
  <2>2. \A q \in Procs : pc[q] \notin {"w_loop", "r_copy"} /\ pc'[q] \notin {"w_sleep", "r_sleep"}
    BY <1>1, <1>3, <1>6, <1>7 DEF Locked
  <2>3. CASE mine = "write"
    <3>1. \A q \in Procs : pc'[q] # "r_asleep" /\ (pc'[q] = "w_asleep" => pc[q] = "w_asleep")
      BY <1>4, <1>7, <2>3
    <3>2. QED BY <2>1, <2>2, <2>3, <3>1, <1>2 DEF Sleepers, Ends
  <2>4. CASE mine = "read"
    <3>1. \A q \in Procs : pc'[q] # "w_asleep" /\ (pc'[q] = "r_asleep" => pc[q] = "r_asleep")
      BY <1>4, <1>7, <2>4
    <3>2. QED BY <2>1, <2>2, <2>4, <3>1, <1>2 DEF Sleepers, Ends
  <2>5. QED BY <2>3, <2>4, <1>1 DEF Ends
<1>19. QED
  BY <1>11, <1>12, <1>13, <1>14, <1>15, <1>16, <1>17, <1>18 DEF IInv

\* kfree is the step after which nobody refers to the pipe.
LEMMA FreeKeeps ==
  ASSUME IInv, NEW p \in Procs,
         Free(p)
  PROVE  IInv'
<1>1. TypeOK' /\ RefCount'
  <2>1. TypeOK'
    BY DEF IInv, Free, Goto, table, ring, frame, hist, TypeOK, Ends, PCs,
         WritePCs, ReadPCs, ClosePCs
  <2>2. RefCount'
    BY DEF IInv, Free, Goto, table, ring, frame, hist, TypeOK, RefCount, Ends
  <2>3. QED BY <2>1, <2>2
<1>2. OneCloser' /\ OneFree'
  <2>1. OneCloser'
    BY DEF IInv, Free, Goto, table, ring, frame, hist, TypeOK, OneCloser,
         ClosePCs
  <2>2. OneFree'
    BY DEF IInv, Free, Goto, table, ring, frame, hist, TypeOK, OneFree,
         ClosePCs
  <2>3. QED BY <2>1, <2>2
<1>3. LockDiscipline'
  BY PipeAssumption DEF IInv, Free, Goto, table, ring, frame, hist, TypeOK,
         LockDiscipline, Locked
<1>4. CallersHold' /\ MinusOne'
  BY DEF IInv, Free, Goto, table, ring, frame, hist, TypeOK, CallersHold,
         MinusOne, WritePCs, ReadPCs, Holds
<1>5. Sleepers'
  BY DEF IInv, Free, Goto, table, ring, frame, hist, TypeOK, Sleepers,
         LockDiscipline, Locked, Empty, Full, Aborted
<1>6. QED BY <1>1, <1>2, <1>3, <1>4, <1>5 DEF IInv

-----------------------------------------------------------------------------
(* Theorems                                                                *)

\* What pipealloc leaves satisfies the invariant: two files with one reference.
LEMMA InitIInv == Init => IInv
<1> SUFFICES ASSUME Init PROVE IInv
  OBVIOUS
<1>1. PICK s0 \in Slots : fds = [e \in Ends |-> {<<Creator, s0>>}]
  BY DEF Init
<1>2. TypeOK
  BY <1>1, PipeAssumption DEF Init, TypeOK, PCs
<1>3. RefCount
  BY <1>1, FS_Singleton DEF Init, RefCount
<1>4. LockDiscipline /\ CallersHold /\ MinusOne /\ Sleepers
  BY PipeAssumption DEF Init, LockDiscipline, Locked, CallersHold, WritePCs,
     ReadPCs, MinusOne, Sleepers
<1>5. OneCloser /\ OneFree
  <2>1. \A e \in Ends : open[e] = 1 /\ fds[e] # {}
    BY <1>1 DEF Init
  <2>2. QED BY <2>1 DEF Init, OneCloser, OneFree, ClosePCs, Ends
<1>6. QED BY <1>2, <1>3, <1>4, <1>5 DEF IInv

\* Every step keeps the invariant.
LEMMA NextIInv == IInv /\ [Next]_vars => IInv'
<1> SUFFICES ASSUME IInv, [Next]_vars PROVE IInv'
  OBVIOUS
<1>1. ASSUME NEW p \in Procs, WriteStep(p) PROVE IInv'
  BY <1>1, WriteAcquireKeeps, WriteByteKeeps, WriteAbortKeeps, WriteFullKeeps,
     WriteSleepKeeps, WriteDoneKeeps DEF WriteStep
<1>2. ASSUME NEW p \in Procs, ReadStep(p) PROVE IInv'
  BY <1>2, ReadAcquireKeeps, ReadKilledKeeps, ReadEmptyKeeps, ReadSleepKeeps,
     ReadStartKeeps, ReadByteKeeps, ReadDoneKeeps DEF ReadStep
<1>3. ASSUME NEW p \in Procs, CloseStep(p) PROVE IInv'
  BY <1>3, CloseAcquireKeeps, PipeCloseKeeps, FreeKeeps DEF CloseStep
<1>4. ASSUME NEW p \in Procs, UserStep(p) PROVE IInv'
  BY <1>4, KillKeeps, WriteCallKeeps, ReadCallKeeps, FileDupKeeps, FileCloseKeeps
     DEF UserStep
<1>5. CASE UNCHANGED vars
  BY <1>5 DEF vars, IInv, TypeOK, RefCount, LockDiscipline, CallersHold, Holds,
     OneCloser, OneFree, MinusOne, Sleepers, Full, Empty, Aborted
<1>6. QED BY <1>1, <1>2, <1>3, <1>4, <1>5 DEF Next, KernelStep

\* IInv holds in every state that pipewrite, piperead, pipeclose, filedup and
\* fileclose reach in any interleaving.
THEOREM Invariance == Spec => []IInv
BY InitIInv, NextIInv, PTL DEF Spec

\* Type correctness: the counters stay within a uint, the counts and the flags of
\* the pipe and of its two files within their ranges, in every call.
THEOREM TypeCorrect == Spec => []TypeOK
<1>1. IInv => TypeOK BY DEF IInv
<1>2. QED BY <1>1, Invariance, PTL

\* The spinlock protects the ring: pipewrite, piperead and pipeclose touch it
\* only between acquire and release, and give the lock back on every path.
THEOREM LockCorrect == Spec => []LockDiscipline
<1>1. IInv => LockDiscipline BY DEF IInv
<1>2. QED BY <1>1, Invariance, PTL

\* No wakeup of pipewrite, piperead and pipeclose is lost, save the one a killed
\* writer does not make.
THEOREM NoLostWakeup == Spec => []NoMissedWakeup
<1>1. IInv => NoMissedWakeup
  <2> SUFFICES ASSUME IInv, lock = NoProc PROVE NoMissedWakeup
    BY DEF NoMissedWakeup
  <2>1. \A p \in Procs : pc[p] \notin Locked
    BY PipeAssumption DEF IInv, LockDiscipline
  <2>2. QED BY <2>1 DEF IInv, Sleepers, NoMissedWakeup, Locked
<1>2. QED BY <1>1, Invariance, PTL

\* The counts kept by filedup and fileclose keep an end open exactly as long as a
\* descriptor refers to it.
THEOREM EndsOpenWhileHeld == Spec => []EndOpenWhileHeld
<1>1. IInv => EndOpenWhileHeld BY DEF IInv, OneCloser, EndOpenWhileHeld
<1>2. QED BY <1>1, Invariance, PTL

\* Nobody uses the page of the pipe after kfree, and kfree happens once.
THEOREM FreedSafely == Spec => []NoUseAfterFree
<1>1. IInv => NoUseAfterFree
  <2> SUFFICES ASSUME IInv PROVE NoUseAfterFree
    OBVIOUS
  <2>1. ASSUME \A e \in Ends : open[e] = 0, NEW p \in Procs
        PROVE  pc[p] \in {"idle", "c_free"} /\ \A e \in Ends : ~Holds(p, e)
    <3>1. \A e \in Ends : fds[e] = {}
      BY <2>1 DEF IInv, OneCloser
    <3>5. \A e \in Ends : ~Holds(p, e)
      BY <3>1 DEF Holds
    <3>2. pc[p] \notin ClosePCs
      BY <2>1 DEF IInv, OneCloser, TypeOK
    <3>3. pc[p] \notin WritePCs \cup ReadPCs
      BY <3>5 DEF IInv, CallersHold, Ends
    <3>4. QED BY <3>5, <3>2, <3>3 DEF IInv, TypeOK, PCs
  <2>2. QED BY <2>1 DEF IInv, OneFree, NoUseAfterFree
<1>2. QED BY <1>1, Invariance, PTL

\* The page is freed once the last descriptor is gone and every call is over.
THEOREM Reclaimed == Spec => []NoLeak
<1>1. IInv => NoLeak
  <2> SUFFICES ASSUME IInv, \A e \in Ends : fds[e] = {}, \A p \in Procs : pc[p] = "idle"
               PROVE  page = "free"
    BY DEF NoLeak
  <2>1. \A p \in Procs : pc[p] \notin ClosePCs /\ pc[p] # "c_free"
    BY DEF ClosePCs
  <2>2. ASSUME NEW e \in Ends PROVE open[e] = 0
    <3>1. open[e] # 1
      BY <2>1 DEF IInv, OneCloser
    <3>2. QED BY <3>1 DEF IInv, TypeOK
  <2>3. QED BY <2>1, <2>2 DEF IInv, OneFree, TypeOK
<1>2. QED BY <1>1, Invariance, PTL
=============================================================================
