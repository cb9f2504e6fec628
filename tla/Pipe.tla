-------------------------------- MODULE Pipe --------------------------------
(***************************************************************************)
(* The xv6 pipe of p3b/pipe_part1.c (pipe_part2.c is the same code with    *)
(* PIPESIZE 3) together with the part of the file table of                 *)
(* p3b/file_part2.c that decides when an end of the pipe is closed.        *)
(*                                                                         *)
(* One pipe is modelled from the return of pipealloc to its kfree.  The    *)
(* processes that share it run pipewrite, piperead and pipeclose           *)
(* concurrently.  A step is what a process does between two points at      *)
(* which another process can affect it: p->lock is explicit, sleep and     *)
(* wakeup are the atomic operations of xv6's proc.c under ptable.lock, and *)
(* filedup and fileclose are atomic because they run under ftable.lock.    *)
(***************************************************************************)
EXTENDS Integers, Sequences, FiniteSets

CONSTANTS Procs,     \* processes
          NoProc,    \* the owner of a free spinlock
          Creator,   \* the process that called pipe()
          Slots,     \* descriptors a process may have on one end
          Bytes,     \* what a char of the pipe can hold
          PIPESIZE,  \* bytes in the ring
          WORD,      \* number of values of a uint (2^32 in the code)
          MaxN,      \* bound: largest n passed to read and write
          MaxCalls   \* bound: read and write calls a process makes

ASSUME PipeAssumption ==
  /\ NoProc \notin Procs /\ Creator \in Procs
  /\ IsFiniteSet(Procs) /\ IsFiniteSet(Slots) /\ Slots # {} /\ Bytes # {}
  /\ PIPESIZE \in Nat \ {0} /\ WORD \in Nat /\ PIPESIZE < WORD
  /\ MaxN \in Nat /\ MaxCalls \in Nat

VARIABLES
  ref,      \* ftable: f->ref of the files of the two ends
  fds,      \* the descriptors (process, slot) that refer to each end
  lock,     \* the process that holds p->lock
  nread,    \* p->nread
  nwrite,   \* p->nwrite
  data,     \* p->data
  open,     \* p->readopen and p->writeopen
  page,     \* whether the page of the struct pipe is allocated
  pc,       \* where each process is
  i,        \* the loop counter of its read or write
  n,        \* the number of bytes it asked for
  arg,      \* the end its pipeclose closes (the argument `writable')
  ret,      \* what its last read or write returned
  killed,   \* myproc()->killed
  calls,    \* read and write calls it has made (bounded by MaxCalls)
  sent,     \* history: every byte stored in the ring
  rcvd      \* history: every byte copied out of the ring

table == <<ref, fds>>
ring  == <<nread, nwrite, data, open, page>>
frame == <<i, n, arg, ret, calls>>
hist  == <<sent, rcvd>>
vars  == <<ref, fds, lock, nread, nwrite, data, open, page, pc, i, n, arg,
           ret, killed, calls, sent, rcvd>>

Ends == {"read", "write"}

WritePCs == {"w_acquire", "w_loop", "w_sleep", "w_asleep", "w_woken"}
ReadPCs  == {"r_acquire", "r_wait", "r_copy", "r_sleep", "r_asleep", "r_woken"}
ClosePCs == {"c_acquire", "c_body"}
Locked   == {"w_loop", "w_sleep", "r_wait", "r_copy", "r_sleep", "c_body"}
PCs      == {"idle", "c_free"} \cup WritePCs \cup ReadPCs \cup ClosePCs

FullLate == nwrite = (nread + PIPESIZE + 1) % WORD   \* variant: off by one
Full  == nwrite = (nread + PIPESIZE) % WORD
Empty == nread = nwrite

Holds(p, e) == \E s \in Slots : <<p, s>> \in fds[e]

\* pipealloc: two files with one reference each, an empty ring, both ends open.
Init ==
  /\ ref = [e \in Ends |-> 1]
  /\ \E s \in Slots : fds = [e \in Ends |-> {<<Creator, s>>}]
  /\ lock = NoProc
  /\ nread = 0 /\ nwrite = 0
  /\ data \in [0..(PIPESIZE - 1) -> Bytes]
  /\ open = [e \in Ends |-> 1]
  /\ page = "used"
  /\ pc = [p \in Procs |-> "idle"]
  /\ i = [p \in Procs |-> 0]
  /\ n = [p \in Procs |-> 0]
  /\ arg = [p \in Procs |-> "read"]
  /\ ret = [p \in Procs |-> 0]
  /\ killed = [p \in Procs |-> 0]
  /\ calls = [p \in Procs |-> 0]
  /\ sent = <<>> /\ rcvd = <<>>

-----------------------------------------------------------------------------
(* Spinlock, sleep and wakeup (xv6's spinlock.c and proc.c).               *)

Acquire(p) == lock = NoProc /\ lock' = p
Release(p) == lock' = NoProc

Goto(p, to) == pc' = [pc EXCEPT ![p] = to]

\* The process counters after p moves to `to' and every process asleep at the
\* point `asleep' is made runnable.
Wakeup(p, to, asleep, woken) ==
  pc' = [q \in Procs |-> IF q = p THEN to
                         ELSE IF pc[q] = asleep THEN woken ELSE pc[q]]
WakeNobody(p, to) == Goto(p, to)                     \* variant: wakeup forgotten
WakeReaders(p, to) == Wakeup(p, to, "r_asleep", "r_woken")
WakeWriters(p, to) == Wakeup(p, to, "w_asleep", "w_woken")

\* kill(): set the flag and make a sleeping victim runnable.
Kill(p) ==
  /\ killed[p] = 0
  /\ killed' = [killed EXCEPT ![p] = 1]
  /\ pc' = [pc EXCEPT ![p] = IF @ = "r_asleep" THEN "r_woken"
                             ELSE IF @ = "w_asleep" THEN "w_woken" ELSE @]
  /\ UNCHANGED <<table, lock, ring, frame, hist>>

-----------------------------------------------------------------------------
(* pipewrite                                                               *)

WriteCall(p, k) ==
  /\ pc[p] = "idle" /\ killed[p] = 0 /\ Holds(p, "write")
  /\ calls[p] < MaxCalls
  /\ calls' = [calls EXCEPT ![p] = @ + 1]
  /\ i' = [i EXCEPT ![p] = 0]
  /\ n' = [n EXCEPT ![p] = k]
  /\ Goto(p, "w_acquire")
  /\ UNCHANGED <<table, lock, ring, arg, ret, killed, hist>>

\* The acquire at the top, and the one at the end of sleep.
WriteAcquire(p) ==
  /\ pc[p] \in {"w_acquire", "w_woken"}
  /\ Acquire(p)
  /\ Goto(p, "w_loop")
  /\ UNCHANGED <<table, ring, frame, killed, hist>>

WriteByte(p, b) ==
  /\ pc[p] = "w_loop" /\ i[p] < n[p] /\ ~Full
  /\ data' = [data EXCEPT ![nwrite % PIPESIZE] = b]
  /\ nwrite' = (nwrite + 1) % WORD
  /\ i' = [i EXCEPT ![p] = @ + 1]
  /\ sent' = Append(sent, b)
  /\ UNCHANGED <<table, lock, nread, open, page, pc, n, arg, ret, killed,
                 calls, rcvd>>

\* Variant: the test outside the while (Full).
WriteAbortEarly(p) ==
  /\ pc[p] = "w_loop" /\ i[p] < n[p]
  /\ open["read"] = 0 \/ killed[p] = 1
  /\ ret' = [ret EXCEPT ![p] = -1]
  /\ Release(p)
  /\ Goto(p, "idle")
  /\ UNCHANGED <<table, ring, i, n, arg, calls, killed, hist>>

\* Variant: the lock is not released on the error path.
WriteAbortLocked(p) ==
  /\ pc[p] = "w_loop" /\ i[p] < n[p] /\ Full
  /\ open["read"] = 0 \/ killed[p] = 1
  /\ ret' = [ret EXCEPT ![p] = -1]
  /\ Goto(p, "idle")
  /\ UNCHANGED <<table, lock, ring, i, n, arg, calls, killed, hist>>

\* Full, and nobody will ever read or the writer was killed: return -1.
WriteAbort(p) ==
  /\ pc[p] = "w_loop" /\ i[p] < n[p] /\ Full
  /\ open["read"] = 0 \/ killed[p] = 1
  /\ ret' = [ret EXCEPT ![p] = -1]
  /\ Release(p)
  /\ Goto(p, "idle")
  /\ UNCHANGED <<table, ring, i, n, arg, calls, killed, hist>>

\* Full: wake the readers.  The flag `killed' was tested before this point,
\* the sleep that follows does not test it again.
WriteFull(p) ==
  /\ pc[p] = "w_loop" /\ i[p] < n[p] /\ Full
  /\ open["read"] = 1 /\ killed[p] = 0
  /\ WakeReaders(p, "w_sleep")
  /\ UNCHANGED <<table, lock, ring, frame, killed, hist>>

\* sleep(&p->nwrite, &p->lock) gives up the lock and sleeps in one step.
WriteSleep(p) ==
  /\ pc[p] = "w_sleep"
  /\ Release(p)
  /\ Goto(p, "w_asleep")
  /\ UNCHANGED <<table, ring, frame, killed, hist>>

WriteDone(p) ==
  /\ pc[p] = "w_loop" /\ i[p] = n[p]
  /\ ret' = [ret EXCEPT ![p] = n[p]]
  /\ WakeReaders(p, "idle")
  /\ Release(p)
  /\ UNCHANGED <<table, ring, i, n, arg, calls, killed, hist>>

-----------------------------------------------------------------------------
(* piperead                                                                *)

ReadCall(p, k) ==
  /\ pc[p] = "idle" /\ killed[p] = 0 /\ Holds(p, "read")
  /\ calls[p] < MaxCalls
  /\ calls' = [calls EXCEPT ![p] = @ + 1]
  /\ i' = [i EXCEPT ![p] = 0]
  /\ n' = [n EXCEPT ![p] = k]
  /\ Goto(p, "r_acquire")
  /\ UNCHANGED <<table, lock, ring, arg, ret, killed, hist>>

\* Variant: `if' for `while', the test is not repeated after sleep.
ReadAcquireIf(p) ==
  /\ pc[p] \in {"r_acquire", "r_woken"}
  /\ Acquire(p)
  /\ Goto(p, IF pc[p] = "r_woken" THEN "r_copy" ELSE "r_wait")
  /\ UNCHANGED <<table, ring, frame, killed, hist>>

ReadAcquire(p) ==
  /\ pc[p] \in {"r_acquire", "r_woken"}
  /\ Acquire(p)
  /\ Goto(p, "r_wait")
  /\ UNCHANGED <<table, ring, frame, killed, hist>>

ReadKilled(p) ==
  /\ pc[p] = "r_wait" /\ Empty /\ open["write"] = 1 /\ killed[p] = 1
  /\ ret' = [ret EXCEPT ![p] = -1]
  /\ Release(p)
  /\ Goto(p, "idle")
  /\ UNCHANGED <<table, ring, i, n, arg, calls, killed, hist>>

ReadEmpty(p) ==
  /\ pc[p] = "r_wait" /\ Empty /\ open["write"] = 1 /\ killed[p] = 0
  /\ Goto(p, "r_sleep")
  /\ UNCHANGED <<table, lock, ring, frame, killed, hist>>

ReadSleep(p) ==
  /\ pc[p] = "r_sleep"
  /\ Release(p)
  /\ Goto(p, "r_asleep")
  /\ UNCHANGED <<table, ring, frame, killed, hist>>

ReadStart(p) ==
  /\ pc[p] = "r_wait" /\ (~Empty \/ open["write"] = 0)
  /\ Goto(p, "r_copy")
  /\ UNCHANGED <<table, lock, ring, frame, killed, hist>>

\* Variant: the counter is advanced before it is used.
ReadByteAfter(p) ==
  /\ pc[p] = "r_copy" /\ i[p] < n[p] /\ ~Empty
  /\ rcvd' = Append(rcvd, data[(nread + 1) % PIPESIZE])
  /\ nread' = (nread + 1) % WORD
  /\ i' = [i EXCEPT ![p] = @ + 1]
  /\ UNCHANGED <<table, lock, nwrite, data, open, page, pc, n, arg, ret,
                 killed, calls, sent>>

ReadByte(p) ==
  /\ pc[p] = "r_copy" /\ i[p] < n[p] /\ ~Empty
  /\ rcvd' = Append(rcvd, data[nread % PIPESIZE])
  /\ nread' = (nread + 1) % WORD
  /\ i' = [i EXCEPT ![p] = @ + 1]
  /\ UNCHANGED <<table, lock, nwrite, data, open, page, pc, n, arg, ret,
                 killed, calls, sent>>

ReadDone(p) ==
  /\ pc[p] = "r_copy" /\ (i[p] = n[p] \/ Empty)
  /\ ret' = [ret EXCEPT ![p] = i[p]]
  /\ WakeWriters(p, "idle")
  /\ Release(p)
  /\ UNCHANGED <<table, ring, i, n, arg, calls, killed, hist>>

-----------------------------------------------------------------------------
(* filedup, fileclose and pipeclose                                        *)

\* Variant: the descriptor is copied and the file's ref is not counted up.
FileDupUncounted(p, q, e, s) ==
  /\ pc[p] = "idle" /\ pc[q] = "idle" /\ Holds(p, e)
  /\ killed[p] = 0 /\ killed[q] = 0
  /\ <<q, s>> \notin fds[e]
  /\ fds' = [fds EXCEPT ![e] = @ \cup {<<q, s>>}]
  /\ UNCHANGED <<ref, lock, ring, pc, frame, killed, hist>>

\* dup (p = q) or fork (q is the child): one more descriptor of the end e.
FileDup(p, q, e, s) ==
  /\ pc[p] = "idle" /\ pc[q] = "idle" /\ Holds(p, e)
  /\ killed[p] = 0 /\ killed[q] = 0
  /\ <<q, s>> \notin fds[e]
  /\ fds' = [fds EXCEPT ![e] = @ \cup {<<q, s>>}]
  /\ ref' = [ref EXCEPT ![e] = @ + 1]
  /\ UNCHANGED <<lock, ring, pc, frame, killed, hist>>

\* close, or one step of exit: the last reference goes on to pipeclose.
FileClose(p, e, s) ==
  /\ pc[p] = "idle" /\ <<p, s>> \in fds[e]
  /\ fds' = [fds EXCEPT ![e] = @ \ {<<p, s>>}]
  /\ ref' = [ref EXCEPT ![e] = @ - 1]
  /\ IF ref[e] > 1
       THEN UNCHANGED <<pc, arg>>
       ELSE Goto(p, "c_acquire") /\ arg' = [arg EXCEPT ![p] = e]
  /\ UNCHANGED <<lock, ring, i, n, ret, calls, killed, hist>>

CloseAcquire(p) ==
  /\ pc[p] = "c_acquire"
  /\ Acquire(p)
  /\ Goto(p, "c_body")
  /\ UNCHANGED <<table, ring, frame, killed, hist>>

BothWereClosed(p) == \A e \in Ends : open[e] = 0       \* variant: tested too early
EitherClosed(p) == \E e \in Ends : e = arg[p] \/ open[e] = 0   \* variant: || for &&

\* Neither end is open once p has closed its own.
BothClosed(p) == \A e \in Ends : e = arg[p] \/ open[e] = 0

PipeClose(p) ==
  /\ pc[p] = "c_body"
  /\ open' = [open EXCEPT ![arg[p]] = 0]
  /\ LET to == IF BothClosed(p) THEN "c_free" ELSE "idle"
     IN  IF arg[p] = "write" THEN WakeReaders(p, to) ELSE WakeWriters(p, to)
  /\ Release(p)
  /\ UNCHANGED <<table, nread, nwrite, data, page, frame, killed, hist>>

\* kfree of the struct pipe, after the lock was released.
Free(p) ==
  /\ pc[p] = "c_free"
  /\ page' = "free"
  /\ Goto(p, "idle")
  /\ UNCHANGED <<table, lock, nread, nwrite, data, open, frame, killed, hist>>

-----------------------------------------------------------------------------
WriteStep(p) ==
  \/ WriteAcquire(p) \/ (\E b \in Bytes : WriteByte(p, b)) \/ WriteAbort(p)
  \/ WriteFull(p) \/ WriteSleep(p) \/ WriteDone(p)
ReadStep(p) ==
  \/ ReadAcquire(p) \/ ReadKilled(p) \/ ReadEmpty(p) \/ ReadSleep(p)
  \/ ReadStart(p) \/ ReadByte(p) \/ ReadDone(p)
CloseStep(p) == CloseAcquire(p) \/ PipeClose(p) \/ Free(p)

\* What the kernel does for p once it has entered a system call.
KernelStep(p) == WriteStep(p) \/ ReadStep(p) \/ CloseStep(p)

\* What the program run by p, or its parent, asks for.
UserStep(p) ==
  \/ \E k \in 0..MaxN : WriteCall(p, k) \/ ReadCall(p, k)
  \/ \E e \in Ends, s \in Slots : FileClose(p, e, s)
  \/ \E q \in Procs, e \in Ends, s \in Slots : FileDup(p, q, e, s)
  \/ Kill(p)

Next == \E p \in Procs : KernelStep(p) \/ UserStep(p)

Spec == Init /\ [][Next]_vars

\* xv6's round-robin scheduler runs every runnable process again and again.
\* Calls, dups, closes and kills are up to the programs: no fairness.
FairSpec == Spec /\ \A p \in Procs : WF_vars(KernelStep(p))
-----------------------------------------------------------------------------
(* Properties                                                              *)

\* The values the variables take.
TypeOK ==
  /\ ref \in [Ends -> Nat] /\ fds \in [Ends -> SUBSET (Procs \X Slots)]
  /\ lock \in Procs \cup {NoProc}
  /\ nread \in 0..(WORD - 1) /\ nwrite \in 0..(WORD - 1)
  /\ data \in [0..(PIPESIZE - 1) -> Bytes]
  /\ open \in [Ends -> 0..1] /\ page \in {"used", "free"}
  /\ pc \in [Procs -> PCs]
  /\ i \in [Procs -> Nat] /\ n \in [Procs -> Nat]
  /\ arg \in [Procs -> Ends] /\ ret \in [Procs -> Nat \cup {-1}]
  /\ killed \in [Procs -> 0..1] /\ calls \in [Procs -> Nat]
  /\ sent \in Seq(Bytes) /\ rcvd \in Seq(Bytes)

\* p->lock is held by exactly the process that is between an acquire (or the
\* return of sleep) and the next release (or sleep): the ring is never touched
\* without it, and no path returns with it held.
LockDiscipline ==
  \A p \in Procs : pc[p] \in Locked <=> lock = p

\* A write or a read was cut short by a kill.
Aborted == \E p \in Procs : killed[p] = 1 /\ ret[p] = -1

\* Whoever finds the lock free finds no process asleep that should be awake: a
\* reader sleeps only on an empty pipe that can still be written, a writer only
\* on a full pipe that can still be read.  Every store, copy and close is thus
\* followed by its wakeup before the lock is released, and the test that leads
\* to sleep is still true when the process is asleep.  The exception is the
\* return of a killed writer, which leaves its bytes without a wakeup.
NoMissedWakeup ==
  lock = NoProc =>
    \A p \in Procs :
      /\ pc[p] = "r_asleep" => open["write"] = 1 /\ (Empty \/ Aborted)
      /\ pc[p] = "w_asleep" => open["read"] = 1 /\ Full

\* f->ref counts the descriptors, so the last fileclose, and no other, calls
\* pipeclose: an end is open while somebody has a descriptor on it, and once
\* nobody has, it is closed or its last holder is on the way to closing it.
EndOpenWhileHeld ==
  \A e \in Ends :
    /\ fds[e] # {} => open[e] = 1
    /\ open[e] = 1 /\ fds[e] = {} => \E p \in Procs : pc[p] \in ClosePCs /\ arg[p] = e

\* kfree is the last thing that happens to the pipe: at that moment and after
\* no process is in a system call on it or can start one, and no second process
\* is about to free it.
NoUseAfterFree ==
  /\ page = "free" => \A p \in Procs : pc[p] = "idle" /\ \A e \in Ends : ~Holds(p, e)
  /\ \A p, q \in Procs : pc[p] = "c_free" /\ pc[q] # "idle" => q = p

\* The page is not leaked: when the last descriptor is gone and every call is
\* over, it has been freed.
NoLeak ==
  (\A e \in Ends : fds[e] = {}) /\ (\A p \in Procs : pc[p] = "idle") => page = "free"

\* The bytes in transit, oldest first, are the cells of the ring from nread on;
\* with what was read before they are what was written, whatever the
\* interleaving and although both counters wrap.
Fifo ==
  LET inTransit == Len(sent) - Len(rcvd)
  IN  /\ inTransit \in 0..PIPESIZE
      /\ inTransit = (nwrite - nread) % WORD
      /\ \A k \in 1..Len(rcvd) : rcvd[k] = sent[k]
      /\ \A k \in 0..(inTransit - 1) :
           data[((nread + k) % WORD) % PIPESIZE] = sent[Len(rcvd) + k + 1]

\* A PIPESIZE that does not divide WORD, as the 3 of pipe_part2.c, keeps the bytes
\* in order until the counters wrap: up to WORD bytes in the life of a pipe.
FifoUntilWrap == Len(sent) <= WORD => Fifo

\* A read that was asked for bytes returns 0 only when no more can come: all
\* that was written has been read and the write end is closed.
EofMeansDrained ==
  [][\A p \in Procs :
       pc[p] \in ReadPCs /\ pc'[p] = "idle" /\ n[p] > 0 /\ ret'[p] = 0
         => open["write"] = 0 /\ rcvd = sent]_vars

\* A write fails only when it could not go on: the ring is full, and the read
\* end is closed or the writer was killed.
WriteFailsOnlyIfStuck ==
  [][\A p \in Procs :
       pc[p] \in WritePCs /\ pc'[p] = "idle" /\ ret'[p] # n[p]
         => /\ i[p] < n[p] /\ Len(sent) - Len(rcvd) = PIPESIZE
            /\ open["read"] = 0 \/ killed[p] = 1]_vars

\* The pipe implements the stream of module ByteStream.
Stream == INSTANCE ByteStream WITH Capacity <- PIPESIZE
StreamSpec == Stream!Spec

\* Every reader returns once the write end is closed, and every writer once the
\* read end is.
EofReleasesReaders ==
  \A p \in Procs : pc[p] \in ReadPCs /\ open["write"] = 0 ~> pc[p] = "idle"
CloseReleasesWriters ==
  \A p \in Procs : pc[p] \in WritePCs /\ open["read"] = 0 ~> pc[p] = "idle"

\* A reader does not wait beside bytes, nor a writer beside room, unless another
\* process takes them first (or, for a reader, the writer was killed).
BytesReachReaders ==
  \A p \in Procs :
    pc[p] \in ReadPCs /\ ~Empty ~> pc[p] = "idle" \/ Empty \/ Aborted
RoomReachesWriters ==
  \A p \in Procs : pc[p] \in WritePCs /\ ~Full ~> pc[p] = "idle" \/ Full

\* A process that is killed in a pipe call leaves the call.
KilledReturns ==
  \A p \in Procs :
    pc[p] \in ReadPCs \cup WritePCs /\ killed[p] = 1 ~> pc[p] = "idle"
=============================================================================
