-------------------------------- MODULE FileIO --------------------------------
(***************************************************************************)
(* fileread and filewrite of p3b/file_part2.c on an inode.  Processes that *)
(* share a struct file (after dup or fork) share its offset; filewrite     *)
(* writes a few blocks per log transaction and lets go of the inode        *)
(* between two pieces.                                                     *)
(*                                                                         *)
(* The inode layer and the log are xv6's: ilock is a sleeplock, begin_op   *)
(* waits while too many transactions are open, readi and writei copy to    *)
(* and from the offset and refuse what is out of the file.                 *)
(***************************************************************************)
EXTENDS Integers, FiniteSets

CONSTANTS Procs,   \* processes
          Files,   \* struct files open on the inode
          NoProc,  \* the owner of a free sleeplock
          MAX,     \* bytes filewrite writes per transaction
          OPS,     \* transactions that fit in the log
          MAXFILE, \* bytes of the largest file
          MaxN,    \* bound: largest n
          MaxCalls \* bound: calls a process makes

ASSUME IOAssumption ==
  /\ MAX \in Nat \ {0} /\ OPS \in Nat \ {0} /\ MAXFILE \in Nat
  /\ MaxN \in Nat /\ MaxCalls \in Nat
  /\ NoProc \notin Procs

VARIABLES
  size,  \* size of the inode
  off,   \* f->off
  lock,  \* who has the inode locked
  ops,   \* open transactions: who is between begin_op and end_op
  fof,   \* the struct file each process uses
  pc,    \* where a process is in its call
  i, n,  \* bytes written so far and asked for
  r,     \* what its last readi or writei returned
  ret,   \* what its last call returned
  calls, \* calls it has made (bounded by MaxCalls)
  done,  \* history: positions written and read through each file
  got    \* history: positions the current call of a process has copied

vars == <<size, off, lock, ops, fof, pc, i, n, r, ret, calls, done, got>>

Init ==
  /\ size \in 0..MAXFILE
  /\ off = [f \in Files |-> 0]
  /\ lock = NoProc /\ ops = {}
  /\ fof \in [Procs -> Files]
  /\ pc = [p \in Procs |-> "idle"]
  /\ i = [p \in Procs |-> 0] /\ n = [p \in Procs |-> 0]
  /\ r = [p \in Procs |-> 0] /\ ret = [p \in Procs |-> 0]
  /\ calls = [p \in Procs |-> 0]
  /\ done = [f \in Files |-> {}]
  /\ got = [p \in Procs |-> {}]

Goto(p, to) == pc' = [pc EXCEPT ![p] = to]
\* Return: the variables of the call are gone.
Leave(p) ==
  /\ Goto(p, "idle")
  /\ i' = [i EXCEPT ![p] = 0] /\ n' = [n EXCEPT ![p] = 0] /\ r' = [r EXCEPT ![p] = 0]
  /\ got' = [got EXCEPT ![p] = {}]

Smaller(a, b) == IF a < b THEN a ELSE b

\* writei and readi of k bytes at offset o: the number of bytes, or -1.
writei(o, k) == IF o > size \/ o + k > MAXFILE THEN -1 ELSE k
readi(o, k) == IF o > size THEN -1 ELSE Smaller(k, size - o)

\* The copy of piece [o, o + k) through the file of p.
Copied(p, o, k) ==
  /\ done' = [done EXCEPT ![fof[p]] = @ \cup (o .. (o + k - 1))]
  /\ got' = [got EXCEPT ![p] = @ \cup (o .. (o + k - 1))]

ILock(p) == lock = NoProc /\ lock' = p
IUnlock(p) == lock' = NoProc

-----------------------------------------------------------------------------
(* filewrite                                                               *)

WriteCall(p, k) ==
  /\ pc[p] = "idle"
  /\ calls[p] < MaxCalls /\ calls' = [calls EXCEPT ![p] = @ + 1]
  /\ n' = [n EXCEPT ![p] = k] /\ ret' = [ret EXCEPT ![p] = 0]
  /\ Goto(p, "w_loop")
  /\ UNCHANGED <<size, off, lock, ops, fof, i, r, done, got>>

Piece(p) == Smaller(n[p] - i[p], MAX)

BeginOp(p) ==
  /\ pc[p] = "w_loop" /\ i[p] < n[p]
  /\ Cardinality(ops) < OPS
  /\ ops' = ops \cup {p}
  /\ Goto(p, "w_lock")
  /\ UNCHANGED <<calls, size, off, lock, fof, i, n, r, ret, done, got>>

WriteLockMissing(p) ==                   \* variant: no ilock before writei
  /\ pc[p] = "w_lock"
  /\ Goto(p, "w_copy")
  /\ UNCHANGED <<calls, size, off, lock, ops, fof, i, n, r, ret, done, got>>

WriteLock(p) ==
  /\ pc[p] = "w_lock" /\ ILock(p)
  /\ Goto(p, "w_copy")
  /\ UNCHANGED <<calls, size, off, ops, fof, i, n, r, ret, done, got>>

WriteI(p) ==
  /\ pc[p] = "w_copy"
  /\ LET o == off[fof[p]]
         k == writei(o, Piece(p))
     IN  /\ r' = [r EXCEPT ![p] = k]
         /\ Copied(p, o, k)
         /\ size' = IF k > 0 /\ o + k > size THEN o + k ELSE size
  /\ Goto(p, "w_off")
  /\ UNCHANGED <<calls, off, lock, ops, fof, i, n, ret>>

\* f->off += r, and iunlock.
Advance(p) ==
  /\ off' = [off EXCEPT ![fof[p]] = IF r[p] > 0 THEN @ + r[p] ELSE @]
  /\ IUnlock(p)

WriteOff(p) ==
  /\ pc[p] = "w_off" /\ Advance(p)
  /\ Goto(p, "w_end")
  /\ UNCHANGED <<calls, size, ops, fof, i, n, r, ret, done, got>>

EndIfWritten(p) == IF r[p] < 0 THEN ops ELSE ops \ {p}   \* variant: not on the error path
Ended(p) == ops \ {p}

EndOp(p) ==
  /\ pc[p] = "w_end"
  /\ ops' = Ended(p)
  /\ i' = [i EXCEPT ![p] = IF r[p] < 0 THEN @ ELSE @ + r[p]]
  /\ Goto(p, IF r[p] < 0 THEN "w_ret" ELSE "w_loop")
  /\ UNCHANGED <<calls, size, off, lock, fof, n, r, ret, done, got>>

SumOfPieces(p) == IF i[p] > 0 THEN n[p] ELSE -1       \* variant: a short write is reported as complete
Outcome(p) == IF i[p] = n[p] THEN n[p] ELSE -1

WriteReturn(p) ==
  /\ pc[p] = "w_ret" \/ (pc[p] = "w_loop" /\ i[p] >= n[p])
  /\ ret' = [ret EXCEPT ![p] = Outcome(p)]
  /\ Leave(p)
  /\ UNCHANGED <<calls, size, off, lock, ops, fof, done>>

-----------------------------------------------------------------------------
(* fileread                                                                *)

ReadCall(p, k) ==
  /\ pc[p] = "idle"
  /\ calls[p] < MaxCalls /\ calls' = [calls EXCEPT ![p] = @ + 1]
  /\ n' = [n EXCEPT ![p] = k] /\ ret' = [ret EXCEPT ![p] = 0]
  /\ Goto(p, "r_lock")
  /\ UNCHANGED <<size, off, lock, ops, fof, i, r, done, got>>

ReadLock(p) ==
  /\ pc[p] = "r_lock" /\ ILock(p)
  /\ Goto(p, "r_copy")
  /\ UNCHANGED <<calls, size, off, ops, fof, i, n, r, ret, done, got>>

ReadI(p) ==
  /\ pc[p] = "r_copy"
  /\ LET o == off[fof[p]]
         k == readi(o, n[p])
     IN  r' = [r EXCEPT ![p] = k] /\ Copied(p, o, k)
  /\ Goto(p, "r_off")
  /\ UNCHANGED <<calls, size, off, lock, ops, fof, i, n, ret>>

ReadReturn(p) ==
  /\ pc[p] = "r_off" /\ Advance(p)
  /\ ret' = [ret EXCEPT ![p] = r[p]]
  /\ Leave(p)
  /\ UNCHANGED <<calls, size, ops, fof, done>>

-----------------------------------------------------------------------------
Step(p) ==
  \/ BeginOp(p) \/ WriteLock(p) \/ WriteI(p) \/ WriteOff(p) \/ EndOp(p) \/ WriteReturn(p)
  \/ ReadLock(p) \/ ReadI(p) \/ ReadReturn(p)

Next == \E p \in Procs : Step(p) \/ \E k \in 1..MaxN : WriteCall(p, k) \/ ReadCall(p, k)

Spec == Init /\ [][Next]_vars

\* Every process in a call that can run does in the end.  Processes make finitely
\* many calls, so none waits for ever because others come first.
FairSpec == Spec /\ \A p \in Procs : WF_vars(Step(p))

-----------------------------------------------------------------------------
(* Properties                                                              *)

\* Whoever shares a struct file never copies a position another has copied
\* through it: writes do not overwrite each other and no byte is read twice,
\* although a long write gives up the inode between its pieces.
NoOverlap ==
  [][\A p \in Procs : got'[p] \ got[p] # {} => (got'[p] \ got[p]) \cap done[fof[p]] = {}]_vars

\* A write that returns n has written n bytes, in positions of its own; one that
\* returns -1 has stopped before, at the end of the largest file.
WriteReturnsWhatItDid ==
  [][\A p \in Procs :
       pc[p] \in {"w_ret", "w_loop"} /\ pc'[p] = "idle" =>
         IF ret'[p] = n[p] THEN Cardinality(got[p]) = n[p]
         ELSE Cardinality(got[p]) < n[p] /\ off[fof[p]] + Piece(p) > MAXFILE]_vars

\* Every call returns: neither the inode nor the log is kept on any path.
CallsReturn == \A p \in Procs : pc[p] # "idle" ~> pc[p] = "idle"
=============================================================================
