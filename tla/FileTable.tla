------------------------------ MODULE FileTable ------------------------------
(***************************************************************************)
(* The file table of p3b/file_part2.c: filealloc, filedup and fileclose,   *)
(* with pipealloc of p3b/pipe_part2.c, which takes two files and a page    *)
(* and gives back what it got when it cannot get all.                      *)
(*                                                                         *)
(* A section under ftable.lock or p->lock is one step.  The system calls   *)
(* that use the table (sys_pipe, sys_open, sys_dup, sys_close, fork) are   *)
(* xv6's: a process is in one call at a time and has descriptors of its    *)
(* own.                                                                    *)
(***************************************************************************)
EXTENDS Integers, Sequences, FiniteSetsExt

CONSTANTS Procs,  \* processes
          NFILE,  \* files of the table
          NOFILE, \* descriptors of a process
          Pages,  \* pages kalloc can give out
          None    \* no file, no page

ASSUME TableAssumption ==
  /\ IsFiniteSet(Procs)
  /\ NFILE \in Nat \ {0} /\ NOFILE \in Nat \ {0} /\ None \notin Pages \cup Nat

VARIABLES
  file,   \* ftable.file
  ofile,  \* the descriptors: file numbers, or None
  used,   \* the pages that are allocated
  open,   \* readopen and writeopen of the pipe in a page
  iref,   \* references to the inode
  pc,     \* where a process is in its call
  f0, f1, \* the files pipealloc (sys_open: f0 alone) has
  p0,     \* the page pipealloc has
  todo,   \* files the process has yet to fileclose
  ff      \* fileclose's copy of the file it is closing

vars == <<file, ofile, used, open, iref, pc, f0, f1, p0, todo, ff>>
mine == <<f0, f1, p0>>

Files == 0..(NFILE - 1)
Fds   == 0..(NOFILE - 1)
Ends  == {"read", "write"}

NoFile == [ref |-> 0, type |-> "FD_NONE", pipe |-> None, end |-> "read"]

Init ==
  /\ file = [f \in Files |-> NoFile]
  /\ ofile = [p \in Procs |-> [d \in Fds |-> None]]
  /\ used = {} /\ open = [g \in Pages |-> [e \in Ends |-> 0]] /\ iref = 0
  /\ pc = [p \in Procs |-> "idle"]
  /\ f0 = [p \in Procs |-> None] /\ f1 = [p \in Procs |-> None]
  /\ p0 = [p \in Procs |-> None]
  /\ todo = [p \in Procs |-> <<>>]
  /\ ff = [p \in Procs |-> NoFile]

Goto(p, to) == pc' = [pc EXCEPT ![p] = to]

\* Go on with the files in `fs', then return.
CloseAll(p, fs) ==
  /\ todo' = [todo EXCEPT ![p] = fs]
  /\ Goto(p, IF fs = <<>> THEN "idle" ELSE "fileclose")

\* Return from pipealloc or sys_open, closing the files in `fs' on the way.
Leave(p, fs) ==
  /\ CloseAll(p, fs)
  /\ f0' = [f0 EXCEPT ![p] = None]
  /\ f1' = [f1 EXCEPT ![p] = None]
  /\ p0' = [p0 EXCEPT ![p] = None]

\* Return from fileclose.
Drop(p) == ff' = [ff EXCEPT ![p] = NoFile]

Unused(p) == {d \in Fds : ofile[p][d] = None}

-----------------------------------------------------------------------------
(* filealloc, filedup, fileclose                                           *)

FreeByType(f) == file[f].type = "FD_NONE"    \* variant: a file without a type
IsFree(f) == file[f].ref = 0

\* The first free file.  Its type is not set: fileclose left FD_NONE.
filealloc(f) ==
  /\ IsFree(f) /\ \A g \in 0..(f - 1) : ~IsFree(g)
  /\ file' = [file EXCEPT ![f].ref = 1]
TableFull == \A f \in Files : ~IsFree(f)

filedup(fs) == file' = [f \in Files |->
                 [file[f] EXCEPT !.ref = @ + Cardinality({d \in DOMAIN fs : fs[d] = f})]]

ClosedDirty(f) == [f EXCEPT !.ref = 0]       \* variant: the type is not reset
ClosedFile(f) == [f EXCEPT !.ref = 0, !.type = "FD_NONE"]

FileClose(p) ==
  /\ pc[p] = "fileclose"
  /\ LET f == Head(todo[p])
     IN  IF file[f].ref > 1
           THEN /\ file' = [file EXCEPT ![f].ref = @ - 1]
                /\ CloseAll(p, Tail(todo[p]))
                /\ UNCHANGED ff
           ELSE /\ file' = [file EXCEPT ![f] = ClosedFile(@)]
                /\ IF file[f].type = "FD_NONE"
                     THEN CloseAll(p, Tail(todo[p])) /\ UNCHANGED ff
                     ELSE /\ ff' = [ff EXCEPT ![p] = file[f]]
                          /\ todo' = [todo EXCEPT ![p] = Tail(@)]
                          /\ Goto(p, IF file[f].type = "FD_PIPE" THEN "pipeclose" ELSE "iput")
  /\ UNCHANGED <<ofile, used, open, iref, mine>>

LastIfWriter(p) == open[ff[p].pipe]["read"] = 0 /\ ff[p].end = "write"   \* variant
LastEnd(p) == \A e \in Ends : e = ff[p].end \/ open[ff[p].pipe][e] = 0

\* pipeclose, up to the release of p->lock.
PipeClose(p) ==
  /\ pc[p] = "pipeclose"
  /\ open' = [open EXCEPT ![ff[p].pipe][ff[p].end] = 0]
  /\ IF LastEnd(p)
       THEN Goto(p, "kfree") /\ UNCHANGED <<todo, ff>>
       ELSE CloseAll(p, todo[p]) /\ Drop(p)
  /\ UNCHANGED <<file, ofile, used, iref, mine>>

KFree(p) ==
  /\ pc[p] = "kfree"
  /\ used' = used \ {ff[p].pipe}
  /\ CloseAll(p, todo[p]) /\ Drop(p)
  /\ UNCHANGED <<file, ofile, open, iref, mine>>

IPut(p) ==
  /\ pc[p] = "iput"
  /\ iref' = iref - 1
  /\ CloseAll(p, todo[p]) /\ Drop(p)
  /\ UNCHANGED <<file, ofile, used, open, mine>>

-----------------------------------------------------------------------------
(* pipealloc, called by sys_pipe                                           *)

Pipe(p) ==
  /\ pc[p] = "idle" /\ Goto(p, "alloc0")
  /\ UNCHANGED <<file, ofile, used, open, iref, mine, todo, ff>>

\* No file is free: bad, with what there is.
BadForgets(p, fs) == Leave(p, <<>>)       \* variant: nothing is given back
Bad(p, fs) == Leave(p, fs)

Alloc0(p) ==
  /\ pc[p] = "alloc0"
  /\ \/ \E f \in Files : /\ filealloc(f)
                         /\ f0' = [f0 EXCEPT ![p] = f]
                         /\ Goto(p, "alloc1") /\ UNCHANGED <<f1, p0, todo>>
     \/ TableFull /\ Bad(p, <<>>) /\ UNCHANGED file
  /\ UNCHANGED <<ofile, used, open, iref, ff>>

Alloc1(p) ==
  /\ pc[p] = "alloc1"
  /\ \/ \E f \in Files : /\ filealloc(f)
                         /\ f1' = [f1 EXCEPT ![p] = f]
                         /\ Goto(p, "kalloc") /\ UNCHANGED <<f0, p0, todo>>
     \/ TableFull /\ Bad(p, <<f0[p]>>) /\ UNCHANGED file
  /\ UNCHANGED <<ofile, used, open, iref, ff>>

KAlloc(p) ==
  /\ pc[p] = "kalloc"
  /\ \/ \E g \in Pages \ used : /\ used' = used \cup {g}
                                /\ p0' = [p0 EXCEPT ![p] = g]
                                /\ Goto(p, "fill") /\ UNCHANGED <<f0, f1, todo>>
     \/ used = Pages /\ Bad(p, <<f0[p], f1[p]>>) /\ UNCHANGED used
  /\ UNCHANGED <<file, ofile, open, iref, ff>>

Fill(p) ==
  /\ pc[p] = "fill"
  /\ open' = [open EXCEPT ![p0[p]] = [e \in Ends |-> 1]]
  /\ file' = [file EXCEPT
       ![f0[p]] = [@ EXCEPT !.type = "FD_PIPE", !.pipe = p0[p], !.end = "read"],
       ![f1[p]] = [@ EXCEPT !.type = "FD_PIPE", !.pipe = p0[p], !.end = "write"]]
  /\ Goto(p, "fds")
  /\ UNCHANGED <<ofile, used, iref, mine, todo, ff>>

\* sys_pipe: two descriptors, or the files are closed again.
PipeFds(p) ==
  /\ pc[p] = "fds"
  /\ \/ /\ Cardinality(Unused(p)) >= 2
        /\ LET d == Min(Unused(p))
               e == Min(Unused(p) \ {d})
           IN  ofile' = [ofile EXCEPT ![p][d] = f0[p], ![p][e] = f1[p]]
        /\ Leave(p, <<>>)
     \/ Cardinality(Unused(p)) < 2 /\ Leave(p, <<f0[p], f1[p]>>) /\ UNCHANGED ofile
  /\ UNCHANGED <<file, used, open, iref, ff>>

-----------------------------------------------------------------------------
(* The other calls                                                         *)

\* sys_open: namei has taken a reference to the inode.
Open(p) ==
  /\ pc[p] = "idle"
  /\ \/ \E f \in Files : /\ filealloc(f)
                         /\ f0' = [f0 EXCEPT ![p] = f]
                         /\ iref' = iref + 1
                         /\ Goto(p, "openfd")
     \/ TableFull /\ UNCHANGED <<file, f0, iref, pc>>
  /\ UNCHANGED <<ofile, used, open, f1, p0, todo, ff>>

OpenFd(p) ==
  /\ pc[p] = "openfd"
  /\ \/ /\ Unused(p) # {}
        /\ ofile' = [ofile EXCEPT ![p][Min(Unused(p))] = f0[p]]
        /\ file' = [file EXCEPT ![f0[p]] = [@ EXCEPT !.type = "FD_INODE"]]
        /\ Leave(p, <<>>)
        /\ UNCHANGED iref
     \/ /\ Unused(p) = {} /\ Leave(p, <<f0[p]>>)
        /\ iref' = iref - 1
        /\ UNCHANGED <<ofile, file>>
  /\ UNCHANGED <<used, open, ff>>

Dup(p, d) ==
  /\ pc[p] = "idle" /\ ofile[p][d] # None /\ Unused(p) # {}
  /\ ofile' = [ofile EXCEPT ![p][Min(Unused(p))] = ofile[p][d]]
  /\ filedup(<<ofile[p][d]>>)
  /\ UNCHANGED <<used, open, iref, pc, mine, todo, ff>>

\* fork into an unused process.
Fork(p, q) ==
  /\ pc[p] = "idle" /\ pc[q] = "idle" /\ p # q /\ Unused(q) = Fds
  /\ ofile' = [ofile EXCEPT ![q] = ofile[p]]
  /\ filedup(ofile[p])
  /\ UNCHANGED <<used, open, iref, pc, mine, todo, ff>>

\* sys_close, or one step of exit.
Close(p, d) ==
  /\ pc[p] = "idle" /\ ofile[p][d] # None
  /\ ofile' = [ofile EXCEPT ![p][d] = None]
  /\ CloseAll(p, <<ofile[p][d]>>)
  /\ UNCHANGED <<file, used, open, iref, mine, ff>>

Next ==
  \E p \in Procs :
    \/ FileClose(p) \/ PipeClose(p) \/ KFree(p) \/ IPut(p)
    \/ Pipe(p) \/ Alloc0(p) \/ Alloc1(p) \/ KAlloc(p) \/ Fill(p) \/ PipeFds(p)
    \/ Open(p) \/ OpenFd(p)
    \/ \E d \in Fds : Dup(p, d) \/ Close(p, d)
    \/ \E q \in Procs : Fork(p, q)

Spec == Init /\ [][Next]_vars

-----------------------------------------------------------------------------
(* Properties                                                              *)

\* The references to file f: the descriptors, what a call that has not installed
\* its files holds, and what it has yet to close.
FdRefs(f) == {x \in Procs \X Fds : ofile[x[1]][x[2]] = f}
Own0(f) ==
  {p \in Procs : f0[p] = f /\ pc[p] \in {"alloc1", "kalloc", "fill", "fds", "openfd"}}
Own1(f) == {p \in Procs : f1[p] = f /\ pc[p] \in {"kalloc", "fill", "fds"}}
Due(f) == {x \in Procs \X (1..2) : x[2] <= Len(todo[x[1]]) /\ todo[x[1]][x[2]] = f}
Refs(f) ==
  Cardinality(FdRefs(f)) + Cardinality(Own0(f)) + Cardinality(Own1(f)) + Cardinality(Due(f))

\* f->ref is the number of references: neither panic of filedup and fileclose can
\* occur, and a call that fails half way leaves no file behind.
RefsCounted == \A f \in Files : file[f].ref = Refs(f)

\* The owners of an end of the pipe in page g: a file, or a fileclose on the way
\* to pipeclose.
PipeFiles(g, e) ==
  {f \in Files : /\ file[f].ref > 0 /\ file[f].type = "FD_PIPE"
                 /\ file[f].pipe = g /\ file[f].end = e}
Closers(g, e) ==
  {p \in Procs : pc[p] = "pipeclose" /\ ff[p].pipe = g /\ ff[p].end = e}

\* An end of a pipe that is open has one owner, and an end that is closed none.
EndHasOwner ==
  \A g \in used, e \in Ends :
    Cardinality(PipeFiles(g, e)) + Cardinality(Closers(g, e)) = open[g][e]

\* kfree is given a page that is allocated, that no file refers to and no other
\* process is about to close or free.
FreedOnce ==
  \A p \in Procs : pc[p] = "kfree" =>
    LET g == ff[p].pipe
    IN  /\ g \in used
        /\ \A e \in Ends : PipeFiles(g, e) \cup Closers(g, e) = {}
        /\ \A q \in Procs \ {p} : pc[q] = "kfree" => ff[q].pipe # g

\* A page is allocated as long as somebody will free it.
PagesAccounted ==
  \A g \in used :
    \/ \E e \in Ends : PipeFiles(g, e) \cup Closers(g, e) # {}
    \/ \E p \in Procs : \/ pc[p] = "fill" /\ p0[p] = g
                        \/ pc[p] = "kfree" /\ ff[p].pipe = g

\* The inode is referenced once by every open file of it: iput is called once
\* for every sys_open that took a reference, failed ones included.
InodeAccounted ==
  iref = Cardinality({f \in Files : file[f].ref > 0 /\ file[f].type = "FD_INODE"})
         + Cardinality({p \in Procs : pc[p] \in {"openfd", "iput"}})

\* What a descriptor refers to does not change while it is open, although files
\* of the table are reused.
Steady ==
  [][\A p \in Procs, d \in Fds :
       ofile[p][d] # None /\ ofile'[p][d] = ofile[p][d] =>
         LET f == ofile[p][d]
         IN  [file'[f] EXCEPT !.ref = 0] = [file[f] EXCEPT !.ref = 0]]_vars
=============================================================================
