--------------------------------- MODULE PZip ---------------------------------
(***************************************************************************)
(* The parallel compressor p3a/pzip.c.  Every file is cut into n_thread    *)
(* chunks, a thread run-length encodes each chunk, and main merges the     *)
(* results in order, carrying the last run over to the next file.  NUL     *)
(* bytes are dropped.                                                      *)
(*                                                                         *)
(* A thread works on its own chunk and its own output, so it is one step.  *)
(* What the code reads of an output nobody wrote is the memory malloc      *)
(* returned: fresh, or freed after an earlier file.                        *)
(*                                                                         *)
(* p3a/wzip.c, from which pzip grew, is the same program with one thread   *)
(* and one size of output; it takes argv[1] for the first file also when   *)
(* that cannot be opened, and says so on stdout.                           *)
(***************************************************************************)
EXTENDS Integers, SequencesExt

CONSTANTS Bytes,     \* the bytes of the input
          NUL,       \* the byte 0
          NoChar,    \* the uninitialized ch of main, when it is none of Bytes
          Missing,   \* a file that cannot be opened
          n_thread,  \* get_nprocs_conf()
          SMALL,     \* entries of zip_output_effi, and the threshold (1000000)
          LARGE,     \* entries of zip_output (50000000, in wzip 100000000)
          MaxLen,    \* bound: bytes the files are cut from
          MaxFiles   \* bound: files on the command line

ASSUME ZipAssumption ==
  /\ n_thread \in Nat \ {0} /\ SMALL \in Nat \ {0} /\ LARGE \in Nat /\ LARGE > SMALL
  /\ MaxLen \in Nat /\ MaxFiles \in Nat \ {0}
  /\ Missing \notin Seq(Bytes)

VARIABLES
  program,  \* "pzip" or "wzip"
  argv,    \* the files
  pc,      \* "process", "join", "merge", "end", "done", "exit" after an error, or
           \* "undefined" after a write beyond an output: no step is modelled then
  file,    \* number of the file being processed
  effi,    \* whether the small output is used
  rets,    \* outputs of the threads that have returned
  joined,  \* how many threads were joined, in order
  freed,   \* first entries of outputs that went back to the heap
  valid,   \* whether a file was opened: the next is not the first
  ch, nch, \* the run that has not been written
  out      \* stdout: the runs written, as pairs of a number and a byte

vars == <<program, argv, pc, file, effi, rets, joined, freed, valid, ch, nch, out>>

Threads == IF program = "wzip" THEN 1 ELSE n_thread
Workers == 1..Threads

\* Ends of m pieces of a text, in order.
Cuts(m) == {c \in [1..m -> 0..MaxLen] : \A j \in 2..m : c[j - 1] <= c[j]}

\* The files are pieces of a text, and any of them may be missing.
Init ==
  /\ program \in {"pzip", "wzip"}
  /\ \E m \in 1..MaxFiles, text \in [1..MaxLen -> Bytes] :
       \E cut \in Cuts(m), gone \in SUBSET (1..m) :
         argv = [j \in 1..m |-> IF j \in gone THEN Missing
                                ELSE SubSeq(text, IF j = 1 THEN 1 ELSE cut[j - 1] + 1, cut[j])]
  /\ pc = "process" /\ file = 1 /\ effi = (program = "pzip")
  /\ rets = [w \in {} |-> <<>>] /\ joined = 0 /\ freed = {}
  /\ valid = FALSE /\ nch = 0 /\ out = <<>>
  /\ ch \in IF argv[1] = Missing THEN Bytes \cup {NoChar} ELSE {NoChar}

-----------------------------------------------------------------------------
(* thread_zip and thread_zip_effi                                          *)

\* The last chunk takes what the division leaves.
LastLen(f) == Len(f) - (Threads - 1) * (Len(f) \div Threads)

\* The chunk of worker w.
Chunk(f, w) ==
  LET unit == Len(f) \div Threads
      from == (w - 1) * unit
  IN  SubSeq(f, from + 1, from + (IF w = Threads THEN LastLen(f) ELSE unit))

\* The loop over the chunk from its first byte that is not NUL.
Runs(s) ==
  LET start == SelectInSeq(s, LAMBDA c : c # NUL)
      step(acc, c) ==
        IF c = NUL THEN acc
        ELSE IF c = acc.ch THEN [acc EXCEPT !.nch = @ + 1]
        ELSE [ch |-> c, nch |-> 1, runs |-> Append(acc.runs, <<acc.nch, acc.ch>>)]
      end == FoldLeft(step, [ch |-> s[start], nch |-> 0, runs |-> <<>>], s)
  IN  Append(end.runs, <<end.nch, end.ch>>)

\* The output for chunk s: its entries 0..n and what val[0] and num[0] hold.
\* The chunk may be empty, then the byte read is the first of the file, or all
\* NUL, then n is 0 and entry 0 is what was in the memory.
Output(s, head, memory) ==
  IF s = <<>>
    THEN IF head # NUL THEN [entries |-> << <<0, head>> >>, first |-> <<0, head>>]
         ELSE [entries |-> <<>>, first |-> memory]
  ELSE IF \A j \in DOMAIN s : s[j] = NUL THEN [entries |-> <<memory>>, first |-> memory]
  ELSE [entries |-> Runs(s), first |-> Head(Runs(s))]

\* Entry 0 of a fresh output: 250 MB always come from mmap, 5 MB only until
\* the first file has raised the threshold of malloc.  wzip is for macOS, whose
\* malloc may keep what was freed.
Memory == {<<0, NUL>>} \cup (IF effi \/ program = "wzip" THEN freed ELSE {})

\* An output holds SMALL or LARGE entries; a chunk may have more runs, a chunk
\* with the small output only if it is the last.
Fits(result) == Len(result.entries) <= IF effi THEN SMALL ELSE LARGE

ThreadZip(w) ==
  /\ pc = "join" /\ w \notin DOMAIN rets
  /\ \E memory \in Memory :
       LET result == Output(Chunk(argv[file], w), Head(argv[file]), memory)
       IN  /\ rets' = [v \in DOMAIN rets \cup {w} |-> IF v = w THEN result ELSE rets[v]]
           /\ pc' = IF Fits(result) THEN "join" ELSE "undefined"
  /\ UNCHANGED <<program, argv, file, effi, joined, freed, valid, ch, nch, out>>

-----------------------------------------------------------------------------
(* process, merge and main                                                 *)

\* open fails: the file is skipped, and wzip puts a message into its output.
Skip ==
  /\ pc = "process" /\ argv[file] = Missing
  /\ pc' = IF file = Len(argv) THEN "end" ELSE "process"
  /\ file' = file + 1
  /\ out' = IF program = "wzip" THEN Append(out, <<1, Missing>>) ELSE out
  /\ UNCHANGED <<program, argv, effi, rets, joined, freed, valid, ch, nch>>

\* mmap fails on an empty file: the program exits.
MmapFails ==
  /\ pc = "process" /\ argv[file] = <<>>
  /\ pc' = "exit"
  /\ UNCHANGED <<program, argv, file, effi, rets, joined, freed, valid, ch, nch, out>>

\* The threads are created.  Once a file was large, effi stays off.
Create ==
  /\ pc = "process" /\ argv[file] \notin {Missing, <<>>}
  /\ effi' = (effi /\ Len(argv[file]) \div Threads <= SMALL)
  /\ pc' = "join"
  /\ UNCHANGED <<program, argv, file, rets, joined, freed, valid, ch, nch, out>>

\* pthread_join of the next thread.
Join ==
  /\ pc = "join" /\ joined + 1 \in DOMAIN rets
  /\ joined' = joined + 1
  /\ pc' = IF joined' = Threads THEN "merge" ELSE "join"
  /\ UNCHANGED <<program, argv, file, effi, rets, freed, valid, ch, nch, out>>

\* merge of one entry into the run that has not been written.
AddRunAnyway(acc, e) ==        \* variant: a run is not joined to the run before it
  IF e[2] = NUL THEN acc
  ELSE [nch |-> e[1], ch |-> e[2], out |-> Append(acc.out, <<acc.nch, acc.ch>>)]
AddRun(acc, e) ==
  IF e[2] = NUL THEN acc
  ELSE IF e[2] = acc.ch THEN [acc EXCEPT !.nch = @ + e[1]]
  ELSE [nch |-> e[1], ch |-> e[2], out |-> Append(acc.out, <<acc.nch, acc.ch>>)]

EveryFirst == TRUE             \* variant: the run is not carried to the next file
First == IF program = "wzip" THEN file = 1 ELSE ~valid

Merge ==
  /\ pc = "merge"
  /\ LET entries == FlattenSeq([w \in Workers |-> rets[w].entries])
         start == IF First THEN [nch |-> 0, ch |-> rets[1].first[2], out |-> out]
                           ELSE [nch |-> nch, ch |-> ch, out |-> out]
         end == FoldLeft(AddRun, start, entries)
     IN  nch' = end.nch /\ ch' = end.ch /\ out' = end.out
  /\ freed' = IF valid \/ program = "wzip" THEN freed \cup {rets[w].first : w \in Workers} ELSE freed
  /\ rets' = [w \in {} |-> <<>>] /\ joined' = 0
  /\ valid' = TRUE
  /\ pc' = IF file = Len(argv) THEN "end" ELSE "process"
  /\ file' = file + 1
  /\ UNCHANGED <<program, argv, effi>>

End ==
  /\ pc = "end"
  /\ out' = Append(out, <<nch, ch>>)
  /\ pc' = "done"
  /\ UNCHANGED <<program, argv, file, effi, rets, joined, freed, valid, ch, nch>>

Next ==
  \/ \E w \in Workers : ThreadZip(w)
  \/ Skip \/ MmapFails \/ Create \/ Join \/ Merge \/ End

Spec == Init /\ [][Next]_vars

-----------------------------------------------------------------------------
(* Properties                                                              *)

\* The bytes of the files processed so far, without the NULs.
Text ==
  LET opened == SelectSeq(SubSeq(argv, 1, file - 1), LAMBDA f : f # Missing)
  IN  SelectSeq(FlattenSeq(opened), LAMBDA c : c # NUL)

Expand(runs) == FlattenSeq([j \in DOMAIN runs |-> [l \in 1..runs[j][1] |-> runs[j][2]]])

\* A chunk of file f has nothing but NULs.
NulChunk(f) ==
  f # Missing /\ \E w \in Workers : Chunk(f, w) # <<>> /\ Range(Chunk(f, w)) = {NUL}

\* wzip has written its message between the runs.
Interrupted == program = "wzip" /\ Missing \in Range(argv)

\* What was written and the run being held expand to the text: no byte is
\* lost, repeated, invented or moved, whatever the chunks, the order in which
\* threads finish, and the files.  A chunk of NULs is excepted from the third
\* file on (wzip: the second): entry 0 of its output is a run of an earlier file.
\* So is what wzip does when it cannot open a file.
ExpandsToText ==
  (/\ pc \in {"process", "end"} /\ ~Interrupted
   /\ \A j \in (IF program = "wzip" THEN 2 ELSE 3)..(file - 1) : ~NulChunk(argv[j])) =>
    Expand(Append(out, <<nch, ch>>)) = Text

\* The runs are as long as they can be, also where a run crosses from one chunk
\* or file to the next, and none is empty, when the files have no NUL.
RunsAreMaximal ==
  (pc = "done" /\ valid /\ ~Interrupted /\ \A f \in Range(argv) : f # Missing => NUL \notin Range(f)) =>
    /\ \A j \in DOMAIN out : out[j][1] > 0
    /\ \A j \in 1..(Len(out) - 1) : out[j][2] # out[j + 1][2]
=============================================================================
