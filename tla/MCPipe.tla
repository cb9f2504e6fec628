------------------------------- MODULE MCPipe -------------------------------
(* Instances of Pipe for TLC.                                              *)
EXTENDS Pipe, TLC

\* The processes that did not create the pipe are interchangeable, and so are
\* the bytes.
Alike == Permutations(Procs \ {Creator}) \cup Permutations(Bytes)
=============================================================================
