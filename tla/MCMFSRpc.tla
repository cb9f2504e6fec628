------------------------------ MODULE MCMFSRpc ------------------------------
(***************************************************************************)
(* Requests of the clients of MFSRpc: the root directory, and the inode    *)
(* that the first creat gives out.  One client makes every call, with one  *)
(* name; the second works beside it, and the data it writes reads as an    *)
(* entry of the second name.  The images are small: no UNLINK makes a      *)
(* stray write here (MFSServer has them).                                  *)
(***************************************************************************)
EXTENDS MFSRpc

CONSTANTS c1, c2

MCAsEntry(cell) == EntCell(IF cell = DataCell("b") THEN "g" ELSE "", 1)

Creats(nm, types) ==
  {[lib |-> "CREAT", pinum |-> 0, type |-> t, name |-> nm] : t \in types}
Writes(v, b) == {[lib |-> "WRITE", inum |-> 1, block |-> b, buffer |-> v]}

AllRequests ==
  {[lib |-> "LOOKUP", pinum |-> 0, name |-> "f"], [lib |-> "STAT", inum |-> 1],
   [lib |-> "READ", inum |-> 1, block |-> 1], [lib |-> "UNLINK", pinum |-> 0, name |-> "f"],
   [lib |-> "SHUTDOWN"]}
    \cup Writes("a", 1) \cup Creats("f", {MFS_DIRECTORY, MFS_REGULAR_FILE})
Beside == Writes("b", 0) \cup Creats("g", {MFS_REGULAR_FILE})

BothRequests == [c \in Clients |-> IF c = c1 THEN AllRequests ELSE Beside]

\* A long run of one client, or a shorter one beside a second.
Load(n1, n2, k) == [calls |-> [c \in Clients |-> IF c = c1 THEN n1 ELSE n2], crashes |-> k]
BothLoads == {Load(4, 0, 2), Load(3, 1, 1)}
LateLoads == {Load(4, 0, 0)}
=============================================================================
