----------------------------- MODULE MCMFSEarly -----------------------------
(***************************************************************************)
(* MFSEarly for TLC: data reads as an entry with the name that clients use *)
(* and a negative number, other cells as an entry with the empty name.     *)
(***************************************************************************)
EXTENDS MFSEarly

MCAsEntry(cell) == EntCell(IF cell = DataCell("a") THEN "f" ELSE "", None)
=============================================================================
