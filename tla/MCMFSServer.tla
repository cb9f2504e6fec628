---------------------------- MODULE MCMFSServer ----------------------------
(***************************************************************************)
(* What the cells of MFSServer's runs that are no entries read as to a     *)
(* search: data "b" as a name with a number, data "a" as a name with a     *)
(* negative one, everything else as the empty name.                        *)
(***************************************************************************)
EXTENDS MFSServer

MCAsEntry(cell) ==
  IF cell = DataCell("b") THEN EntCell("g", 0)
  ELSE IF cell = DataCell("a") THEN EntCell("h", None)
  ELSE EntCell("", None)
=============================================================================
