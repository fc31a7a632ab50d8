--------------------------- MODULE MCPrintDriver ---------------------------
(***************************************************************************)
(* PrintDriver for TLC.  The printers are interchangeable.                 *)
(***************************************************************************)
EXTENDS PrintDriver, TLC

PrinterSymmetry == Permutations(Printers)
=============================================================================
