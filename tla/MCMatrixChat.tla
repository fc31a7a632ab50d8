---------------------------- MODULE MCMatrixChat ----------------------------
(***************************************************************************)
(* MatrixChat for TLC, by itself: small values of RETAIN and of the limits *)
(* of the requests reach every cap within a few messages.                  *)
(***************************************************************************)
EXTENDS MatrixChat
=============================================================================
