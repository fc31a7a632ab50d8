--------------------------- MODULE MCCryptoStore ---------------------------
(***************************************************************************)
(* CryptoStore for TLC.                                                    *)
(***************************************************************************)
EXTENDS CryptoStore
=============================================================================
