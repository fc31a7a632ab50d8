----------------------------- MODULE MCRoomKeys -----------------------------
(***************************************************************************)
(* RoomKeys for TLC.  The users are interchangeable: nothing in the module *)
(* orders them.                                                            *)
(***************************************************************************)
EXTENDS RoomKeys, TLC

UserSymmetry == Permutations(Users)
=============================================================================
