---------------------------- MODULE MCMatrixApp ----------------------------
(***************************************************************************)
(* MatrixApp for TLC.  RETAIN and the limits of the requests are reached   *)
(* within a few messages.                                                  *)
(***************************************************************************)
EXTENDS MatrixApp

\* One Megolm session: its key comes from the peer at index 1, and from the
\* backup at index 0 without a sender, or on another chain with another one.
K(chain, idx) == [sid |-> "s", of |-> "s", chain |-> chain, idx |-> idx, room |-> "r1"]
B(chain, sender) == [sid |-> "s", of |-> "s", chain |-> chain, idx |-> 0, room |-> "r1",
                     sender |-> sender]

PeerKeys == {K(1, 1)}
BackupKeys == {B(1, ""), B(2, "other")}

\* Another client changes the memberships twice, once over views three deep;
\* without it they go four deep: the list, a delete dialog, the list again and the
\* menu of another room fit on the stack.
ChangesAndViews == {<<2, 2>>, <<1, 3>>, <<0, 4>>}
=============================================================================
