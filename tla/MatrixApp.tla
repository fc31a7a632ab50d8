----------------------------- MODULE MatrixApp -----------------------------
(***************************************************************************)
(* The receiving side of plugins/matrix: the keys that come in             *)
(* (InboundKeys), the list of rooms (MatrixRooms) and an open chat         *)
(* (MatrixChat).  They share no state that their properties are about; a   *)
(* behaviour is one of `part`, chosen at the start, and the variables of   *)
(* the others rest in an initial state.                                    *)
(***************************************************************************)
EXTENDS InboundKeys

CONSTANTS
    RoomCount,   \* rooms
    Bounds,      \* bounds: memberships others change, with the views open meanwhile
    Retain,      \* RETAIN
    Limit, Backfill, \* messages a sync brings, and the history
    Lines,       \* lines of the canvas
    MaxLog       \* bound: messages at the server

ASSUME RoomsAssumption == RoomCount \in Nat /\ Bounds \subseteq Nat \X Nat
ASSUME ChatAssumption ==
    /\ Retain \in Nat \ {0} /\ Limit \in Nat /\ Backfill \in Nat /\ Lines \in Nat
    /\ MaxLog \in Nat

VARIABLES
    part,
    members, news, changes, signedIn, batch, rooms, target, deleting, open, view, views,
        drawn, hidden, dropped,
    joined, blocked, log, member, tok, told, saved, known, messages, unread, chatOpen,
        chatView, chatStack, scroll, canvas, seen, ahead

MR == INSTANCE MatrixRooms WITH
        server <- members, session <- signedIn, token <- batch, pending <- deleting,
        stack <- views, N <- RoomCount

CH == INSTANCE MatrixChat WITH
        Back <- Backfill, open <- chatOpen, view <- chatView, stack <- chatStack, drawn <- canvas

mr == <<members, news, changes, signedIn, batch, rooms, target, deleting, open, view, views,
        drawn, hidden, dropped>>
ch == <<joined, blocked, log, member, tok, told, saved, known, messages, unread, chatOpen,
        chatView, chatStack, scroll, canvas, seen, ahead>>
appVars == <<part, vars, mr, ch>>

AppInit ==
    /\ part \in {"keys", "rooms", "chat"}
    /\ Init
    /\ MR!Init /\ (part # "rooms" => batch = "none" /\ members = [r \in 1..RoomCount |-> "none"])
    /\ CH!Init /\ (part # "chat" => joined = 0 /\ ~blocked)

AppNext ==
    \/ part = "keys" /\ Next /\ UNCHANGED <<part, mr, ch>>
    \/ part = "rooms" /\ MR!Next /\ UNCHANGED <<part, vars, ch>>
    \/ part = "chat" /\ CH!Next /\ UNCHANGED <<part, vars, mr>>

AppSpec == AppInit /\ [][AppNext]_appVars

-----------------------------------------------------------------------------
(* The properties of the lists and the chat, as their modules state them.  *)

\* The room list, its dialogs and the open room are the account's.
ListTrue == part = "rooms" => MR!ListTrue

\* The chat is current below its cap, complete, marked and answers its keys.
ChatTrue == part = "chat" => CH!ChatTrue
=============================================================================
