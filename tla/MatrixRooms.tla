---------------------------- MODULE MatrixRooms -----------------------------
(***************************************************************************)
(* plugins/matrix, the room list: /sync merged into ROOMS, the views and   *)
(* dialogs over the list and the ids they act on (MENU_TARGET,             *)
(* PENDING_DELETE, OPEN_ROOM), joining, inviting, leaving, login and reset. *)
(* What happens inside a chat is MatrixChat.                               *)
(*                                                                         *)
(* A list keeps the rows it was drawn with: the place in ROOMS an item     *)
(* carries, and the room it shows.  EventBus keys reach key_event whatever *)
(* view is on top; a dialog closes before its action is delivered.         *)
(***************************************************************************)
EXTENDS Integers, Sequences, SequencesExt

CONSTANTS
    N,      \* rooms, numbered in the order of their ids
    Bounds  \* the changes others make at the server, with the views open
            \* meanwhile: pairs of upper bounds

VARIABLES
    server,   \* the account's membership of each room
    news,     \* rooms with something the token is not past
    changes,  \* changes others made
    session,  \* SESSION is there
    token,    \* its next_batch: "none", "fresh", or "stored", when this entry
              \* had no full sync
    rooms,    \* ROOMS: id and invited
    target,   \* MENU_TARGET, 0 for None
    pending,  \* PENDING_DELETE, 0 for None
    open,     \* OPEN_ROOM, 0 for None
    view,     \* VIEW
    stack,    \* the plugin's views, the top last
    drawn,    \* where on the stack the room list drawn last is, 0 for gone
    hidden,   \* rooms whose leave a full sync went past
    dropped   \* rooms deleted here that could not be left

serverv == <<server, news, changes>>
ids     == <<target, pending, open>>
screen  == <<view, stack, drawn>>
lapses  == <<hidden, dropped>>
vars    == <<serverv, session, token, rooms, ids, screen, lapses>>

Ids     == 1..N
Listed(rs) == {rs[n].id : n \in DOMAIN rs}
Top     == IF stack = <<>> THEN "none" ELSE Last(stack).v
Under   == Front(stack)
Within(n, depth) == \E b \in Bounds : n <= b[1] /\ depth <= b[2]
View(v, who) == [v |-> v, who |-> who, rows |-> <<>>]
Room(r, inv) == [id |-> r, invited |-> inv]

\* The elements of s at the places in keep, in their order.
Sift(s, keep) ==
    LET upto[n \in 0..Len(s)] ==
            IF n = 0 THEN <<>>
            ELSE IF n \in keep THEN Append(upto[n-1], s[n]) ELSE upto[n-1]
    IN  upto[Len(s)]

Init ==
    /\ server \in [Ids -> {"none", "joined"}] /\ news = {} /\ changes = 0
    /\ session = TRUE /\ token \in {"none", "stored"}
    /\ rooms = <<>> /\ target = 0 /\ pending = 0 /\ open = 0
    /\ view = "RoomList" /\ stack = <<>> /\ drawn = 0
    /\ hidden = {} /\ dropped = {}

-----------------------------------------------------------------------------
(* Views.                                                                  *)

\* render_room_list: invitations first; an item carries its place in ROOMS.
RowsOf(rs) ==
    LET places(inv) == Sift([n \in DOMAIN rs |-> n], {n \in DOMAIN rs : rs[n].invited = inv})
        order == places(TRUE) \o places(FALSE)
    IN  [p \in DOMAIN order |-> <<order[p], rs[order[p]].id>>]

\* ListBuilder::replace: a list on top is replaced, else one is pushed.
Replace(s, v) ==
    IF s # <<>> /\ Last(s).v \in {"rooms", "system"}
    THEN Append(Front(s), v) ELSE Append(s, v)

\* render_rooms over the views s.
RenderRooms(s) ==
    /\ view' = "RoomList"
    /\ stack' = Replace(s, [v |-> "rooms", who |-> 0, rows |-> RowsOf(rooms')])
    /\ drawn' = Len(stack') /\ Within(changes, drawn')

Show(s, v) ==
    /\ stack' = s /\ view' = v /\ Within(changes, Len(s))
    /\ drawn' = IF drawn <= Len(s) THEN drawn ELSE 0

\* key_event: N on the system list, as far as VIEW knows.
AfterN == IF view = "System" THEN "RoomList" ELSE view

-----------------------------------------------------------------------------
(* sync_now.                                                               *)

\* As a bug might have it: rooms that are left stay.
MergedLeftStay(rs, told, left, srv) ==
    LET new == Sift([n \in 1..N |-> n], told \ Listed(rs))
    IN  [n \in DOMAIN rs |->
            IF rs[n].id \in told THEN Room(rs[n].id, srv[rs[n].id] = "invited") ELSE rs[n]]
        \o [n \in DOMAIN new |-> Room(new[n], srv[new[n]] = "invited")]

\* ROOMS rs after an answer that tells of the rooms `told` and that `left` are
\* left; srv is the server's answer.  rooms.join comes before rooms.invite.
Merged(rs, told, left, srv) ==
    LET new(m) == Sift([n \in 1..N |-> n], {r \in told \ Listed(rs) : srv[r] = m})
        known == [n \in DOMAIN rs |->
                    IF rs[n].id \in told
                    THEN Room(rs[n].id, srv[rs[n].id] = "invited") ELSE rs[n]]
        all   == known
                 \o [n \in DOMAIN new("joined")  |-> Room(new("joined")[n], FALSE)]
                 \o [n \in DOMAIN new("invited") |-> Room(new("invited")[n], TRUE)]
    IN  Sift(all, {n \in DOMAIN all : all[n].id \notin left})

\* As a bug might have it: the open room is not looked at.
AnsweredOpenStays(full, rs, srv, nws, chatty) ==
    LET there == {r \in Ids : srv[r] # "none"}
        whole == full \/ token = "none"
        told  == IF whole THEN there ELSE there \cap (nws \cup chatty)
        left  == IF whole THEN {} ELSE nws \ there
    IN  /\ rooms' = Merged(rs, told, left, srv)
        /\ token' = IF whole THEN "fresh" ELSE token
        /\ news' = {} /\ UNCHANGED open
        /\ hidden' = ((IF whole THEN hidden \cup (Listed(rs) \ there) ELSE hidden)
                        \ told) \ left
        /\ dropped' = dropped \ told

\* An answer to a sync of ROOMS rs, while the server is at srv and the token
\* behind on nws.  chatty: rooms that only have new messages.
Answered(full, rs, srv, nws, chatty) ==
    LET there == {r \in Ids : srv[r] # "none"}
        whole == full \/ token = "none"
        told  == IF whole THEN there ELSE there \cap (nws \cup chatty)
        left  == IF whole THEN {} ELSE nws \ there
    IN  /\ rooms' = Merged(rs, told, left, srv)
        /\ open' = IF open \in left THEN 0 ELSE open
        /\ token' = IF whole THEN "fresh" ELSE token
        /\ news' = {}
        /\ hidden' = ((IF whole THEN hidden \cup (Listed(rs) \ there) ELSE hidden)
                        \ told) \ left
        /\ dropped' = dropped \ told

SyncNow(full, rs, srv, nws) ==
    \/ session' /\ Answered(full, rs, srv, nws, {})
    \/ rooms' = rs /\ news' = nws /\ UNCHANGED <<open, token, lapses>>
-----------------------------------------------------------------------------
(* The server.                                                             *)

\* Others invite, or the account joins or leaves elsewhere.
Elsewhere(r, m) ==
    /\ Within(changes + 1, Len(stack)) /\ server[r] # m
    /\ (m = "invited") => server[r] = "none"
    /\ server' = [server EXCEPT ![r] = m] /\ news' = news \cup {r}
    /\ changes' = changes + 1
    /\ UNCHANGED <<session, token, rooms, ids, screen, lapses>>

-----------------------------------------------------------------------------
(* The room list.                                                          *)

\* plugin_on_enter: a full sync, when a session is stored.
Enter ==
    /\ stack = <<>>
    /\ UNCHANGED <<server, changes, session, target, pending>>
    /\ SyncNow(TRUE, rooms, server, news)
    /\ RenderRooms(<<>>)

\* plugin_on_exit, which flushes the token.
Exit ==
    /\ stack # <<>>
    /\ rooms' = <<>> /\ target' = 0 /\ pending' = 0 /\ open' = 0
    /\ token' = IF token = "none" THEN "none" ELSE "stored"
    /\ view' = "RoomList" /\ stack' = <<>> /\ drawn' = 0
    /\ hidden' = {} /\ dropped' = {}
    /\ UNCHANGED <<serverv, session>>

\* As a bug might have it: the poll draws again when the number of rooms changed.
PollCounts(chatty) ==
    /\ stack # <<>> /\ view \in {"RoomList", "Chat"} /\ session
    /\ UNCHANGED <<server, changes, session, target, pending>>
    /\ Answered(FALSE, rooms, server, news, chatty)
    /\ IF view = "RoomList" /\ Len(rooms') # Len(rooms)
       THEN RenderRooms(stack) ELSE UNCHANGED screen

\* plugin_on_tick, when the poll is due: the list is drawn again when it changed.
Poll(chatty) ==
    /\ stack # <<>> /\ view \in {"RoomList", "Chat"} /\ session
    /\ UNCHANGED <<server, changes, session, target, pending>>
    /\ Answered(FALSE, rooms, server, news, chatty)
    /\ IF view = "RoomList" /\ (rooms' # rooms \/ chatty # {})
       THEN RenderRooms(stack) ELSE UNCHANGED screen

\* key_event: [1] while VIEW is RoomList.
SyncKey ==
    /\ stack # <<>> /\ view = "RoomList"
    /\ UNCHANGED <<server, changes, session, target, pending>>
    /\ SyncNow(FALSE, rooms, server, news)
    /\ RenderRooms(stack)

\* The host pops a list or a menu on N.
Back ==
    /\ Len(stack) > 1 /\ Top \in {"rooms", "system", "menu", "menuinv"}
    /\ Show(Under, AfterN)
    /\ UNCHANGED <<serverv, session, token, rooms, ids, lapses>>

\* open_chat, prompt_accept_invite: by the place the row carries.
Select(p) ==
    /\ Top = "rooms" /\ p \in DOMAIN Last(stack).rows
    /\ LET i == Last(stack).rows[p][1]
           r == rooms[i].id
       IN  IF i \notin DOMAIN rooms THEN UNCHANGED <<target, open, screen>>
           ELSE IF rooms[i].invited
           THEN target' = r /\ Show(Append(stack, View("invite", r)), view)
                /\ UNCHANGED open
           ELSE open' = r /\ Show(Append(stack, View("chat", r)), "Chat")
                /\ UNCHANGED target
    /\ UNCHANGED <<serverv, session, token, rooms, pending, lapses>>

\* ACT_ROOM_MENU; the row of an empty list has place 0 and meets no room.
RoomMenu(i) ==
    /\ Top = "rooms"
    /\ LET rows == Last(stack).rows
       IN  IF rows = <<>> THEN i = 0 ELSE \E p \in DOMAIN rows : rows[p][1] = i
    /\ LET met == i \in DOMAIN rooms
       IN  /\ target' = IF met THEN rooms[i].id ELSE 0
           /\ Show(Append(stack, View(IF met /\ rooms[i].invited THEN "menuinv" ELSE "menu",
                                      target')), view)
    /\ UNCHANGED <<serverv, session, token, rooms, pending, open, lapses>>

\* chat_key: N leaves the chat.
LeaveChat ==
    /\ Top = "chat" /\ view = "Chat"
    /\ open' = 0 /\ UNCHANGED <<serverv, session, token, rooms, target, pending, lapses>>
    /\ RenderRooms(Under)

-----------------------------------------------------------------------------
(* Joining and leaving.                                                    *)

\* The room r is joined, added to ROOMS rs, and fetched with a full sync.
Joins(r, rs) ==
    /\ server' = [server EXCEPT ![r] = "joined"]
    /\ UNCHANGED <<changes, session, target, pending>>
    /\ SyncNow(TRUE, rs, server', news \cup {r})

Keeps == UNCHANGED <<serverv, session, token, rooms, ids, lapses>>

\* accept_invite, from the menu or the dialog: MENU_TARGET is joined.
Accept ==
    /\ \/ session /\ target # 0
          /\ Joins(target, [n \in DOMAIN rooms |->
                               IF rooms[n].id = target THEN Room(target, FALSE) ELSE rooms[n]])
       \/ Keeps
    /\ RenderRooms(Under)
InviteDone ==
    /\ Top = "invite"
    /\ Accept \/ (Keeps /\ RenderRooms(Under))

\* client::leave of r succeeds or fails; ROOMS forgets r either way.
Leaves(r) ==
    /\ rooms' = Sift(rooms, {n \in DOMAIN rooms : rooms[n].id # r})
    /\ \/ /\ session /\ server' = [server EXCEPT ![r] = "none"] /\ news' = news \cup {r}
          /\ UNCHANGED dropped
       \/ dropped' = dropped \cup {r} /\ UNCHANGED <<server, news>>
    /\ hidden' = hidden \ {r}
    /\ UNCHANGED <<changes, session, token, target, open>>

\* ctx_pick.
Accepts == Top = "menuinv" /\ Accept
Reject ==
    /\ Top = "menuinv" /\ target # 0
    /\ Leaves(target) /\ UNCHANGED pending
    /\ RenderRooms(Under)
Input ==
    /\ Top = "menu" /\ Show(Append(Under, View("input", 0)), "Composing")
    /\ Keeps
Delete ==
    /\ Top = "menu" /\ target # 0
    /\ pending' = target
    /\ Show(Append(Under, View("delete", target)), view)
    /\ UNCHANGED <<serverv, session, token, rooms, target, open, lapses>>
System ==
    /\ Top \in {"menu", "menuinv"} /\ Show(Append(Under, View("system", 0)), "System")
    /\ Keeps

\* new_room and create_room, or an input that was cancelled or failed.
InputDone(r) ==
    /\ Top = "input"
    /\ \/ session
          /\ Joins(r, IF r \in Listed(rooms) THEN rooms ELSE Append(rooms, Room(r, FALSE)))
       \/ Keeps
    /\ RenderRooms(Under)

\* As a bug might have it: the room of the last menu.
MenuTarget == target

\* ACT_DEL_CONFIRM: delete_confirmed takes PENDING_DELETE.
DeleteTarget == pending

DeleteDone(yes) ==
    /\ Top = "delete"
    /\ pending' = 0
    /\ IF yes /\ DeleteTarget # 0
       THEN Leaves(DeleteTarget)
       ELSE UNCHANGED <<serverv, session, token, rooms, target, open, lapses>>
    /\ RenderRooms(Under)

-----------------------------------------------------------------------------
(* The system list.                                                        *)

\* sys_select; the editor ends in ACT_SYS_*_DONE, which draws the list again.
Edit ==
    /\ Top = "system" /\ Show(Append(stack, View("editor", 0)), "EditingField")
    /\ Keeps
EditDone ==
    /\ Top = "editor"
    /\ Show(Replace(Under, View("system", 0)), "System")
    /\ Keeps
AskReset ==
    /\ Top = "system" /\ Show(Append(stack, View("reset", 0)), view)
    /\ Keeps

\* do_login, when it succeeds: the stored token comes back, then a full sync.
Login ==
    /\ Top = "system"
    /\ session' = TRUE
    /\ UNCHANGED <<server, changes, target, pending>>
    /\ SyncNow(TRUE, rooms, server, news)
    /\ RenderRooms(<<stack[1]>>)

\* ACT_SYS_RESET_CONFIRM; declining it does nothing but the key event.
ResetDone ==
    /\ Top = "reset"
    /\ session' = FALSE /\ token' = "none" /\ rooms' = <<>>
    /\ hidden' = {} /\ dropped' = {}
    /\ UNCHANGED <<serverv, ids>>
    /\ RenderRooms(<<stack[1]>>)
ResetDeclined ==
    /\ Top = "reset" /\ Show(Under, AfterN)
    /\ Keeps

Next ==
    \/ \E r \in Ids, m \in {"none", "invited", "joined"} : Elsewhere(r, m)
    \/ Enter \/ Exit \/ SyncKey \/ Back \/ LeaveChat
    \/ \E chatty \in SUBSET {r \in Ids : server[r] = "joined"} : Poll(chatty)
    \/ \E p \in 1..N : Select(p)
    \/ \E i \in 0..N : RoomMenu(i)
    \/ InviteDone \/ Accepts \/ Reject \/ Input \/ Delete \/ System
    \/ \E r \in Ids : InputDone(r)
    \/ \E yes \in BOOLEAN : DeleteDone(yes)
    \/ Edit \/ EditDone \/ AskReset \/ Login \/ ResetDone \/ ResetDeclined

Spec == Init /\ [][Next]_vars

-----------------------------------------------------------------------------
(* Properties.                                                             *)

\* On the room list drawn last every row still stands for the room it shows
\* when it is on top, so that a tap means the room the user sees (lib.rs,
\* plugin_on_action: "so it always targets the selected room"), whatever syncs,
\* dialogs and chats came between.  An older list that comes back from under it
\* does not have this.
RowsStandForRooms ==
    drawn # 0 /\ drawn = Len(stack) =>
        LET rows == stack[drawn].rows
        IN  /\ Len(rows) = Len(rooms)
            /\ \A p \in DOMAIN rows :
                  rows[p][1] \in DOMAIN rooms /\ rooms[rows[p][1]].id = rows[p][2]

\* After a full sync, as far as the token goes, the list has the rooms of the
\* account and no others, with their invitations; but for leaves a full sync
\* went past, and rooms deleted here that could not be left.
ListIsAccounts ==
    token = "fresh" =>
        \A r \in Ids \ (news \cup hidden \cup dropped) :
            /\ r \in Listed(rooms) <=> server[r] # "none"
            /\ \A n \in DOMAIN rooms :
                  rooms[n].id = r => rooms[n].invited = (server[r] = "invited")

\* Answering a delete dialog leaves the room it names, never another: menus and
\* lists the poll brings up in between retarget MENU_TARGET, not the dialog
\* (delete_confirmed).
DeletesNamed == Top = "delete" => DeleteTarget \in {0, Last(stack).who}

\* The room a reply would go to is a room of the list.
OpenIsListed == open # 0 => open \in Listed(rooms)

\* The list on the screen, the dialogs over it and the room they act on are the
\* account's, whatever syncs, leaves and failed requests came in between.
ListTrue == RowsStandForRooms /\ ListIsAccounts /\ OpenIsListed /\ DeletesNamed
=============================================================================
