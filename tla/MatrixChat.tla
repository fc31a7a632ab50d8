----------------------------- MODULE MatrixChat -----------------------------
(***************************************************************************)
(* plugins/matrix, one room and its chat canvas: /sync and its token, the  *)
(* retained messages, the history pulled into an empty room, the unread    *)
(* mark, the auto-refresh, scrolling, replying and inviting.  The list of  *)
(* several rooms is MatrixRooms, the keys are RoomKeys and InboundKeys.    *)
(*                                                                         *)
(* The server's messages are numbered; a message takes one line.           *)
(***************************************************************************)
EXTENDS Integers, Sequences

CONSTANTS
    Retain,    \* RETAIN, messages kept per room
    Limit,     \* timeline limit of SYNC_FILTER
    Back,      \* messages backfill_history asks for
    Lines,     \* lines of the canvas
    MaxLog     \* bound: messages at the server

VARIABLES
    joined,    \* messages that were there before the account joined
    blocked,   \* the room is encrypted and no backup key is armed
    log,       \* messages at the server
    member,    \* the account is in the room
    tok,       \* next_batch: the messages it is past
    told,      \* next_batch is past the leave
    saved,     \* the token in NVS, as <<tok, told>>
    known,     \* the room is in ROOMS
    messages,  \* its messages
    unread,    \* its unread mark
    open,      \* OPEN_ROOM is the room
    view,      \* VIEW
    stack,     \* the plugin's views, the top last
    scroll,    \* SCROLL
    drawn,     \* the messages on the canvas
    seen,      \* the newest message that was on the canvas or came as history
    ahead      \* history was pulled past the token

serverv == <<joined, blocked, log, member>>
syncv   == <<tok, told, known, messages, unread, open>>
screenv == <<view, stack, scroll, drawn>>
vars    == <<serverv, syncv, saved, screenv, seen, ahead>>

Lesser(a, b)  == IF a < b THEN a ELSE b
Greater(a, b) == IF a > b THEN a ELSE b
Run(a, b) == [n \in 1..Greater(b - a + 1, 0) |-> a + n - 1]
Newest(ms) == IF ms = <<>> THEN 0 ELSE ms[Len(ms)]
Top == IF stack = <<>> THEN "none" ELSE stack[Len(stack)]
Under == SubSeq(stack, 1, Len(stack) - 1)

\* model::push_messages.
PushMessages(buf, incoming) ==
    LET all == buf \o incoming
    IN  SubSeq(all, Greater(Len(all) - Retain, 0) + 1, Len(all))

\* draw_chat: the scroll offset that is kept, and the lines on the canvas.
Clamped(ms, s) == Lesser(s, Greater(Len(ms) - Lines, 0))
Window(ms, s) ==
    LET end == Len(ms) - Clamped(ms, s)
    IN  SubSeq(ms, Greater(end - Lines, 0) + 1, end)

Init ==
    /\ joined \in 0..1 /\ blocked \in BOOLEAN
    /\ log = joined /\ member = TRUE
    /\ tok = 0 /\ told = FALSE /\ saved = <<0, FALSE>>
    /\ known = FALSE /\ messages = <<>> /\ unread = FALSE /\ open = FALSE
    /\ view = "RoomList" /\ stack = <<>> /\ scroll = 0 /\ drawn = <<>>
    /\ seen = 0 /\ ahead = FALSE

-----------------------------------------------------------------------------
(* sync_now.                                                               *)

\* The timeline /sync answers with: the last Limit events after the token, or
\* after the join when there is none.
Timeline(full, upto) ==
    Run(Greater((IF full THEN joined ELSE Greater(tok, joined)) + 1, upto - Limit + 1),
        upto)

\* As a bug might have it: full syncs append like the others.
MergeAppends(full, upto) ==
    LET new  == Timeline(full, upto)
        room == member /\ (full \/ new # <<>>)
        left == ~full /\ ~member /\ ~told
    IN  /\ messages' = IF left THEN <<>>
                       ELSE IF room THEN PushMessages(messages, new) ELSE messages
        /\ known' = (~left /\ (room \/ known))
        /\ unread' = (~left /\ (unread \/ (room /\ ~full /\ new # <<>> /\ ~open)))
        /\ open' = (open /\ ~left)
        /\ tok' = upto /\ told' = ~member

\* The answer is merged; a room that is not told of stays as it is.  upto is
\* how much there is at the server when it answers.
Merge(full, upto) ==
    LET new  == Timeline(full, upto)
        room == member /\ (full \/ new # <<>>)
        left == ~full /\ ~member /\ ~told
        old  == IF known /\ ~full THEN messages ELSE <<>>
    IN  /\ messages' = IF left THEN <<>>
                       ELSE IF room THEN PushMessages(old, new) ELSE messages
        /\ known' = (~left /\ (room \/ known))
        /\ unread' = /\ ~left
                     /\ \/ unread
                        \/ room /\ ~full /\ new # <<>> /\ ~open
        /\ open' = (open /\ ~left)
        /\ tok' = upto /\ told' = ~member

SyncNow(full, upto) ==
    \/ Merge(full, upto)
    \/ UNCHANGED syncv

\* The user has seen the retained messages once they are drawn, and takes a
\* full sync for history.
Sees(all) == seen' = IF all THEN Greater(seen, Newest(messages')) ELSE seen

\* show_open_chat, after a sync: nothing when no room is open.
ShowOpenChat(s) ==
    /\ view' = IF open' THEN "Chat" ELSE view
    /\ scroll' = IF open' THEN Clamped(messages', s) ELSE s
    /\ drawn' = IF open' THEN Window(messages', s) ELSE drawn
    /\ Sees(open')

-----------------------------------------------------------------------------
(* The server.                                                             *)

\* Somebody writes to the room, or the account leaves it elsewhere.
Arrives ==
    /\ member /\ log < MaxLog
    /\ log' = log + 1
    /\ UNCHANGED <<joined, blocked, member, syncv, saved, screenv, seen, ahead>>
LeftElsewhere ==
    /\ member /\ member' = FALSE
    /\ UNCHANGED <<joined, blocked, log, syncv, saved, screenv, seen, ahead>>

-----------------------------------------------------------------------------
(* The plugin.                                                             *)

\* plugin_on_enter: a full sync, from the stored session.
Enter ==
    /\ stack = <<>>
    /\ stack' = <<"list">> /\ view' = "RoomList"
    /\ \/ Merge(TRUE, log)
       \/ tok' = saved[1] /\ told' = saved[2] /\ UNCHANGED <<known, messages, unread, open>>
    /\ Sees(TRUE)
    /\ UNCHANGED <<serverv, saved, scroll, drawn, ahead>>

\* plugin_on_exit flushes the token; a power loss does not.
Stop(flushed) ==
    /\ stack # <<>>
    /\ saved' = IF flushed THEN <<tok, told>> ELSE saved
    /\ known' = FALSE /\ messages' = <<>> /\ unread' = FALSE /\ open' = FALSE
    /\ view' = "RoomList" /\ stack' = <<>> /\ scroll' = 0 /\ drawn' = <<>>
    /\ seen' = 0 /\ ahead' = FALSE
    /\ UNCHANGED <<serverv, tok, told>>

\* client::room_messages: the newest Back messages, whatever the token is past.
RoomMessages == Run(Greater(1, log - Back + 1), log)

\* backfill_history, when nothing is retained; the request may fail.
History == IF messages = <<>> THEN {<<>>, RoomMessages} ELSE {<<>>}

\* open_chat.
OpenChat ==
    /\ Top = "list" /\ view = "RoomList" /\ known
    /\ \E history \in History :
          /\ messages' = PushMessages(messages, history)
          /\ ahead' = (ahead \/ Newest(history) > tok)
    /\ open' = TRUE /\ unread' = FALSE
    /\ view' = "Chat" /\ scroll' = 0 /\ stack' = Append(stack, "chat")
    /\ drawn' = Window(messages', 0) /\ Sees(TRUE)
    /\ UNCHANGED <<serverv, tok, told, saved, known>>

\* accept_invite, new_room, create_room for another room: a full sync.
JoinOther ==
    /\ Top = "list" /\ view = "RoomList"
    /\ SyncNow(TRUE, log) /\ Sees(TRUE)
    /\ UNCHANGED <<serverv, saved, screenv, ahead>>

\* As a bug might have it: an open chat waits for a key to be drawn again.
PollListOnly ==
    /\ stack # <<>> /\ view \in {"RoomList", "Chat"}
    /\ SyncNow(FALSE, log)
    /\ UNCHANGED <<serverv, saved, screenv, seen, ahead>>

\* plugin_on_tick, when the poll is due: the open chat is drawn again when the
\* number of its messages changed.
Poll ==
    /\ stack # <<>> /\ view \in {"RoomList", "Chat"}
    /\ SyncNow(FALSE, log)
    /\ LET len(o, ms) == IF o THEN Len(ms) ELSE 0
       IN  IF view = "Chat" /\ len(open', messages') # len(open, messages)
           THEN ShowOpenChat(scroll)
           ELSE UNCHANGED <<view, scroll, drawn, seen>>
    /\ UNCHANGED <<serverv, saved, stack, ahead>>

\* key_event: [1] on the room list.
SyncKey ==
    /\ stack # <<>> /\ view = "RoomList"
    /\ SyncNow(FALSE, log)
    /\ UNCHANGED <<serverv, saved, screenv, seen, ahead>>

\* chat_key.
Key == Top = "chat" /\ view = "Chat"
Scroll(s) ==
    /\ Key /\ s \in {scroll + 1, Greater(scroll - 1, 0)}
    /\ UNCHANGED <<serverv, syncv, saved, stack, ahead>>
    /\ ShowOpenChat(s)
Write ==
    /\ Key /\ ~(open /\ blocked)
    /\ stack' = Append(stack, "reply") /\ view' = "Composing"
    /\ UNCHANGED <<serverv, syncv, saved, scroll, drawn, seen, ahead>>
Menu ==
    /\ Key
    /\ stack' = Append(stack, "menu")
    /\ UNCHANGED <<serverv, syncv, saved, view, scroll, drawn, seen, ahead>>
\* As a bug might have it: the room stays open behind the list.
LeaveStillOpen ==
    /\ Key
    /\ stack' = Under /\ view' = "RoomList"
    /\ UNCHANGED <<serverv, syncv, saved, scroll, drawn, seen, ahead>>
Leave ==
    /\ Key
    /\ stack' = Under /\ open' = FALSE /\ view' = "RoomList"
    /\ UNCHANGED <<serverv, tok, told, known, messages, unread, saved, scroll, drawn, seen, ahead>>

\* ctx_pick CTX_INVITE; the host closes the menu on N.
Invite ==
    /\ Top = "menu"
    /\ stack' = Append(Under, "invite") /\ view' = "Composing"
    /\ UNCHANGED <<serverv, syncv, saved, scroll, drawn, seen, ahead>>
CloseMenu ==
    /\ Top = "menu" /\ stack' = Under
    /\ UNCHANGED <<serverv, syncv, saved, view, scroll, drawn, seen, ahead>>

\* As a bug might have it: a cancelled input only closes.
InputDoneOnly ==
    /\ Top \in {"invite", "reply"} /\ stack' = Under
    /\ UNCHANGED <<serverv, syncv, saved, view, scroll, drawn, seen, ahead>>

\* ACT_INVITE_USER_DONE and ACT_CHAT_REPLY_DONE when it was cancelled.
InputDone ==
    /\ Top \in {"invite", "reply"}
    /\ stack' = Under
    /\ UNCHANGED <<serverv, syncv, saved, ahead>>
    /\ ShowOpenChat(scroll)

\* client::send_text, when it arrives.
SendText ==
    /\ member /\ log < MaxLog
    /\ log' = log + 1 /\ UNCHANGED <<joined, blocked, member>>

\* reply_done: the message is sent and fetched back; when it is not sent, or
\* nothing was entered, the chat is only drawn.
ReplyDone ==
    /\ Top = "reply"
    /\ stack' = Under
    /\ IF ~open
       THEN view' = "Chat" /\ UNCHANGED <<serverv, syncv, scroll, drawn, seen>>
       ELSE /\ \/ UNCHANGED <<serverv, syncv>>
               \/ SendText /\ SyncNow(FALSE, log + 1)
            /\ ShowOpenChat(0)
    /\ UNCHANGED <<saved, ahead>>

Next ==
    \/ Arrives \/ LeftElsewhere
    \/ Enter \/ \E flushed \in BOOLEAN : Stop(flushed)
    \/ OpenChat \/ JoinOther \/ Poll \/ SyncKey
    \/ \E s \in 0..Retain : Scroll(s)
    \/ Write \/ Menu \/ Leave \/ Invite \/ CloseMenu \/ InputDone \/ ReplyDone

Spec == Init /\ [][Next]_vars

-----------------------------------------------------------------------------
(* Properties.                                                             *)

\* The chat on the screen shows what is retained: the poll draws it again when
\* messages arrived (lib.rs, plugin_on_tick: "The chat canvas is redrawn only
\* when new messages actually arrived").  It does not once RETAIN messages are
\* kept: their number no longer changes.
ChatIsCurrent ==
    Top = "chat" /\ view = "Chat" /\ open => drawn = Window(messages, scroll)

\* As far as that goes: below RETAIN the chat is current after every poll, key,
\* reply, cancelled input and sync, whatever failed in between.
CurrentBelowCap == Len(messages) < Retain => ChatIsCurrent

\* Full and incremental syncs, the token stored at the last exit and the
\* history of an empty room never make a message appear twice or out of order,
\* unless the history held what the token had not passed.
NoneTwice ==
    ~ahead => \A i, j \in DOMAIN messages : i < j => messages[i] < messages[j]

\* A message that came with an incremental sync and was not on the screen is
\* marked, wherever the user was when it came.
NewIsMarked ==
    known /\ Newest(messages) > seen /\ Len(messages) < Retain
        => unread \/ (\E i \in DOMAIN stack : stack[i] = "chat")

\* The canvas answers its keys: chat_key ignores them unless VIEW is Chat, so
\* every way back to the canvas restores VIEW, as long as its room is listed.
KeysReachChat == Top = "chat" /\ open => view = "Chat"

\* The chat is what the room is: current as far as the poll can tell, complete,
\* marked and answering its keys.
ChatTrue == CurrentBelowCap /\ NoneTwice /\ NewIsMarked /\ KeysReachChat
=============================================================================
