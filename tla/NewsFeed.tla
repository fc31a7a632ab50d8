------------------------------ MODULE NewsFeed ------------------------------
(***************************************************************************)
(* examples/news_feed: a feed is fetched, parsed and listed; [1] fetches   *)
(* it again, the menu key edits its URL, a headline opens in a view.       *)
(*                                                                         *)
(* The host queues the plugin's actions.  A key press is published to the  *)
(* KEY_PRESSED subscription whatever view is on top; a list that is covered *)
(* or uncovered sends ACTION_LIST_HIDE or ACTION_LIST_SHOW.                *)
(*                                                                         *)
(* A document is a sequence of tokens: the tags of an entry or an item, a  *)
(* title, an empty title.  A title is known by its place in the document.  *)
(***************************************************************************)
EXTENDS Integers, Sequences, SequencesExt

CONSTANTS
    Feeds,         \* what the server may have, as sequences of blocks
    MaxHeadlines,  \* MAX_HEADLINES
    MaxQueue,      \* bound: actions that wait for the plugin
    MaxDepth       \* bound: views on the stack

VARIABLES
    feed,       \* the document at the default URL; the other URL has Other
    stored,     \* NVS url
    url,        \* CURRENT_URL
    headlines,  \* HEADLINES
    editing,    \* EDITING_URL
    covered,    \* LIST_COVERED
    stack,      \* the plugin's views, the top last
    queue,      \* actions the host has queued
    hasty       \* a key was pressed before the plugin handled an earlier one

data == <<stored, url, headlines, editing, covered>>
vars == <<feed, data, stack, queue, hasty>>

Tokens == {"<entry", "</entry>", "<item", "</item>", "title", "empty"}
Urls == {"default", "other"}
Other == <<"<item", "title", "</item>">>
Body(u) == IF u = "default" THEN feed ELSE Other

-----------------------------------------------------------------------------
(* parse_feed_entries.                                                     *)

\* The first place of tok from place c on, 0 when there is none.
Find(b, tok, c) ==
    IF \E n \in c..Len(b) : b[n] = tok
    THEN CHOOSE n \in c..Len(b) : b[n] = tok /\ \A k \in c..(n - 1) : b[k] # tok
    ELSE 0

\* As a bug might have it: the title is looked for behind the entry, too.
ExtractFirstEntryOpen(b, s, e) ==
    LET t == CHOOSE n \in (s..Len(b)) \cup {0} :
                 /\ n # 0 => b[n] \in {"title", "empty"}
                 /\ \A k \in s..(IF n = 0 THEN Len(b) ELSE n - 1) : b[k] \notin {"title", "empty"}
    IN  IF t # 0 /\ b[t] = "title" THEN <<t>> ELSE <<>>

\* extract_first_entry: the first title of the block, unless it is empty.
ExtractFirstEntry(b, s, e) ==
    LET t == CHOOSE n \in (s..(e - 1)) \cup {0} :
                 /\ n # 0 => b[n] \in {"title", "empty"}
                 /\ \A k \in s..((IF n = 0 THEN e ELSE n) - 1) : b[k] \notin {"title", "empty"}
    IN  IF t # 0 /\ b[t] = "title" THEN <<t>> ELSE <<>>

\* The tags of an entry: those of Atom when the document has one.
Tags(b) ==
    IF Contains(b, "<entry") THEN <<"<entry", "</entry>">> ELSE <<"<item", "</item>">>

\* One round of the loop, which looks for one more entry behind the last one.
ReadEntry(b, st) ==
    LET s == Find(b, Tags(b)[1], st.cursor)
        e == IF s = 0 THEN 0 ELSE Find(b, Tags(b)[2], s)
    IN  IF Len(st.titles) < MaxHeadlines /\ e # 0
        THEN [cursor |-> e + 1, titles |-> st.titles \o ExtractFirstEntry(b, s, e)]
        ELSE st

\* There are fewer rounds than tokens.
ParseFeedEntries(b) ==
    LET after[n \in 0..Len(b)] ==
            IF n = 0 THEN [cursor |-> 1, titles |-> <<>>] ELSE ReadEntry(b, after[n - 1])
    IN  after[Len(b)].titles

-----------------------------------------------------------------------------
(* Views.                                                                  *)

Top == IF stack = <<>> THEN "none" ELSE Last(stack).v
View(v) == [v |-> v, rows |-> <<>>]

\* A view is pushed over s, or the top of s closes: a list is told of it.
Pushed(s, q, v) ==
    /\ stack' = Append(s, v)
    /\ queue' = IF s # <<>> /\ Last(s).v = "list" THEN Append(q, <<"hide">>) ELSE q
Closed(q) ==
    /\ stack' = Front(stack)
    /\ queue' = IF stack' # <<>> /\ Last(stack').v = "list" THEN Append(q, <<"show">>) ELSE q

\* fetch_body and what of it is shown; nothing when the fetch fails.
Fetched(u) == {<<>>, ParseFeedEntries(Body(u))}

\* current_url: an empty value in NVS counts as none.
CurrentUrl == IF stored' = "" THEN "default" ELSE stored'

\* As a bug might have it: a failed fetch keeps the headlines.
FetchAndRenderKeeps(q) ==
    /\ url' = CurrentUrl
    /\ \E rows \in Fetched(CurrentUrl) :
          /\ headlines' = IF rows = <<>> THEN headlines ELSE rows
          /\ LET list == [v |-> "list", rows |-> rows]
             IN  IF Top = "list"
                 THEN stack' = Append(Front(stack), list) /\ queue' = q
                 ELSE Pushed(stack, q, list)
    /\ covered' = FALSE

\* fetch_and_render: the list on top is replaced, else one is pushed.
FetchAndRender(q) ==
    /\ url' = CurrentUrl
    /\ \E rows \in Fetched(CurrentUrl) :
          /\ headlines' = rows
          /\ LET list == [v |-> "list", rows |-> rows]
             IN  IF Top = "list"
                 THEN stack' = Append(Front(stack), list) /\ queue' = q
                 ELSE Pushed(stack, q, list)
    /\ covered' = FALSE

Init ==
    /\ feed \in Feeds
    /\ stored = "" /\ url = "" /\ headlines = <<>>
    /\ editing = FALSE /\ covered = FALSE
    /\ stack = <<>> /\ queue = <<>> /\ hasty = FALSE

\* plugin_on_enter and plugin_on_exit: the flags stay as they are while the
\* plugin stays loaded.
Enter ==
    /\ stack = <<>>
    /\ UNCHANGED <<feed, stored, editing, hasty>>
    /\ FetchAndRender(<<>>)
Exit ==
    /\ Top = "list" /\ Len(stack) = 1
    /\ headlines' = <<>> /\ url' = "" /\ stack' = <<>> /\ queue' = <<>>
    /\ editing' \in {editing, FALSE} /\ hasty' = (hasty \/ queue # <<>>)
    /\ UNCHANGED <<feed, stored, covered>>

-----------------------------------------------------------------------------
(* The user.                                                               *)

Press(actions) ==
    /\ Len(queue) < MaxQueue /\ Len(stack) + Len(queue) < MaxDepth
    /\ hasty' = (hasty \/ queue # <<>>)
    /\ queue' = queue \o actions
    /\ UNCHANGED <<feed, data, stack>>

Reload   == stack # <<>> /\ Press(<<<<"key">>>>)
Tap      == Top = "list" /\ \E i \in 1..2 : Press(<<<<"view", i>>>>)
MenuKey  == Top = "list" /\ Press(<<<<"edit">>>>)

\* A headline closes, or the list over another view.
Back ==
    /\ Len(stack) > 1 /\ Top \in {"info", "list"} /\ Len(queue) < MaxQueue
    /\ hasty' = (hasty \/ queue # <<>>)
    /\ Closed(queue)
    /\ UNCHANGED <<feed, data>>

\* The editor closes, with a URL, with "" or cancelled; then its action comes.
EditorCloses(u) ==
    /\ Top = "editor" /\ Len(queue) < MaxQueue
    /\ hasty' = (hasty \/ queue # <<>>)
    /\ stack' = Front(stack)
    /\ queue' = IF Last(Front(stack)).v = "list" THEN queue \o <<<<"show">>, <<"done", u>>>>
                ELSE Append(queue, <<"done", u>>)
    /\ UNCHANGED <<feed, data>>

-----------------------------------------------------------------------------
(* plugin_on_action.                                                       *)

Rest == Tail(queue)
Handles(a) == queue # <<>> /\ Head(queue)[1] = a

ViewTitle ==
    /\ Handles("view")
    /\ IF Head(queue)[2] \in DOMAIN headlines
       THEN Pushed(stack, Rest, View("info"))
       ELSE queue' = Rest /\ UNCHANGED stack
    /\ UNCHANGED <<feed, data, hasty>>

EditUrl ==
    /\ Handles("edit")
    /\ editing' = TRUE
    /\ Pushed(stack, Rest, View("editor"))
    /\ UNCHANGED <<feed, stored, url, headlines, covered, hasty>>

\* As a bug might have it: the hotkey works everywhere.
MayReloadAlways == TRUE

\* The hotkey stands down in the editor and while the list is covered.
MayReload == ~editing /\ ~covered

KeyEvent ==
    /\ Handles("key")
    /\ UNCHANGED <<feed, stored, editing, hasty>>
    /\ IF MayReload THEN FetchAndRender(Rest)
       ELSE queue' = Rest /\ UNCHANGED <<url, headlines, covered, stack>>

ListHidden ==
    /\ Handles("hide") /\ covered' = TRUE /\ queue' = Rest
    /\ UNCHANGED <<feed, stored, url, headlines, editing, stack, hasty>>
ListShown ==
    /\ Handles("show") /\ covered' = FALSE /\ queue' = Rest
    /\ UNCHANGED <<feed, stored, url, headlines, editing, stack, hasty>>

\* As a bug might have it: a cancelled editor leaves the hotkey off.
EditUrlDoneCancelled ==
    /\ Handles("done")
    /\ editing' = (editing /\ Head(queue)[2] = "")
    /\ stored' \in {stored, IF Head(queue)[2] = "" THEN stored ELSE Head(queue)[2]}
    /\ UNCHANGED <<feed, hasty>>
    /\ FetchAndRender(Rest)

EditUrlDone ==
    /\ Handles("done")
    /\ editing' = FALSE
    /\ stored' \in {stored, IF Head(queue)[2] = "" THEN stored ELSE Head(queue)[2]}
    /\ UNCHANGED <<feed, hasty>>
    /\ FetchAndRender(Rest)

Next ==
    \/ Enter \/ Exit \/ Reload \/ Tap \/ MenuKey \/ Back
    \/ \E u \in Urls \cup {""} : EditorCloses(u)
    \/ ViewTitle \/ EditUrl \/ KeyEvent \/ ListHidden \/ ListShown \/ EditUrlDone

Spec == Init /\ [][Next]_vars

-----------------------------------------------------------------------------
(* Properties.                                                             *)

\* Pressing [1] never puts a list over the editor or an opened headline
\* (EDITING_URL: "otherwise pressing '1' inside the editor re-fetches and pushes
\* a fresh list over the T9 dialog"), as long as every press is handled before
\* the next one: the list hears of being covered only afterwards.
OneList == ~hasty => \A i \in DOMAIN stack : stack[i].v = "list" => i = 1

\* The hotkey is never lost: with the list on top and nothing under way neither
\* flag is set, however the editor and the headlines were closed.
HotkeyArmed == ~hasty /\ queue = <<>> /\ Top = "list" => MayReload

\* A tap opens the headline the row shows, and the row of a failed or empty
\* fetch opens nothing.
RowsAreHeadlines == ~hasty /\ Top = "list" => Last(stack).rows = headlines

\* What a well-formed feed lists: the title of every entry that has one as its
\* first, in order, up to the cap, and never the title of the feed.
WellFormed(b) ==
    LET tags == Tags(b)
        opens(n)  == {k \in 1..n : b[k] = tags[1]}
        closes(n) == {k \in 1..n : b[k] = tags[2]}
        depth(n)  == IF opens(n) = {} THEN 0
                     ELSE LET last == CHOOSE k \in opens(n) : \A j \in opens(n) : j <= k
                          IN  IF \E k \in closes(n) : k > last THEN 0 ELSE 1
    IN  /\ depth(Len(b)) = 0
        /\ \A n \in DOMAIN b : b[n] = tags[1] => n = 1 \/ depth(n - 1) = 0
TitlesOf(b) ==
    {t \in DOMAIN b :
        /\ b[t] = "title"
        /\ \E s \in 1..(t - 1) :
              b[s] = Tags(b)[1] /\ \A k \in (s + 1)..(t - 1) :
                                       b[k] \notin {"title", "empty", Tags(b)[2]}}
ListsEntries ==
    headlines # <<>> /\ WellFormed(Body(url)) =>
        LET titles == TitlesOf(Body(url))
            listed == {headlines[i] : i \in DOMAIN headlines}
        IN  /\ listed \subseteq titles /\ Len(headlines) <= MaxHeadlines
            /\ \A i, j \in DOMAIN headlines : i < j => headlines[i] < headlines[j]
            /\ \A t \in titles \ listed : /\ Len(headlines) = MaxHeadlines
                                       /\ \A n \in listed : n < t

\* The list is the feed's and stays in reach, over reloads, editors and headlines
\* in any order.
FeedAsShown == OneList /\ HotkeyArmed /\ RowsAreHeadlines /\ ListsEntries
=============================================================================
