--------------------------- MODULE HomeAssistant ---------------------------
(***************************************************************************)
(* plugins/home_assistant without the climate editor (HomeClimate): the    *)
(* favourites and their copy in NVS, the entities fetched for them, the    *)
(* browse list, the setup wizard, and the host's stack of views.           *)
(*                                                                         *)
(* A list view keeps the rows it was drawn with, pairs of the place an item *)
(* carries and the entity it shows; the handlers look the place up in      *)
(* ENTITIES or BROWSE as they are when it is pressed.  A dialog closes     *)
(* before its action is delivered.  An entity is its number in the browse  *)
(* order (name, then id); its state and what the rows say of it are        *)
(* HomeStates.                                                             *)
(***************************************************************************)
EXTENDS Integers, Sequences, SequencesExt

CONSTANTS
    Ids,       \* entities, numbered in the order of their names
    Dom,       \* Domain of an entity
    Hosts,     \* what the user may enter as host
    Filters,   \* filters the user may pick, "all" or a domain
    Searches,  \* what the search texts the user may enter match
    Servers,   \* sets of entities the server may have
    MaxFavs,   \* MAX_FAVS
    MaxRows,   \* bound: rows of a list
    MaxDepth   \* bound: views on the stack

VARIABLES
    fault,     \* what may fail: "none", "nvs" (writes) or "rmem" (reads)
    server,    \* the entities the server has
    nvs,       \* NVS: host, https, favs
    token,     \* rmem holds a token
    favs,      \* FAVS
    entities,  \* ENTITIES
    selected,  \* SELECTED, 0 for None
    pending,   \* PENDING_REMOVE, 0 for None
    browse,    \* BROWSE: all, filter, search
    wizard,    \* WIZARD.host
    stack,     \* the plugin's views, the top last; empty while not running
    agreed,    \* hosts the user accepted plain HTTP for
    refined    \* a browse list has been filtered or searched

ha    == <<favs, entities, selected, pending, browse, wizard>>
store == <<nvs, token>>
ghost == <<agreed, refined>>
vars  == <<fault, server, store, ha, stack, ghost>>

Lists   == {"home", "browse", "filter"}
Dialogs == {"menu", "remove", "reset", "host", "http", "token",
            "brightness", "color", "position", "climate", "search"}
View    == [v : Lists \cup Dialogs, rows : SUBSET ((1..MaxRows) \X Ids)]
NoBrowse == [all |-> <<>>, filter |-> "all", search |-> Ids]

\* Types; the favourites are distinct and never more than MAX_FAVS.
TypeOK ==
    /\ fault \in {"none", "nvs", "rmem"}
    /\ server \subseteq Ids
    /\ nvs.host \in Hosts \cup {""} /\ nvs.https \in BOOLEAN
    /\ nvs.favs \in Seq(Ids)
    /\ token \in BOOLEAN
    /\ favs \in Seq(Ids) /\ Len(favs) <= MaxFavs /\ IsInjective(favs)
    /\ entities \in Seq(Ids)
    /\ selected \in Ids \cup {0}
    /\ pending \in 0..MaxFavs
    /\ browse.all \in Seq(Ids) /\ browse.filter \in Filters
    /\ browse.search \subseteq Ids
    /\ wizard \in Hosts \cup {""}
    /\ stack \in Seq(View) /\ Len(stack) <= MaxDepth
    /\ agreed \subseteq Hosts /\ refined \in BOOLEAN

Init ==
    /\ fault \in {"none", "nvs", "rmem"}
    /\ server = Ids
    /\ nvs = [host |-> "", https |-> FALSE, favs |-> <<>>] /\ token = FALSE
    /\ favs = <<>> /\ entities = <<>> /\ selected = 0 /\ pending = 0
    /\ browse = NoBrowse /\ wizard = ""
    /\ stack = <<>> /\ agreed = {} /\ refined = FALSE

-----------------------------------------------------------------------------
(* Views.                                                                  *)

Top     == IF stack = <<>> THEN "none" ELSE Last(stack).v
Rows    == Last(stack).rows
Dialog(d) == [v |-> d, rows |-> {}]
Places(list) == {<<n, list[n]>> : n \in DOMAIN list}
Pop(s)  == Front(s)
Push(s, v) == Append(s, v)
\* ListBuilder::replace: a list on top is replaced, else one is pushed.
Replace(s, v) ==
    IF s # <<>> /\ Last(s).v \in Lists THEN Append(Front(s), v) ELSE Append(s, v)

Open(d) == stack' = Push(stack, Dialog(d)) /\ Len(stack) < MaxDepth

\* ha_host and ha_token both have something; a failed read of the token counts
\* as none.
Configured(n, t) == IF n.host # "" /\ t THEN (IF fault = "rmem" THEN BOOLEAN ELSE {TRUE}) ELSE {FALSE}

\* base_url: the scheme requests go out with.
Scheme == IF nvs.https THEN "https" ELSE "http"

\* home_render over the views s: one entity per favourite when configured.
HomeRender(s) ==
    \E configured \in Configured(nvs', token') :
        /\ entities' = IF configured THEN favs' ELSE <<>>
        /\ stack' = Replace(s, [v |-> "home", rows |-> Places(entities')])
        /\ Len(stack') <= MaxDepth

\* home_redraw_only.
HomeRedraw == stack' = Replace(stack, [v |-> "home", rows |-> Places(entities)])

\* A write to NVS arrives, unless writes may fail.
Written(old, new) == IF fault = "nvs" THEN {old, new} ELSE {new}

-----------------------------------------------------------------------------
(* Home view.                                                              *)

\* plugin_on_enter.
Enter ==
    /\ stack = <<>>
    /\ favs' = nvs.favs
    /\ UNCHANGED <<fault, server, store, selected, pending, browse, wizard, ghost>>
    /\ HomeRender(<<>>)

\* plugin_on_exit; the statics it leaves alone are those of the next entry.
Exit ==
    /\ stack # <<>>
    /\ selected' = 0 /\ pending' = 0
    /\ browse' = [browse EXCEPT !.all = <<>>]
    /\ stack' = <<>>
    /\ UNCHANGED <<fault, server, store, favs, entities, wizard, ghost>>

\* The host pops a list or the context menu.
Back ==
    /\ Len(stack) > 1 /\ Top \in Lists \cup {"menu"}
    /\ stack' = Pop(stack)
    /\ UNCHANGED <<fault, server, store, ha, ghost>>

\* home_handle_select: toggle, run, show, or open an editor.
HomeSelect(i) ==
    /\ Top = "home" /\ \E e \in Ids : <<i, e>> \in Rows
    /\ selected' = IF i \in DOMAIN entities THEN entities[i] ELSE selected
    /\ IF i \notin DOMAIN entities THEN Open("menu")
       ELSE CASE Dom[entities[i]] = "cover"   -> Open("position")
              [] Dom[entities[i]] = "climate" -> Open("climate") \/ UNCHANGED stack
              [] Dom[entities[i]] = "light"   -> HomeRedraw \/ UNCHANGED stack
              [] OTHER                        -> UNCHANGED stack
    /\ UNCHANGED <<fault, server, store, favs, entities, pending, browse, wizard, ghost>>

\* ACT_HOME_MENU on row i, or on an empty list.
HomeMenu(i) ==
    /\ Top = "home" /\ (Rows = {} \/ \E e \in Ids : <<i, e>> \in Rows)
    /\ selected' = IF i \in DOMAIN entities THEN entities[i] ELSE selected
    /\ Open("menu")
    /\ UNCHANGED <<fault, server, store, favs, entities, pending, browse, wizard, ghost>>

\* Mutation: the row under the cursor is taken from the favourites' end.
FirstRow == IF selected = 0 \/ entities = <<>> THEN 1 ELSE Len(entities)

\* home_ctx_pick: position of the selected entity, 0 (here 1) when not found.
SelectedIdx ==
    IF Contains(entities, selected)
    THEN CHOOSE i \in DOMAIN entities : entities[i] = selected ELSE 1

\* CTX_BRIGHTNESS, CTX_COLOR, CTX_COVER_POSITION, CTX_SETUP, CTX_EDIT_TOKEN,
\* CTX_RESET and CTX_REMOVE: the menu closes, a dialog opens.
CtxPick(d) ==
    /\ Top = "menu"
    /\ CASE d \in {"brightness", "color"} -> selected # 0 /\ Dom[selected] = "light"
         [] d = "position" -> selected # 0 /\ Dom[selected] = "cover"
         [] d = "remove"   -> selected # 0
         [] OTHER          -> d \in {"host", "token", "reset"}
    /\ stack' = Push(Pop(stack), Dialog(d))
    /\ pending' = IF d = "remove" THEN SelectedIdx ELSE pending
    /\ UNCHANGED <<fault, server, store, favs, entities, selected, browse, wizard, ghost>>

\* ACT_LIGHT_BRIGHT_DONE, ACT_LIGHT_COLOR_PICK, ACT_COVER_POS_DONE and the end
\* of the climate editor: home_render, unless a save failed.
EditDone ==
    /\ Top \in {"brightness", "color", "position", "climate"}
    /\ UNCHANGED <<fault, server, store, favs, selected, pending, browse, wizard, ghost>>
    /\ \/ HomeRender(Pop(stack))
       \/ Top # "climate" /\ stack' = Pop(stack) /\ UNCHANGED entities

\* Mutation: the list in NVS is left as it is.
RemoveUnsaved(yes) ==
    /\ Top = "remove"
    /\ pending' = 0
    /\ IF yes /\ pending # 0
       THEN /\ favs' = IF pending <= Len(favs) THEN RemoveAt(favs, pending) ELSE favs
            /\ selected' = 0
       ELSE UNCHANGED <<favs, selected>>
    /\ UNCHANGED nvs
    /\ UNCHANGED <<fault, server, token, browse, wizard, ghost>>
    /\ HomeRender(Pop(stack))

\* Mutation: the entity goes and the list on the screen is not drawn again.
RemoveUndrawn(yes) ==
    /\ Top = "remove"
    /\ pending' = 0
    /\ IF yes /\ pending # 0
       THEN /\ favs' = IF pending <= Len(favs) THEN RemoveAt(favs, pending) ELSE favs
            /\ selected' = 0
            /\ nvs' \in Written(nvs, [nvs EXCEPT !.favs = favs'])
       ELSE UNCHANGED <<favs, selected, nvs>>
    /\ UNCHANGED <<fault, server, token, browse, wizard, ghost>>
    /\ entities' = favs' /\ stack' = Pop(stack)

\* ACT_REMOVE_FAV_CONFIRM.
RemoveConfirm(yes) ==
    /\ Top = "remove"
    /\ pending' = 0
    /\ IF yes /\ pending # 0
       THEN /\ favs' = IF pending <= Len(favs) THEN RemoveAt(favs, pending) ELSE favs
            /\ selected' = 0
            /\ nvs' \in Written(nvs, [nvs EXCEPT !.favs = favs'])
       ELSE UNCHANGED <<favs, selected, nvs>>
    /\ UNCHANGED <<fault, server, token, browse, wizard, ghost>>
    /\ HomeRender(Pop(stack))

\* ACT_RESET_CONFIRM: reset_all erases NVS and token and clears the statics.
ResetConfirm(yes) ==
    /\ Top = "reset"
    /\ IF yes
       THEN /\ nvs' \in Written(nvs, [host |-> "", https |-> FALSE, favs |-> <<>>])
            /\ token' \in Written(token, FALSE)
            /\ favs' = <<>> /\ selected' = 0
            /\ browse' = [browse EXCEPT !.all = <<>>]
       ELSE UNCHANGED <<store, favs, selected, browse>>
    /\ UNCHANGED <<fault, server, pending, wizard, ghost>>
    /\ HomeRender(Pop(stack))

-----------------------------------------------------------------------------
(* Browse view.                                                            *)

\* browse_rebuild_visible: the rows that pass the filter and the search.
Visible(b) ==
    {r \in Places(b.all) : b.filter \in {"all", Dom[r[2]]} /\ r[2] \in b.search}

\* fetch_template_all, sorted as browse_open does.
FetchAll ==
    CHOOSE list \in [1..Cardinality(server) -> server] :
        \A i, j \in DOMAIN list : i < j => list[i] < list[j]

\* CTX_BROWSE, browse_open: fetch, reset the filter, push the list; when the
\* fetch fails only the menu closes.
BrowseOpen ==
    /\ Top = "menu" /\ TRUE \in Configured(nvs, token)
    /\ \/ /\ browse' = [NoBrowse EXCEPT !.all = FetchAll]
          /\ stack' = Push(Pop(stack), [v |-> "browse", rows |-> Visible(browse')])
       \/ stack' = Pop(stack) /\ UNCHANGED browse
    /\ UNCHANGED <<fault, server, store, favs, entities, selected, pending, wizard, ghost>>

\* browse_open_filter_menu.
FilterMenu ==
    /\ Top = "browse"
    /\ stack' = Push(stack, Dialog("filter")) /\ Len(stack) < MaxDepth
    /\ UNCHANGED <<fault, server, store, ha, ghost>>

\* browse_filter_pick: the filter list goes, a browse list is pushed.
FilterPick(f) ==
    /\ Top = "filter"
    /\ browse' = [browse EXCEPT !.filter = f]
    /\ stack' = Push(Pop(stack), [v |-> "browse", rows |-> Visible(browse')])
    /\ refined' = TRUE
    /\ UNCHANGED <<fault, server, store, favs, entities, selected, pending, wizard, agreed>>

\* browse_filter_pick, FILTER_SEARCH.
SearchStart ==
    /\ Top = "filter"
    /\ stack' = Push(Pop(stack), Dialog("search"))
    /\ UNCHANGED <<fault, server, store, ha, ghost>>

\* browse_search_done, with what the text matches or cancelled.
SearchDone(match) ==
    /\ Top = "search"
    /\ browse' = [browse EXCEPT !.search = match]
    /\ stack' = Push(Pop(stack), [v |-> "browse", rows |-> Visible(browse')])
    /\ refined' = TRUE
    /\ UNCHANGED <<fault, server, store, favs, entities, selected, pending, wizard, agreed>>

\* Mutation: a favourite may be added twice, and past the cap.
BrowseSelectAny(n) ==
    /\ Top = "browse" /\ n \in DOMAIN browse.all /\ \E e \in Ids : <<n, e>> \in Rows
    /\ favs' = Append(favs, browse.all[n])
    /\ nvs' \in Written(nvs, [nvs EXCEPT !.favs = favs'])
    /\ UNCHANGED <<fault, server, token, selected, pending, browse, wizard, ghost>>
    /\ HomeRender(Pop(stack))

\* browse_select of place n in BROWSE.all: refused for a favourite and at the
\* cap.
BrowseSelect(n) ==
    /\ Top = "browse" /\ n \in DOMAIN browse.all /\ \E e \in Ids : <<n, e>> \in Rows
    /\ ~Contains(favs, browse.all[n]) /\ Len(favs) < MaxFavs
    /\ favs' = Append(favs, browse.all[n])
    /\ nvs' \in Written(nvs, [nvs EXCEPT !.favs = favs'])
    /\ UNCHANGED <<fault, server, token, selected, pending, browse, wizard, ghost>>
    /\ HomeRender(Pop(stack))

-----------------------------------------------------------------------------
(* Setup wizard.                                                           *)

\* wizard_save, called with the answered probe's scheme; s are the views left.
WizardSave(https, w, s) ==
    /\ \E h \in Written(nvs.host, w), t \in Written(nvs.https, https) :
           nvs' = [nvs EXCEPT !.host = h, !.https = t]
    /\ UNCHANGED token
    /\ IF token THEN HomeRender(s)
       ELSE stack' = Push(s, Dialog("token")) /\ UNCHANGED entities

\* Mutation: a failed HTTPS probe falls back to HTTP at once.
HostDoneSilent(h, https) ==
    /\ Top = "host"
    /\ wizard' = h
    /\ UNCHANGED <<fault, server, favs, selected, pending, browse, ghost>>
    /\ WizardSave(TRUE, wizard', Pop(stack)) \/ WizardSave(FALSE, wizard', Pop(stack))

\* ACT_SETUP_HOST_DONE, wizard_finalize_with_probe: HTTPS first; without an
\* answer the user is asked, unless the URL said https.
HostDone(h, https) ==
    /\ Top = "host"
    /\ wizard' = h
    /\ UNCHANGED <<fault, server, favs, selected, pending, browse, ghost>>
    /\ \/ WizardSave(TRUE, wizard', Pop(stack))
       \/ https /\ UNCHANGED store /\ HomeRender(Pop(stack))
       \/ ~https /\ stack' = Push(Pop(stack), Dialog("http")) /\ UNCHANGED <<store, entities>>

\* ACT_SETUP_HTTP_CONFIRM, wizard_probe_http.
HttpConfirm(yes) ==
    /\ Top = "http"
    /\ agreed' = IF yes THEN agreed \cup {wizard} ELSE agreed
    /\ UNCHANGED <<fault, server, favs, selected, pending, browse, wizard, refined>>
    /\ \/ yes /\ WizardSave(FALSE, wizard, Pop(stack))
       \/ UNCHANGED store /\ HomeRender(Pop(stack))

\* ACT_SETUP_TOKEN_DONE.
TokenDone ==
    /\ Top = "token"
    /\ token' \in {token, TRUE}
    /\ UNCHANGED <<fault, server, nvs, favs, selected, pending, browse, wizard, ghost>>
    /\ HomeRender(Pop(stack))

\* A cancelled or empty host input.
HostCancel ==
    /\ Top = "host"
    /\ UNCHANGED <<fault, server, store, favs, selected, pending, browse, wizard, ghost>>
    /\ HomeRender(Pop(stack))

\* Entities come and go at the server.
ServerChange(s) ==
    /\ server' = s /\ s # server
    /\ UNCHANGED <<fault, store, ha, stack, ghost>>

Next ==
    \/ Enter \/ Exit \/ Back
    \/ \E i \in 1..MaxRows : HomeSelect(i) \/ HomeMenu(i) \/ BrowseSelect(i)
    \/ \E d \in Dialogs : CtxPick(d)
    \/ EditDone
    \/ \E yes \in BOOLEAN : RemoveConfirm(yes) \/ ResetConfirm(yes) \/ HttpConfirm(yes)
    \/ BrowseOpen \/ FilterMenu \/ SearchStart
    \/ \E f \in Filters : FilterPick(f)
    \/ \E match \in Searches \cup {browse.search} : SearchDone(match)
    \/ \E h \in Hosts, https \in BOOLEAN : HostDone(h, https)
    \/ HostCancel \/ TokenDone
    \/ \E s \in Servers : ServerChange(s)

Spec == Init /\ [][Next]_vars

-----------------------------------------------------------------------------
(* Properties.                                                             *)

\* What a row shows is what pressing it acts on (home_handle_select and
\* browse_select look a number up in ENTITIES and BROWSE).
TopFresh ==
    \A r \in IF stack = <<>> THEN {} ELSE Rows :
        LET list == IF Top = "home" THEN entities ELSE browse.all
        IN  r[1] \in DOMAIN list /\ list[r[1]] = r[2]

\* As long as no browse list was filtered or searched: filtering pushes a list
\* over the old one instead of replacing it, and the old one can be reached
\* again after the data has changed.
RowsFresh == ~refined => TopFresh

\* The favourite that a confirmed removal takes is the one the dialog names
\* (PENDING_REMOVE is a place in ENTITIES, used on FAVS), as long as the token
\* can be read: with an unreadable one ENTITIES is empty and place 0 goes.
RemovesNamed ==
    Top = "remove" /\ fault # "rmem" /\ pending \in DOMAIN favs => favs[pending] = selected

\* The token goes over plain HTTP only to a host the user accepted it for
\* ("only after the user accepted the unencrypted transport"), as long as the
\* wizard's separate writes of host and scheme both arrive.
HttpOnlyByConsent ==
    (fault # "nvs" /\ nvs.host # "" /\ Scheme = "http") => nvs.host \in agreed

\* The favourites on the screen survive a restart, as long as NVS takes them.
FavsDurable == (fault # "nvs" /\ stack # <<>>) => nvs.favs = favs

\* What is pressed, removed, sent and kept is what the user saw and chose.
HomeAsSeen ==
    TypeOK /\ RowsFresh /\ RemovesNamed /\ HttpOnlyByConsent /\ FavsDurable
=============================================================================
