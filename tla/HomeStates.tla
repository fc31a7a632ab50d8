----------------------------- MODULE HomeStates -----------------------------
(***************************************************************************)
(* plugins/home_assistant: what the rows of the home list say of the       *)
(* entities, and what a tap or an editor does to them.  HomeAssistant has  *)
(* the favourites and the views; here the favourites are fixed and the     *)
(* server's entities change under them.                                    *)
(*                                                                         *)
(* An entity's level is the percentage it was set to: the brightness of a  *)
(* light, which Home Assistant keeps as 0..255, or the position of a cover. *)
(***************************************************************************)
EXTENDS Integers, Sequences

CONSTANTS
    FavLists,  \* sequences of domains: what the favourites may be
    Levels     \* percentages the user may set

VARIABLES
    favs,      \* FAVS: the domains, in order
    actual,    \* the entities at the server
    entities,  \* ENTITIES
    excused    \* history, emptied by a fetch: rows the server was not asked about,
               \* that changed elsewhere since, whose call was carried out without
               \* an answer, or that a call left Misjudged

vars == <<favs, actual, entities, excused>>

\* Domain, in the order of its numbers; Unknown is 0xFF.
Domains == <<"light", "switch", "input_boolean", "button", "scene", "script",
             "automation", "sensor", "binary_sensor", "cover", "climate">>

\* `domain as u8` in a stored favourite, and Domain::from_idx of it.
Number(d) ==
    IF \E n \in DOMAIN Domains : Domains[n] = d
    THEN (CHOOSE n \in DOMAIN Domains : Domains[n] = d) - 1 ELSE 255
FromIdx(n) == IF n + 1 \in DOMAIN Domains THEN Domains[n + 1] ELSE "?"

Toggleable(d) == d \in {"light", "switch", "input_boolean"}
Runs(d)       == d \in {"scene", "script", "automation"}
Readonly(d)   == d \in {"sensor", "binary_sensor"}

\* Domain::primary_service, "" for None.
PrimaryService(d) ==
    IF Toggleable(d) THEN "toggle"
    ELSE IF Runs(d) THEN "turn_on"
    ELSE IF d = "button" THEN "press" ELSE ""

-----------------------------------------------------------------------------
(* Rows.                                                                   *)

\* Domain::state_glyph.
Glyph(d, state) ==
    IF Runs(d) THEN ">"
    ELSE IF state \in {"unavailable", "unknown"} THEN "!"
    ELSE IF state \in {"on", "open"} THEN "*"
    ELSE IF state \in {"off", "closed"} THEN "o" ELSE "?"

\* Entity::label: the glyph, or a sensor's state, and the percentage, -1 when
\* it has none.
Label(d, state, pct) ==
    [glyph |-> IF Readonly(d) THEN state ELSE Glyph(d, state),
     pct   |-> IF d = "cover" \/ (d = "light" /\ state = "on" /\ pct > 0) THEN pct ELSE -1]

\* How Home Assistant keeps a brightness.
Raw(pct) == (pct * 255 + 50) \div 100

\* As a bug might have it: the percentage is cut off.
PctCut(raw) == (raw * 100) \div 255

\* parse_state_json: the percentage of a brightness.
Pct(raw) == (raw * 100 + 127) \div 255

\* parse_state_json of what the server answers for favourite n; a light that is
\* off has no brightness.
Fetched(n) ==
    LET e == actual'[n]
    IN  [domain |-> favs[n], state |-> e.state,
         pct |-> IF favs[n] = "cover" THEN e.level
                 ELSE IF favs[n] = "light" /\ e.state = "on" THEN Pct(Raw(e.level)) ELSE 0]

\* Entity::placeholder, with the stored domain.
Placeholder(n) == [domain |-> FromIdx(Number(favs[n])), state |-> "?", pct |-> 0]

\* home_render: the favourites before the first fetch that fails, then
\* placeholders.  A fetch fails without a connection, and for an entity the
\* server no longer has.
HomeRender ==
    \E n \in 0..Len(favs) :
        /\ \A i \in 1..n : actual'[i].state # "gone"
        /\ entities' =
               [i \in DOMAIN favs |-> IF i <= n THEN Fetched(i) ELSE Placeholder(i)]
        /\ excused' = (n + 1)..Len(favs)

-----------------------------------------------------------------------------
(* The server.                                                             *)

\* "other" is any state that has no glyph: a mode, or when a button was pressed.
AllStates == {"on", "off", "open", "closed", "other", "unknown", "unavailable", "gone"}

States(d) ==
    IF d = "cover" THEN {"open", "closed"}
    ELSE IF Toggleable(d) \/ Runs(d) \/ Readonly(d) THEN {"on", "off"} ELSE {"other"}

Init ==
    /\ favs \in FavLists
    /\ actual \in [DOMAIN favs -> [state : AllStates, level : {100}]]
    /\ \A n \in DOMAIN favs : actual[n].state \in States(favs[n])
    /\ entities = <<>> /\ excused = {}

\* Somebody else switches the entity, its device is not heard of yet or does not
\* answer, or it is removed.
Elsewhere(n, s) ==
    /\ s \in States(favs[n]) \cup {"unknown", "unavailable", "gone"}
    /\ actual' = [actual EXCEPT ![n].state = s]
    /\ excused' = excused \cup {n}
    /\ UNCHANGED <<favs, entities>>

\* What a service does to an entity; there is none when it is gone.
Served(e, d, service, level) ==
    IF e.state \in {"gone", "unavailable"} THEN e
    ELSE CASE service = "toggle"   -> [e EXCEPT !.state = IF @ = "on" THEN "off" ELSE "on"]
           [] service = "turn_off" -> [e EXCEPT !.state = "off"]
           [] service = "turn_on"  -> [e EXCEPT !.state = "on",
                                                !.level = IF level = 0 THEN @ ELSE level]
           [] service = "set_cover_position" ->
                  [state |-> IF level > 0 THEN "open" ELSE "closed", level |-> level]
           [] OTHER -> [e EXCEPT !.state = IF @ = "unknown" THEN "other" ELSE @]   \* press

\* call_service: whether it arrives and whether the answer does.
Arrives(n, service, level) ==
    actual' = [actual EXCEPT ![n] = Served(@, favs[n], service, level)]
Unanswered(n, service, level) ==
    /\ Arrives(n, service, level) \/ UNCHANGED actual
    /\ excused' = IF actual' = actual THEN excused ELSE excused \cup {n}
    /\ UNCHANGED entities

-----------------------------------------------------------------------------
(* The home list.                                                          *)

\* plugin_on_enter and everything else that ends in home_render.
Render == UNCHANGED <<favs, actual>> /\ HomeRender

\* The state home_handle_select leaves in ENTITIES after a service succeeded.
Toggled(e) ==
    IF Toggleable(e.domain)
    THEN [e EXCEPT !.state = IF @ = "on" THEN "off" ELSE "on"] ELSE e

\* What home_handle_select does not see, as it does not fetch: the server answers
\* a toggle of an entity that is unavailable and does nothing, and the row says
\* the opposite of what it said; the first press gives a button a state.
Misjudged(n) ==
    \/ Toggleable(favs[n]) /\ actual[n].state \in {"unavailable", "gone"}
    \/ favs[n] = "button" /\ actual[n].state = "unknown"

\* home_handle_select, where there is a primary service.
Select(n) ==
    /\ n \in DOMAIN entities /\ UNCHANGED favs
    /\ LET service == PrimaryService(entities[n].domain)
       IN  /\ service # ""
           /\ \/ /\ Arrives(n, service, 0)
                 /\ entities' = [entities EXCEPT ![n] = Toggled(@)]
                 /\ excused' = IF Misjudged(n) THEN excused \cup {n} ELSE excused
              \/ Unanswered(n, service, 0)

\* light_brightness_done, light_color_done and cover_position_done: the call,
\* and the list fetched again.
Edited(n, service, level) ==
    /\ n \in DOMAIN entities /\ UNCHANGED favs
    /\ \/ Arrives(n, service, level) /\ HomeRender
       \/ Unanswered(n, service, level)
SetLight(n, level) ==
    /\ n \in DOMAIN entities /\ entities[n].domain = "light"
    /\ Edited(n, IF level = 0 THEN "turn_off" ELSE "turn_on", level)
SetColor(n, black) ==
    /\ n \in DOMAIN entities /\ entities[n].domain = "light"
    /\ Edited(n, IF black THEN "turn_off" ELSE "turn_on", 0)
SetCover(n, level) ==
    /\ n \in DOMAIN entities /\ entities[n].domain = "cover"
    /\ Edited(n, "set_cover_position", level)

Next ==
    \/ Render
    \/ \E n \in DOMAIN favs :
          \/ \E s \in AllStates : Elsewhere(n, s)
          \/ Select(n)
          \/ \E black \in BOOLEAN : SetColor(n, black)
          \/ \E level \in Levels : SetLight(n, level) \/ SetCover(n, level)

Spec == Init /\ [][Next]_vars

-----------------------------------------------------------------------------
(* Properties.                                                             *)

\* A row says what its entity is: the state home_handle_select guesses after a
\* toggle is the server's, and a percentage that was set comes back as the same
\* percentage through the server's 0..255.  Excused until the next fetch is a row
\* whose entity changed elsewhere or whose call was carried out without an answer,
\* a placeholder, a row that was tapped while its entity was unavailable (it then
\* says on, or off, of an entity that is neither), and the row of a button that
\* was pressed for the first time (it stays at unknown).
LabelTrue ==
    \A n \in DOMAIN entities \ excused :
        LET shown == Label(entities[n].domain, entities[n].state, entities[n].pct)
            real  == Label(favs[n], actual[n].state, actual[n].level)
        IN  /\ shown.glyph = real.glyph
            /\ shown.pct # -1 => shown.pct = real.pct
=============================================================================
