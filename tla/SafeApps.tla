------------------------------ MODULE SafeApps ------------------------------
(***************************************************************************)
(* The plugins whose correctness is a matter of state: what is stored,     *)
(* shown, sent and kept in step.  A behaviour is one of `plugin`, chosen   *)
(* at the start; the variables of the others rest in an initial state.     *)
(***************************************************************************)
EXTENDS Integers, Sequences, FiniteSets

CONSTANTS
    Ids, Dom, Hosts, Filters, Searches, Servers, MaxFavs,   \* HomeAssistant
        HomeRows, HomeDepth,
    Devices,                                                \* HomeClimate
    Ports, Files, Big, NameLength, WriteTimeout, Budget,    \* WebServer
        MaxPieces,
    PrintPorts,                                             \* PrintServer
    Digits, MaxEntry, MaxNumber, MaxTape,                   \* SciCalc
    PinCount, Brokers, Passwords, RetryAfter, PingAfter,    \* GpioMqtt
    Addrs, Rssi, MaxDevices, MaxResults, MaxMissed,         \* BleScanner
    FavLists, Levels,                                       \* HomeStates
    Feeds, MaxHeadlines, MaxQueue, FeedDepth,               \* NewsFeed
    Texts, Cards, Width, MaxRows, Margin, SurfaceRows,      \* TextLayout
    Rasters, Bits, RowBytes, MaxRun, Refill                 \* CatProtocol

VARIABLES
    plugin,
    fault, server, nvs, token, favs, entities, selected, pending, browse, wizard,
        stack, agreed, refined,
    dev, st, slider,
    loaded, port, bound, listener, shown, conn, parts, elapsed, reply,
    server_on, bound_port, nvsServer, nvsPort, socket, resident, place, refused,
    entry, acc, calcPending, last_binary, new_entry, error, memory, tape, calcPlace,
        operand, total, excused,
    opened, levels, session, retryAge, idle, broker, nvsPass, rmemPass, wanted,
        storeFault, told, missed,
    devices, order, scanning, active, enabled,
    rowFavs, actual, rowEntities, rowExcused,
    feed, stored, url, headlines, editing, covered, newsStack, queue, hasty,
    source, lines, printed, font, page, printState,
    raster, rle, feeds, next, paper, jobState

HA == INSTANCE HomeAssistant WITH MaxRows <- HomeRows, MaxDepth <- HomeDepth
CL == INSTANCE HomeClimate
WS == INSTANCE WebServer
PS == INSTANCE PrintServer
SC == INSTANCE SciCalc WITH pending <- calcPending, place <- calcPlace
GM == INSTANCE GpioMqtt WITH conn <- session
BS == INSTANCE BleScanner
HS == INSTANCE HomeStates WITH
        favs <- rowFavs, entities <- rowEntities, excused <- rowExcused
NF == INSTANCE NewsFeed WITH stack <- newsStack, MaxDepth <- FeedDepth
TL == INSTANCE TextLayout WITH state <- printState
CP == INSTANCE CatProtocol WITH feed <- feeds, state <- jobState

\* Entities are numbered from 1, as 0 stands for None; an empty host counts as a
\* cancelled input.
ASSUME HomeAssumption ==
    /\ Ids \subseteq Nat \ {0} /\ IsFiniteSet(Ids) /\ Cardinality(Ids) <= HomeRows
    /\ Servers \subseteq SUBSET Ids /\ Searches \subseteq SUBSET Ids
    /\ "" \notin Hosts /\ "all" \in Filters

\* The entities and the favourites fit into a list of the model.
ASSUME HomeBounds ==
    /\ MaxFavs \in Nat \ {0} /\ HomeRows \in Nat /\ HomeDepth \in Nat
    /\ MaxFavs <= HomeRows

\* Favourites have a domain each, levels are percentages.
ASSUME RowsAssumption == FavLists \subseteq Seq(STRING) /\ Levels \subseteq 0..100

\* A climate device has its numbers, whether or not they are in order.
ASSUME DevicesAssumption ==
    Devices \subseteq [range : BOOLEAN, target : Int, low : Int, high : Int, min : Int,
                       max : Int, step : Int, modes : SUBSET STRING, fans : Seq(STRING),
                       mode : STRING, fan : STRING]

\* The host accepts only plain names in the folder of the web server, and a file
\* has a name; reading a request takes less than the time a response has.
ASSUME WebAssumption ==
    /\ Files \subseteq {WS!INDEX} \cup (Seq({".", "2", "a"}) \ {<<>>})
    /\ WriteTimeout \in Nat /\ Budget \in Nat /\ WS!MaxReads < Budget + WriteTimeout

\* A document is a sequence of tokens.
ASSUME FeedAssumption == Feeds \subseteq Seq(NF!Tokens) /\ MaxHeadlines \in Nat

\* A raster is made of rows of bytes; a run has room for a pixel.
ASSUME RastersAssumption ==
    /\ Rasters \subseteq Seq(Seq(CP!ByteSet))
    /\ Bits \in Nat \ {0} /\ RowBytes \in Nat \ {0}
    /\ MaxRun \in Nat \ {0} /\ Refill \in Nat \ {0}

\* A word has a character; a page has room for a row of any font.
ASSUME TextsAssumption ==
    /\ Texts \subseteq Seq(Seq(Nat \ {0}))
    /\ Cards \subseteq Seq([key : STRING, words : Seq(Nat \ {0})])
    /\ Width \in Nat /\ MaxRows \in Nat /\ Margin \in Nat /\ SurfaceRows \in Nat
    /\ Margin + 3 <= MaxRows

\* Port 0 stands for no listener.
ASSUME PortsAssumption == 0 \notin PrintPorts

\* The table of the scanner has room; a signal strength is an i8.
ASSUME ScannerAssumption ==
    /\ MaxDevices \in Nat \ {0} /\ MaxMissed \in Nat /\ MaxResults \in Nat
    /\ Rssi \subseteq (-128)..127

\* A retry and a ping come after some polls.
ASSUME GpioAssumption ==
    /\ RetryAfter \in Nat \ {0} /\ PingAfter \in Nat \ {0}
    /\ PinCount \in Nat

ha == <<fault, server, nvs, token, favs, entities, selected, pending, browse, wizard,
        stack, agreed, refined>>
cl == <<dev, st, slider>>
ws == <<loaded, port, bound, listener, shown, conn, parts, elapsed, reply>>
ps == <<server_on, bound_port, nvsServer, nvsPort, socket, resident, place, refused>>
sc == <<entry, acc, calcPending, last_binary, new_entry, error, memory, tape, calcPlace,
        operand, total, excused>>
gm == <<opened, levels, session, retryAge, idle, broker, nvsPass, rmemPass, wanted,
        storeFault, told, missed>>
bs == <<devices, order, scanning, active, enabled>>
hs == <<rowFavs, actual, rowEntities, rowExcused>>
nf == <<feed, stored, url, headlines, editing, covered, newsStack, queue, hasty>>
tl == <<source, lines, printed, font, page, printState>>
cp == <<raster, rle, feeds, next, paper, jobState>>
vars == <<plugin, ha, cl, ws, ps, sc, gm, bs, hs, nf, tl, cp>>

Plugins == {"home_assistant", "climate", "webserver", "print_server", "sci_calc",
            "gpio_mqtt", "ble_scanner", "home_states", "news_feed",
            "text_layout", "cat_protocol"}

\* A plugin that rests is in one of its initial states.
Rests(p, state) == plugin # p => state

Init ==
    /\ plugin \in Plugins
    /\ Rests("home_assistant", fault = "none") /\ HA!Init
    /\ Rests("climate", dev = CHOOSE d \in Devices : TRUE) /\ CL!Init
    /\ Rests("webserver", port = CHOOSE p \in Ports : TRUE) /\ WS!Init
    /\ Rests("print_server", nvsPort = CHOOSE p \in PrintPorts : TRUE) /\ PS!Init
    /\ SC!Init
    /\ Rests("gpio_mqtt", nvsPass = GM!None) /\ GM!Init
    /\ Rests("ble_scanner", enabled = TRUE) /\ BS!Init
    /\ Rests("home_states", rowFavs = CHOOSE f \in FavLists : TRUE) /\ HS!Init
    /\ Rests("home_states", \A n \in DOMAIN rowFavs :
                  actual[n].state = CHOOSE s \in HS!States(rowFavs[n]) : TRUE)
    /\ Rests("news_feed", feed = CHOOSE f \in Feeds : TRUE) /\ NF!Init
    /\ Rests("text_layout", /\ font = "normal"
                            /\ source = [kind |-> "text", lines |-> <<>>]) /\ TL!Init
    /\ Rests("cat_protocol", /\ rle = FALSE /\ feeds = FALSE
                             /\ raster = CHOOSE r \in Rasters : TRUE) /\ CP!Init

Next ==
    \/ plugin = "home_assistant" /\ HA!Next
        /\ UNCHANGED <<plugin, cl, ws, ps, sc, gm, bs, hs, nf, tl, cp>>
    \/ plugin = "climate" /\ CL!Next
        /\ UNCHANGED <<plugin, ha, ws, ps, sc, gm, bs, hs, nf, tl, cp>>
    \/ plugin = "webserver" /\ WS!Next
        /\ UNCHANGED <<plugin, ha, cl, ps, sc, gm, bs, hs, nf, tl, cp>>
    \/ plugin = "print_server" /\ PS!Next
        /\ UNCHANGED <<plugin, ha, cl, ws, sc, gm, bs, hs, nf, tl, cp>>
    \/ plugin = "sci_calc" /\ SC!Next
        /\ UNCHANGED <<plugin, ha, cl, ws, ps, gm, bs, hs, nf, tl, cp>>
    \/ plugin = "gpio_mqtt" /\ GM!Next
        /\ UNCHANGED <<plugin, ha, cl, ws, ps, sc, bs, hs, nf, tl, cp>>
    \/ plugin = "ble_scanner" /\ BS!Next
        /\ UNCHANGED <<plugin, ha, cl, ws, ps, sc, gm, hs, nf, tl, cp>>
    \/ plugin = "home_states" /\ HS!Next
        /\ UNCHANGED <<plugin, ha, cl, ws, ps, sc, gm, bs, nf, tl, cp>>
    \/ plugin = "news_feed" /\ NF!Next
        /\ UNCHANGED <<plugin, ha, cl, ws, ps, sc, gm, bs, hs, tl, cp>>
    \/ plugin = "text_layout" /\ TL!Next
        /\ UNCHANGED <<plugin, ha, cl, ws, ps, sc, gm, bs, hs, nf, cp>>
    \/ plugin = "cat_protocol" /\ CP!Next
        /\ UNCHANGED <<plugin, ha, cl, ws, ps, sc, gm, bs, hs, nf, tl>>

Spec == Init /\ [][Next]_vars

-----------------------------------------------------------------------------
(* The properties of the plugins, as their modules state them, of the      *)
(* plugin that runs.                                                       *)

\* Home Assistant: what is pressed, removed, sent and kept is what the user saw;
\* a row says what its entity is; the editor offers the device's modes.
HomeAsSeen ==
    /\ plugin = "home_assistant" => HA!HomeAsSeen
    /\ plugin = "home_states" => HS!LabelTrue
    /\ plugin = "climate" => CL!SlotsDistinct

\* Home Assistant: what the climate editor applies is what it showed.
AppliedAsShown == CL!AppliedAsShown

\* Web server: reached where the screen says, answered as asked, held briefly.
ServesAsAsked == plugin = "webserver" => WS!ServesAsAsked

\* Print server: what the menu shows is what clients meet.
ServerAsShown == plugin = "print_server" => PS!ServerAsShown

\* Calculator: immediate left-to-right execution.
LeftToRight == plugin = "sci_calc" => SC!LeftToRight

\* GPIO to MQTT: the broker sees the pins on a session as the user set it.
BrokerAsSet == plugin = "gpio_mqtt" => GM!BrokerAsSet

\* BLE scanner: the rows on screen are the table's.
RowsMirrorTable == plugin = "ble_scanner" => BS!RowsMirrorTable

\* News feed: the list is the feed's and stays in reach.
FeedAsShown == plugin = "news_feed" => NF!FeedAsShown

\* Printer: the pages are the text, and the paper is the raster.
PaperIsPrint ==
    /\ plugin = "text_layout" => TL!PagesAreText
    /\ plugin = "cat_protocol" => CP!PaperIsRaster

\* Printer: the pages of a text come to an end.
PagesProgress == TL!PagesProgress
=============================================================================
