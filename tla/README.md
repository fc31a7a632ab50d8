# CDC Badge plugins: a TLA+ verification project

The repository holds WebAssembly plugins for the CDC Badge, the Rust SDK they
are written with, example plugins, a web installer and build tools.  The
firmware that loads the plugins (the *host*) is not part of it.  This project
models the control logic of the plugins, checks it with TLC on small instances
and proves the central results with TLAPS for all values of the constants.

1. [The system](#1-the-system)
2. [Modules](#2-modules)
3. [thermo_printer](#3-thermo_printer)
4. [matrix](#4-matrix)
5. [The other plugins](#5-the-other-plugins)
6. [Runs](#6-runs)
7. [Where the code and its documentation differ](#7-where-the-code-and-its-documentation-differ)
8. [Proofs](#8-proofs)
9. [What is not modelled](#9-what-is-not-modelled)

## 1. The system

A plugin is single threaded: the host calls one of its entry points at a time
(`plugin_init`, `plugin_on_enter`, `plugin_on_exit`, `plugin_on_tick`,
`plugin_on_action`, `plugin_on_cmd`).  What makes plugins hard is outside:
radio events, network peers, the homeserver, other plugins, the user and the
power act between two calls, or between two requests of one call, in any order.
An action of a module is one entry-point call, one stretch of a call between
two points where the outside matters, or one event outside the plugin.

| Part | State | Operations | Talks to | What makes it hard | What makes it correct |
|---|---|---|---|---|---|
| `thermo_printer` driver | `Drive` (Idle, Scanning, Connecting, Discovering, Sending), `pending`, `pending_lines`, `after`, `job_active`, `conn`, `tx_handle`, printer list | `start_print`, `plugin_on_tick`, `on_discovered`, write completion, notification, menus | host BLE stack, ext-feature bus, print server, message bus | many ends of a print, timeouts, late completions, flow control | one report per job, prints never mix, no truncated page behind a DONE, every job ends |
| `thermo_printer` server | listener, port, residency | `toggle_server`, `apply_port`, `restore_server`, `serve_net_job` | sockets, driver | port, listener and setting change separately, binding may fail | what the menu shows is what clients meet |
| `thermo_printer` layout and protocol | queued lines, font | `wrap_text`, `paginate`, `compose_lines_page`, `frame_row`, `rle_encode_row` | driver, printer | boundaries of rows, pages and runs; the font changes between pages | the paper is the text, the pages come to an end |
| `matrix` room keys | `ROOMS`, `Crypto::outbound`, `PENDING_DIST` | `e2ee_send`, `sync_now`, `process_distribution`, login, reset | homeserver | membership moves between two requests, requests fail one by one, lazily loaded lists | rotation on leave, nobody outside the audience reads, recipients can read |
| `matrix` storage | NVS blobs with lengths, sealing key in rmem, `CRYPTO`, `CRYPTO_HASH` | `init_crypto`, `ensure_uploaded`, `persist_crypto`, `reset_all` | NVS, secure element, homeserver | power loss between two writes, failed writes and reads | one identity, no message key twice |
| `matrix` Olm and inbound keys | per-peer session list (at most 3), inbound sessions, snapshot | `olm_decrypt`, `insert_inbound`, `import_backup_session`, `decrypt_megolm` | homeserver, a peer, storage | order of imports, eviction of sessions in use, one-shot messages | what the server forgot is stored, a readable session stays readable |
| `matrix` room list and chat | `ROOMS`, `VIEW`, `OPEN_ROOM`, `MENU_TARGET`, `PENDING_DELETE`, retained messages, token | `sync_now`, `render_rooms`, menus, dialogs, `draw_chat`, `backfill_history`, poll | homeserver, host's view stack | ids and places kept across dialogs while the poll changes the list | a row is its room, a dialog acts on what it names, the chat is the room's |
| `snake` | snake, food, queued turns, screen, refresh flag, best scores | `steer`, `step`, `spawn_food`, tick, actions | display refresh events, NVS | queued turns that become illegal, lost refresh events | no reversal, food on a free cell, the game never hangs |
| `ble_scanner` | device table (at most 64), visible order | `merge`, `evict_one`, `render` | BLE scan | the table at its cap, list edits by index | the visible list mirrors the table |
| `webserver` | listener, bound port, connection | start, stop, `serve`, `write_all`, `resolve_file` | sockets, file system | slow clients, escapes, a port that changes | the file asked for, in bounded time |
| `home_assistant` | favourites (at most 24), fetched entities, selection, pending removal, browse list, wizard, climate editor | menus, dialogs, HTTP results | Home Assistant server, host's view stack | places kept across dialogs, guesses after a toggle, percent and tenths | what is pressed, removed and applied is what was shown |
| `grove_led` | settings, sleeping, dithering | menu, lock toggle, sleep, wake, tick | LED strip, power management | four sources of change | strip, inhibitor and NVS follow the settings |
| `name_badge` | current effect, its state | `switch_effect`, `tick`, `on_action` | tweens, sprites, canvas | completions of an effect that was left | a clean picture, the name comes back |
| `print_counter` | `job_pending`, number, WiFi and residency | print, status | ext-feature bus | a status that comes late or after a power loss | numbers in order, resources released |
| `gpio_mqtt` | levels, MQTT session, password | `poll_gpio`, `mqtt_connect`, `mqtt_keepalive`, settings | broker, NVS, secure element | reconnects, lost messages, migration | the broker sees the pins |
| `sci_calc` | entry, accumulator, pending operator, memory, tape | keys | user | long key sequences | left-to-right execution |
| `news_feed` | headlines, URL, two flags | fetch, list, edit, hotkey | HTTP, EventBus, host's view stack | the hotkey works under every view | one list, of the feed's entries |
| web installer | upload state | `uploadFile` | serial port | READY/OK/ERR answers and timeouts | a failed upload is aborted |
| SDK | none (`feature.rs` states the ext-feature contract) | wrappers of host calls | host | the contract is the host's | one result per job |

`PROJECT.json` lists all of them with their status, and under `hazards` the
places in the source where something can go wrong that a test hardly reaches.

## 2. Modules

| Part | Modules | Checked by | Proofs |
|---|---|---|---|
| `thermo_printer` driver, ext feature | `PrintDriver`, its abstract specification `FeatureJob` | `MCPrintDriver` | `PrintDriverProofs` |
| `thermo_printer` server, layout, protocol | `PrintServer`, `TextLayout`, `CatProtocol` | `MCSafeApps` | `SafeAppsProofs` (server), `DocumentProofs` |
| `matrix` sending side | `RoomKeys` | `MCRoomKeys`, `MCLiveApps` | `RoomKeysProofs` |
| `matrix` storage | `CryptoStore` | `MCCryptoStore` | `CryptoStoreProofs` |
| `matrix` receiving side | `InboundKeys`, `MatrixRooms`, `MatrixChat`, together in `MatrixApp` | `MCMatrixApp`, `MCMatrixChat` | `MatrixAppProofs` |
| `snake` | `SnakeGame` (rules), `SnakeApp` (screens, clocks) | `MCLiveApps` | `LiveAppsProofs` |
| `home_assistant` | `HomeAssistant` (favourites, views, wizard), `HomeStates` (states and labels), `HomeClimate` (editor) | `MCSafeApps` | `SafeAppsProofs` |
| `grove_led`, `name_badge`, `print_counter` | `GroveLed`, `NameBadge`, `PrintCounter` | `MCLiveApps` | `LiveAppsProofs` |
| `webserver`, `ble_scanner`, `gpio_mqtt`, `sci_calc`, `news_feed` | `WebServer`, `BleScanner`, `GpioMqtt`, `SciCalc`, `NewsFeed` | `MCSafeApps` | `SafeAppsProofs`, `DocumentProofs` (`WebServer`, `NewsFeed`) |

`Recursion` holds the lemmas that the proofs share: about recursive definitions,
and about sequences laid end to end by one.

**Several plugins in one run.**  Plugins share no state: the host runs one in
front at a time, and what two have in common (the job slot of the ext feature)
is part of the modules on both sides.  `LiveApps`, `SafeApps` and `MatrixApp`
therefore instantiate several modules and choose in the initial state which of
them a behaviour is about (`plugin`, `part`); the variables of the others rest.
Their constants are parameters, so that the theorems are about every value of
them; `MCLiveApps`, `MCSafeApps` and `MCMatrixApp` extend them with the values
TLC needs.  This is a way to check several modules together, not a composition;
the compositions are inside the modules (driver, queue, BLE stack and job slot
in `PrintDriver`; plugin, homeserver and members in the matrix modules; caller,
provider and host in `PrintCounter`).

**Mutations.**  The definitions marked as mutations, or *As a bug might have
it*, are changed forms of the definition that follows them, the way a plausible
bug would change it; no specification uses them.  A property that no such change
violates would say nothing about the code, so each property of a passing run has
one.

**What is left.**  Every safety invariant and action property of the passing
runs has a theorem.  The liveness properties are only model-checked (section 8);
the parts without a module are those of section 9.

## 3. thermo_printer

Source: `plugins/thermo_printer/src`.

### 3.1 Driver (`PrintDriver`, `FeatureJob`)

**State.**  The variables under "The plugin's `State`" are the fields of the
struct of that name; `drive`, `timer` and `snd` together are the enum `Drive`
with the payloads of its variants.  A raster is the print it belongs to, its
page number and its height; the bytes are abstracted to chunks (`buf`), at most
`MaxChunks` of which make up a refill of `RowsPerRefill` rows.  Text lines are
counted in pages.  The host's BLE stack is what the code uses of it: a link, a
connect request, a scan, discovery completions and write completions under way.

**Actions.**  `UiPrint`, `NetJob` and `ExtJob` are the three ways to submit
(menu and message bus, print server, ext feature), all ending in `NewPrint`
(`print_text` / `start_print` / `connect_or_scan` in one call).  The five
`Tick…` actions are the arms of `plugin_on_tick`; `TickSending` is `pump_send`
with `refill_send_buffer` and `on_send_complete`.  `OnDiscovered`, `WriteDone`
and `Notify` are the completions of `plugin_on_action`.  The menu actions are
the ones that touch the driver: opening, hiding and showing the scan list,
choosing and forgetting a printer, leaving the plugin.  `Host…` actions are the
world: a connection opens or is lost, another peer connects, a scan ends, the
user switches Bluetooth.

**Abstract specification.**  `FeatureJob` is the contract of the SDK's
`feature.rs` as the driver's callers see it: a job is taken and reported once.
`PrintDriver` implements it (`ImplementsFeatureJob`, an `INSTANCE` with the
host's slot and the last status); `PrintCounter` is a caller that relies on it.

**The late completion.**  The repository does not say whether the host still
delivers the discovery of a link the plugin has dropped.  `LateEvents` covers
both: without late completions all properties hold; with them one job is lost
(section 7).

**Fairness** (`FairSpec`).  The host ticks a loaded plugin for ever, delivers a
job it announced, ends a scan and completes a write with response.  The last is
assumed also when the link is gone: `pump_send` waits for the completion without
a timeout, and the host's behaviour is not in the repository.  Nothing is
assumed of the user, of the peers, of discoveries, or of which result a call
has.

**Bounds.**  One printer, one height of three rows with two rows per refill (a
full and a short refill), a gate every second write, two pages, two prints, one
BufferFull.  Two prints are what it takes for one to disturb the next; the
second refill and the second page reach every branch of `pump_send` and
`on_send_complete`.  Timeouts are one tick, since only their order against other
events matters.

### 3.2 Server, layout, protocol

`PrintServer` has the menu switch, the port setting, the restoring after a boot
and residency.  A port may be in use when it is bound, each of the writes to NVS
may be refused, and so may `set_resident`; the plugin ignores the last two.
`refused` is what the host refused when it was last asked: the property excuses
exactly that key, and no longer than until the next attempt succeeds or the
plugin goes.  A connection is `NetJob` of the driver.  Two ports are enough for
a change to fail half way.

`TextLayout` cuts a text or a contact card into lines, wraps them
(`wrap_text`), takes pages off the queue (`paginate`) and lets the user change
the font between two pages.  A word is the sequence of its characters, so that
losing, repeating or reordering one shows.  Texts of up to four lines out of six
shapes (blank, fitting, wrapping, with words longer than a row or than a page)
against a width of six and pages of eight rows reach every branch.

`CatProtocol` encodes rows (`frame_row`, `rle_encode_row`, `push_run`) and
decodes them again the way the printer does, an external definition.  Bytes have
two bits and runs are at most three long, so that every row of three to five
bytes can be enumerated: narrower than the printer, as wide, and wider.

## 4. matrix

### 4.1 Room keys (`RoomKeys`)

Source: `plugins/matrix/src/lib.rs` (`sync_now`, `e2ee_send`,
`enqueue_distribution`, `process_distribution`, entry points), `crypto.rs`
(`ensure_outbound`, `outbound_key`), `client.rs`.

**State.**  One encrypted room.  A key is the id of its session and the chain
index it starts at; it reads the session's messages from that index on, which is
all the properties need of Megolm.  The homeserver keeps who is joined and each
user's last membership event since the sync token (the parser takes the last
one).  The plugin keeps the lazily loaded `members`, the outbound session, the
devices it has an Olm session with and the queue `dist` of jobs
(`PENDING_DIST`).  `held` and `log` are bookkeeping: keys that arrived, messages
sent with the recipients the badge counted on.  They start again when the plugin
stops, since no key of an earlier boot's session can be queued afterwards.

**Actions.**  A handler that blocks on HTTP at a point where the server's state
matters is split there: `Send` creates or advances the session and sends,
`Distribute` fetches the members and queues the key, and `Sync` or `SyncSkipped`
is the sync at the end of `reply_done`.  `ProcessDistribution` is one tick of
the queue: a chunk is wrapped, then delivered, not delivered (which may mean
delivered with the answer lost) or skipped.  The order of recipients within a
job is abstracted to any subset of the right size.  `LeaveRoom`, `FullSync`,
`Reset`, `Login`, `EnterRecoveryKey`, `Enter` and `Stop` are the rest of the
plugin that touches this state; `Stop` is also a power loss or a trap at any
moment.

**Worlds.**  `world`, which no step changes, says what may go on around the
plugin, so that one run covers several: "net", requests fail; "rejoin", a user
leaves and joins between two syncs; "full", a full sync runs over a room that is
already tracked, or a room that was left comes back while its outbound session
lives.  The properties name the worlds they hold in.  Login is always possible
while there is no room and no session; over a tracked room it is a full sync.

**Bounds.**  Two users and a chunk of one, so that a job takes several ticks and
the retry of a failed chunk meets the next one; two sessions and three messages,
so that a rotation lies between messages and a message follows the first of its
session; three membership changes (leave, rejoin, leave).  Users are
interchangeable, and the safety run uses that symmetry; the liveness run does
not.  There the membership does not change on the server: what is queued varies
through the lazily loaded lists that the full syncs report.

### 4.2 What survives a restart (`CryptoStore`)

Source: `store.rs`, `lib.rs` (`init_crypto`, `ensure_uploaded`,
`persist_crypto`, `plugin_on_exit`, reset), `crypto.rs` (pickles,
`olm_encrypt`).

Every NVS write, rmem write and request is a step; `pc` is the next step of the
running handler, and `PowerLoss` may come before each.  A blob is what is
sealed, the key it is sealed with and its length; `get_sized_blob` reads it when
the recorded length has room for it or no length is recorded.  An account is its
identity and the batches of one-time keys it has made.  Of the Olm sessions one
is followed, as the number of its sending chain and the next message key: a
message from the peer that turns the ratchet starts a new chain.  `fault`, fixed
for a behaviour, is what the flash may do: nothing wrong, lose writes, or fail
to read what is there.

`Reset` empties the secure element's slots first and the NVS namespace after, as
`reset_all` does, with the power failing between the two or the erase failing.

Bounds: two lengths (a blob that grows or shrinks), three identities, a batch of
one-time keys, two chains of two messages and a reset.

### 4.3 The receiving side (`InboundKeys`, `MatrixRooms`, `MatrixChat`)

`InboundKeys`: one peer device.  Its to-device messages are kept by the server
until a sync names a token past them.  `Sync`, `Receive`, `Received` and
`Persist` are the steps of `sync_now` over them, `Insert` is `insert_inbound`
with its binding rules, reached from a room key and from the backup; the
snapshot and the account are two writes with the power failing anywhere.  The
badge wraps and delivers messages on its newest session (`Wrap`, `Deliver`); the
peer opens sessions when it likes.  Two Olm sessions are kept at most instead of
three, so that three sessions reach the eviction; the key of one Megolm session
comes from the peer at index 1 and from the backup at index 0, without a sender,
or on another chain with another one.

`MatrixRooms`: two rooms, the account's state of each, the merge of a full or an
incremental sync, the host's stack of views with the rows each list was drawn
with, and the ids dialogs act on.  Requests fail; another client joins, leaves
or is invited twice per behaviour over views two deep and once over views three
deep; without it the views go four deep, which a list over a delete dialog over
a list needs.  The theorem about the list (section 8) has no such bounds.

`MatrixChat`: one room, its messages numbered.  RETAIN is four, a sync brings at
most two, the history at most three, two fit on the screen, and there are five
messages: each limit is passed.

## 5. The other plugins

The comment at the head of each module says what its state stands for.  What
they have in common: the host's queue of actions and its stack of views are
variables where their order matters, and time is counted in the smallest unit
the code compares.

**Host calls that fail.**  Every write to NVS or to the retained memory of a
value the models have may be refused, and the model goes on as the code does,
which in most plugins means: as if nothing had happened.  That goes for the high
scores and the level of `snake`, the settings of `grove_led` (each key alone),
the effect and the rotation of `name_badge`, the number and the URL of
`print_counter`, switch, port and printer of `thermo_printer`, the host, scheme
and favourites of `home_assistant`, the URL of `news_feed`, the broker and the
password of `gpio_mqtt`, and the blobs of `matrix`.  `set_resident` may be
refused to `print_counter` and to the print server.  Requests, connections,
binds, file reads and the starting of the strip may fail, radio and display
events may be lost.

Taken to succeed are: reading back a key that is in NVS (but in `CryptoStore`
and, for the token, in `HomeAssistant`), drawing and pushing views, writing to
the strip, measuring text, `set_sleep_inhibit`, `set_resident` of `webserver`
and `grove_led`, the erasing of the password that `gpio_mqtt` has moved, and the
sync token's and the credentials' own writes.  Not modelled are settings no
property depends on: the angle unit of `sci_calc`, the name of `name_badge`, the
sliders, font and compression switch of `thermo_printer`, number of lights,
brightness and speed of `grove_led`.

**Excuses.**  A bookkeeping variable that excuses a property (`refined`,
`excused`, `hasty`, `ahead`, `gone`, and `missed` and `storeFault` of `GpioMqtt`)
is set by exactly the step that section 7 describes.  The failures above are
remembered as narrowly as the property allows: `missed` of `SnakeApp` is the one
score that was refused and ends with the next write or level, `unsaved` of
`GroveLed` holds the keys that were refused last, `refused` of `PrintServer`
likewise, and `losses` of `PrintCounter` counts failures, each of which excuses
one number.

| Module | Abstraction | Bounds (`LiveApps.cfg`, `SafeApps.cfg`) |
|---|---|---|
| `SnakeGame` | the random food cell is any free cell | a grid of 4 by 2, which the snake can fill; a window of 2 turns |
| `SnakeApp` | a step moves, eats or crashes; events of the display and writes may be lost | two levels, a score of 2, watchdog 3 and step interval 2 ticks |
| `GroveLed` | the strip is lit or dark, but for the error diffusion of `dim_dither`; a colour whose channels are partly written is any colour | two colours, one key behind at a time, diffusion to base 4 over three frames |
| `NameBadge` | one variable holds the state of the current effect | a name of two characters, dwell 3, two late completions |
| `PrintCounter` | the provider is `FeatureJob`'s; a status waits in the host's mail, in any order | three prints, two failures |
| `HomeAssistant` | an entity is its number in the browse order | three entities of three domains, two favourites, three views deep |
| `HomeStates` | a level is the percentage it was set to; the server keeps 0..255; states are those the code tells apart, unknown, unavailable and deleted among them | one favourite of each domain, and two; six levels |
| `HomeClimate` | temperatures in tenths, as in the code; a formatted number is what the server reads | 20 devices: below zero, at and outside the limits, even and odd ranges |
| `WebServer` | a name is a sequence of characters, escaped or not; a request line arrives whole, cut short anywhere or not at all; a file is small or larger than FILE_MAX; time in read timeouts | names of three characters, one file too large, replies of two pieces |
| `BleScanner` | a label is the signal strength | four devices, a table of three, two results per round |
| `GpioMqtt` | a session is its broker and password | two pins, two brokers, intervals of two polls |
| `SciCalc` | numbers are whole; the bound stands for a result that is not finite | digits 0 and 1, results up to 2, one line of tape |
| `NewsFeed` | a document is a sequence of tags and titles | feeds of two and three parts, two headlines, two queued actions |

**Fairness** (`LiveApps`).  The host ticks the plugin it shows, and a resident
one; it delivers the actions of a print job, and the provider reports it, which
is `JobReported` of the driver.  The matrix plugin is ticked while it is
entered, and its handlers return because every HTTP request has a timeout.
Users, servers, networks, refresh events and completions owe nothing.

## 6. Runs

| Run | Result | What it shows |
|---|---|---|
| `print_driver` | pass | `TypeOK`; `JobAccounting`: a driver that is idle again has reported its job; `QueueMatchesDrive`: what is queued fits the drive state; `OnePrint`: rasters and lines of two prints never mix; `FlowControl`: one unacknowledged gated write, a gate every `GATE_EVERY`; `LeavesComplete`: a transfer ends complete, or with the link dropped and no DONE; `ImplementsFeatureJob`: refinement of the provider's contract; `JobReported`: every job handed over is eventually reported |
| `print_driver_late` | violation | `JobReported` with late completions |
| `print_driver_pages` | violation | `DoneMeansAllPages` |
| `print_driver_ok` | violation | `OkMeansQueued` |
| `room_keys` | pass | with failing requests and quick rejoins: `Rotated` (a departed member has no key of the live session), `AudienceOnly` (nobody reads a message it was not addressed to), `RecipientCanRead` (whoever is keyed can read what they were counted on for); in a quiet world `EveryMemberKeyed` (every member has the live key or is queued for it) |
| `room_keys_full` | violation | `DepartedLockedOut` with full syncs over a tracked room |
| `crypto_store` | pass | `IdentityKept`: with failing writes and power loss anywhere, the published identity is never replaced; `NoKeyReuse`: with writes that arrive, no Olm message key is used twice |
| `crypto_store_reuse` | violation | `NeverReencrypts` with failing writes |
| `matrix_app` | pass | `AckedKeysStored`: keys the server has forgotten are in the snapshot; `PeerSessionOpen`: the session the peer sends on can be read; `StaysReadable`: no import makes a readable session unreadable; `ListTrue`: rows, dialogs and the open room are the account's; `ChatTrue`: the chat is current below its cap, without duplicates, marked, and answers its keys |
| `matrix_chat` | violation | `ChatIsCurrent` at the cap |
| `apps_live` | pass | `RoundCounts`, `FairCrash` (snake); `StripAsSet` (grove_led); `NothingLeftOver` (name_badge); `DisplayGoesOn`: a held game, an explosion, a static colour, the name and the rotation go on whatever events are lost; `JobAccounted`: numbers in order but for one per failure, radio and residency held while a job is pending, `PendingEnds` (print_counter); `QueueDrains`: `PENDING_DIST` drains, whatever fails |
| `apps_safe` | pass | `HomeAsSeen`, `AppliedAsShown` (home_assistant); `ServesAsAsked` (webserver); `ServerAsShown`, `PaperIsPrint`, `PagesProgress` (thermo_printer); `LeftToRight` (sci_calc); `BrokerAsSet` (gpio_mqtt); `RowsMirrorTable` (ble_scanner); `FeedAsShown` (news_feed) |

A property with several parts is a conjunction of named definitions in its
module, each with a comment that says what it states.  Deadlock is checked in
every run.

## 7. Where the code and its documentation differ

The violation runs show six disagreements; `findings` in `PROJECT.json` quotes
the lines.

- `print_driver_late`: `on_discovered` does not look at the drive state.  The
  completion of a discovery that timed out arrives while the next print is
  Sending and sets the driver Idle; that print's job is never reported.
- `print_driver_pages`: a last page that cannot be rendered after its lines
  were drained looks like the end of the text: DONE with a page missing.
- `print_driver_ok`: the print server answers OK although `connect_or_scan` has
  just dropped the job (Bluetooth off, for instance).
- `room_keys_full`: a full sync takes a new token from a snapshot that need not
  report a leave since the old one; the session is kept and the departed member
  reads on.
- `crypto_store_reuse`: `persist_crypto` records the hash whatever the write
  did, and the message leaves; after a restart the message key is used again.
- `matrix_chat`: the poll redraws the open chat when the number of messages has
  changed; at RETAIN it no longer does, and new messages are not shown.

Other consequences of the code that the models contain and no run is kept for:

**thermo_printer**
- A print is sent on the open link even after another printer was chosen or
  the saved one forgotten.
- Blank lines at the bottom of a page do not count towards its height; enough of
  them push it past the surface's rows, and the page is lost.
- `compose_vcard` prints the first page of a card only.
- The width of a raster is ignored: bits between it and the stride are printed.
- "A running listener is rebound so the NVS value and the live server never
  drift apart" (`lib.rs:1068-1070`) holds only while NVS takes the port: the
  result of writing it is ignored (`lib.rs:1503`) and the listener is rebound
  all the same, so after a refused write the server listens on the new port, and
  the menu's setting and the next start have the old one.  `ServerAsShown`
  without `"port" \in refused` is violated by three steps: open, switch on, set
  a port that is not saved.
- The switch and the residency of the print server are saved without looking at
  the result: a server that was switched on may be off after a boot or go with
  the plugin, one that was switched off may come back (`refused`).
- A chosen or forgotten printer that NVS does not take is toasted as saved or
  forgotten; the next print goes to the old one.

**matrix**
- In the world "net", `EveryMemberKeyed` does not hold: a failed query or claim,
  or a chunk that is given up, leaves a member without the key of a session that
  is used on.  In "rejoin" it does not hold either: a user of the local list who
  is away when the members are fetched for a new session and back before the
  next sync is not new to the list.
- A retry wraps the next chunk before it sends again, so `msgs` grows by a chunk
  per failed attempt; recipients wrapped on the last attempt are given up on
  their first failure, and the retry counter is reset by success only.
- With reads that fail, `IdentityKept` does not hold: power lost between the
  account blob and its length, then a failed read, lets `has_account` answer no.
- Power lost between the upload and `save_account` leaves one-time keys on the
  server that the account does not have; between a longer account blob and its
  length, an account that cannot be read.
- `plugins/matrix/README.md` says that Olm sessions are not persisted; the code
  persists them (`export_state`), and `CryptoStore` models that.
- Resetting the module leaves `PENDING_DIST` as it is.
- The history of an empty room may hold messages the token has not passed; they
  appear twice (`ahead`).
- A full sync hides leaves, so that rooms that were left stay listed (`hidden`),
  and a message it is the first to deliver is not marked unread.  After a failed
  full sync on entry with a stored token the list stays partial.
- A leave that fails forgets the room here only (`dropped`); a login without a
  reset keeps the rooms of the account before.
- A room that is left elsewhere while its chat is open: a cancelled reply or
  invitation leaves `VIEW` at Composing.
- The *no* of the reset dialog sets `VIEW` to the room list while the system
  list is shown, and lists with stale rows can come back from under a newer one.

**home_assistant**
- Filtering and searching push the browse list over the old one (`ListBuilder`
  replaces only what is on top), which comes back with places of older data
  (`refined`).
- With an unreadable token the entity list is empty, the place of the favourite
  to remove counts as 0, and the first favourite goes.
- A favourite that the server no longer has (404) makes placeholders of all
  behind it; a placeholder that is tapped shows *on* (`excused`).
- A row that was fetched while its entity was unavailable can be tapped: Home
  Assistant answers the service call with success and changes nothing, and the
  row shows *on*, or *off* when it is tapped again, of an entity that is neither
  (`lib.rs:800-808`).  `LabelTrue` excuses that row until the next fetch; it
  still covers every row that was fetched in a state.
- A button that has never been pressed is *unknown* and shows `!`; its first
  press gives it a state, which the row does not show until the next fetch.
- Tenths between -9 and -1 are sent without their sign, range ends may leave the
  device's limits, and a range of an odd width shrinks by a tenth.

**Others**
- `sci_calc`: an operator after a function or a change of sign forgets the
  pending operation: 2 + 9 √ + gives 3 instead of 5 (`excused`).
- `gpio_mqtt`: a change whose publish fails is not sent again, and neither a
  reconnect nor a new topic brings a new snapshot, although `lib.rs:4-5`
  promises every change (`missed`).
- `ble_scanner`: `lib.rs:6` says the list is sorted by RSSI; rows keep the order
  in which devices were first seen.
- `webserver`: a connection may take 3000 ms, one write timeout more than the
  budget the comment names.  When the port cannot be bound, the screen shows the
  configured port all the same, and nobody listens there (`lib.rs:202-205`).  A
  request line that is cut short is answered as if it were whole, with the file
  of the name so far if there is one.
- `snake`: a high score NVS refuses is shown until the level is changed or the
  game left, and is then gone (`missed`).
- `grove_led`: a restart brings back the old value of a key that was refused,
  and a colour mixed of old and new channels (`unsaved`).
- `print_counter`: a refused write repeats a number once the plugin is entered
  again; a caller that is not kept in memory (`set_resident` refused), stopped
  from the plugin list, or hit by a power loss during its job never hears of it
  and repeats the number (`losses`).  The status of a job whose caller is gone
  can end the job of the next one early: the WiFi reservation and the residency
  are then released while that job is still under way.
- `grove_led`: the comment on `update_caffeinate` and the sleep event disagree
  about who darkens the strip; a switch from the lock screen does not refresh
  the row of an open menu.
- `name_badge`: the completion of an earlier puff hides a new one early.
- `news_feed`: selecting a headline and pressing [1] before the list hears of
  being covered pushes a list over the headline (`hasty`).

## 8. Proofs

A theorem holds for every value of the constants that satisfies the named
assumptions of its module, in every behaviour of the specification that the runs
check. The runs check the same properties on small instances first.

**Assumptions.** Sizes, caps and periods of which the code has at least one
(rows per refill, chunk of recipients, sessions per peer, RETAIN, the scanner's
table, the intervals of `gpio_mqtt`) are positive, the other bounds natural
numbers; the sets of users are finite. Names for an absent thing are no names of
a present one (`PeersAssumption`, `PortsAssumption`, `KeysAssumption`), and a
chain has a number. A snake at the start lies on the grid (`SnakeAssumption`),
signal strengths have eight bits (`ScannerAssumption`), and a climate device has
its numbers, in whatever order (`DevicesAssumption`). `HomeAssumption` numbers
the entities from 1, since 0 stands for none, and says that an empty host name
cancels the wizard, as the code does; with `HomeBounds` it also says that the
model's bound on the rows of a list leaves out no entity and no favourite. A
state row has a domain and a level in percent (`RowsAssumption`).
The host opens plain file names only, and a request line is read in less time
than one response may take, which is so for the constants of `lib.rs`
(`WebAssumption`; a file has a name, too). The strip has a colour
(`LedAssumption`). A feed is made of tags and titles (`FeedAssumption`), a
raster of rows of bytes (`RastersAssumption`), a text of words that have a
character, and a page has room for one row of the largest font
(`TextsAssumption`).

| Module | Theorems |
|---|---|
| `PrintDriverProofs` | `TypeCorrect`, `DriverIsProvider`, `JobsAccounted`, `QueueFitsDrive`, `PrintsNeverMix`, `FlowControlled`, `TransfersComplete` |
| `CryptoStoreProofs` | `TypeCorrect`, `IdentityIsKept`, `KeysUsedOnce` |
| `RoomKeysProofs` | `TypeCorrect`, `DepartedAreLockedOut`, `AudienceIsRecipients`, `RecipientsCanRead`, `MembersAreKeyed` |
| `MatrixAppProofs` | `TypeCorrect`, `PeerCanReach`, `DeletedKeysAreStored`, `NothingBecomesUnreadable` (`InboundKeys`), `ListIsTheAccounts`, `ChatIsTheRooms` |
| `LiveAppsProofs` | `RoundsCount`, `NoUnfairCrash`, `StripFollowsSettings`, `EffectsCleanUp`, `PrintsAreAccounted` |
| `SafeAppsProofs` | `ServerIsAsShown`, `RowsFollowTable`, `BrokerSeesPins`, `ExecutesLeftToRight`, `AppliesWhatIsShown`, `HomeIsAsSeen` |
| `DocumentProofs` | `ServesWhatIsAsked`, `ListsTheFeed`, `PrintsTheSource`, `PagesGoOn` |

**Print driver.** `TypeCorrect`: the type of `snd` depends on the transfer's
arithmetic (a refill never passes the raster's height), so the induction carries
`Buffered` along: what is framed is in the buffer or written. It needs nothing
of the host, late completions included, and neither does `DriverIsProvider`, the
refinement of `FeatureJob`, which follows from the invariant that `job_active`
mirrors the host's slot.

The other theorems need `~LateEvents` and share the inductive invariant `IInv`:
the properties themselves and `Completions` (completions are only under way for
the state that waits for them: otherwise `on_discovered` could run in any
state), `MenuScan` (a scan without a queued print is nobody's job, so ending it
may go to Idle without a report) and `Buffered`. The action property
`TransfersComplete` follows from `IInv` step by step.

**Stored state.** The two properties name the fault they exclude (reads that
fail, writes that fail); section 7 shows that neither exception can be left out.
`IdentityKept` alone is not inductive: an account in RAM agrees with the server
because both agree with the *stored* one, so `IdentityInv` says that whatever is
published is on disk, and that a new account is only made before anything was
published. `NoKeyReuse` needs `ReuseInv`: the chain in RAM *and* the stored
chain are past every key that left; when a message may leave, the stored chain
is the one in RAM; and `CRYPTO_HASH`, which is trusted to skip a write, stands
for what is stored.

**Room keys.** `IInv` has three parts, for what the world may do. `StateInv`
holds in every world: types, and what a session, a phase and a pending change
imply about each other. `SafeInv` holds while no full sync skips a leave.
`Rotated` speaks of users whose leave has been synced, so it needs that a member
who is gone and still listed is about to be reported (`MembersKnown`), and that
whoever has the live key is listed (`Listed`): then the leave that is reported
finds the session and rotates it. `AudienceOnly` and `RecipientCanRead` are the
two directions of `ReadersAreRecipients`; they need that the chain index is past
the messages sent and not behind the keys handed out (`ChainAhead`), so that a
key wrapped now cannot open an older message, and that the key of a session
whose recipients are still being fetched is nowhere yet (`Unsent`). In the quiet
world, `MembersKeyed` says for the plugin's own view of the room what
`EveryMemberKeyed` says of the account, and `Reachable` that a recipient without
an Olm session has a claimed one-time key, so that no one is skipped.

**Inbound keys.** `SessionInv` is about Olm sessions. `PeerSessionOpen` says
that the session the peer sends on can be opened, restored or created; this
survives a power loss because a message only leaves with a list that is in the
snapshot (`SendFits`), the snapshot's sessions are in RAM or were evicted
(`SnapKept`), and a one-time key that is used up has opened a session
(`OtkOpened`). `KeysInv` is about room keys. `AckedKeysStored` follows the key
from the to-device message through the loop of `sync_now` to the snapshot: what
the loop has passed is in RAM (`LookedAt`), RAM is the snapshot whenever no
import is unwritten (`RamIsSnap`), and the server deletes only up to the token
of a later sync (`TokenFits`). The lemmas about `insert_inbound` show that it
acts on one entry and that entries only grow (`Grows`): the same chain, from the
same index or an earlier one, with no binding changed. `StaysReadable` is an
action property and follows from that, for RAM, for the snapshot and for a
restart, where RAM becomes the snapshot.

**The list of rooms.** `ListTrue` speaks of the screen as it is; a view below
the top counts only when it comes back. `ScreenInv` therefore says of the whole
stack what keeps the property true when views are popped: the first view is a
list and an editor lies over the system list (`Stacked`); a chat is on top
exactly when `VIEW` is Chat (`ChatOnTop`), since while it is the poll changes
the rooms and draws no list; the list drawn last has the rooms' places, at
whatever depth it is (`LastDrawn`); and `PENDING_DELETE` belongs to the delete
dialog nearest to the top (`TopmostDelete`), since a dialog further down is only
reached after `delete_confirmed` has cleared it. `Accounts` is the property of
the list itself, with the three exceptions (news the token has not passed,
leaves a full sync went past, rooms that could not be left) as parameters, so
that the lemma about `sync_now` can say how a merge changes them. What the merge
does to the list is a statement about which rooms the sequence holds
(`MergedHolds`); places matter for the rows only, and every handler that changes
`ROOMS` under a list draws it again, which the proof follows through
`RenderedList`.

**The chat.** `ChatInv` adds to the property: which chat is open while the room
is known or was left (`RoomOfCanvas`); that what is kept is in order and not
past the token, unless the history brought messages the token has not passed
(`PastToken`), from which it follows that a sync adds no message twice; that
below RETAIN an open chat is drawn, whatever dialog is over it (`DrawnAndSeen`),
so that closing the dialog needs no redraw; that a menu over a chat leaves
`VIEW` alone (`ViewUnderMenu`), on which the keys depend; and that what came in
off screen is marked (`MarkedOnList`).

**Live plugins.** *snake*: the body is a path of adjacent, distinct cells
(`Path`) whose second cell lies behind the head (`NeckBehind`), with the food
off it. The turn taken is never a reversal because `step` skips what has become
illegal when the window dropped a turn that `steer` compared with; with the neck
behind it the head never enters it, and the cell the tail leaves is not in the
way. That a crash counts for the level played needs the score to exist on the
screens that can crash, and that what BEST has over NVS is the one score NVS
refused (`ScoresInv`). *grove_led*: `acc` is the light owed
(`owed = acc < Base`), which makes the error diffusion exact for every
brightness; each handler saves every key it changes, so a key is behind only
while its own last write was refused. *name_badge*: a puff that is visible belongs to an effect that plays
or has a completion under way (`DropInv`), and a flash or noise to its own phase
(`GlitchInv`). *print_counter*: a status may be under way that nobody waits for any more
(`Astray` counts them, with an abandoned job in the slot), and the number, in
memory and in NVS, is behind the prints whose status has settled by what the
failures have cost, less what is astray (`Lag`): a status that arrives late
moves the number for a print it was not about, and the sum stays.

**Other plugins.** *Print server*: the property itself is inductive, with the
types of what is stored; its excuses make it so, since a refused write changes
`refused` and nothing else.
*ble_scanner*: the table is within its cap and has no address twice, through the
merge of a round (a loop over the results) and the eviction; `render` then edits
the rows in place until they are the table's, which the proof follows through
its removals and insertions. *gpio_mqtt*: `Fits` relates the session in use to
the broker and the password as they are stored in the two places that the
migration moves it between; `Fresh` keeps the time since the last ping under its
limit. *sci_calc*: an operand is typed exactly while the entry is not new, so
that `apply_op`, which only looks at `new_entry`, does what the expression says.
*home_assistant*'s editor: an open editor started at the clamped setpoint and
its numbers are integers, which is what a commit needs to send what was shown.

**Home Assistant.** `HomeAsSeen` speaks of the view on top; `HomeInv` says of
every stack of views the handlers can build what keeps it true when views are
popped. Without a filter there are two lists at most, the favourites below and
the browse list above (`HomeShapes`), each with the rows of the data it was
drawn from, and at most one dialog over them. `PENDING_REMOVE` is a place in
`ENTITIES` that is used on `FAVS`: with a readable token the two list the same
entities in the same order (`Listed`), which every handler that changes one of
them restores before it returns. A state row is true because the percentage that
is computed back from the server's 0..255 is the one that was sent
(`Pct(Raw(l)) = l`, an arithmetic lemma for all of 0..100).

**Web server.** `percent_decode` is the inverse of any escaping: for every set
of characters that a client escapes, what is read at the end of each character's
part of the target is that character and all before it (`Read`). The name that
`resolve_file` looks at is therefore the name the client meant, once. Of a
request that was cut short nothing is known but that `resolve_file` lets only
plain names through (`ResolveFacts`), whatever the bytes. The rest of `WebInv` relates the port on the screen, the bound port and the listener, and
bounds what a slow client can take of the plugin's call lock.

**News feed.** The loop of `parse_feed_entries` lists, after each round, the
titles before its cursor (`ListedTo`), and at the end there are either
`MaxHeadlines` of them or no entry is left (`AllListed`), for any well-formed
document. As long as a press is handled before the next one, the stack of views
and the queue of actions take one of a few shapes (`FeedShapes`), which say at
each point how the two flags stand; the list's rows are the headlines in all of
them.

**Paper.** `rle_encode_row` and the printer's decoding are inverse: what is
encoded of the first x pixels, with the run that is open, draws these pixels
(`Scanned`), and a run that is longer than a byte holds is cut without a gap.
Compressed or not, a row's frame draws the row, filled up with white, so the
paper is a prefix of what the raster asks for, as long as what was fed
(`CatInv`), across every refill of the send buffer.

**Layout.** Three loops, each with its invariant: the pieces of a word that is
too wide are the word (`PiecesAreWord`); the rows and the open row of
`wrap_text` hold the words so far, each row fits or is a single character
(`Wrapped`); the page of `paginate` with the rest of a split line holds the
lines so far, ends before `PAGE_MAX_ROWS` but for blank lines, and has taken
something (`Paged`). They speak of a set of words that may be cut when they are
too wide, so that the leftover of a split line, whose words may be pieces
already, is again a line the loops are about, in whichever font the next page
has. `TextInv` puts them together over the pages: what is printed and what is
queued are the text, until a page is lost. `PagesGoOn` is the progress of each
page from the same lemma (`PageIs`).

**Recursion.** The loops of the models are recursive functions over an interval.
The library's induction theorems take an operator as a parameter, so `Recursion`
proves from the well-foundedness of the naturals that a set which contains 0,
and n whenever it contains n - 1, contains the interval (`UpTo`), and from that
what a recursive definition over an interval computes, step by step. Both are
statements about sets and functions, which a proof instantiates with the set of
numbers that have the property it is about. Laying the sequences of a sequence
end to end (`Flat`) is such a definition too, and the one of the community
modules computes the same (`FlattenSeqIs`); that it appends, concatenates and
counts is what the proofs about texts, rows and frames rest on.

**Model-checked only.** Liveness (`JobReported`, `DisplayGoesOn`, `PendingEnds`,
`QueueDrains`), which is out of the prover's reach. The violated properties of
section 7 are findings about the code and have nothing to prove.

## 9. What is not modelled

- The host; drawing, formatting and translation; the cryptography of vodozemac;
  JSON parsing beyond what it decides for membership, rooms and messages.
- `thermo_printer`: the settings menus, the test page, `url.rs`, the checksum of
  a frame.
- `matrix`: other devices of the badge's own user, more than one device per
  user, more than one encrypted room; the dialogs that enter server, user and
  password; the secrets kept as text with their migration.
- `grove_led` and `name_badge`: the pixels of the effects.  `snake`: a display
  too small for the board, which ends a round before it begins.  `sci_calc`:
  floating-point values and how they are formatted.
- `sdk_probe` is a menu that calls every host function once, and
  `mini_messenger`, `canvas_demo`, `grove_blink`, `battery_widget` and
  `hello_world` show one interface each: there is no state to relate.
- The web installer: whether an upload is complete depends on the firmware's
  side of the serial protocol (when a session times out, what ABORT does inside
  a payload, whether it is answered), which is not in the repository.
- The tools are build-time scripts, and the SDK's wrappers pass their arguments
  on to the host.
