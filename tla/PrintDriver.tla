---------------------------- MODULE PrintDriver ----------------------------
(***************************************************************************)
(* The print driver of plugins/thermo_printer: the state machine `Drive`   *)
(* that takes a raster from a menu, the network print server or another    *)
(* plugin (the `thermo_print` external feature), brings the BLE link to    *)
(* the printer up, streams the rows under the printer's flow control and   *)
(* reports the outcome.                                                    *)
(*                                                                         *)
(* The plugin is single threaded: the host calls one entry point at a time *)
(* (tick, action, exit), and every action below is one such call.  The BLE *)
(* stack runs beside it: links, scans, discoveries and writes complete     *)
(* between calls, in any order, or not at all.                             *)
(***************************************************************************)
EXTENDS Integers, FiniteSets

CONSTANTS
    Printers,        \* peers whose advertised name is a known printer model
    Foreign,         \* some other BLE peer that may connect to the badge
    NoPeer,          \* handle 0: no connection
    Heights,         \* raster heights, in rows
    RowsPerRefill,   \* ROWS_PER_REFILL
    GateEvery,       \* GATE_EVERY
    ConnectTimeout,  \* CONNECT_TIMEOUT_MS, in ticks
    DiscoverTimeout, \* DISCOVER_TIMEOUT_MS, in ticks
    PauseMax,        \* PAUSE_MAX_MS, in ticks
    RescanInterval,  \* RESCAN_INTERVAL_MS, in ticks
    LateEvents,      \* TRUE: completions of a dropped link still arrive
    MaxChunks,       \* bound: BLE chunks in one refill of the send buffer
    MaxPages,        \* bound: pages of one text
    MaxPrints,       \* bound: prints started
    MaxFull          \* bound: BufferFull notifications of the printer

ASSUME PeersAssumption ==
    /\ Foreign \notin Printers
    /\ NoPeer \notin Printers
    /\ NoPeer # Foreign
ASSUME SizesAssumption ==
    /\ Heights \subseteq Nat \ {0}
    /\ RowsPerRefill \in Nat \ {0}
    /\ GateEvery \in Nat \ {0}
    /\ MaxChunks \in Nat \ {0}
    /\ MaxPages \in Nat \ {0}
ASSUME BoundsAssumption ==
    /\ ConnectTimeout \in Nat
    /\ DiscoverTimeout \in Nat
    /\ PauseMax \in Nat
    /\ RescanInterval \in Nat
    /\ MaxPrints \in Nat
    /\ MaxFull \in Nat
    /\ LateEvents \in BOOLEAN

VARIABLES
    \* The plugin's `State`.
    drive,      \* which variant of the enum Drive
    timer,      \* ticks left until Connecting / Discovering time out
    snd,        \* payload of Drive::Sending
    pending,    \* raster queued until the link is up
    lines,      \* text lines left to print, counted in pages
    after,      \* AfterPrint
    jobActive,  \* an ext-feature job drives the current print
    conn,       \* the link the driver believes it has (0 = NoPeer)
    tx,         \* TX characteristic: "none" or how it may be written
    rx,         \* RX characteristic found, notifications subscribed
    scanMenu,   \* the "Scan printers" list: closed, paused or on
    found,      \* printers on that list
    rescanIn,   \* ticks until the next background rescan is due
    saved,      \* NVS printer_addr
    \* The host and its BLE stack.
    bleOn,      \* ble::is_enabled
    hostLink,   \* the peer of the open connection
    hostReq,    \* an outstanding connect request
    scan,       \* the host's central scan: running or done
    discs,      \* discovery completions still to be delivered
    acks,       \* write completions still to be delivered
    slot,       \* the host's ext-feature job slot
    status,     \* the status this call reported for an ext-feature job
    reply,      \* the print server's answer given in this call
    \* Bookkeeping of the model.
    prints,     \* prints started so far
    todo,       \* pages of the current print that are not yet on paper
    fulls       \* BufferFull notifications so far

drv     == <<drive, timer, snd>>
queue   == <<pending, lines, after, todo>>
link    == <<conn, tx, rx>>
list    == <<scanMenu, found>>
radio   == <<bleOn, hostLink, hostReq, scan, discs, acks>>
feature == <<jobActive, slot, status>>
vars    == <<drv, queue, link, list, rescanIn, saved, radio, feature, reply,
             prints, fulls>>

Peers == Printers \cup {Foreign}

\* A raster belongs to a print (id), is one page of it, and has a height.
Raster == [id : 1..MaxPrints, page : Nat, h : Heights]
NoRas  == [id |-> 0, page |-> 0, h |-> 0]

\* The lines of a text that are still to be laid out, counted in pages.
Lines   == [id : 1..MaxPrints, n : 1..MaxPages]
NoLines == [id |-> 0, n |-> 0]

\* What the TX characteristic's properties allow (props = 0 counts as
\* "noRsp", a characteristic with neither write property as "rsp").
TxKinds == {"noRsp", "rsp", "both"}

\* Drive::Sending: next_row, finished, the chunks left in buf, gated,
\* since_gate and the ticks left of a BufferFull pause.  `out` is bookkeeping:
\* rows whose frames have all been written.
NoSend ==
    [ras |-> NoRas, row |-> 0, finished |-> FALSE, buf |-> 0, out |-> 0,
     gated |-> FALSE, sinceGate |-> 0, paused |-> 0]

Least(a, b) == IF a < b THEN a ELSE b
Down(n)     == IF n > 0 THEN n - 1 ELSE 0

DriveType ==
    /\ drive \in {"Idle", "Scanning", "Connecting", "Discovering", "Sending"}
    /\ timer \in Nat
    /\ snd \in [ras : Raster \cup {NoRas}, row : Nat, finished : BOOLEAN,
                buf : 0..MaxChunks, out : Nat, gated : BOOLEAN,
                sinceGate : Nat, paused : 0..PauseMax]

QueueType ==
    /\ pending \in Raster \cup {NoRas}
    /\ lines \in Lines \cup {NoLines}
    /\ after \in {"Nothing", "NextPage"}
    /\ todo \in 0..MaxPages

LinkType ==
    /\ conn \in Printers \cup {NoPeer}
    /\ tx \in TxKinds \cup {"none"}
    /\ rx \in BOOLEAN

MenuType ==
    /\ scanMenu \in {"closed", "paused", "on"}
    /\ found \in SUBSET Printers
    /\ rescanIn \in 0..RescanInterval
    /\ saved \in Printers \cup {NoPeer}

RadioType ==
    /\ bleOn \in BOOLEAN
    /\ hostLink \in Peers \cup {NoPeer}
    /\ hostReq \in Printers \cup {NoPeer}
    /\ scan \in {"running", "done"}
    /\ discs \in Nat
    /\ acks \in Nat

FeatureType ==
    /\ jobActive \in BOOLEAN
    /\ slot \in {"free", "offered", "taken"}
    /\ status \in {"none", "DONE", "ERROR"}
    /\ reply \in {"none", "OK", "ERR"}

TypeOK ==
    /\ DriveType /\ QueueType /\ LinkType /\ MenuType /\ RadioType
    /\ FeatureType
    /\ prints \in 0..MaxPrints
    /\ fulls \in 0..MaxFull

Init ==
    /\ drive = "Idle" /\ timer = 0 /\ snd = NoSend
    /\ pending = NoRas /\ lines = NoLines /\ after = "Nothing"
    /\ jobActive = FALSE
    /\ conn = NoPeer /\ tx = "none" /\ rx = FALSE
    /\ scanMenu = "closed" /\ found = {} /\ rescanIn = 0
    /\ saved \in Printers \cup {NoPeer}
    /\ bleOn \in BOOLEAN
    /\ hostLink = NoPeer /\ hostReq = NoPeer
    /\ scan = "done" /\ discs = 0 /\ acks = 0
    /\ slot = "free" /\ status = "none" /\ reply = "none"
    /\ prints = 0 /\ todo = 0 /\ fulls = 0

----------------------------------------------------------------------------
(***************************************************************************)
(* Reporting and clearing.  A parameter `ja`, `c`, `d` or `a` is the value *)
(* that job_active, conn, discs or acks has when the code gets there.      *)
(***************************************************************************)

\* Nothing is reported and the job slot stays as it is.
Quiet == status' = "none" /\ UNCHANGED <<jobActive, slot>>

\* The call answers no print-server connection.
NoReply == reply' = "none"

\* A print goes on for a job that `ja` says is an ext-feature job.
KeepJob(ja) ==
    /\ jobActive' = ja
    /\ slot' = IF ja THEN "taken" ELSE slot
    /\ status' = "none"

\* Mutation: finish_job reports whether or not a job drives the print.
FinishJobAlways(ja, code) ==
    /\ jobActive' = FALSE
    /\ slot' = IF ja THEN "free" ELSE slot
    /\ status' = code

\* finish_job: report_result frees the host's job slot.
FinishJob(ja, code) ==
    /\ jobActive' = FALSE
    /\ slot' = IF ja THEN "free" ELSE slot
    /\ status' = IF ja THEN code ELSE "none"

\* Mutation: clear_queue without finish_job.
ClearQueueUnreported(ja) ==
    /\ pending' = NoRas
    /\ lines' = NoLines
    /\ after' = "Nothing"
    /\ todo' = 0
    /\ KeepJob(ja)

\* Mutation: clear_queue leaves the lines of the text behind.
ClearQueueLines(ja) ==
    /\ pending' = NoRas
    /\ UNCHANGED <<lines, after>>
    /\ todo' = 0
    /\ FinishJob(ja, "ERROR")

\* clear_queue: drop everything queued and report a failed job.
ClearQueue(ja) ==
    /\ pending' = NoRas
    /\ lines' = NoLines
    /\ after' = "Nothing"
    /\ todo' = 0
    /\ FinishJob(ja, "ERROR")

\* reset_link: disconnect, unregister the write-complete action and forget
\* the handles.  Unless LateEvents, the host drops what was still to come.
ResetLink(c, d, a) ==
    /\ hostLink' = IF hostLink = c THEN NoPeer ELSE hostLink
    /\ discs' = IF c = NoPeer \/ LateEvents THEN d ELSE 0
    /\ acks' = IF LateEvents THEN a ELSE 0
    /\ conn' = NoPeer /\ tx' = "none" /\ rx' = FALSE
    /\ UNCHANGED <<bleOn, hostReq, scan>>

\* The enum takes another variant, and drops the payload of the old one.
Become(variant, ticks) ==
    /\ drive' = variant
    /\ timer' = ticks
    /\ snd' = NoSend

\* fail_print.
FailPrint(c, d, a) ==
    /\ Become("Idle", 0)
    /\ ResetLink(c, d, a)
    /\ ClearQueue(jobActive)
    /\ UNCHANGED <<list, saved, prints, fulls>>

----------------------------------------------------------------------------
(***************************************************************************)
(* Starting a print.                                                       *)
(***************************************************************************)

\* begin_send with a raster: the buffer starts with the setup frames.
BeginSend(ras) ==
    /\ drive' = "Sending"
    /\ timer' = 0
    /\ \E n \in 1..MaxChunks :
           snd' = [NoSend EXCEPT !.ras = ras, !.buf = n]
    /\ pending' = NoRas

\* What is left of the print after the raster that is queued or sent now.
Remaining(text) ==
    /\ lines' = text
    /\ after' = IF text = NoLines THEN "Nothing" ELSE "NextPage"

LinkUp == conn # NoPeer /\ tx # "none"

\* connect_or_scan refuses: BLE is off, or neither a connect nor a scan
\* starts.  The queue is cleared; start_print returns true all the same.
StartDropped(ja) ==
    /\ ~bleOn \/ ~LinkUp
    /\ ClearQueue(ja)
    /\ UNCHANGED <<drv, list, radio>>

\* connect_or_scan on the link of an earlier print.
StartOnLink(ja, ras, text) ==
    /\ bleOn /\ LinkUp
    /\ BeginSend(ras)
    /\ Remaining(text)
    /\ todo' = 1 + text.n
    /\ KeepJob(ja)
    /\ UNCHANGED <<list, radio>>

\* connect_or_scan: connect to the saved printer.
StartConnect(ja, ras, text) ==
    /\ bleOn /\ ~LinkUp /\ saved # NoPeer
    /\ hostReq' = saved
    /\ Become("Connecting", ConnectTimeout)
    /\ pending' = ras
    /\ Remaining(text)
    /\ todo' = 1 + text.n
    /\ KeepJob(ja)
    /\ UNCHANGED <<list, bleOn, hostLink, scan, discs, acks>>

\* connect_or_scan: no saved printer, or the connect call failed.
StartScan(ja, ras, text) ==
    /\ bleOn /\ ~LinkUp
    /\ scan' = "running"
    /\ Become("Scanning", 0)
    /\ found' = {}
    /\ scanMenu' = IF scanMenu = "on" THEN "paused" ELSE scanMenu
    /\ pending' = ras
    /\ Remaining(text)
    /\ todo' = 1 + text.n
    /\ KeepJob(ja)
    /\ UNCHANGED <<bleOn, hostLink, hostReq, discs, acks>>

\* start_print on an idle driver (a busy one refuses).
StartPrint(ja, ras, text) ==
    /\ prints' = ras.id
    /\ \/ StartDropped(ja)
       \/ StartOnLink(ja, ras, text)
       \/ StartConnect(ja, ras, text)
       \/ StartScan(ja, ras, text)
    /\ UNCHANGED <<link, rescanIn, saved, fulls>>

\* A new print: an image, a raster or a one-page text leaves no lines over;
\* print_text queues the other pages of a longer text.
NewPrint(ja) ==
    /\ prints < MaxPrints
    /\ \E h \in Heights, n \in 0..(MaxPages - 1) :
           StartPrint(ja, [id |-> prints + 1, page |-> 1, h |-> h],
                      IF n = 0 THEN NoLines
                               ELSE [id |-> prints + 1, n |-> n])

\* Mutation: a driver that sends takes the next print as well.
DriveNotLinking == drive \in {"Idle", "Sending"}

\* The guard of start_print, print_text and print_file.
DriveIdle == drive = "Idle"

\* Menus, the message bus and the serial command: start_print_ui, print_text
\* and print_file.  While the driver is busy they only show a message.
UiPrint ==
    /\ NoReply
    /\ DriveIdle
    /\ NewPrint(jobActive)

\* ACT_NET: one print-server connection is read, handled and answered.
NetJob ==
    \/ \* malformed, oversized, too slow, not rendered, or the driver is busy
       /\ reply' = "ERR"
       /\ Quiet
       /\ UNCHANGED <<drv, queue, link, list, rescanIn, saved, radio, prints,
                      fulls>>
    \/ /\ DriveIdle
       /\ NewPrint(jobActive)
       /\ reply' = "OK"

\* External: another plugin hands a job to the host (use_ext_feature), which
\* refuses a second one until the first is reported.
ExtUse ==
    /\ NoReply
    /\ slot = "free"
    /\ slot' = "offered"
    /\ status' = "none"
    /\ UNCHANGED <<drv, queue, link, list, rescanIn, saved, radio, jobActive,
                   prints, fulls>>

\* ACT_JOB: consume_job, then print it or report the error at once.
ExtJob ==
    /\ NoReply
    /\ slot = "offered"
    /\ \/ \* busy, malformed, or the first page cannot be rendered
          /\ slot' = "free" /\ status' = "ERROR"
          /\ UNCHANGED <<drv, queue, link, list, rescanIn, saved, radio,
                         jobActive, prints, fulls>>
       \/ DriveIdle /\ NewPrint(TRUE)

----------------------------------------------------------------------------
(***************************************************************************)
(* The link comes up.                                                      *)
(***************************************************************************)

\* on_connected: start the service discovery.  The handle is read a second
\* time, so the link may be gone again.
OnConnected ==
    \/ /\ conn' = NoPeer
       /\ hostLink' = NoPeer
       /\ timer' = Down(timer)
       /\ Quiet
       /\ UNCHANGED <<drive, snd, queue, tx, rx, list, saved, bleOn, hostReq,
                      scan, discs, acks, prints, fulls>>
    \/ /\ conn' = hostLink
       /\ Become("Discovering", DiscoverTimeout)
       /\ discs' = discs + 1
       /\ Quiet
       /\ UNCHANGED <<queue, tx, rx, list, saved, bleOn, hostLink, hostReq,
                      scan, acks, prints, fulls>>
    \/ FailPrint(hostLink, discs, acks)

\* Time passes for a driver that waits.
Wait ==
    /\ timer' = Down(timer)
    /\ Quiet
    /\ UNCHANGED <<drive, snd, queue, link, list, saved, radio, prints, fulls>>

\* plugin_on_tick in Connecting: only the saved printer's link counts.
TickConnecting ==
    LET up == hostLink # NoPeer /\ hostLink = saved IN
    /\ NoReply
    /\ drive = "Connecting"
    /\ \/ up /\ OnConnected
       \/ ~up /\ timer = 0 /\ FailPrint(conn, discs, acks)
       \/ ~up /\ timer > 0 /\ Wait
    /\ rescanIn' = Down(rescanIn)

\* Mutation: discovery has no timeout.
TickDiscoveringPatient ==
    /\ NoReply
    /\ drive = "Discovering"
    /\ Wait
    /\ rescanIn' = Down(rescanIn)

\* plugin_on_tick in Discovering.
TickDiscovering ==
    /\ NoReply
    /\ drive = "Discovering"
    /\ \/ timer = 0 /\ FailPrint(conn, discs, acks)
       \/ timer > 0 /\ Wait
    /\ rescanIn' = Down(rescanIn)

\* scan_finished for a queued print: take the strongest known printer, whether
\* or not NVS takes it.
PickPrinter ==
    \/ \E p \in Printers :
          /\ saved' \in {saved, p}
          /\ hostReq' = p
          /\ Become("Connecting", ConnectTimeout)
          /\ Quiet
          /\ UNCHANGED <<queue, link, list, bleOn, hostLink, scan, discs,
                         acks, prints, fulls>>
    \/ \* no known printer in range, or connect fails on the one just saved
       /\ saved' \in Printers \cup {saved}
       /\ Become("Idle", 0)
       /\ ClearQueue(jobActive)
       /\ UNCHANGED <<link, list, radio, prints, fulls>>

\* scan_finished for the "Scan printers" list.
MergeFound ==
    /\ \E seen \in SUBSET Printers : found' = found \cup seen
    /\ Become("Idle", 0)
    /\ Quiet
    /\ UNCHANGED <<queue, link, scanMenu, saved, radio, prints, fulls>>

\* plugin_on_tick in Scanning; a model tick is one poll interval.
TickScanning ==
    /\ NoReply
    /\ drive = "Scanning"
    /\ \/ scan # "done" /\ Wait /\ rescanIn' = Down(rescanIn)
       \/ scan = "done" /\ pending # NoRas /\ PickPrinter
          /\ rescanIn' = Down(rescanIn)
       \/ scan = "done" /\ pending = NoRas /\ MergeFound
          /\ rescanIn' = RescanInterval

\* plugin_on_tick in Idle: repeat the scan while its list is shown.
TickIdle ==
    /\ NoReply
    /\ drive = "Idle"
    /\ rescanIn' = Down(rescanIn)
    /\ \/ Wait
       \/ /\ scanMenu = "on" /\ rescanIn' = 0
          /\ scan' = "running"
          /\ Become("Scanning", 0)
          /\ Quiet
          /\ UNCHANGED <<queue, link, list, saved, bleOn, hostLink, hostReq,
                         discs, acks, prints, fulls>>

\* ACT_DISCOVERED: on_discovered runs whatever the driver is doing.
OnDiscovered ==
    /\ NoReply
    /\ discs > 0
    /\ \/ FailPrint(conn, discs - 1, acks)         \* no TX characteristic
       \/ /\ tx' \in TxKinds
          /\ rx' \in BOOLEAN
          /\ \/ pending # NoRas /\ BeginSend(pending)
             \/ pending = NoRas /\ Become("Idle", 0) /\ UNCHANGED pending
          /\ discs' = discs - 1
          /\ Quiet
          /\ UNCHANGED <<lines, after, todo, conn, list, saved, bleOn,
                         hostLink, hostReq, scan, acks, prints, fulls>>
    /\ UNCHANGED rescanIn

----------------------------------------------------------------------------
(***************************************************************************)
(* Sending.                                                                *)
(***************************************************************************)

\* refill_send_buffer: an empty buffer gets the next rows, then the closing
\* frames; `n` is the number of chunks they make.
Refill(s, n) ==
    IF s.buf > 0 THEN s
    ELSE IF s.row < s.ras.h
      THEN [s EXCEPT !.row = Least(s.row + RowsPerRefill, s.ras.h), !.buf = n]
      ELSE [s EXCEPT !.finished = TRUE, !.buf = n]

\* Mutation: the closing frames are not waited for.
ConsumedEarly(s) == s.buf = 0 /\ s.row >= s.ras.h

\* The whole page has been consumed: refill_send_buffer returns false.
Consumed(s) == s.buf = 0 /\ s.row >= s.ras.h /\ s.finished

\* Mutation: the gate is one write late.
WithResponseLate(s) ==
    \/ tx = "rsp"
    \/ /\ tx = "both"
       /\ \/ s.sinceGate >= GateEvery
          \/ s.finished /\ s.buf = 1

\* Which writes of pump_send ask for a response.
WithResponse(s) ==
    \/ tx = "rsp"
    \/ /\ tx = "both"
       /\ \/ s.sinceGate + 1 >= GateEvery
          \/ s.finished /\ s.buf = 1

\* One chunk of the refilled buffer is written.
Written(s) ==
    [s EXCEPT !.paused = 0,
              !.buf = s.buf - 1,
              !.out = IF s.buf = 1 THEN s.row ELSE s.out,
              !.gated = WithResponse(s),
              !.sinceGate = IF WithResponse(s) THEN 0 ELSE s.sinceGate + 1]

\* pump_send, Step::Write: the write goes out on the open link, or fails.
WriteChunk(s) ==
    \/ /\ conn # NoPeer /\ hostLink = conn
       /\ snd' = Written(s)
       /\ acks' = IF WithResponse(s) THEN acks + 1 ELSE acks
       /\ Quiet
       /\ UNCHANGED <<drive, timer, queue, link, list, saved, bleOn, hostLink,
                      hostReq, scan, discs, prints, fulls>>
    \/ FailPrint(conn, discs, acks)

\* A page is on paper once all its rows went out.
Todo == IF snd.out = snd.ras.h THEN Down(todo) ELSE todo

\* Mutation: the drained queue of lines stays Some.
LinesLeftKept == [lines EXCEPT !.n = @ - 1]

LinesLeft == IF lines.n = 1 THEN NoLines ELSE [lines EXCEPT !.n = @ - 1]

\* on_send_complete: compose and send the next page of a text.
NextPage ==
    /\ after = "NextPage"
    /\ \E h \in Heights :
           BeginSend([id |-> lines.id, page |-> snd.ras.page + 1, h |-> h])
    /\ Remaining(LinesLeft)
    /\ todo' = Todo
    /\ Quiet
    /\ UNCHANGED <<link, list, saved, radio, prints, fulls>>

\* on_send_complete: nothing is left to print.  compose_lines_page can also
\* fail after paginate drained the last lines; that ends here as well.
Printed ==
    /\ after = "NextPage" => LinesLeft = NoLines
    /\ Become("Idle", 0)
    /\ Remaining(NoLines)
    /\ todo' = Todo
    /\ FinishJob(jobActive, "DONE")
    /\ UNCHANGED <<pending, link, list, saved, radio, prints, fulls>>

OnSendComplete ==
    \/ NextPage
    \/ after = "NextPage" /\ FailPrint(conn, discs, acks)  \* lines are left
    \/ Printed

\* pump_send, one call per tick.
TickSending ==
    LET s == [snd EXCEPT !.paused = Down(@)] IN
    /\ NoReply
    /\ drive = "Sending"
    /\ \/ /\ s.gated \/ s.paused > 0
          /\ snd' = s
          /\ Quiet
          /\ UNCHANGED <<drive, timer, queue, link, list, saved, radio,
                         prints, fulls>>
       \/ /\ ~(s.gated \/ s.paused > 0)
          /\ \/ Consumed(s) /\ OnSendComplete
             \/ /\ ~Consumed(s)
                /\ \E n \in 1..MaxChunks : WriteChunk(Refill(s, n))
    /\ rescanIn' = Down(rescanIn)

\* ACT_WRITE_DONE.  Completions of other handles (the CCCD write of the
\* subscription) return at once and are left out.
WriteDone ==
    /\ NoReply
    /\ acks > 0
    /\ \/ /\ tx = "none" \/ drive # "Sending"
          /\ acks' = acks - 1
          /\ UNCHANGED snd
          /\ Quiet
          /\ UNCHANGED <<drive, timer, queue, link, list, saved, bleOn,
                         hostLink, hostReq, scan, discs, prints, fulls>>
       \/ /\ tx # "none" /\ drive = "Sending"
          /\ FailPrint(conn, discs, acks - 1)       \* status # 0
       \/ /\ tx # "none" /\ drive = "Sending"
          /\ acks' = acks - 1
          /\ snd' = [snd EXCEPT !.gated = FALSE]
          /\ Quiet
          /\ UNCHANGED <<drive, timer, queue, link, list, saved, bleOn,
                         hostLink, hostReq, scan, discs, prints, fulls>>
    /\ UNCHANGED rescanIn

\* ACT_NOTIFY: the printer pauses or resumes the stream.
Notify ==
    /\ NoReply
    /\ rx /\ drive = "Sending"
    /\ \/ /\ fulls < MaxFull
          /\ fulls' = fulls + 1
          /\ snd' = [snd EXCEPT !.paused = PauseMax]
       \/ /\ snd' = [snd EXCEPT !.paused = 0]
          /\ UNCHANGED fulls
    /\ Quiet
    /\ UNCHANGED <<drive, timer, queue, link, list, rescanIn, saved, radio,
                   prints>>

----------------------------------------------------------------------------
(***************************************************************************)
(* Leaving the plugin, and the menus that touch the driver's state.        *)
(***************************************************************************)

\* plugin_on_exit of a plugin that stays resident.
OnExit ==
    /\ NoReply
    /\ scanMenu' = "closed"
    /\ \/ /\ drive = "Sending"
          /\ Quiet
          /\ UNCHANGED <<drv, queue, link, radio>>
       \/ /\ drive # "Sending"
          /\ ResetLink(conn, discs, acks)
          /\ Become("Idle", 0)
          /\ ClearQueue(jobActive)
    /\ UNCHANGED <<found, rescanIn, saved, prints, fulls>>

\* ACT_PRINTER_MENU / PT_SCAN on an idle driver: start_scan(false).  A failed
\* scan_start clears the (empty) queue; a busy driver shows a message.
OpenScanList ==
    /\ NoReply
    /\ \/ /\ DriveIdle
          /\ scan' = "running"
          /\ found' = {}
          /\ Become("Scanning", 0)
          /\ scanMenu' = "on"
          /\ Quiet
          /\ UNCHANGED <<queue, bleOn, hostLink, hostReq, discs, acks>>
       \/ /\ DriveIdle
          /\ scanMenu' = "closed"
          /\ ClearQueue(jobActive)
          /\ UNCHANGED <<drv, radio, found>>
    /\ UNCHANGED <<link, rescanIn, saved, prints, fulls>>

\* ACT_SCAN_HIDE, ACT_TOP and ACT_PRINTER_MENU: the list is covered or left.
HideScanList ==
    /\ NoReply
    /\ scanMenu = "on"
    /\ scanMenu' \in {"paused", "closed"}
    /\ Quiet
    /\ UNCHANGED <<drv, queue, link, found, rescanIn, saved, radio, prints,
                   fulls>>

\* ACT_SCAN_SHOW: the covered list is visible again.
ShowScanList ==
    /\ NoReply
    /\ scanMenu = "paused"
    /\ scanMenu' = "on"
    /\ rescanIn' = 0
    /\ Quiet
    /\ UNCHANGED <<drv, queue, link, found, saved, radio, prints, fulls>>

\* ACT_SCAN_LIST: a printer is chosen; the list closes itself.  NVS may refuse
\* the choice, which the plugin ignores, as it does in ForgetPrinter.
SelectPrinter ==
    /\ NoReply
    /\ scanMenu # "closed"
    /\ \E p \in found : saved' \in {saved, p}
    /\ scanMenu' = "closed"
    /\ Quiet
    /\ UNCHANGED <<drv, queue, link, found, rescanIn, radio, prints, fulls>>

\* ACT_SETTINGS / SET_FORGET.
ForgetPrinter ==
    /\ NoReply
    /\ saved # NoPeer
    /\ saved' \in {saved, NoPeer}
    /\ Quiet
    /\ UNCHANGED <<drv, queue, link, list, rescanIn, radio, prints, fulls>>

----------------------------------------------------------------------------
(***************************************************************************)
(* External: the BLE stack and the peers.                                  *)
(***************************************************************************)

\* Between two calls of the plugin only the radio's state changes.
Outside ==
    /\ Quiet /\ NoReply
    /\ UNCHANGED <<drv, queue, link, list, rescanIn, saved, prints, fulls>>

\* A connect request succeeds or is given up.
HostConnect ==
    /\ hostReq # NoPeer
    /\ hostReq' = NoPeer
    /\ \/ hostLink = NoPeer /\ hostLink' = hostReq
       \/ UNCHANGED hostLink
    /\ Outside /\ UNCHANGED <<bleOn, scan, discs, acks>>

\* Some other peer connects to the badge.
HostForeign ==
    /\ hostLink = NoPeer
    /\ hostLink' = Foreign
    /\ Outside /\ UNCHANGED <<bleOn, hostReq, scan, discs, acks>>

\* The open connection is lost.  What was under way on it still completes.
HostDrop ==
    /\ hostLink # NoPeer
    /\ hostLink' = NoPeer
    /\ Outside /\ UNCHANGED <<bleOn, hostReq, scan, discs, acks>>

HostScanDone ==
    /\ scan = "running"
    /\ scan' = "done"
    /\ Outside /\ UNCHANGED <<bleOn, hostLink, hostReq, discs, acks>>

\* The user switches Bluetooth on or off, outside the plugin.
HostSwitchBle ==
    /\ bleOn' = ~bleOn
    /\ Outside /\ UNCHANGED <<hostLink, hostReq, scan, discs, acks>>

Host ==
    \/ HostConnect
    \/ HostForeign
    \/ HostDrop
    \/ HostScanDone
    \/ HostSwitchBle

----------------------------------------------------------------------------
\* plugin_on_tick.
Tick ==
    \/ TickIdle
    \/ TickScanning
    \/ TickConnecting
    \/ TickDiscovering
    \/ TickSending

Menus ==
    \/ UiPrint
    \/ OnExit
    \/ OpenScanList
    \/ HideScanList
    \/ ShowScanList
    \/ SelectPrinter
    \/ ForgetPrinter

Next ==
    \/ Tick
    \/ Menus
    \/ NetJob
    \/ ExtUse
    \/ ExtJob
    \/ OnDiscovered
    \/ WriteDone
    \/ Notify
    \/ Host

Spec == Init /\ [][Next]_vars

\* The host ticks a loaded plugin for ever, delivers every job it announced,
\* ends every scan and completes every write with response (also when the link
\* is gone: pump_send has no timeout of its own for that).  Nothing is assumed
\* of the user, of the peers, of discoveries, or of which result a call has.
Fairness ==
    /\ WF_vars(Tick)
    /\ WF_vars(WriteDone)
    /\ WF_vars(ExtJob)
    /\ WF_vars(HostScanDone)

FairSpec == Spec /\ Fairness

----------------------------------------------------------------------------
(***************************************************************************)
(* Properties.                                                             *)
(***************************************************************************)

\* Every ext-feature job the driver took is either still being printed or has
\* been reported: job_active mirrors the host's slot, and a driver that has
\* gone back to Idle on any path (drop, timeout, failure, exit, completion)
\* has called finish_job.
JobAccounting ==
    /\ jobActive <=> slot = "taken"
    /\ drive = "Idle" => ~jobActive

\* The queue and the drive state agree between any two calls: a raster waits
\* exactly while a link is being brought up for it, a transfer has taken it,
\* and an idle driver holds nothing of a print that ended (start_print relies
\* on it to overwrite pending, pending_lines and after).
QueueMatchesDrive ==
    /\ drive \in {"Connecting", "Discovering"} => pending # NoRas
    /\ drive \in {"Idle", "Sending"} => pending = NoRas
    /\ (drive = "Idle" \/ (drive = "Scanning" /\ pending = NoRas))
           => lines = NoLines /\ after = "Nothing"
    /\ after = "NextPage" <=> lines # NoLines

\* Rasters and lines of two prints never mix, whoever submits them and when:
\* the raster in flight, the queued raster and the queued lines belong to the
\* print that was started last.
OnePrint ==
    /\ snd.ras # NoRas => snd.ras.id = prints
    /\ pending # NoRas => pending.id = prints
    /\ lines # NoLines => lines.id = prints

\* Flow control of pump_send: at most one write with response is outstanding,
\* the stream is gated until its completion, and a characteristic that takes
\* both kinds of write gets one with response at least every GATE_EVERY.
FlowControl ==
    /\ acks <= 1
    /\ acks = 1 => drive = "Sending" /\ snd.gated
    /\ drive = "Sending" /\ tx = "both" => snd.sinceGate < GateEvery

\* All of the page is written, and the last write is acknowledged when the
\* characteristic can acknowledge it.
PageComplete ==
    /\ snd.out = snd.ras.h
    /\ snd.finished /\ snd.buf = 0
    /\ tx # "noRsp" => acks = 0

\* A transfer ends in one of two ways only: the page is complete, or the
\* print fails, which drops the link and never reports DONE.
LeavesComplete ==
    [][drive = "Sending" /\ ~(drive' = "Sending" /\ snd'.ras = snd.ras)
         => PageComplete \/ (conn' = NoPeer /\ status' # "DONE")]_vars

(***************************************************************************)
(* The strengthening that makes the invariants inductive when the host     *)
(* drops the completions of a closed link (~LateEvents).                   *)
(***************************************************************************)

\* Completions are only under way for the state that waits for them.
Completions ==
    /\ discs <= 1
    /\ discs = 1 => drive = "Discovering"
    /\ drive = "Discovering" => conn # NoPeer
    /\ drive # "Sending" => acks = 0

\* A scan without a queued print was opened from the menu, by nobody's job.
MenuScan == drive = "Scanning" /\ pending = NoRas => ~jobActive

\* The send buffer accounts for every row that has been framed.
Buffered ==
    /\ drive # "Sending" => snd = NoSend
    /\ drive = "Sending" =>
          /\ snd.ras # NoRas
          /\ snd.row <= snd.ras.h
          /\ snd.buf = 0 => snd.out = snd.row

IInv ==
    /\ TypeOK
    /\ JobAccounting
    /\ QueueMatchesDrive
    /\ OnePrint
    /\ FlowControl
    /\ Completions
    /\ MenuScan
    /\ Buffered

FJ == INSTANCE FeatureJob WITH slot <- slot, status <- status

\* The driver is a provider in the sense of FeatureJob: one report per job it
\* took, no report without a job, on every path through the driver.
ImplementsFeatureJob == FJ!Spec

\* Every job handed to the plugin is eventually reported, whatever the user,
\* the printer and the radio do.
JobReported == slot # "free" ~> slot = "free"

----------------------------------------------------------------------------
(***************************************************************************)
(* What the documentation says and the code does not do.                   *)
(***************************************************************************)

\* README of the plugin: a text job's DONE comes "only after its last page".
DoneMeansAllPages == status = "DONE" => todo = 0

\* README of the plugin: the server answers OK "once the job is parsed and
\* queued".
OkMeansQueued ==
    reply = "OK" => pending # NoRas \/ drive = "Sending"
=============================================================================
