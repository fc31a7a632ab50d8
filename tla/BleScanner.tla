----------------------------- MODULE BleScanner -----------------------------
(***************************************************************************)
(* plugins/ble_scanner: the scan loop, the device table with its cap and   *)
(* the list that is edited in place.  A label is the signal strength; the  *)
(* sighting counter and the placeholder text are left out.  The poll and   *)
(* rescan intervals are left to the choice of ticks.  The radio is the     *)
(* host's: it may be switched off, refuse a scan or lose its results.      *)
(***************************************************************************)
EXTENDS Integers, Sequences, SequencesExt

CONSTANTS
    Addrs,       \* peer addresses
    Rssi,        \* signal strengths
    MaxDevices,  \* MAX_DEVICES
    MaxResults,  \* MAX_RESULTS
    MaxMissed    \* u8::MAX, where missed saturates

STALE_AFTER == 2

VARIABLES
    devices,     \* the table, in first-seen order
    order,       \* the rows on screen, none while the list is not
    scanning,
    active,      \* the list is on top
    enabled      \* ble::is_enabled()

vars == <<devices, order, scanning, active, enabled>>

\* What ble::scan_results may return: each address once, in any order.
Rounds ==
    {r \in BoundedSeq([addr : Addrs, rssi : Rssi], MaxResults) :
        \A i, j \in DOMAIN r : r[i].addr = r[j].addr => i = j}

Heard(round) == {round[i].addr : i \in DOMAIN round}
At(table, a) == {i \in DOMAIN table : table[i].addr = a}
Known(table) == {table[i].addr : i \in DOMAIN table}

\* max_by: longest missed, then weakest, then last.
Worst(table, i) ==
    \A j \in DOMAIN table \ {i} :
        \/ table[j].missed < table[i].missed
        \/ table[j].missed = table[i].missed /\ table[j].rssi > table[i].rssi
        \/ table[j].missed = table[i].missed /\ table[j].rssi = table[i].rssi /\ j < i

EvictOne(table) ==
    LET i == CHOOSE k \in DOMAIN table : Worst(table, k)
    IN  IF table = <<>> \/ table[i].missed = 0 THEN table ELSE RemoveAt(table, i)

\* One result of the round.
Fold(table, r) ==
    LET new  == [addr |-> r.addr, rssi |-> r.rssi, missed |-> 0]
        room == IF Len(table) >= MaxDevices THEN EvictOne(table) ELSE table
    IN  CASE r.addr \in Known(table) ->
                 [table EXCEPT ![CHOOSE i \in At(table, r.addr) : TRUE] = new]
          [] r.addr \notin Known(table) /\ Len(room) < MaxDevices -> Append(room, new)
          [] OTHER -> room

Missed(d) == [d EXCEPT !.missed = IF @ < MaxMissed THEN @ + 1 ELSE @]

\* The results of the round, one by one.
Folded(table, round) ==
    LET after[n \in 0..Len(round)] == IF n = 0 THEN table ELSE Fold(after[n-1], round[n])
    IN  after[Len(round)]

Merge(table, round) ==
    LET folded == Folded(table, round)
    IN  [i \in DOMAIN folded |->
            IF folded[i].addr \in Heard(round) THEN folded[i] ELSE Missed(folded[i])]

-----------------------------------------------------------------------------
(* render: the rows become the table's, one edit at a time.                *)

RowOf(d) == [addr |-> d.addr, label |-> d.rssi, stale |-> d.missed >= STALE_AFTER]

Desired(table) == [i \in DOMAIN table |-> RowOf(table[i])]

\* Mutation: a row that sits elsewhere is not moved.
PlaceUnmoved(rows, i, d) ==
    IF d.addr \in Known(rows) THEN rows ELSE InsertAt(rows, i, d)

\* One row: inserted, moved or updated, at the position it belongs.
Place(rows, i, d) ==
    IF d.addr \in Known(rows)
    THEN LET j == CHOOSE k \in At(rows, d.addr) : TRUE
         IN  IF j = i THEN [rows EXCEPT ![i] = d] ELSE InsertAt(RemoveAt(rows, j), i, d)
    ELSE InsertAt(rows, i, d)

\* Row i goes when its device was evicted.
Prune(left, i, table) ==
    IF left[i].addr \in Known(table) THEN left ELSE RemoveAt(left, i)

\* The rows are looked at from the last to the first.
Pruned(rows, table) ==
    LET left[n \in 0..Len(rows)] ==
            IF n = 0 THEN rows ELSE Prune(left[n-1], Len(rows) - n + 1, table)
    IN  left[Len(rows)]

\* The desired rows are put into place from the first to the last.
Edited(rows, want) ==
    LET edit[i \in 0..Len(want)] == IF i = 0 THEN rows ELSE Place(edit[i-1], i, want[i])
    IN  edit[Len(want)]

Render(rows, table) ==
    IF rows = <<>> THEN Desired(table)
    ELSE Edited(Pruned(rows, table), Desired(table))

-----------------------------------------------------------------------------

Init ==
    /\ devices = <<>> /\ order = <<>>
    /\ scanning = FALSE /\ active = FALSE /\ enabled \in BOOLEAN

\* plugin_on_enter: a new list, filled from the table; the scan may not start.
Enter ==
    /\ ~active /\ active' = TRUE
    /\ order' = Render(<<>>, devices)
    /\ scanning' \in {FALSE, enabled}
    /\ UNCHANGED <<devices, enabled>>

\* plugin_on_exit: the table is written to a file; a running scan goes on.
Exit ==
    /\ active /\ active' = FALSE /\ order' = <<>>
    /\ UNCHANGED <<devices, scanning, enabled>>

\* plugin_on_tick, the scan is done: its results are merged, or lost.
TickDone ==
    /\ enabled /\ scanning
    /\ scanning' = FALSE
    /\ \/ \E round \in Rounds :
            /\ devices' = Merge(devices, round)
            /\ order' = IF active THEN Render(order, devices') ELSE order
       \/ UNCHANGED <<devices, order>>
    /\ UNCHANGED <<active, enabled>>

\* plugin_on_tick, the rescan interval has passed.
TickStart ==
    /\ enabled /\ ~scanning
    /\ scanning' = TRUE
    /\ UNCHANGED <<devices, order, active, enabled>>

\* The user switches the radio.
Switch == enabled' = ~enabled /\ UNCHANGED <<devices, order, scanning, active>>

Next == Enter \/ Exit \/ TickDone \/ TickStart \/ Switch

Spec == Init /\ [][Next]_vars

-----------------------------------------------------------------------------
(* Properties.                                                             *)

\* The rows on screen are the table's rows, in its order, after any number of
\* rounds, evictions and returns (render's edits): a selected row names the
\* device it shows, and no address has two rows.
RowsMirrorTable ==
    /\ active => order = Desired(devices)
    /\ Len(devices) <= MaxDevices
    /\ \A i, j \in DOMAIN devices : devices[i].addr = devices[j].addr => i = j
=============================================================================
