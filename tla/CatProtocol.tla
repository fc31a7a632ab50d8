---------------------------- MODULE CatProtocol -----------------------------
(***************************************************************************)
(* plugins/thermo_printer, proto.rs: the frames of a print job, and the    *)
(* paper that comes out of a printer that decodes them.  When the frames   *)
(* are sent, and what a job does on an error, is PrintDriver's.            *)
(*                                                                         *)
(* A byte is the sequence of its Bits bits, the high one first; a pixel is *)
(* 1 when it is black.  The checksum and the header of a frame are left    *)
(* out: a frame is its command and its payload.                            *)
(***************************************************************************)
EXTENDS Integers, Sequences, SequencesExt

CONSTANTS
    Rasters,   \* rasters: sequences of rows, each a sequence of bytes
    Bits,      \* bits of a byte: 8
    RowBytes,  \* ROW_BYTES: bytes of a printer row
    MaxRun,    \* the longest run of one byte: 127
    Refill     \* ROWS_PER_REFILL

VARIABLES
    raster,  \* the raster, of rows of one stride
    rle,     \* NVS_RLE when the job was started
    feed,    \* feed_steps is not zero
    next,    \* the rows that were framed, -1 before job_setup
    paper,   \* the pixel rows the printer made
    state    \* "rows", or the job is closed: "fed", "torn" without a feed

vars == <<raster, rle, feed, next, paper, state>>

ByteSet == [1..Bits -> {0, 1}]
Pixels(row) == FlattenSeq(row)
White(n) == [i \in 1..n |-> 0]

-----------------------------------------------------------------------------
(* Frames.                                                                 *)

Frame(cmd, payload) == [cmd |-> cmd, payload |-> payload]

\* reverse_bits.
ReverseBits(b) == Reverse(b)

\* frame_row_plain: the low bit of a byte is the left pixel; white on the right.
FrameRowPlain(row) ==
    LET bytes == IF Len(row) > RowBytes THEN SubSeq(row, 1, RowBytes) ELSE row
    IN  Frame("draw", [n \in 1..RowBytes |->
                          IF n \in DOMAIN bytes THEN ReverseBits(bytes[n]) ELSE White(Bits)])

\* A run is one byte.
PushRunOne(val, len) == <<[val |-> val, len |-> len % (MaxRun + 1)]>>

\* push_run: the chunks of a run, MaxRun and what is left.
PushRun(val, len) ==
    [n \in 1..((len + MaxRun - 1) \div MaxRun) |->
        [val |-> val, len |-> IF n * MaxRun > len THEN len % MaxRun ELSE MaxRun]]

\* rle_encode_row, a pixel: it continues the run, or ends it.
Scan(r, black) ==
    IF black = r.val THEN [r EXCEPT !.len = @ + 1]
    ELSE [out |-> r.out \o PushRun(r.val, r.len), val |-> black, len |-> 1]

\* rle_encode_row, the runs: the first is white and may be empty.
Runs(px) ==
    LET scan[x \in 0..Len(px)] ==
            IF x = 0 THEN [out |-> <<>>, val |-> 0, len |-> 0]
            ELSE LET before == scan[x - 1] IN Scan(before, px[x])
        all == scan[Len(px)]
    IN  all.out \o PushRun(all.val, all.len)

\* frame_row: runs only for a row of full width, and only when they are shorter.
FrameRow(row, compress) ==
    LET runs == Runs(Pixels(row))
    IN  IF compress /\ Len(row) = RowBytes /\ Len(runs) < Len(row)
        THEN Frame("rle", runs) ELSE FrameRowPlain(row)

\* job_setup: speed, energy, apply, a blank row.
JobSetup ==
    <<Frame("speed", <<>>), Frame("energy", <<>>), Frame("apply", <<>>),
      FrameRowPlain([n \in 1..RowBytes |-> White(Bits)])>>

\* job_rows: rows from + 1 to `to`, of each the first ROW_BYTES bytes.
JobRows(ras, from, to, compress) ==
    [n \in 1..(to - from) |->
        LET row == ras[from + n]
        IN  FrameRow(IF Len(row) > RowBytes THEN SubSeq(row, 1, RowBytes) ELSE row, compress)]

\* job_finish: nothing when there is nothing to feed.
JobFinish(steps) == IF steps THEN <<Frame("feed", <<>>)>> ELSE <<>>

-----------------------------------------------------------------------------
(* The printer: what a frame does to the paper.                            *)

\* A feed, in the place of a pixel row.
Fed == <<>>

Run(r) == [i \in 1..r.len |-> r.val]
Printed(frame) ==
    IF frame.cmd = "draw" THEN <<Pixels([n \in DOMAIN frame.payload |-> Reverse(frame.payload[n])])>>
    ELSE IF frame.cmd = "rle" THEN <<FlattenSeq([n \in DOMAIN frame.payload |-> Run(frame.payload[n])])>>
    ELSE IF frame.cmd = "feed" THEN <<Fed>> ELSE <<>>

Emit(frames) == paper' = paper \o FlattenSeq([n \in DOMAIN frames |-> Printed(frames[n])])

-----------------------------------------------------------------------------
(* The job: begin_send and refill_send.                                    *)

Init ==
    /\ raster \in Rasters
    /\ rle \in BOOLEAN /\ feed \in BOOLEAN
    /\ next = -1 /\ paper = <<>> /\ state = "rows"

Setup ==
    /\ next = -1
    /\ Emit(JobSetup) /\ next' = 0
    /\ UNCHANGED <<raster, rle, feed, state>>

Rows ==
    LET to == IF next + Refill < Len(raster) THEN next + Refill ELSE Len(raster)
    IN  /\ next \in 0..(Len(raster) - 1)
        /\ Emit(JobRows(raster, next, to, rle)) /\ next' = to
        /\ UNCHANGED <<raster, rle, feed, state>>

Finish ==
    /\ state = "rows" /\ next = Len(raster)
    /\ Emit(JobFinish(feed)) /\ state' = IF feed THEN "fed" ELSE "torn"
    /\ UNCHANGED <<raster, rle, feed, next>>

\* Every job of the instance is sent to its end.
Over == state # "rows" /\ UNCHANGED vars

Next == Setup \/ Rows \/ Finish \/ Over
Spec == Init /\ [][Next]_vars

-----------------------------------------------------------------------------
(* Properties.                                                             *)

\* The paper is the raster: a blank row, then every row at the printer's
\* width, cut or filled up with white, and at the end the feed; whether a row
\* was compressed, and however the rows were grouped into refills, is not seen.
PaperIsRaster ==
    LET W == RowBytes * Bits
        Line(row) == [i \in 1..W |-> IF i \in DOMAIN Pixels(row) THEN Pixels(row)[i] ELSE 0]
        rows == <<White(W)>> \o [n \in DOMAIN raster |-> Line(raster[n])]
    IN  paper = SubSeq(rows, 1, next + 1) \o (IF state = "fed" THEN <<Fed>> ELSE <<>>)
=============================================================================
