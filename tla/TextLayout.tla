----------------------------- MODULE TextLayout -----------------------------
(***************************************************************************)
(* plugins/thermo_printer, layout.rs and its callers: a text or a contact  *)
(* card is cut into lines, wrapped and printed page by page, while the     *)
(* user may change the font between two pages.  The driver that sends the  *)
(* pages is PrintDriver's; here they are what matters.                     *)
(*                                                                         *)
(* A word is the sequence of its characters, a row a sequence of words and *)
(* pieces of words, one space between two.  The host's font calls work.    *)
(***************************************************************************)
EXTENDS Integers, Sequences, SequencesExt

CONSTANTS
    Texts,       \* texts: sequences of lines, a line the lengths of its words
    Cards,       \* vCards: sequences of [key |-> a property, words |-> its value]
    Width,       \* max_w: the printable width
    MaxRows,     \* PAGE_MAX_ROWS
    Margin,
    SurfaceRows  \* the rows a surface may have

VARIABLES
    source,   \* what is printed: [kind, lines], each line [headline, words]
    lines,    \* pending_lines
    printed,  \* the rows on paper so far
    font,     \* NVS_FONT: "normal" or "compact"
    page,     \* the page that was composed last: its rows and their height
    state     \* "idle", "printing", "done" or "failed"

vars == <<source, lines, printed, font, page, state>>

\* body_font and body_line_h, and the headline's font 2: the width of a
\* character and the height of a row.
CharWidth(headline, f) == IF ~headline /\ f = "compact" THEN 1 ELSE 2
LineHeight(headline, f) == IF headline THEN 3 ELSE IF f = "compact" THEN 1 ELSE 2

\* measure_text: the words and the spaces between them.
Chars(row) == Len(FlattenSeq(row))
RowWidth(row, cw) == cw * (Chars(row) + Len(row) - 1)

-----------------------------------------------------------------------------
(* wrap_text, of a line: a text is split at its newlines before.           *)

\* A piece starts one character late.
PieceLate(word, k, n) ==
    SubSeq(word, (n - 1) * k + (IF n = 1 THEN 1 ELSE 2), IF n * k > Len(word) THEN Len(word) ELSE n * k)

\* Piece n of a word in pieces of k characters.
Piece(word, k, n) == SubSeq(word, (n - 1) * k + 1, IF n * k > Len(word) THEN Len(word) ELSE n * k)

\* A word alone may be too wide: as many characters as fit on each row, but
\* at least one; the last piece starts the row that the next words go to.
HardBreak(word, cw) ==
    LET k == IF Width \div cw > 1 THEN Width \div cw ELSE 1
        last == (Len(word) - 1) \div k + 1
    IN  [rows |-> [n \in 1..(last - 1) |-> <<Piece(word, k, n)>>], piece |-> Piece(word, k, last)]

\* The space before the word is not measured.
AddWordNoSpace(w, word, cw) ==
    IF cw * Chars(Append(w.line, word)) <= Width
    THEN [w EXCEPT !.line = Append(@, word)]
    ELSE LET b == HardBreak(word, cw)
         IN  [rows |-> (IF w.line = <<>> THEN w.rows ELSE Append(w.rows, w.line)) \o b.rows,
              line |-> <<b.piece>>]

\* One word: onto the row, or onto the next ones.
AddWord(w, word, cw) ==
    IF RowWidth(Append(w.line, word), cw) <= Width
    THEN [w EXCEPT !.line = Append(@, word)]
    ELSE LET b == HardBreak(word, cw)
         IN  [rows |-> (IF w.line = <<>> THEN w.rows ELSE Append(w.rows, w.line)) \o b.rows,
              line |-> <<b.piece>>]

\* No rows for a line without a word.
WrapText(words, cw) ==
    LET w[n \in 0..Len(words)] ==
            IF n = 0 THEN [rows |-> <<>>, line |-> <<>>]
            ELSE LET before == w[n - 1] IN AddWord(before, words[n], cw)
        all == w[Len(words)]
    IN  IF words = <<>> THEN <<>> ELSE Append(all.rows, all.line)

-----------------------------------------------------------------------------
(* paginate.                                                               *)

Rows(headline, wrapped) == [n \in DOMAIN wrapped |-> [headline |-> headline, row |-> wrapped[n]]]

\* Rounds up.
FitUp(y, h) == IF y > MaxRows THEN 0 ELSE (MaxRows - y + h - 1) \div h

\* The rows of height h that are left on the page.
Fit(y, h) == IF y > MaxRows THEN 0 ELSE (MaxRows - y) \div h

\* A line that does not fit an empty page waits for the next page as well.
TakeWhole(p, line, h, wrapped) == [p EXCEPT !.full = TRUE]

\* The first line of a page is split, and its leftover rows wait as lines.
Take(p, line, h, wrapped) ==
    LET take == IF Fit(p.y, h) > 1 THEN Fit(p.y, h) ELSE 1
    IN  IF p.consumed > 0 THEN [p EXCEPT !.full = TRUE]
        ELSE [p EXCEPT !.full = TRUE, !.y = @ + take * h, !.consumed = 1,
                       !.rows = @ \o Rows(line.headline, SubSeq(wrapped, 1, take)),
                       !.rest = [n \in 1..(Len(wrapped) - take) |->
                                    [line EXCEPT !.words = wrapped[take + n]]]]

\* One line of the queue: a blank one always fits, one that does not ends the page.
Place(p, line, f) ==
    LET h == LineHeight(line.headline, f)
        wrapped == WrapText(line.words, CharWidth(line.headline, f))
    IN  IF p.full THEN p
        ELSE IF wrapped = <<>>
             THEN [p EXCEPT !.rows = Append(@, [headline |-> line.headline, row |-> <<>>]),
                            !.y = @ + h, !.consumed = @ + 1]
        ELSE IF Len(wrapped) <= Fit(p.y, h)
             THEN [p EXCEPT !.rows = @ \o Rows(line.headline, wrapped),
                            !.y = @ + Len(wrapped) * h, !.consumed = @ + 1]
        ELSE Take(p, line, h, wrapped)

Paginate(ls, f) ==
    LET p[n \in 0..Len(ls)] ==
            IF n = 0 THEN [rows |-> <<>>, y |-> Margin, consumed |-> 0, full |-> FALSE,
                           rest |-> <<>>]
            ELSE LET before == p[n - 1] IN Place(before, ls[n], f)
    IN  p[Len(ls)]

\* The queue after the page: the consumed lines are drained.
Drained(ls, p) == p.rest \o SubSeq(ls, p.consumed + 1, Len(ls))

-----------------------------------------------------------------------------
(* What is printed.                                                        *)

\* The characters of word w of line n.
Word(n, w, len) == [c \in 1..len |-> <<n, w, c>>]
Line(n, headline, lens) ==
    [headline |-> headline, words |-> [w \in DOMAIN lens |-> Word(n, w, lens[w])]]

\* print_text: the lines of the text.
TextLines(t) == [n \in DOMAIN t |-> Line(n, FALSE, t[n])]

\* vcard_to_lines: the name as headline, the known properties behind their
\* labels (here of two characters); others and empty values are left out.
Known(e) == e.key \in {"FN", "ORG", "TEL"} /\ e.words # <<>>
VcardLines(card) ==
    LET kept == FlattenSeq([n \in DOMAIN card |->
                                IF Known(card[n]) THEN <<card[n]>> ELSE <<>>])
    IN  [n \in DOMAIN kept |->
            IF kept[n].key = "FN" THEN Line(n, TRUE, kept[n].words)
            ELSE Line(n, FALSE, <<2>> \o kept[n].words)]

Sources ==
    {[kind |-> "text", lines |-> TextLines(t)] : t \in Texts}
    \cup {[kind |-> "vcard", lines |-> VcardLines(c)] : c \in Cards}

Init ==
    /\ source \in Sources
    /\ lines = source.lines /\ printed = <<>>
    /\ font \in {"normal", "compact"}
    /\ page = [rows |-> <<>>, y |-> 0, font |-> font]
    /\ state = "idle"

\* compose_lines_page, for the first page (print_text, compose_vcard) or the
\* next (on_send_complete): without a line, or without a surface of that
\* height, there is no page, but the lines are drained.  A card has only the
\* one page (compose_vcard).  A later page that is not drawn ends the print,
\* and without an error when no lines are left.
Compose ==
    /\ state = "idle" \/ (state = "printing" /\ lines # <<>>)
    /\ \E p \in {Paginate(lines, font)} :
        LET rest == Drained(lines, p)
            drawn == lines # <<>> /\ p.y + Margin <= SurfaceRows
        IN  /\ lines' = IF source.kind = "vcard" THEN <<>> ELSE rest
            /\ printed' = IF drawn THEN printed \o p.rows ELSE printed
            /\ page' = [rows |-> p.rows, y |-> p.y, font |-> font]
            /\ state' = IF drawn THEN "printing"
                        ELSE IF state = "printing" /\ rest = <<>> THEN "done" ELSE "failed"
    /\ UNCHANGED <<source, font>>

\* on_send_complete after the last page.
Finish ==
    /\ state = "printing" /\ lines = <<>>
    /\ state' = "done"
    /\ UNCHANGED <<source, lines, printed, font, page>>

\* The settings menu, open while a print runs.
SetFont ==
    /\ state = "printing"
    /\ font' \in {"normal", "compact"} \ {font}
    /\ UNCHANGED <<source, lines, printed, page, state>>

\* The print is over; the next one starts anew.
Over == state \in {"done", "failed"} /\ UNCHANGED vars

Next == Compose \/ Finish \/ SetFont \/ Over

Spec == Init /\ [][Next]_vars

-----------------------------------------------------------------------------
(* Properties.                                                             *)

\* The characters of rows and of lines, in order.
RowChars(rows) == FlattenSeq(FlattenSeq([n \in DOMAIN rows |-> rows[n].row]))
LineChars(ls) == FlattenSeq(FlattenSeq([n \in DOMAIN ls |-> ls[n].words]))

\* The page that was composed last was too high for a surface.
Lost == page.y + Margin > SurfaceRows

\* A text reaches the paper whole and in order, a character once, whatever is
\* split over rows and pages and whichever font a later page has: what is
\* printed and what is queued are the text, unless a page could not be drawn.
\* A card's page is the beginning of the card.
PrintsInOrder ==
    LET all == LineChars(source.lines)
        out == RowChars(printed)
    IN  IF source.kind = "vcard" THEN IsPrefix(out, all)
        ELSE ~Lost => out \o LineChars(lines) = all

\* A row is no wider than the paper, but for a single character, and a word
\* that fits a row of either font is never cut.
RowsFit ==
    \A n \in DOMAIN page.rows :
        LET r == page.rows[n]
        IN  /\ \/ RowWidth(r.row, CharWidth(r.headline, page.font)) <= Width
               \/ Chars(r.row) = 1
            /\ \A k \in DOMAIN r.row :
                    LET c == r.row[k][1]
                        word == source.lines[c[1]].words[c[2]]
                    IN  Len(word) * CharWidth(r.headline, "normal") <= Width
                            => r.row[k] = word

\* A page is higher than PAGE_MAX_ROWS only by the blank lines at its end.
PageBounded ==
    page.y > MaxRows => page.rows[Len(page.rows)].row = <<>>

\* What is on the paper is the text, in rows and pages that fit.
PagesAreText == PrintsInOrder /\ RowsFit /\ PageBounded

\* The pages of a text come to an end: each takes characters, or at least
\* blank lines, off the queue, also where one line is higher than a page.
PagesProgress ==
    [][font' # font \/ state' \in {"done", "failed"}
       \/ Len(LineChars(lines')) < Len(LineChars(lines))
       \/ (Len(LineChars(lines')) = Len(LineChars(lines)) /\ Len(lines') < Len(lines))]_vars
=============================================================================
