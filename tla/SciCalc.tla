------------------------------ MODULE SciCalc -------------------------------
(***************************************************************************)
(* examples/sci_calc: a pocket calculator with immediate left-to-right     *)
(* execution.  A number is its whole part; the operators and functions     *)
(* kept are the ones that stay exact there (all of them have the same      *)
(* control), with a bound that stands for an f64 that is not finite.       *)
(***************************************************************************)
EXTENDS Integers

CONSTANTS
    Digits,
    MaxEntry,    \* MAX_ENTRY_LEN: a larger whole part takes no more digits
    MaxNumber,   \* finite: a larger result is an overflow
    MaxTape      \* MAX_HISTORY

NoOp == "none"
Ops == {"add", "mod"}

VARIABLES
    entry,      \* the entry line: sign, whole part, and whether it has a dot
    acc, pending, last_binary, new_entry, error, memory,
    tape,       \* the number of lines in `history`
    place,      \* the view on top: "face", "menu" or "leaf"
    operand,    \* where the operand since the last operator came from (history)
    total,      \* the value of the expression so far, left to right (history)
    excused     \* a computed operand met an operator since the last clear (history)

calc == <<entry, acc, pending, last_binary, new_entry, error>>
ghosts == <<operand, total, excused>>
vars == <<calc, memory, tape, place, ghosts>>

Zero == [neg |-> FALSE, int |-> 0, dot |-> FALSE]

Abs(v) == IF v < 0 THEN -v ELSE v

\* value.
Value(e) == IF e.neg THEN -e.int ELSE e.int

\* format_num: a whole number has no dot, and zero no sign.
FormatNum(v) == [neg |-> v < 0, int |-> Abs(v), dot |-> FALSE]

Ok(v) == [v |-> v, err |-> "none"]
Err(e) == [v |-> 0, err |-> e]

Finite(v) == IF Abs(v) <= MaxNumber THEN Ok(v) ELSE Err("overflow")

\* Op::apply; `mod` has the sign of the dividend.
Apply(op, a, b) ==
    CASE op = "add" -> Finite(a + b)
      [] op = "mod" -> IF b = 0 THEN Err("divzero")
                       ELSE Ok((IF a < 0 THEN -1 ELSE 1) * (Abs(a) % Abs(b)))

Fact == [n \in 0..3 |-> CASE n = 0 -> 1 [] n = 1 -> 1 [] n = 2 -> 2 [] n = 3 -> 6]

\* factorial, and with it the domain and range checks of apply_unary.
Factorial(v) ==
    IF v < 0 THEN Err("domain")
    ELSE IF v > 3 THEN Err("overflow") ELSE Finite(Fact[v])

Init ==
    /\ entry = Zero /\ acc = 0 /\ pending = NoOp /\ last_binary = <<>>
    /\ new_entry = TRUE /\ error = "none" /\ memory = 0 /\ tape = 0
    /\ place = "face"
    /\ operand = "none" /\ total = 0 /\ excused = FALSE

\* push_history.
PushHistory == tape' = IF tape = MaxTape THEN tape ELSE tape + 1

\* The operand the next operator or `=` will take, by how it came about.
Operand(how) == operand' = how /\ UNCHANGED <<total, excused>>

-----------------------------------------------------------------------------
(* Editing the entry.                                                      *)

\* input_digit.
InputDigit(d) ==
    /\ error = "none"
    /\ LET e == IF new_entry THEN Zero ELSE entry
       IN entry' = IF e.dot \/ e.int > MaxEntry THEN e ELSE [e EXCEPT !.int = @ * 10 + d]
    /\ new_entry' = FALSE /\ Operand("typed")
    /\ UNCHANGED <<acc, pending, last_binary, error, memory, tape>>

\* input_dot.
InputDot ==
    /\ error = "none"
    /\ entry' = [(IF new_entry THEN Zero ELSE entry) EXCEPT !.dot = TRUE]
    /\ new_entry' = FALSE /\ Operand("typed")
    /\ UNCHANGED <<acc, pending, last_binary, error, memory, tape>>

ClearAll ==
    /\ entry' = Zero /\ acc' = 0 /\ pending' = NoOp /\ last_binary' = <<>>
    /\ new_entry' = TRUE /\ error' = "none"
    /\ operand' = "none" /\ total' = 0 /\ excused' = FALSE
    /\ UNCHANGED <<memory, tape>>

\* The last character of the entry goes.
Popped(e) ==
    IF e.dot THEN [e EXCEPT !.dot = FALSE]
    ELSE IF e.int < 10 THEN Zero ELSE [e EXCEPT !.int = @ \div 10]

\* backspace: an error is cleared with everything else.
Backspace ==
    IF error # "none" THEN ClearAll
    ELSE /\ entry' = IF new_entry THEN Zero ELSE Popped(entry)
         /\ new_entry' = FALSE /\ Operand("typed")
         /\ UNCHANGED <<acc, pending, last_binary, error, memory, tape>>

\* negate: the entry changes its sign and stays as new as it was.
Negate ==
    /\ error = "none" /\ entry # Zero
    /\ entry' = [entry EXCEPT !.neg = ~@]
    /\ IF new_entry /\ pending # NoOp THEN Operand("computed") ELSE UNCHANGED ghosts
    /\ UNCHANGED <<acc, pending, last_binary, new_entry, error, memory, tape>>

\* clear_entry keeps the pending operator and its left operand.
ClearEntry ==
    /\ entry' = Zero /\ new_entry' = FALSE /\ error' = "none" /\ Operand("typed")
    /\ UNCHANGED <<acc, pending, last_binary, memory, tape>>

-----------------------------------------------------------------------------
(* Calculating.                                                            *)

\* What an operator or `=` should make of the expression so far.
Expected ==
    IF pending # NoOp /\ operand # "none" THEN Apply(pending, total, Value(entry))
    ELSE Ok(Value(entry))

Fails(e) == error' = e /\ UNCHANGED <<entry, acc, pending, last_binary, new_entry, tape>>

\* Mutation: an operator that replaces another one calculates too.
TakesPendingAlways == pending # NoOp

\* apply_op's filter: the pending operator is applied first, if its right
\* operand was entered.
TakesPending == pending # NoOp /\ ~new_entry

\* apply_op.
ApplyOp(op) ==
    /\ error = "none"
    /\ LET r == IF TakesPending THEN Apply(pending, acc, Value(entry)) ELSE Ok(Value(entry))
       IN IF r.err # "none" THEN Fails(r.err) /\ UNCHANGED ghosts
          ELSE /\ acc' = r.v /\ entry' = FormatNum(r.v) /\ pending' = op
               /\ new_entry' = TRUE
               /\ total' = Expected.v /\ operand' = "none"
               /\ excused' = (excused \/ operand = "computed")
               /\ UNCHANGED <<last_binary, error, tape>>
    /\ UNCHANGED memory

\* equals: with nothing pending the last operation is repeated.
Equals ==
    /\ error = "none"
    /\ LET repeat == pending = NoOp /\ last_binary # <<>>
           op  == IF repeat THEN last_binary[1] ELSE pending
           lhs == IF repeat THEN Value(entry) ELSE acc
           rhs == IF repeat THEN last_binary[2] ELSE Value(entry)
           r   == IF op = NoOp THEN Ok(Value(entry)) ELSE Apply(op, lhs, rhs)
       IN IF r.err # "none" THEN Fails(r.err) /\ UNCHANGED ghosts
          ELSE /\ entry' = FormatNum(r.v) /\ new_entry' = TRUE
               /\ acc' = IF op = NoOp THEN acc ELSE r.v
               /\ pending' = NoOp
               /\ last_binary' = IF op = NoOp THEN last_binary ELSE <<op, rhs>>
               /\ IF op = NoOp THEN UNCHANGED tape ELSE PushHistory
               /\ operand' = "none" /\ total' = r.v /\ excused' = FALSE
               /\ UNCHANGED error
    /\ UNCHANGED memory

\* apply_unary.
ApplyUnary ==
    /\ error = "none"
    /\ LET r == Factorial(Value(entry))
       IN IF r.err # "none" THEN Fails(r.err) /\ UNCHANGED ghosts
          ELSE /\ entry' = FormatNum(r.v) /\ new_entry' = TRUE
               /\ PushHistory
               /\ Operand("computed")
               /\ UNCHANGED <<acc, pending, last_binary, error>>
    /\ UNCHANGED memory

\* input_constant and mem_recall: a value takes the entry's place.
Recall ==
    /\ entry' = FormatNum(memory) /\ new_entry' = FALSE /\ Operand("typed")
    /\ UNCHANGED <<acc, pending, last_binary, error, memory, tape>>

\* mem_store and mem_clear; they work under an error too.
MemStore(v) == memory' = v /\ UNCHANGED <<calc, tape, ghosts>>

\* mem_add, mem_sub.
MemAdd(v) == Abs(memory + v) <= MaxNumber /\ MemStore(memory + v)

-----------------------------------------------------------------------------
(* lib.rs: the keys on the canvas, the menu and its lists.                 *)

\* ACT_CANVAS_KEY and the quick keys of ACT_CANVAS_LONG.
Keys ==
    /\ place = "face" /\ UNCHANGED place
    /\ \/ \E d \in Digits : InputDigit(d)
       \/ Equals \/ Backspace \/ ClearAll
       \/ ApplyOp("add")

\* ACT_LEAF: the operation, then back to the face.
Leaf ==
    /\ place = "leaf" /\ place' = "face"
    /\ \/ \E op \in Ops : ApplyOp(op)
       \/ InputDot \/ Negate \/ ClearEntry \/ ApplyUnary \/ Recall
       \/ MemStore(Value(entry)) \/ MemStore(0)
       \/ MemAdd(Value(entry)) \/ MemAdd(-Value(entry))

\* open_menu, open_leaf_list, and back; the tape can be viewed and exported from
\* the menu, which changes nothing here.
Menu ==
    /\ \/ place = "face" /\ place' = "menu"
       \/ place = "menu" /\ place' \in {"leaf", "face"}
       \/ place = "leaf" /\ place' = "menu"
    /\ UNCHANGED <<calc, memory, tape, ghosts>>

\* CAT_QUIT: the plugin is torn down; plugin_init starts afresh.
Quit ==
    /\ place = "menu" /\ place' = "face"
    /\ entry' = Zero /\ acc' = 0 /\ pending' = NoOp /\ last_binary' = <<>>
    /\ new_entry' = TRUE /\ error' = "none" /\ memory' = 0 /\ tape' = 0
    /\ operand' = "none" /\ total' = 0 /\ excused' = FALSE

Next == Keys \/ Leaf \/ Menu \/ Quit

Spec == Init /\ [][Next]_vars

-----------------------------------------------------------------------------
(* Properties.                                                             *)

\* Immediate left-to-right execution (README of sci_calc, "2 + 3 x 4 = yields
\* 20"): the accumulator the pending operator works on is the value of what
\* was entered before it, through corrections, recalled values, changed
\* operators and cleared errors.  An operand that a function or a change of
\* sign computed is the exception: an operator after it forgets what was
\* pending (README, section 7).
LeftToRight == pending # NoOp /\ ~excused => acc = total
=============================================================================
