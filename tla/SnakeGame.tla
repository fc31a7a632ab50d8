------------------------------ MODULE SnakeGame ------------------------------
(***************************************************************************)
(* The rules of plugins/snake (game.rs): one round on a W x H grid.  The   *)
(* random food cell is a choice among the free cells.                      *)
(***************************************************************************)
EXTENDS Integers, Sequences, SequencesExt

CONSTANTS
    W, H,         \* the grid
    StartLength,  \* START_LENGTH
    MaxPending    \* MAX_PENDING

VARIABLES
    snake,    \* body cells, head first
    dir,      \* heading
    turns,    \* pending: buffered turns, oldest first
    food,     \* food cell, NoFood on a full grid
    alive

vars == <<snake, dir, turns, food, alive>>

Cells  == (0..W-1) \X (0..H-1)
NoFood == <<-1, -1>>
Dirs   == {"N", "E", "S", "W"}
Opposite == [N |-> "S", S |-> "N", E |-> "W", W |-> "E"]
Delta  == [N |-> <<0, -1>>, E |-> <<1, 0>>, S |-> <<0, 1>>, W |-> <<-1, 0>>]

\* Mutation: food may appear on the body.
FoodAnywhere(body) == Cells

\* Free cells, where spawn_food chooses; a full grid has no food.
FoodFor(body) ==
    IF Cells \ ToSet(body) = {} THEN {NoFood} ELSE Cells \ ToSet(body)

\* Game::new: centred, heading east.
Start == [i \in 1..StartLength |-> <<(W \div 2) - (i - 1), H \div 2>>]

Init ==
    /\ snake = Start
    /\ dir = "E" /\ turns = <<>> /\ alive = TRUE
    /\ food \in FoodFor(snake)

\* steer: a turn is checked against the last queued one; a full window drops
\* its oldest.
Steer(d) ==
    LET effective == IF turns = <<>> THEN dir ELSE Last(turns)
        q == Append(turns, d)
    IN  /\ alive
        /\ d \notin {effective, Opposite[effective]}
        /\ turns' = IF Len(q) > MaxPending THEN Tail(q) ELSE q
        /\ UNCHANGED <<snake, dir, food, alive>>

-----------------------------------------------------------------------------
(* step.                                                                   *)

Legal(d) == d \notin {dir, Opposite[dir]}
LegalAt  == {i \in DOMAIN turns : Legal(turns[i])}

\* Mutation: the oldest turn is taken as it is.
FrontTurn == 1

\* The first buffered turn that is legal now; the ones before it, which an
\* eviction made stale, are dropped.
FirstLegal == CHOOSE i \in LegalAt : \A j \in LegalAt : i <= j

\* The tail's cell is free unless the snake grows.
Blocked(cell, eats) == cell \in ToSet(IF eats THEN snake ELSE Front(snake))

\* Moves the head on and grows, or takes the tail along.
Advance(heading) ==
    LET head == <<snake[1][1] + Delta[heading][1], snake[1][2] + Delta[heading][2]>>
        eats == head = food
    IN  IF head \notin Cells \/ Blocked(head, eats)
        THEN alive' = FALSE /\ UNCHANGED <<snake, food>>
        ELSE /\ snake' = <<head>> \o (IF eats THEN snake ELSE Front(snake))
             /\ IF eats THEN food' \in FoodFor(snake') ELSE UNCHANGED food
             /\ UNCHANGED alive

Step ==
    /\ alive
    /\ IF LegalAt = {} THEN turns' = <<>> /\ UNCHANGED dir
       ELSE /\ dir' = turns[FirstLegal]
            /\ turns' = SubSeq(turns, FirstLegal + 1, Len(turns))
    /\ Advance(dir')

\* start_round makes another Game.
NewGame ==
    /\ ~alive /\ alive' = TRUE
    /\ snake' = Start /\ dir' = "E" /\ turns' = <<>>
    /\ food' \in FoodFor(Start)

Next == Step \/ NewGame \/ \E d \in Dirs : Steer(d)

Spec == Init /\ [][Next]_vars

-----------------------------------------------------------------------------
(* Properties.                                                             *)

\* The body is a path of distinct, adjacent cells of the grid, and the food
\* is off it; the food is gone only when the body covers the grid.
BodyIsPath ==
    /\ ToSet(snake) \subseteq Cells
    /\ IsInjective(snake)
    /\ \A i \in 1..Len(snake) - 1 :
         \E d \in Dirs : snake[i+1] = <<snake[i][1] + Delta[d][1], snake[i][2] + Delta[d][2]>>
    /\ food \notin ToSet(snake)
    /\ food = NoFood => ToSet(snake) = Cells

\* The snake never turns into its own neck, however the window evicted the
\* turns that later ones were checked against, and no round ends at the cell
\* that its tail leaves in the same step.
FairCrash ==
    [][/\ alive => dir' # Opposite[dir]
       /\ (alive /\ ~alive') =>
            <<snake[1][1] + Delta[dir'][1], snake[1][2] + Delta[dir'][2]>>
                \notin {snake[2], Last(snake)}]_vars
=============================================================================
