------------------------------ MODULE SnakeApp ------------------------------
(***************************************************************************)
(* The screens, clocks and high scores of plugins/snake (lib.rs).  The     *)
(* rules are SnakeGame's: here a step moves, eats or crashes.  One Tick is *)
(* one unit of time; a clock stops counting at the limit it is compared    *)
(* with.  Events of the display and of the explosion may be lost, and a    *)
(* write to NVS may fail; a key that is in NVS can be read.                *)
(***************************************************************************)
EXTENDS Integers

CONSTANTS
    Levels,      \* speed levels
    Interval,    \* STEP_INTERVAL_MS, in ticks
    Watchdog,    \* REFRESH_WATCHDOG_MS
    FxTimeout,   \* CRASH_FX_TIMEOUT_MS
    MaxScore,    \* bound: food eaten in a round
    MaxRefresh   \* bound: display refreshes while the plugin runs

VARIABLES
    screen,      \* SCREEN, "off" while not running
    score,       \* score of GAME, -1 for None
    level,       \* LEVEL
    best,        \* BEST
    hs,          \* NVS: the high score of each level
    speed,       \* NVS: the level
    missed,      \* the score in BEST that NVS did not take, 0 for none (history)
    waited,      \* time since LAST_STEP_MS
    busy,        \* REFRESH_BUSY
    held,        \* time since REFRESH_SINCE
    crashed,     \* time since CRASH_MS
    refreshes    \* display refreshes so far

clocks == <<waited, held, crashed>>
vars == <<screen, score, level, best, hs, speed, missed, clocks, busy, refreshes>>

Init ==
    /\ screen = "off" /\ score = -1
    /\ speed \in Levels /\ level = speed
    /\ hs = [l \in Levels |-> 0] /\ best = 0 /\ missed = 0
    /\ waited = 0 /\ held = 0 /\ crashed = 0
    /\ busy = FALSE /\ refreshes = 0

\* plugin_on_enter.
Enter ==
    /\ screen = "off"
    /\ level' = speed /\ best' = hs[speed] /\ missed' = 0
    /\ screen' = "Title"
    /\ UNCHANGED <<score, hs, speed, clocks, busy, refreshes>>

\* plugin_on_exit; the title's N key pops the view.
Exit ==
    /\ screen # "off"
    /\ screen' = "off" /\ score' = -1 /\ busy' = FALSE
    /\ UNCHANGED <<level, best, hs, speed, missed, clocks, refreshes>>

\* start_round, from the title or the game-over panel.
StartRound ==
    /\ screen \in {"Title", "GameOver"}
    /\ screen' = "Playing" /\ score' = 0 /\ waited' = 0
    /\ UNCHANGED <<level, best, hs, speed, missed, held, crashed, busy, refreshes>>

\* back_to_title.
BackToTitle ==
    /\ screen \in {"Playing", "Paused", "Crashing", "GameOver"}
    /\ screen' = "Title" /\ score' = -1
    /\ UNCHANGED <<level, best, hs, speed, missed, clocks, busy, refreshes>>

\* Mutation: the high score of the new level is not loaded.
PickLevelStale(l) ==
    /\ screen = "Title"
    /\ level' = l /\ missed' = 0 /\ speed' \in {l, speed}
    /\ UNCHANGED <<screen, score, best, hs, clocks, busy, refreshes>>

\* handle_title_key, 1 to 5; a level that is not saved is only logged.
PickLevel(l) ==
    /\ screen = "Title"
    /\ level' = l /\ best' = hs[l] /\ missed' = 0 /\ speed' \in {l, speed}
    /\ UNCHANGED <<screen, score, hs, clocks, busy, refreshes>>

\* handle_playing_key and handle_paused_key, key 5.
Pause ==
    /\ screen = "Playing" /\ screen' = "Paused"
    /\ UNCHANGED <<score, level, best, hs, speed, missed, clocks, busy, refreshes>>

Resume ==
    /\ screen = "Paused" /\ screen' = "Playing" /\ waited' = 0
    /\ UNCHANGED <<score, level, best, hs, speed, missed, held, crashed, busy, refreshes>>

\* show_game_over_panel, from the explosion's completion or a key.
ShowGameOver ==
    /\ screen = "Crashing" /\ screen' = "GameOver"
    /\ UNCHANGED <<score, level, best, hs, speed, missed, clocks, busy, refreshes>>

-----------------------------------------------------------------------------
(* plugin_on_tick.                                                         *)

Later(clock, limit) == IF clock < limit THEN clock + 1 ELSE limit

\* save_best_if_beaten: BEST is set whether NVS takes the score or not.
SaveBest ==
    IF score > best
    THEN /\ best' = score
         /\ \/ hs' = [hs EXCEPT ![level] = score] /\ missed' = 0
            \/ missed' = score /\ UNCHANGED hs
    ELSE UNCHANGED <<best, hs, missed>>

\* step_game: nothing eaten, food eaten, or a crash.
StepGame ==
    \/ UNCHANGED <<screen, score, best, hs, missed, crashed>>
    \/ score < MaxScore /\ score' = score + 1 /\ UNCHANGED <<screen, best, hs, missed, crashed>>
    \/ screen' = "Crashing" /\ crashed' = 0 /\ SaveBest /\ UNCHANGED score

\* Mutation: only the end of the refresh resumes the game.
TickPlayingNoWatchdog ==
    /\ screen = "Playing"
    /\ held' = Later(held, Watchdog)
    /\ IF busy
       THEN /\ waited' = Later(waited, Interval)
            /\ UNCHANGED <<screen, score, best, hs, missed, crashed, busy>>
       ELSE /\ UNCHANGED busy
            /\ IF waited + 1 >= Interval THEN waited' = 0 /\ StepGame
               ELSE waited' = waited + 1 /\ UNCHANGED <<screen, score, best, hs, missed, crashed>>
    /\ UNCHANGED <<level, speed, refreshes>>

\* A refresh holds the step, up to the watchdog.
TickPlaying ==
    /\ screen = "Playing"
    /\ held' = Later(held, Watchdog)
    /\ IF busy /\ held' < Watchdog
       THEN /\ waited' = Later(waited, Interval)
            /\ UNCHANGED <<screen, score, best, hs, missed, crashed, busy>>
       ELSE /\ busy' = FALSE
            /\ IF waited + 1 >= Interval THEN waited' = 0 /\ StepGame
               ELSE waited' = waited + 1 /\ UNCHANGED <<screen, score, best, hs, missed, crashed>>
    /\ UNCHANGED <<level, speed, refreshes>>

\* The game-over panel comes after FxTimeout at the latest.
TickCrashing ==
    /\ screen = "Crashing"
    /\ crashed' = Later(crashed, FxTimeout)
    /\ held' = Later(held, Watchdog)
    /\ screen' = IF crashed' >= FxTimeout THEN "GameOver" ELSE screen
    /\ UNCHANGED <<score, level, best, hs, speed, missed, waited, busy, refreshes>>

\* On the other screens a tick does nothing but let time pass.
TickIdle ==
    /\ screen \in {"Title", "Paused", "GameOver"}
    /\ held' = Later(held, Watchdog)
    /\ waited' = Later(waited, Interval)
    /\ UNCHANGED <<screen, score, level, best, hs, speed, missed, crashed, busy, refreshes>>

Tick == TickPlaying \/ TickCrashing \/ TickIdle

\* DISPLAY_REFRESH begin and end; either may be dropped.
RefreshBegin ==
    /\ screen # "off" /\ refreshes < MaxRefresh
    /\ refreshes' = refreshes + 1
    /\ busy' = TRUE /\ held' = 0
    /\ UNCHANGED <<screen, score, level, best, hs, speed, missed, waited, crashed>>

RefreshEnd ==
    /\ screen # "off" /\ busy
    /\ busy' = FALSE
    /\ UNCHANGED <<screen, score, level, best, hs, speed, missed, clocks, refreshes>>

Keys ==
    \/ StartRound \/ BackToTitle \/ Pause \/ Resume \/ ShowGameOver
    \/ \E l \in Levels : PickLevel(l)

Next == Enter \/ Exit \/ Keys \/ Tick \/ RefreshBegin \/ RefreshEnd

Spec == Init /\ [][Next]_vars

-----------------------------------------------------------------------------
(* Properties.                                                             *)

\* A round that ended in a crash counts for the level it was played on.  BEST
\* covers its score and is what NVS has for that level, or the higher score
\* that NVS did not take: levels never share a score, a better stored score is
\* never overwritten, and a score is lost by a failed write only.
CrashCounts ==
    /\ screen \in {"Crashing", "GameOver"} => best >= score
    /\ screen # "off" => \/ best = hs[level]
                         \/ best = missed /\ best > hs[level]

\* A held game steps again or is left, whatever display events are lost
\* (REFRESH_WATCHDOG_MS), and the explosion ends (CRASH_FX_TIMEOUT_MS).
GameGoesOn ==
    /\ (screen = "Playing" /\ waited = Interval) ~> (waited = 0 \/ screen # "Playing")
    /\ (screen = "Crashing") ~> (screen # "Crashing")
=============================================================================
