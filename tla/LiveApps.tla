------------------------------ MODULE LiveApps ------------------------------
(***************************************************************************)
(* The plugins whose correctness includes what the host's ticks must bring *)
(* about.  Only one plugin is in front at a time, and each keeps state of  *)
(* its own: a behaviour is one of `plugin`, chosen at the start, and the   *)
(* variables of the others rest in an initial state.                       *)
(***************************************************************************)
EXTENDS Integers, Sequences

CONSTANTS
    W, H, StartLength, MaxPending,                               \* SnakeGame
    Levels, Interval, Watchdog, FxTimeout, MaxScore, MaxRefresh, \* SnakeApp
    Colors, Base, Targets, MaxFrames, MaxUnsaved,                \* GroveLed
    Dwell, NameChars, Rest, LevelMax, FlashEvery, MaxEdits,      \* NameBadge
        MaxLate,
    MaxPrints, MaxLosses,                                        \* PrintCounter
    Users, Chunk, MaxRetries, Worlds, MaxSessions, MaxMsgs,      \* RoomKeys
        MaxChanges, MaxResets

VARIABLES
    plugin,
    snake, dir, turns, food, alive,
    screen, score, level, best, hs, speed, missed, waited, busy, held, crashed, refreshes,
    running, set, stored, unsaved, sleeping, inhibit, lit, acc, owed, frames,
    shows, fx, auto, nvsFx, nvsAuto, since, scene, late, edits,
    num, nvsNum, url, nvsUrl, job_pending, wifi, kept, view, job, jobNum, mail, printed,
        losses,
    srv, pending, changes, active, session, crypto, room, members, out, olm, dist,
        phase, world, resets, sessions, keyHeld, log

SG == INSTANCE SnakeGame
SA == INSTANCE SnakeApp
GL == INSTANCE GroveLed
NB == INSTANCE NameBadge
PC == INSTANCE PrintCounter
RK == INSTANCE RoomKeys WITH held <- keyHeld

\* The snake of a new round lies on the grid and has a neck.
ASSUME SnakeAssumption ==
    /\ W \in Nat \ {0} /\ H \in Nat \ {0}
    /\ StartLength \in Nat /\ StartLength >= 2 /\ StartLength <= (W \div 2) + 1

\* There is a level to play.
ASSUME LevelsAssumption == Levels # {} /\ MaxScore \in Nat

\* Every so many bursts of noise end in a flash.
ASSUME BadgeAssumption == FlashEvery \in Nat \ {0}

\* Brightness is a number of fractions.
ASSUME LedAssumption == Base \in Nat \ {0} /\ Targets \subseteq Nat /\ Colors # {}

Plugins == {"snake_game", "snake_app", "grove_led", "name_badge", "print_counter",
            "room_keys"}

sg == <<snake, dir, turns, food, alive>>
sa == <<screen, score, level, best, hs, speed, missed, waited, busy, held, crashed,
        refreshes>>
gl == <<running, set, stored, unsaved, sleeping, inhibit, lit, acc, owed, frames>>
nb == <<shows, fx, auto, nvsFx, nvsAuto, since, scene, late, edits>>
pc == <<num, nvsNum, url, nvsUrl, job_pending, wifi, kept, view, job, jobNum, mail, printed,
        losses>>
rk == <<srv, pending, changes, active, session, crypto, room, members, out, olm, dist,
        phase, world, resets, sessions, keyHeld, log>>
vars == <<plugin, sg, sa, gl, nb, pc, rk>>

\* Where there are several initial states, a plugin that rests is in one of them.
Init ==
    /\ plugin \in Plugins
    /\ SG!Init /\ (plugin # "snake_game" => food = CHOOSE f \in SG!FoodFor(snake) : TRUE)
    /\ SA!Init /\ (plugin # "snake_app" => speed = CHOOSE l \in Levels : TRUE)
    /\ GL!Init /\ (plugin # "grove_led" =>
                    stored = CHOOSE s \in GL!Settings : s.effect = "Rainbow")
    /\ NB!Init /\ (plugin # "name_badge" => nvsFx = 0 /\ nvsAuto)
    /\ PC!Init
    /\ RK!Init

Next ==
    \/ plugin = "snake_game" /\ SG!Next /\ UNCHANGED <<plugin, sa, gl, nb, pc, rk>>
    \/ plugin = "snake_app" /\ SA!Next /\ UNCHANGED <<plugin, sg, gl, nb, pc, rk>>
    \/ plugin = "grove_led" /\ GL!Next /\ UNCHANGED <<plugin, sg, sa, nb, pc, rk>>
    \/ plugin = "name_badge" /\ NB!Next /\ UNCHANGED <<plugin, sg, sa, gl, pc, rk>>
    \/ plugin = "print_counter" /\ PC!Next /\ UNCHANGED <<plugin, sg, sa, gl, nb, rk>>
    \/ plugin = "room_keys" /\ RK!Next /\ UNCHANGED <<plugin, sg, sa, gl, nb, pc>>

\* The host ticks the plugin that is shown, and a resident one.  It delivers
\* the actions of a print job, and the provider keeps its promise (JobReported
\* of PrintDriver).  The matrix plugin is ticked for as long as it is entered,
\* and its handlers return: every HTTP request has a timeout.  Users, servers
\* and networks owe nothing.
Fairness ==
    /\ WF_sa(plugin = "snake_app" /\ SA!Tick)
    /\ WF_gl(plugin = "grove_led" /\ GL!Tick)
    /\ WF_nb(plugin = "name_badge" /\ NB!Tick)
    /\ WF_pc(plugin = "print_counter" /\ PC!ProviderTakes)
    /\ WF_pc(plugin = "print_counter" /\ PC!ProviderReports)
    /\ WF_pc(plugin = "print_counter" /\ PC!Deliver)
    /\ WF_rk(plugin = "room_keys" /\ RK!Tick /\ UNCHANGED world)
    /\ WF_rk(plugin = "room_keys" /\ RK!Distribute /\ UNCHANGED world)
    /\ WF_rk(plugin = "room_keys" /\ phase = "sync" /\ (RK!Sync \/ RK!SyncSkipped)
                /\ UNCHANGED world)

Spec == Init /\ [][Next]_vars /\ Fairness

-----------------------------------------------------------------------------
(* The properties of the plugins, as their modules state them.             *)

\* Snake: the body is a path of distinct, adjacent cells with the food off it,
\* and a crash counts for the level that was played, whatever writes fail.
RoundCounts == SG!BodyIsPath /\ SA!CrashCounts

\* Snake: never into the neck, whatever turns were evicted; never against the
\* cell the tail leaves.
FairCrash == SG!FairCrash

\* Grove LED: strip, inhibitor and flash follow the settings, but for the keys
\* whose last write was refused.
StripAsSet == GL!StripAsSet

\* Name badge: a resting effect leaves nothing behind, whatever completions arrive.
NothingLeftOver == NB!NothingLeftOver

\* The display goes on, whatever refresh events and completions are lost: a held
\* game and an explosion, a static colour after sleep, the name in every effect
\* and the rotation through them.
DisplayGoesOn == SA!GameGoesOn /\ GL!StaticShows /\ NB!NameComesBack /\ NB!Rotates

\* Print counter: numbers, reservation and residency move together.
JobAccounted == PC!JobAccounted

\* Print counter: a pending job ends.
PendingEnds == PC!PendingEnds

\* Matrix: a key distribution that was queued is done with, whatever requests fail.
QueueDrains == RK!QueueDrains
=============================================================================
