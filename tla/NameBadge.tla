------------------------------ MODULE NameBadge ------------------------------
(***************************************************************************)
(* plugins/name_badge: the effect engine and the eight effects.  An effect *)
(* sets all of its state when it is entered, so one variable, `scene`,     *)
(* holds the state of the current effect.  A tick is one step of it.  The  *)
(* host fires completions of tweens while they run (anim::cancel stops     *)
(* them) and of the puff sprite, which may arrive after a switch.          *)
(***************************************************************************)
EXTENDS Integers

CONSTANTS
    Dwell,       \* FX_DURATION_MS, in ticks
    NameChars,   \* characters of the name
    Rest,        \* REST_MS of the typewriter, in ticks
    LevelMax,    \* LEVEL_MAX of the Bayer dissolve
    FlashEvery,  \* FLASH_EVERY_N_BURSTS
    MaxEdits,    \* bound: keys and name edits
    MaxLate      \* bound: sprite completions on their way

FX_COUNT == 8

VARIABLES
    shows,     \* the canvas is on screen
    fx,        \* CURRENT_FX
    auto,      \* AUTO_ROTATE
    nvsFx, nvsAuto,
    since,     \* ticks since FX_STARTED_MS
    scene,     \* state of the current effect
    late,      \* ACT_PUFF_DONE actions on their way
    edits

vars == <<shows, fx, auto, nvsFx, nvsAuto, since, scene, late, edits>>

\* enter of each effect.
Fresh(f) ==
    CASE f = 0 -> [intro |-> TRUE]
      [] f = 1 -> [chars |-> 0, resting |-> 0]
      [] f = 2 -> [falling |-> TRUE, puff |-> FALSE, playing |-> FALSE]
      [] f = 3 -> [twinkle |-> TRUE]
      [] f = 4 -> [level |-> 0, dir |-> 1, negative |-> FALSE]
      [] f = 5 -> [back |-> "right", front |-> "left"]
      [] f = 6 -> [phase |-> "calm", left |-> 1, bursts |-> 0, noise |-> FALSE, flash |-> FALSE]
      [] f = 7 -> [step |-> 0]

Init ==
    /\ shows = FALSE /\ fx = 0 /\ auto = TRUE /\ since = 0 /\ scene = Fresh(0)
    /\ nvsFx \in 0..FX_COUNT-1 /\ nvsAuto \in BOOLEAN
    /\ late = 0 /\ edits = 0

\* switch_effect: tweens are cancelled, sprites dropped; completions of
\* sprites that are on their way are not.
SwitchTo(f) ==
    /\ fx' = f % FX_COUNT /\ since' = 0
    /\ scene' = Fresh(f % FX_COUNT)

\* plugin_on_enter.
Enter ==
    /\ ~shows /\ shows' = TRUE
    /\ auto' = nvsAuto
    /\ SwitchTo(nvsFx)
    /\ UNCHANGED <<nvsFx, nvsAuto, late, edits>>

\* on_key, N.
Leave == shows /\ shows' = FALSE /\ UNCHANGED <<fx, auto, nvsFx, nvsAuto, since, scene, late, edits>>

Edit == shows /\ edits < MaxEdits /\ edits' = edits + 1

\* on_key, 8, Y and 2.  That NVS may not take the value is ignored, here and in
\* ToggleAuto.
Step(by) ==
    /\ Edit /\ SwitchTo(fx + by) /\ nvsFx' \in {nvsFx, fx'}
    /\ UNCHANGED <<shows, auto, nvsAuto, late>>

\* on_menu_select, ITEM_TOGGLE_AUTO.
ToggleAuto ==
    /\ Edit /\ auto' = ~auto /\ nvsAuto' \in {nvsAuto, auto'}
    /\ UNCHANGED <<shows, fx, nvsFx, since, scene, late>>

\* on_name_input: confirmed or not, the effect starts again.
NameInput == Edit /\ SwitchTo(fx) /\ UNCHANGED <<shows, auto, nvsFx, nvsAuto, late>>

-----------------------------------------------------------------------------
(* tick of the effects that step by themselves.                            *)

TypeStep(s) ==
    CASE s.resting >= Rest              -> [chars |-> 0, resting |-> 0]
      [] s.resting \in 1..Rest-1        -> [s EXCEPT !.resting = @ + 1]
      [] s.resting = 0 /\ s.chars >= NameChars -> [s EXCEPT !.resting = 1]
      [] OTHER                          -> [s EXCEPT !.chars = @ + 1]

\* Mutation: the dissolve turns one level early.
WipeStepShort(s) ==
    LET n == s.level + s.dir
    IN  CASE n >= LevelMax -> [s EXCEPT !.level = LevelMax - 1, !.dir = -1]
          [] n < 0        -> [level |-> 0, dir |-> 1, negative |-> ~s.negative]
          [] OTHER        -> [s EXCEPT !.level = n]

WipeStep(s) ==
    LET n == s.level + s.dir
    IN  CASE n > LevelMax -> [s EXCEPT !.level = LevelMax, !.dir = -1]
          [] n < 0        -> [level |-> 0, dir |-> 1, negative |-> ~s.negative]
          [] OTHER        -> [s EXCEPT !.level = n]

\* settle, and calm for some steps.
Settled(s, n) == [s EXCEPT !.phase = "calm", !.left = n, !.noise = FALSE]

GlitchSteps(s) ==
    CASE s.phase = "calm" /\ s.left > 0  -> {[s EXCEPT !.left = @ - 1]}
      [] s.phase = "calm" /\ s.left = 0  -> {[s EXCEPT !.phase = "burst", !.left = n] : n \in 1..2}
      [] s.phase = "burst" /\ s.left > 0 -> {[s EXCEPT !.left = @ - 1, !.noise = TRUE]}
      [] s.phase = "burst" /\ s.left = 0 ->
             LET b == (s.bursts + 1) % FlashEvery
             IN  IF b = 0 THEN {[s EXCEPT !.phase = "flash", !.bursts = b, !.flash = TRUE]}
                 ELSE {[Settled(s, n) EXCEPT !.bursts = b] : n \in 0..1}
      [] s.phase = "flash" -> {[Settled(s, n) EXCEPT !.flash = FALSE] : n \in 0..1}

EffectTick ==
    CASE fx = 1 -> scene' = TypeStep(scene)
      [] fx = 4 -> scene' = WipeStep(scene)
      [] fx = 6 -> scene' \in GlitchSteps(scene)
      [] fx = 7 -> scene' = [step |-> (scene.step + 1) % 6]
      [] OTHER  -> UNCHANGED scene

\* Mutation: the dwell is only looked at by effects that do not step.
TickStepping ==
    /\ shows
    /\ IF auto /\ since >= Dwell /\ fx \in {0, 2, 3, 5}
       THEN SwitchTo(fx + 1)
       ELSE /\ since' = IF since < Dwell THEN since + 1 ELSE since
            /\ EffectTick /\ UNCHANGED fx
    /\ UNCHANGED <<shows, auto, nvsFx, nvsAuto, late, edits>>

\* engine::tick.
Tick ==
    /\ shows
    /\ IF auto /\ since >= Dwell
       THEN SwitchTo(fx + 1)
       ELSE /\ since' = IF since < Dwell THEN since + 1 ELSE since
            /\ EffectTick /\ UNCHANGED fx
    /\ UNCHANGED <<shows, auto, nvsFx, nvsAuto, late, edits>>

-----------------------------------------------------------------------------
(* Completions, routed by engine::on_action.                               *)

Turned(way) == IF way = "left" THEN "right" ELSE "left"

\* A tween of the current effect ends.
TweenDone ==
    /\ shows
    /\ \/ fx = 0 /\ scene.intro /\ scene' = [intro |-> FALSE]
       \/ fx = 2 /\ scene.falling /\ scene' = [falling |-> FALSE, puff |-> TRUE, playing |-> TRUE]
       \/ fx = 5 /\ scene' = [scene EXCEPT !.back = Turned(@)]
       \/ fx = 5 /\ scene' = [scene EXCEPT !.front = Turned(@)]
    /\ UNCHANGED <<shows, fx, auto, nvsFx, nvsAuto, since, late, edits>>

\* The puff has played: its completion is on its way.
PuffEnds ==
    /\ shows /\ fx = 2 /\ scene.playing /\ late < MaxLate
    /\ scene' = [scene EXCEPT !.playing = FALSE] /\ late' = late + 1
    /\ UNCHANGED <<shows, fx, auto, nvsFx, nvsAuto, since, edits>>

\* Mutation: a completion counts for the landing that is running.
PuffDoneOnce ==
    /\ shows /\ late > 0 /\ late' = late - 1
    /\ scene' = IF fx = 2 /\ scene.playing THEN [scene EXCEPT !.puff = FALSE] ELSE scene
    /\ UNCHANGED <<shows, fx, auto, nvsFx, nvsAuto, since, edits>>

\* ACT_PUFF_DONE, dropped when another effect runs.
PuffDone ==
    /\ shows /\ late > 0 /\ late' = late - 1
    /\ scene' = IF fx = 2 THEN [scene EXCEPT !.puff = FALSE] ELSE scene
    /\ UNCHANGED <<shows, fx, auto, nvsFx, nvsAuto, since, edits>>

Next ==
    \/ Enter \/ Leave \/ Tick \/ ToggleAuto \/ NameInput
    \/ \E by \in {1, FX_COUNT - 1} : Step(by)
    \/ TweenDone \/ PuffEnds \/ PuffDone

Spec == Init /\ [][Next]_vars

-----------------------------------------------------------------------------
(* Properties.                                                             *)

\* The picture is clean when an effect rests: a calm glitch has neither noise
\* nor flash, and a puff is on screen only while its sprite plays or its
\* completion is on its way, whatever completions of earlier runs arrive.
NothingLeftOver ==
    /\ fx = 6 /\ scene.phase = "calm" => ~scene.noise /\ ~scene.flash
    /\ fx = 2 /\ scene.puff => scene.playing \/ late > 0

\* The badge shows the whole name again and again: typed out, fully revealed
\* or undisturbed, unless the effect is left.
Readable ==
    /\ fx = 1 => scene.chars = NameChars
    /\ fx = 4 => scene.level = LevelMax
    /\ fx = 6 => ~scene.noise /\ ~scene.flash

NameComesBack ==
    \A f \in {1, 4, 6} : (shows /\ fx = f) ~> (Readable \/ fx # f \/ ~shows)

\* Auto-rotation leaves every effect (engine::tick), also the ones whose own
\* steps and completions go on for ever.
Rotates == \A f \in 0..FX_COUNT-1 : (shows /\ auto /\ fx = f) ~> (fx # f \/ ~auto \/ ~shows)
=============================================================================
