------------------------------ MODULE GroveLed ------------------------------
(***************************************************************************)
(* plugins/grove_led: the strip's settings, the sleep and wake events, the *)
(* lock-screen switch and the sleep inhibitor.  The strip is lit or dark;  *)
(* pixel values are left out but for the error diffusion of dim_dither.    *)
(* Every write to NVS may fail, each key for itself, and nobody looks; the *)
(* strip's driver and the power service do what they are asked.            *)
(***************************************************************************)
EXTENDS Integers, FiniteSets

CONSTANTS
    Colors,    \* colours
    Base,      \* 256, the fraction's range in dim_dither
    Targets,   \* high-resolution brightness a breathing frame asks for
    MaxFrames, \* bound: breathing frames
    MaxUnsaved \* bound: keys that are behind at a time

Effects  == {"Rainbow", "Static", "Blink", "Breathing", "Random", "CpuLoad"}
Animated == Effects \ {"Static", "CpuLoad"}

\* The settings that are modelled; the three keys of a colour count as one.
Keys     == {"enabled", "effect", "color"}
Settings == [enabled : BOOLEAN, effect : Effects, color : Colors]

VARIABLES
    running,   \* plugin_init succeeded
    set,       \* the settings
    stored,    \* the same in NVS
    unsaved,   \* keys whose last write failed (history)
    sleeping,
    inhibit,   \* power::set_sleep_inhibit
    lit,       \* the strip shows light
    acc,       \* dither_acc
    owed,      \* brightness asked for and not shown yet (history)
    frames

vars == <<running, set, stored, unsaved, sleeping, inhibit, lit, acc, owed, frames>>

Init ==
    /\ running = FALSE /\ sleeping = FALSE /\ inhibit = FALSE /\ lit = FALSE
    /\ stored \in {s \in Settings : s.effect = "Rainbow"} /\ set = stored
    /\ unsaved = {} /\ acc = 0 /\ owed = 0 /\ frames = 0

dither == <<acc, owed, frames>>

\* nvs::set_u32 of the keys that were touched, with some of the writes failing;
\* where some channels of a colour were written, NVS has a mixed one.
Save(touched) ==
    \E failed \in SUBSET touched, mixed \in Colors :
        /\ stored' = [k \in Keys |-> CASE k \in touched \ failed -> set'[k]
                                     [] k \in failed /\ k = "color" -> mixed
                                     [] OTHER -> stored[k]]
        /\ unsaved' = (unsaved \ touched) \cup failed
        /\ Cardinality(unsaved') <= MaxUnsaved

\* update_caffeinate.
Caffeinate(s) == inhibit' = (s.enabled /\ s.effect \in Animated)

\* plugin_init: load_state; a strip that does not start stops the plugin.
Load ==
    /\ ~running /\ running' = TRUE
    /\ set' = stored /\ unsaved' = {} /\ sleeping' = FALSE
    /\ Caffeinate(stored)
    /\ acc' = 0 /\ owed' = 0
    /\ UNCHANGED <<stored, lit, frames>>

\* plugin_deinit: the strip is cleared; the host releases the inhibitor.
Unload ==
    /\ running /\ running' = FALSE
    /\ lit' = FALSE /\ inhibit' = FALSE
    /\ UNCHANGED <<set, stored, unsaved, sleeping, dither>>

\* Mutation: the strip is left as it is.
ToggleLit ==
    /\ running
    /\ set' = [set EXCEPT !.enabled = ~@] /\ Save({"enabled"})
    /\ Caffeinate(set')
    /\ UNCHANGED <<running, sleeping, lit, dither>>

\* ACT_LOCK_TOGGLE and the menu's ITEM_TOGGLE.
Toggle ==
    /\ running
    /\ set' = [set EXCEPT !.enabled = ~@] /\ Save({"enabled"})
    /\ lit' = (lit /\ set'.enabled)
    /\ Caffeinate(set')
    /\ UNCHANGED <<running, sleeping, dither>>

\* SYSTEM_SLEEP and SYSTEM_WAKE.
Sleep ==
    /\ running /\ sleeping' = TRUE /\ lit' = FALSE
    /\ UNCHANGED <<running, set, stored, unsaved, inhibit, dither>>

Wake ==
    /\ running /\ sleeping' = FALSE
    /\ UNCHANGED <<running, set, stored, unsaved, inhibit, lit, dither>>

\* ACT_EFFECT_SELECT.
SetEffect(e) ==
    /\ running
    /\ set' = [set EXCEPT !.effect = e] /\ Save({"effect"})
    /\ Caffeinate(set')
    /\ UNCHANGED <<running, sleeping, lit, dither>>

\* What a colour of the picker makes of the settings.
Painted(c) == [set EXCEPT !.color = c, !.effect = "Static"]

\* Mutation: the colour is saved, the effect it implies is not.
SetColorOnly(c) ==
    /\ running
    /\ set' = Painted(c) /\ Save({"color"})
    /\ Caffeinate(set')
    /\ UNCHANGED <<running, sleeping, lit, dither>>

\* Mutation: the inhibitor of the effect before is kept.
SetColorAwake(c) ==
    /\ running
    /\ set' = Painted(c) /\ Save({"color", "effect"})
    /\ UNCHANGED <<running, sleeping, inhibit, lit, dither>>

\* ACT_COLOR_SAVE: a colour selects the static effect.
SetColor(c) ==
    /\ running
    /\ set' = Painted(c) /\ Save({"color", "effect"})
    /\ Caffeinate(set')
    /\ UNCHANGED <<running, sleeping, lit, dither>>

\* ACT_COUNT_SAVE, ACT_BRIGHT_SAVE and ACT_SPEED_SAVE: the strip may be
\* initialised again, with its old content or none.
SetSize ==
    /\ running /\ lit' \in {lit, FALSE}
    /\ UNCHANGED <<running, set, stored, unsaved, sleeping, inhibit, dither>>

\* Mutation: the carry clears the accumulator.
CarryDropped(sum) == IF sum >= Base THEN 0 ELSE sum

\* dim_dither: the fraction that is carried on.
Carry(sum) == IF sum >= Base THEN sum - Base ELSE sum

\* One channel of a breathing frame.
Breathe ==
    /\ frames < MaxFrames /\ frames' = frames + 1
    /\ \E target \in Targets :
        LET sum  == acc + (target % Base)
            show == (target \div Base) + (IF sum >= Base THEN 1 ELSE 0)
        IN  /\ acc' = Carry(sum)
            /\ owed' = owed + target - Base * show
            /\ lit' = (show > 0)

\* Mutation: a static colour is taken for drawn.
TickStaticSkipped ==
    /\ running /\ ~sleeping
    /\ CASE ~set.enabled -> lit' = FALSE /\ UNCHANGED dither
         [] set.enabled /\ set.effect = "Breathing" ->
                Breathe \/ (frames = MaxFrames /\ lit' \in BOOLEAN /\ UNCHANGED dither)
         [] set.enabled /\ set.effect = "Rainbow" -> lit' = TRUE /\ UNCHANGED dither
         [] OTHER -> lit' \in {lit, FALSE} /\ UNCHANGED dither
    /\ UNCHANGED <<running, set, stored, unsaved, sleeping, inhibit>>

\* plugin_on_tick, render_frame: nothing while asleep.
Tick ==
    /\ running /\ ~sleeping
    /\ CASE ~set.enabled -> lit' = FALSE /\ UNCHANGED dither
         [] set.enabled /\ set.effect = "Breathing" ->
                Breathe \/ (frames = MaxFrames /\ lit' \in BOOLEAN /\ UNCHANGED dither)
         [] set.enabled /\ set.effect \in {"Rainbow", "Static"} -> lit' = TRUE /\ UNCHANGED dither
         [] OTHER -> lit' \in BOOLEAN /\ UNCHANGED dither
    /\ UNCHANGED <<running, set, stored, unsaved, sleeping, inhibit>>

Next ==
    \/ Load \/ Unload \/ Toggle \/ Sleep \/ Wake \/ SetSize \/ Tick
    \/ \E e \in Effects : SetEffect(e)
    \/ \E c \in Colors : SetColor(c)

Spec == Init /\ [][Next]_vars

-----------------------------------------------------------------------------
(* Properties.                                                             *)

\* The badge is kept awake exactly while an animated effect is on
\* (update_caffeinate), whichever of the menu, the lock screen and the colour
\* picker changed it last.
AwakeIffAnimated ==
    inhibit <=> running /\ set.enabled /\ set.effect \in Animated

\* The strip is dark while it is off or the badge sleeps: no tick, toggle or
\* setting lights it again behind the sleep event.
DarkWhenOff == lit => running /\ set.enabled /\ ~sleeping

\* A restart brings back what is set now (load_state), but for the keys whose
\* last write NVS refused, each of them alone: a handler saves every setting it
\* changes, the effect that a colour implies too.
SettingsKept == running => \A k \in Keys \ unsaved : stored[k] = set[k]

\* dim_dither loses no brightness: what was asked for and not shown is in the
\* accumulator, less than one step.
NoLightLost == running => owed = acc /\ acc < Base

\* The strip, the inhibitor and the flash follow the settings through menus,
\* lock screen, sleep, wake, restarts and writes that fail.
StripAsSet == AwakeIffAnimated /\ DarkWhenOff /\ SettingsKept /\ NoLightLost

\* A static colour that is on is shown, also after sleep.
StaticShows ==
    (running /\ set.enabled /\ set.effect = "Static" /\ ~sleeping)
        ~> (lit \/ ~running \/ ~set.enabled \/ set.effect # "Static" \/ sleeping)
=============================================================================
