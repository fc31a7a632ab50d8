---------------------------- MODULE HomeClimate ----------------------------
(***************************************************************************)
(* The climate editor of plugins/home_assistant: what is read from a       *)
(* device, edited on the canvas and sent back.  Temperatures are tenths of *)
(* a degree, as in the code; what is formatted for the request is modelled *)
(* by the number the server reads there.                                   *)
(***************************************************************************)
EXTENDS Integers, Sequences, SequencesExt

CONSTANT Devices   \* climate devices as the server reports them

VARIABLES
    dev,      \* the device at the server
    st,       \* CLIMATE, NoClimate for None
    slider    \* value of W_CLIMATE_SLIDER

vars == <<dev, st, slider>>

NoClimate == [open |-> FALSE]
NoMode == ""

\* Rust's integer division rounds towards zero.
Quot(a, b) == IF a < 0 THEN -((-a) \div b) ELSE a \div b
AbsVal(a)  == IF a < 0 THEN -a ELSE a

\* clamp_ordered: the device's limits may be inverted.
Clamp(v, a, b) ==
    LET lo == IF a < b THEN a ELSE b
        hi == IF a < b THEN b ELSE a
    IN  IF v < lo THEN lo ELSE IF v > hi THEN hi ELSE v

Init ==
    /\ dev \in Devices
    /\ st = NoClimate
    /\ slider = 0

-----------------------------------------------------------------------------
(* parse_climate_state, resolve_mode_slots, climate_open.                  *)

FirstOf(prefs, modes) ==
    LET known == {n \in DOMAIN prefs : prefs[n] \in modes}
    IN  IF known = {} THEN NoMode
        ELSE prefs[CHOOSE n \in known : \A k \in known : n <= k]

\* Mutation: the third slot falls back to what the second one already has.
SlotsAlike(modes) ==
    LET heat == FirstOf(<<"heat", "heat_cool", "auto", "dry", "fan_only">>, modes)
    IN  <<"off", heat, FirstOf(<<"cool", "auto", "heat_cool", "dry", "fan_only">>, modes)>>

\* Off, heating or a substitute, cooling or another substitute.
Slots(modes) ==
    LET heat == FirstOf(<<"heat", "heat_cool", "auto", "dry", "fan_only">>, modes)
    IN  <<"off", heat,
          FirstOf(<<"cool", "auto", "heat_cool", "dry", "fan_only">>,
                  modes \ ({heat} \ {"cool"}))>>

\* The setpoint, or the middle of a range.
Target(d)  == IF d.range THEN Quot(d.low + d.high, 2) ELSE d.target
Spread(d)  == IF d.range THEN d.high - d.low ELSE 0

\* Where a range can go without leaving the device's limits.
LowEnd(d)  == d.min + Quot(Spread(d), 2)
HighEnd(d) == d.max - Quot(Spread(d), 2)

Opened(d, start) ==
    [open |-> TRUE, start |-> start, range |-> d.range, spread |-> Spread(d),
     mode |-> d.mode, wasMode |-> d.mode, fan |-> d.fan, wasFan |-> d.fan,
     slots |-> Slots(d.modes)]

\* Mutation: the change is measured from the setpoint before the clamp.
OpenUnclamped ==
    /\ st = NoClimate
    /\ slider' = Clamp(Target(dev), LowEnd(dev), HighEnd(dev))
    /\ st' = Opened(dev, Target(dev))
    /\ UNCHANGED dev

\* climate_open: the slider starts at the clamped setpoint.
Open ==
    /\ st = NoClimate
    /\ slider' = Clamp(Target(dev), LowEnd(dev), HighEnd(dev))
    /\ st' = Opened(dev, slider')
    /\ UNCHANGED dev

-----------------------------------------------------------------------------
(* climate_handle_key and the slider of the host.                          *)

\* The host moves the slider by a step, within the device's limits.
Slide(by) ==
    /\ st.open
    /\ slider' = Clamp(slider + by * dev.step, dev.min, dev.max)
    /\ UNCHANGED <<dev, st>>

PickMode(slot) ==
    /\ st.open /\ st.slots[slot] # NoMode
    /\ st' = [st EXCEPT !.mode = st.slots[slot]]
    /\ UNCHANGED <<dev, slider>>

\* Key 5: the next fan mode; an unknown one counts as the first.
NextFan ==
    /\ st.open /\ dev.fans # <<>>
    /\ LET at == IF Contains(dev.fans, st.fan)
                 THEN CHOOSE i \in DOMAIN dev.fans : dev.fans[i] = st.fan ELSE 1
       IN  st' = [st EXCEPT !.fan = dev.fans[(at % Len(dev.fans)) + 1]]
    /\ UNCHANGED <<dev, slider>>

Close == st' = NoClimate /\ slider' = 0

Cancel == st.open /\ Close /\ UNCHANGED dev

-----------------------------------------------------------------------------
(* climate_commit.                                                         *)

\* The digit is dropped.
FormattedWhole(t) == Quot(t, 10) * 10

\* "{}.{}" of the quotient and the digit behind the point, read as a number.
Formatted(t) ==
    LET whole == Quot(t, 10) * 10
        digit == AbsVal(t) % 10
    IN  IF whole < 0 THEN whole - digit ELSE whole + digit

\* format_temp of what climate_render draws: the sign is written even when the
\* quotient is 0.
FormatTemp(t) ==
    LET digits == AbsVal(Quot(t, 10)) * 10 + (AbsVal(t) % 10)
    IN  IF t < 0 THEN -digits ELSE digits
Shown == FormatTemp(slider)

\* set_hvac_mode, set_temperature and set_fan_mode, each of which may fail;
\* failed ones are those in lost.
SetMode(d, lost) ==
    IF st.mode = st.wasMode \/ "mode" \in lost THEN d
    ELSE [d EXCEPT !.mode = st.mode]

SetTemperature(d, lost) ==
    IF st.mode = "off" \/ slider = st.start \/ "temp" \in lost THEN d
    ELSE IF st.range /\ st.spread > 0
    THEN [d EXCEPT !.low = Formatted(slider - Quot(st.spread, 2)),
                   !.high = Formatted(slider + Quot(st.spread, 2))]
    ELSE [d EXCEPT !.target = Formatted(slider)]

SetFan(d, lost) ==
    IF st.fan = st.wasFan \/ st.fan = NoMode \/ "fan" \in lost THEN d
    ELSE [d EXCEPT !.fan = st.fan]

Commit(lost) ==
    /\ st.open
    /\ dev' = SetFan(SetTemperature(SetMode(dev, lost), lost), lost)
    /\ Close

Next ==
    \/ Open \/ NextFan \/ Cancel
    \/ \E by \in {-1, 1} : Slide(by)
    \/ \E slot \in 1..3 : PickMode(slot)
    \/ \E lost \in SUBSET {"mode", "temp", "fan"} : Commit(lost)

Spec == Init /\ [][Next]_vars

-----------------------------------------------------------------------------
(* Properties.                                                             *)

\* format_temp shows the sign of tenths between -9 and -1, climate_commit
\* formats the quotient 0 without it.
SignLost(t) == t \in -9..-1

HalfWidth == Quot(st.spread, 2)

\* A setpoint that changes at the server is the one the editor showed, or the
\* end of the range around it, except where the sign is lost.
AsShown ==
    /\ dev'.target # dev.target => SignLost(slider) \/ dev'.target = Shown
    /\ dev'.low # dev.low => SignLost(slider - HalfWidth) \/ dev'.low = Shown - HalfWidth
    /\ dev'.high # dev.high => SignLost(slider + HalfWidth) \/ dev'.high = Shown + HalfWidth

\* A setpoint changes only when the slider was moved: opening a device whose
\* setpoint lies outside its limits and changing its fan leaves it alone.
Unmoved == slider = Clamp(Target(dev), LowEnd(dev), HighEnd(dev))

\* climate_commit sends what the editor showed, and of the setpoints only those
\* that were moved.
AppliedAsShown ==
    [][st.open =>
         /\ AsShown
         /\ Unmoved => <<dev'.target, dev'.low, dev'.high>>
                            = <<dev.target, dev.low, dev.high>>]_vars

\* The three slots offer different modes; but for off, which is always
\* offered, they are modes the device has.
SlotsDistinct ==
    st.open => /\ \A i, j \in 1..3 : i # j /\ st.slots[i] # NoMode => st.slots[i] # st.slots[j]
               /\ \A i \in 2..3 : st.slots[i] \in dev.modes \cup {NoMode}
=============================================================================
