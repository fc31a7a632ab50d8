---------------------------- MODULE MCSafeApps -----------------------------
(***************************************************************************)
(* The plugins of SafeApps for TLC: what their inputs may be, chosen so    *)
(* that every limit and every shape of input is met.                       *)
(***************************************************************************)
EXTENDS SafeApps

Domains == <<"light", "cover", "climate">>

\* A device with one setpoint, at the limits, below zero and outside of them,
\* and a range of an even and of an odd width.
Single(t, modes, fans) ==
    [range |-> FALSE, target |-> t, low |-> 0, high |-> 0, min |-> -12, max |-> 11,
     step |-> 1, modes |-> modes, fans |-> fans, mode |-> "off", fan |-> ""]
Double(high) ==
    [range |-> TRUE, target |-> 0, low |-> 3, high |-> high, min |-> -5, max |-> 19,
     step |-> 5, modes |-> {"off", "heat", "cool"}, fans |-> <<>>, mode |-> "off",
     fan |-> ""]
ClimateDevices ==
    {Single(t, modes, fans) :
        t \in {-14, -3, 12}, fans \in {<<>>, <<"lo", "hi">>},
        modes \in {{"off", "heat", "cool"}, {"auto", "dry"}, {"cool", "heat_cool"}}}
    \cup {Double(high) : high \in {12, 13}}

\* The folder of the web server: plain names, dots and digits.
FolderFiles ==
    {<<"index">>, <<"a">>, <<"a", ".">>, <<".">>, <<".", ".">>, <<"2", "a">>}
LargeFiles == {<<"a", ".">>}

\* A favourite of each domain, of an unknown one, and two in an order that is
\* not the domains'.
Favourites ==
    {<<"light">>, <<"switch">>, <<"input_boolean">>, <<"button">>, <<"scene">>,
     <<"script">>, <<"automation">>, <<"sensor">>, <<"binary_sensor">>,
     <<"cover">>, <<"climate">>, <<"?">>, <<"switch", "light">>}

\* Feeds of two or three parts, with entries that are whole, cut short, without
\* a title or with an empty one, and an item of the other format.
Entry == <<"<entry", "title", "</entry>">>
Parts == {<<"title">>, Entry, <<"<entry", "empty", "title", "</entry>">>,
          <<"<entry", "</entry>">>, <<"<entry", "title">>, <<"<item", "title", "</item>">>}

FeedDocuments == {a \o b : a, b \in Parts} \cup {a \o Entry \o Entry : a \in Parts}

\* Lines that are blank, fit, wrap, or have a word that must be cut.
Shapes == {<<>>, <<1>>, <<2, 1>>, <<4>>, <<7, 3>>, <<1, 4, 1>>}
Card(org, tel) == <<[key |-> "BEGIN", words |-> <<1>>], [key |-> "FN", words |-> <<3, 1>>],
                    [key |-> "ORG", words |-> org], [key |-> "TEL", words |-> <<tel>>]>>

PrintTexts == UNION {[1..n -> Shapes] : n \in 0..4}
PrintCards == {Card(org, tel) : org \in {<<>>, <<3>>, <<9>>}, tel \in {1, 5}}

\* Two rows of bytes of two pixels, narrower and wider than the printer and as
\* wide: every first row, and a second one that shares its end.
Bytes == {<<0, 0>>, <<0, 1>>, <<1, 0>>, <<1, 1>>}
TwoRows(r) == <<r, <<<<0, 0>>, <<1, 1>>, <<1, 1>>>> \o SubSeq(r, 4, Len(r))>>

PrintRasters == {TwoRows(r) : r \in UNION {[1..stride -> Bytes] : stride \in 3..5}}
=============================================================================
