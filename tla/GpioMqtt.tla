------------------------------ MODULE GpioMqtt ------------------------------
(***************************************************************************)
(* examples/gpio_mqtt: the levels of a few pins go to an MQTT broker, a    *)
(* snapshot when the plugin opens and a message per change after that, on  *)
(* one session that is reopened at most every CONNECT_RETRY_MS.  Time is   *)
(* counted in polls.                                                       *)
(***************************************************************************)
EXTENDS Integers, Sequences

CONSTANTS
    PinCount,    \* PINS.len()
    Brokers,     \* the URLs that parse
    Passwords,
    RetryAfter,  \* CONNECT_RETRY_MS in polls
    PingAfter    \* PING_INTERVAL_MS in polls

Pins == 1..PinCount  \* the indices of PINS
None == "none"
NoConn == <<>>

VARIABLES
    opened,    \* the plugin's view is open
    levels,    \* LAST_LEVELS
    conn,      \* CONN: the settings the session was opened with, or NoConn
    retryAge,  \* polls since LAST_CONNECT_MS
    idle,      \* polls since LAST_TX_MS
    broker,    \* NVS_URL: a URL, or None for one that does not parse
    nvsPass,   \* NVS_PASS, left by an earlier version
    rmemPass,  \* RMEM_PASS
    wanted,    \* the password the user set last (history)
    storeFault,  \* a storage operation on the password failed (history)
    told,      \* what the broker was last told of each pin, unless missed (history)
    missed     \* a message was lost, or its address changed, since opening (history)

settings == <<broker, nvsPass, rmemPass, wanted, storeFault>>
vars == <<opened, levels, conn, retryAge, idle, settings, told, missed>>

Init ==
    /\ opened = FALSE /\ levels = [p \in Pins |-> FALSE]
    /\ conn = NoConn /\ retryAge = RetryAfter /\ idle = 0
    /\ broker = None /\ rmemPass = None
    /\ nvsPass \in Passwords \cup {None} /\ wanted = nvsPass
    /\ storeFault = FALSE
    /\ told = levels /\ missed = TRUE

-----------------------------------------------------------------------------
(* Sending.  What a send works on is a record; `up` is whether the broker  *)
(* answers a CONNECT with an accepting CONNACK, `through` whether the      *)
(* packet could be written, `stored` whether the retained memory works.    *)

Link == [conn |-> conn, age |-> retryAge, idle |-> idle,
         nvs |-> nvsPass, rmem |-> rmemPass, sent |-> TRUE]

\* config_pass: a password left in NVS moves to the retained memory.
ConfigPass(s) == IF s.rmem # None THEN s.rmem ELSE s.nvs

\* Mutation: the copy in NVS stays.
MigratedKept(s, stored) ==
    IF s.rmem = None /\ s.nvs # None /\ stored THEN [s EXCEPT !.rmem = s.nvs] ELSE s

Migrated(s, stored) ==
    IF s.rmem = None /\ s.nvs # None /\ stored
    THEN [s EXCEPT !.rmem = s.nvs, !.nvs = None] ELSE s

\* mqtt_connect.
Connect(s, up, stored) ==
    IF broker = None THEN s
    ELSE [Migrated(s, stored) EXCEPT
            !.conn = IF up THEN <<broker, ConfigPass(s)>> ELSE NoConn]

\* Mutation: opening the session does not count as sending.
SendIdle(s, up, through, stored) ==
    LET due  == s.conn = NoConn /\ s.age >= RetryAfter
        open == IF due THEN Connect([s EXCEPT !.age = 0], up, stored) ELSE s
        sent == open.conn # NoConn /\ through
    IN [open EXCEPT !.sent = sent,
                    !.conn = IF sent THEN @ ELSE NoConn,
                    !.idle = IF sent /\ ~due THEN 0 ELSE @]

\* mqtt_send, write_all.
Send(s, up, through, stored) ==
    LET due  == s.conn = NoConn /\ s.age >= RetryAfter
        open == IF due THEN Connect([s EXCEPT !.age = 0], up, stored) ELSE s
        sent == open.conn # NoConn /\ through
    IN [open EXCEPT !.sent = sent,
                    !.conn = IF sent THEN @ ELSE NoConn,
                    !.idle = IF sent THEN 0 ELSE @]

Took(s) ==
    /\ conn' = s.conn /\ retryAge' = s.age /\ idle' = s.idle
    /\ nvsPass' = s.nvs /\ rmemPass' = s.rmem
    /\ UNCHANGED <<broker, wanted>>

\* plugin_on_enter: the levels are read and sent as a snapshot.
Enter(now, up, through, stored) ==
    /\ ~opened /\ opened' = TRUE
    /\ levels' = now
    /\ LET s == Send(Link, up, through, stored)
       IN /\ Took(s)
          /\ missed' = ~s.sent
          /\ told' = IF s.sent THEN now ELSE told
    /\ storeFault' = (storeFault \/ ~stored)

\* plugin_on_exit.
Exit ==
    /\ opened /\ opened' = FALSE
    /\ conn' = NoConn
    /\ UNCHANGED <<levels, retryAge, idle, settings, told, missed>>

-----------------------------------------------------------------------------
(* plugin_on_tick, poll_gpio.                                              *)

Older(n, bound) == IF n < bound THEN n + 1 ELSE n

\* mqtt_keepalive.
KeepAlive(s, up, through, stored) ==
    IF s.conn # NoConn /\ s.idle >= PingAfter THEN Send(s, up, through, stored) ELSE s

\* publish_change, for a pin that changed; c.s is the link, c.told what the
\* broker knows by then.
Publish(c, p, now, up, cut, stored) ==
    LET s == Send(c.s, up, p \notin cut, stored)
    IN IF levels[p] = now[p] THEN c
       ELSE [s |-> s, lost |-> c.lost \/ ~s.sent,
             told |-> IF s.sent THEN [c.told EXCEPT ![p] = now[p]] ELSE c.told]

\* The pins in turn.
Published(alive, now, up, cut, stored) ==
    LET after[n \in 0..PinCount] ==
            IF n = 0 THEN [s |-> alive, lost |-> FALSE, told |-> told]
            ELSE Publish(after[n-1], n, now, up, cut, stored)
    IN  after[PinCount]

\* Mutation: LAST_LEVELS is replaced before the pins are compared.
PollReplaced(now, up, cut, stored) ==
    /\ opened
    /\ levels' = now
    /\ Took(KeepAlive([Link EXCEPT !.age = Older(@, RetryAfter), !.idle = Older(@, PingAfter)],
                      up, 0 \notin cut, stored))
    /\ storeFault' = (storeFault \/ ~stored)
    /\ UNCHANGED <<opened, told, missed>>

\* A message to a pin in `cut` fails; 0 stands for the PINGREQ.
Poll(now, up, cut, stored) ==
    /\ opened
    /\ levels' = now
    /\ LET alive == KeepAlive([Link EXCEPT !.age = Older(@, RetryAfter),
                                           !.idle = Older(@, PingAfter)],
                              up, 0 \notin cut, stored)
           c == Published(alive, now, up, cut, stored)
       IN Took(c.s) /\ told' = c.told /\ missed' = (missed \/ c.lost)
    /\ storeFault' = (storeFault \/ ~stored)
    /\ UNCHANGED opened

-----------------------------------------------------------------------------
(* The settings.                                                           *)

\* Mutation: the open session goes on with the old settings.
SetUrlLater(b) ==
    /\ opened /\ broker' = b /\ missed' = TRUE
    /\ UNCHANGED <<opened, levels, conn, retryAge, idle, nvsPass, rmemPass, wanted,
                   storeFault, told>>

\* ACT_URL_DONE (ACT_USER_DONE does the same with the user's name): the
\* session is dropped, the next message opens another.
SetUrl(b) ==
    /\ opened /\ broker' = b /\ conn' = NoConn /\ missed' = TRUE
    /\ UNCHANGED <<opened, levels, retryAge, idle, nvsPass, rmemPass, wanted,
                   storeFault, told>>

\* CTX_PASS shows config_pass, which migrates; ACT_PASS_DONE stores what was
\* entered, and erases on an empty answer.  None is the empty password.
SetPass(new, stored) ==
    /\ opened /\ conn' = NoConn /\ wanted' = new
    /\ LET s == Migrated(Link, stored)
       IN nvsPass' = s.nvs /\ rmemPass' = IF stored THEN new ELSE s.rmem
    /\ missed' = TRUE /\ storeFault' = (storeFault \/ ~stored)
    /\ UNCHANGED <<opened, levels, retryAge, idle, broker, told>>

\* ACT_TOPIC_DONE: later messages go to another topic.
SetTopic ==
    /\ opened /\ missed' = TRUE
    /\ UNCHANGED <<opened, levels, conn, retryAge, idle, settings, told>>

Next ==
    \/ \E now \in [Pins -> BOOLEAN], up, stored \in BOOLEAN :
          \/ \E through \in BOOLEAN : Enter(now, up, through, stored)
          \/ \E cut \in SUBSET (Pins \cup {0}) : Poll(now, up, cut, stored)
    \/ Exit \/ SetTopic
    \/ \E b \in Brokers \cup {None} : SetUrl(b)
    \/ \E new \in Passwords \cup {None}, stored \in BOOLEAN : SetPass(new, stored)

Spec == Init /\ [][Next]_vars

-----------------------------------------------------------------------------
(* Properties.                                                             *)

\* The broker's picture of the pins is the badge's, as long as no message was
\* lost since the snapshot: a poll that finds several changes reports each of
\* them (poll_gpio).  A lost change is not sent again (README, section 7).
BrokerInStep == opened /\ ~missed => told = levels

\* A session is never idle for PING_INTERVAL_MS, so the broker does not drop
\* it: opening it, every publish and every ping count (mqtt_send).
KeptAlive == conn # NoConn => idle < PingAfter

\* The session in use was opened with the settings that are stored, and with
\* the password the user set last, wherever an earlier version had left one,
\* unless storing it failed (mqtt_connect, config_pass, store_pass).
SessionAsSet ==
    conn # NoConn =>
        /\ conn[1] = broker
        /\ ~storeFault => conn[2] = wanted

\* A password the user cleared stays cleared (config_pass must not find the
\* old one in NVS again), unless storing failed.
PassAsSet == ~storeFault => ConfigPass(Link) = wanted

\* The broker sees the pins, on a session that stays up and was opened with what
\* the user set, over reconnects, changed settings and a migrated password.
BrokerAsSet == BrokerInStep /\ KeptAlive /\ SessionAsSet /\ PassAsSet
=============================================================================
