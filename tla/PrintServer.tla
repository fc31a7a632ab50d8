----------------------------- MODULE PrintServer -----------------------------
(***************************************************************************)
(* The life of thermo_printer's network listener: the menu switch, the     *)
(* port setting, restoring it after a boot, and residency.  Connections    *)
(* are PrintDriver's (NetJob).  Ports may be in use when they are bound;   *)
(* the host may refuse to keep a setting or the plugin, which the code     *)
(* does not look at.                                                       *)
(***************************************************************************)
EXTENDS Integers

CONSTANT PrintPorts   \* ports the user may set

VARIABLES
    server_on,
    bound_port,    \* 0 when not listening
    nvsServer,     \* NVS_SERVER
    nvsPort,       \* NVS_PORT, print_port()
    socket,        \* the host's listener of this plugin, 0 for none
    resident,      \* the host keeps the plugin when the user leaves it
    place,         \* "unloaded", "background" or "front"
    refused        \* history: what the host was last asked to keep and did not, of
                   \* "server", "port" and "resident"

vars == <<server_on, bound_port, nvsServer, nvsPort, socket, resident, place, refused>>

Off == server_on' = FALSE /\ bound_port' = 0 /\ socket' = 0

Init ==
    /\ server_on = FALSE /\ bound_port = 0 /\ socket = 0
    /\ nvsServer = FALSE /\ nvsPort \in PrintPorts
    /\ resident = FALSE /\ place = "unloaded" /\ refused = {}

\* net::listen succeeds: one listener per plugin.
Listen(p) == server_on' = TRUE /\ bound_port' = p /\ socket' = p

\* The host keeps `new`, unless it is among what failed.
Keep(key, old, new, failed) == IF key \in failed THEN old ELSE new

\* plugin_init: restore_server, when the server was left on.  A plugin that is
\* loaded by autoload and not made resident is dropped, with its listener.
Load(to) ==
    /\ place = "unloaded"
    /\ \/ /\ nvsServer /\ Listen(nvsPort) /\ resident' = TRUE /\ place' = to
          /\ UNCHANGED refused
       \/ /\ nvsServer /\ Listen(nvsPort) /\ to = "front" /\ place' = to
          /\ refused' = {"resident"} /\ UNCHANGED resident
       \/ /\ place' = IF to = "front" THEN to ELSE "unloaded"
          /\ UNCHANGED <<server_on, bound_port, socket, resident, refused>>
    /\ UNCHANGED <<nvsServer, nvsPort>>

\* The user opens the plugin; autoload loads it at boot.
Open ==
    \/ Load("front")
    \/ /\ place = "background" /\ place' = "front"
       /\ UNCHANGED <<server_on, bound_port, nvsServer, nvsPort, socket, resident, refused>>

Boot == Load("background")

\* A plugin that is not resident is torn down, its listener with it.
Leave ==
    /\ place = "front"
    /\ \/ /\ resident /\ place' = "background"
          /\ UNCHANGED <<server_on, bound_port, socket, refused>>
       \/ ~resident /\ place' = "unloaded" /\ Off /\ refused' = {}
    /\ UNCHANGED <<nvsServer, nvsPort, resident>>

PowerLoss ==
    /\ place' = "unloaded" /\ Off /\ resident' = FALSE /\ refused' = {}
    /\ UNCHANGED <<nvsServer, nvsPort>>

\* toggle_server, on: saved before the port is bound, resident after.
SwitchOn ==
    /\ place = "front" /\ ~server_on
    /\ \E failed \in SUBSET {"server", "resident"} :
        /\ nvsServer' = Keep("server", nvsServer, TRUE, failed)
        /\ \/ /\ Listen(nvsPort) /\ resident' = Keep("resident", resident, TRUE, failed)
              /\ refused' = failed
           \/ /\ refused' = (refused \ {"server"}) \cup (failed \ {"resident"})
              /\ UNCHANGED <<server_on, bound_port, socket, resident>>
    /\ UNCHANGED <<nvsPort, place>>

\* toggle_server, off.
SwitchOff ==
    /\ place = "front" /\ server_on
    /\ \E failed \in SUBSET {"server", "resident"} :
        /\ nvsServer' = Keep("server", nvsServer, FALSE, failed)
        /\ resident' = Keep("resident", resident, FALSE, failed)
        /\ refused' = failed
    /\ Off
    /\ UNCHANGED <<nvsPort, place>>

\* apply_port: a running listener is rebound, or the server goes off.
Rebind(p, failed) ==
    \/ /\ ~server_on /\ UNCHANGED <<server_on, bound_port, socket, resident, refused>>
    \/ /\ server_on /\ Listen(p) /\ UNCHANGED resident
       /\ refused' = (refused \ {"port"}) \cup (failed \ {"resident"})
    \/ /\ server_on /\ Off /\ resident' = Keep("resident", resident, FALSE, failed)
       /\ refused' = (refused \ {"resident"}) \cup (failed \ {"port"})

\* Mutation: a running listener keeps its port.
SetPortLater(p) ==
    /\ place = "front"
    /\ \E failed \in SUBSET {"port"} :
        /\ nvsPort' = Keep("port", nvsPort, p, failed)
        /\ refused' = (refused \ {"port"}) \cup failed
    /\ UNCHANGED <<server_on, bound_port, socket, resident, nvsServer, place>>

\* ACT_PORT_INPUT: saved, or not, and applied.
SetPort(p) ==
    /\ place = "front"
    /\ \E failed \in SUBSET {"port", "resident"} :
        nvsPort' = Keep("port", nvsPort, p, failed) /\ Rebind(p, failed)
    /\ UNCHANGED <<nvsServer, place>>

Next ==
    \/ Open \/ Boot \/ Leave \/ PowerLoss \/ SwitchOn \/ SwitchOff
    \/ \E p \in PrintPorts : SetPort(p)

Spec == Init /\ [][Next]_vars

-----------------------------------------------------------------------------
(* Properties.                                                             *)

\* What the menu shows is what clients meet, however ports were changed, binds
\* and writes failed and the plugin came and went: the server counts as on
\* exactly while the host listens.  The listener is on the configured port, the
\* server comes back after a power loss, and the plugin stays in memory exactly
\* while there is a server, each unless the host refused just that when it was
\* last asked: a refusal outlives neither the next attempt that succeeds nor
\* the plugin (toggle_server, apply_port, restore_server).  Without the excuse
\* for the port, the comment of apply_port, by which the NVS value and the live
\* server never drift apart, would not hold (README, section 7).
ServerAsShown ==
    /\ server_on <=> socket # 0
    /\ server_on => /\ socket = bound_port /\ place # "unloaded"
                    /\ socket = nvsPort \/ "port" \in refused
                    /\ nvsServer \/ "server" \in refused
    /\ (resident <=> server_on) \/ "resident" \in refused
    /\ place = "background" => resident
    /\ place = "unloaded" => refused = {} /\ ~resident
=============================================================================
