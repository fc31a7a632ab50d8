------------------------------ MODULE RoomKeys ------------------------------
(***************************************************************************)
(* The sending side of plugins/matrix in one encrypted room: the outbound  *)
(* Megolm session, its rotation when a member leaves, and the background   *)
(* distribution of its key (PENDING_DIST), Olm-wrapped, a chunk of devices *)
(* per tick.                                                               *)
(*                                                                         *)
(* The host calls one entry point of the plugin at a time, but a handler   *)
(* blocks on HTTP and the room's membership moves on the server meanwhile. *)
(* `phase` is where such a handler stands; a handler with a single point   *)
(* where the server matters is one action.                                 *)
(*                                                                         *)
(* A key is its session id and the chain index it starts at: it reads the  *)
(* messages of that session from that index on.  Every user has one        *)
(* device; the badge's own devices are left out (enqueue_distribution      *)
(* drops the badge itself from the recipients).                            *)
(***************************************************************************)
EXTENDS Integers, Sequences, FiniteSets

CONSTANTS
    Users,        \* the other users of the room
    Chunk,        \* DIST_CHUNK
    MaxRetries,   \* DIST_MAX_RETRIES
    Worlds,       \* what may go on around the plugin, see `world`
    MaxSessions,  \* bound: outbound sessions created per boot
    MaxMsgs,      \* bound: messages sent per boot
    MaxChanges,   \* bound: membership changes, the badge's own included
    MaxResets     \* bound: times the user resets the module

ASSUME UsersAssumption == IsFiniteSet(Users)
ASSUME ChunkAssumption ==
    /\ Chunk \in Nat \ {0}
    /\ MaxRetries \in Nat
ASSUME WorldsAssumption ==
    Worlds \subseteq SUBSET {"net", "full", "rejoin"}
ASSUME BoundsAssumption ==
    /\ MaxSessions \in Nat
    /\ MaxMsgs \in Nat
    /\ MaxChanges \in Nat
    /\ MaxResets \in Nat

VARIABLES
    \* The homeserver.
    srv,       \* users joined to the room
    pending,   \* each user's last membership event since the sync token
    changes,   \* membership changes so far
    \* The plugin.
    active,    \* between plugin_on_enter and plugin_on_exit
    session,   \* SESSION is Some: logged in
    crypto,    \* CRYPTO: none, bare (no backup key armed) or armed
    room,      \* ROOMS holds the room
    members,   \* Room::members, the lazily loaded list
    out,       \* Crypto::outbound of the room
    olm,       \* devices with an Olm session
    dist,      \* PENDING_DIST
    phase,     \* where the running handler blocks: idle, members, sync
    \* Bookkeeping of the model.
    world,     \* what may go on in this behaviour
    resets,    \* times the module was reset
    sessions,  \* outbound sessions created this boot
    held,      \* their keys that reached a recipient
    log        \* messages sent, with the recipients the badge counted on

server == <<srv, pending, changes>>
ram    == <<active, session, crypto, room, members, out>>
keys   == <<olm, dist, held>>
vars   == <<server, ram, keys, phase, world, resets, sessions, log>>

\* HTTP requests may fail.  A full sync may run over a tracked room, or a room
\* that was left come back while its session lives.  A leave and a join of one
\* user may fall between two syncs.
NetFails    == "net" \in world
FullSyncs   == "full" \in world
QuickRejoin == "rejoin" \in world

NoOut == [sid |-> 0, idx |-> 0]

\* A distribution job: the key, the recipients not yet processed, the ones
\* among them with a claimed one-time key, the wrapped messages waiting to
\* be sent, and the retry counter.
Job == [sid : 1..MaxSessions, idx : Nat, todo : SUBSET Users,
        otk : SUBSET Users, msgs : SUBSET Users, retries : 0..MaxRetries]

Key == [user : Users, sid : 1..MaxSessions, idx : Nat]
Msg == [sid : 1..MaxSessions, idx : Nat, to : SUBSET Users]

ServerType ==
    /\ srv \subseteq Users
    /\ pending \in [Users -> {"none", "join", "leave"}]
    /\ changes \in 0..MaxChanges

RamType ==
    /\ active \in BOOLEAN
    /\ session \in BOOLEAN
    /\ crypto \in {"none", "bare", "armed"}
    /\ room \in BOOLEAN
    /\ members \subseteq Users
    /\ out \in [sid : 0..MaxSessions, idx : Nat]
    /\ phase \in {"idle", "members", "sync"}

KeysType ==
    /\ olm \subseteq Users
    /\ dist \in Seq(Job)
    /\ held \subseteq Key
    /\ world \in Worlds
    /\ resets \in 0..MaxResets
    /\ sessions \in 0..MaxSessions
    /\ log \subseteq Msg

\* Types of all variables.
TypeOK ==
    /\ ServerType
    /\ RamType
    /\ KeysType

NoChanges == [u \in Users |-> "none"]

Init ==
    /\ srv = Users
    /\ pending = NoChanges
    /\ changes = 0
    /\ active = FALSE
    /\ session = TRUE
    /\ crypto = "none"
    /\ room = FALSE
    /\ members = {}
    /\ out = NoOut
    /\ olm = {}
    /\ dist = <<>>
    /\ phase = "idle"
    /\ world \in Worlds
    /\ resets = 0
    /\ sessions = 0
    /\ held = {}
    /\ log = {}

\* Whether an HTTP request may come back with an error (FALSE).
Replies == IF NetFails THEN BOOLEAN ELSE {TRUE}

\* The subsets of S a request that names S may succeed for.
Outcomes(S) == IF NetFails THEN SUBSET S ELSE {S}

Running == active /\ phase = "idle"

-----------------------------------------------------------------------------
(* Queueing a key.                                                         *)

\* enqueue_distribution: keys/query, then keys/claim for the devices without
\* an Olm session (`have` are the ones with one).  A failed query leaves no
\* recipients, a failed or partial claim only those with a session or a key.
Enqueue(who, sid, idx, have) ==
    \E answered \in Replies, claimed \in Outcomes(who \ have) :
        LET targets == IF answered THEN (who \cap have) \cup claimed ELSE {}
        IN  dist' = IF targets = {} THEN dist
                    ELSE Append(dist,
                           [sid |-> sid, idx |-> idx, todo |-> targets,
                            otk |-> targets \ have, msgs |-> {},
                            retries |-> 0])

\* Mutation: the key of a new session is taken after the first message.
FirstIndexLate == 1

\* ensure_outbound returns a new session's key before the first message is
\* encrypted: it reads the session from the start.
FirstIndex == 0

\* Mutation: a late joiner gets the session from its start.
ShareIndexStart == 0

\* outbound_key: the live session's key at its current index.
ShareIndex == out.idx

-----------------------------------------------------------------------------
(* Merging membership: the room's part of sync_now.                        *)

\* Mutation: new members are looked at before departed ones.
MergeJoinFirst(joins, leaves, have) ==
    /\ room' = TRUE
    /\ members' = (members \cup joins) \ leaves
    /\ IF crypto # "none" /\ joins \ members # {} /\ out # NoOut
       THEN /\ UNCHANGED out
            /\ Enqueue(joins \ members, out.sid, ShareIndex, have)
       ELSE /\ out' = IF crypto # "none" /\ leaves # {} THEN NoOut ELSE out
            /\ UNCHANGED dist

\* A leave drops the outbound session, even of a user the lazily loaded list
\* never had; otherwise users new to the list get the live key.
Merge(joins, leaves, have) ==
    /\ room' = TRUE
    /\ members' = (members \cup joins) \ leaves
    /\ IF crypto # "none" /\ leaves # {}
       THEN out' = NoOut /\ UNCHANGED dist
       ELSE /\ UNCHANGED out
            /\ IF crypto # "none" /\ joins \ members # {} /\ out # NoOut
               THEN Enqueue(joins \ members, out.sid, ShareIndex, have)
               ELSE UNCHANGED dist

\* The to-device part of a sync: a pre-key message from a device opens an
\* Olm session with it.
ToDevice(have) ==
    olm' \in IF crypto = "none" THEN {have}
             ELSE {have} \cup {have \cup {u} : u \in Users}

\* An incremental sync delivers each user's last change since the token and,
\* lazily, the membership of some users who spoke.  It comes from a poll, the
\* sync key, or the end of reply_done.
Sync ==
    /\ active /\ session
    /\ phase \in {"idle", "sync"}
    /\ room \/ out = NoOut \/ FullSyncs
    /\ ToDevice(olm)
    /\ \E spoke \in SUBSET {u \in srv : pending[u] = "none"} :
        Merge({u \in Users : pending[u] = "join"} \cup spoke,
              {u \in Users : pending[u] = "leave"}, olm')
    /\ pending' = NoChanges
    /\ phase' = "idle"
    /\ UNCHANGED <<srv, changes, active, session, crypto, held, resets,
                   sessions, log>>

\* sync_now returns at once when the request failed; reply_done skips it
\* when the message was not sent.
SyncSkipped ==
    /\ active /\ phase = "sync" /\ NetFails
    /\ phase' = "idle"
    /\ UNCHANGED <<server, ram, keys, resets, sessions, log>>

\* A full sync is a snapshot: the current state, lazily loaded, and the last
\* events of the timeline, which hold some of the leaves or none.
SyncInFull ==
    \/ /\ \E joins \in SUBSET srv, leaves \in SUBSET (Users \ srv) :
            Merge(joins, leaves, olm')
       /\ pending' = NoChanges
    \/ NetFails /\ UNCHANGED <<room, members, out, dist, pending>>

\* Accepting an invite, joining or creating a room ends in a full sync.
FullSync ==
    /\ Running /\ session /\ FullSyncs
    /\ ToDevice(olm)
    /\ SyncInFull
    /\ UNCHANGED <<srv, changes, active, session, crypto, held, phase, resets,
                   sessions, log>>

\* delete_confirmed, rejecting an invite, or a sync that reports the room as
\* left: the room goes, its outbound session stays.
LeaveRoom ==
    /\ Running /\ room
    /\ changes < MaxChanges
    /\ changes' = changes + 1
    /\ room' = FALSE
    /\ members' = {}
    /\ UNCHANGED <<srv, pending, active, session, crypto, out, keys, phase,
                   resets, sessions, log>>

-----------------------------------------------------------------------------
(* Sending: e2ee_send, called by reply_done.                               *)

\* Refused without an armed backup key.  Encrypts and sends; a new session's
\* key is distributed after the members have been fetched.
Send ==
    /\ Running /\ session /\ room
    /\ crypto = "armed"
    /\ Cardinality(log) < MaxMsgs
    /\ IF out = NoOut
       THEN /\ sessions < MaxSessions
            /\ sessions' = sessions + 1
            /\ out' = [sid |-> sessions + 1, idx |-> 1]
            /\ log' = log \cup {[sid |-> sessions + 1, idx |-> 0, to |-> {}]}
            /\ phase' = "members"
       ELSE /\ out' = [out EXCEPT !.idx = @ + 1]
            /\ log' = log \cup {[sid |-> out.sid, idx |-> out.idx,
                                 to |-> members]}
            /\ phase' = "sync"
            /\ UNCHANGED sessions
    /\ UNCHANGED <<server, active, session, crypto, room, members, keys,
                   resets>>

\* Mutation: the key goes to the lazily loaded member list only.
DistributeLocal ==
    /\ active /\ phase = "members"
    /\ log' = {IF m.sid = out.sid THEN [m EXCEPT !.to = members] ELSE m :
                m \in log}
    /\ Enqueue(members, out.sid, FirstIndex, olm)
    /\ phase' = "sync"
    /\ UNCHANGED <<server, ram, olm, held, sessions, resets>>

\* The rest of e2ee_send for a new session: room_members (the local list when
\* it fails) decides who gets the key, and they are remembered as members.
Distribute ==
    /\ active /\ phase = "members"
    /\ \E fetched \in Replies :
        LET who == IF fetched THEN srv ELSE members
        IN  /\ members' = IF fetched THEN members \cup srv ELSE members
            /\ log' = {IF m.sid = out.sid THEN [m EXCEPT !.to = who] ELSE m :
                        m \in log}
            /\ Enqueue(who, out.sid, FirstIndex, olm)
    /\ phase' = "sync"
    /\ UNCHANGED <<server, active, session, crypto, room, out, olm, held,
                   sessions, resets>>

-----------------------------------------------------------------------------
(* The background distribution: process_distribution, one call per tick.   *)

Least(a, b) == IF a < b THEN a ELSE b

\* The next DIST_CHUNK recipients of a job.
Chunks(todo) ==
    {c \in SUBSET todo : Cardinality(c) = Least(Chunk, Cardinality(todo))}

\* Recipients of the chunk an Olm session is established with from the
\* claimed one-time key.
Establish(pd, chunk) == Outcomes((chunk \cap pd.otk) \ olm)

\* The queue once the front job has become pd: dropped after its last
\* recipient.
Advance(pd) ==
    IF pd.todo = {} THEN Tail(dist) ELSE <<pd>> \o Tail(dist)

\* The front job after its chunk was wrapped: recipients without a session
\* are skipped for good.
Wrapped(pd, chunk, est) ==
    [pd EXCEPT !.todo = @ \ chunk,
               !.msgs = @ \cup (chunk \cap (olm \cup est))]

\* Every waiting message goes out in one sendToDevice.
KeysOf(pd) == {[user |-> u, sid |-> pd.sid, idx |-> pd.idx] : u \in pd.msgs}

\* No message to send: all recipients of the chunk were skipped.
SkipChunk(pd) ==
    /\ pd.msgs = {}
    /\ dist' = Advance(pd)
    /\ UNCHANGED held

Delivered(pd) ==
    /\ pd.msgs # {}
    /\ dist' = Advance([pd EXCEPT !.msgs = {}, !.retries = 0])
    /\ held' = held \cup KeysOf(pd)

\* Mutation: after the last retry the counter is reset and the messages stay.
NotDeliveredForever(pd) ==
    /\ NetFails /\ pd.msgs # {}
    /\ held' \in {held, held \cup KeysOf(pd)}
    /\ dist' = <<[pd EXCEPT !.retries =
                    IF @ < MaxRetries THEN @ + 1 ELSE 0]>> \o Tail(dist)

\* Mutation: one retry too many.
NotDeliveredOnceMore(pd) ==
    /\ NetFails /\ pd.msgs # {}
    /\ held' \in {held, held \cup KeysOf(pd)}
    /\ dist' = IF pd.retries <= MaxRetries
               THEN <<[pd EXCEPT !.retries = @ + 1]>> \o Tail(dist)
               ELSE Advance([pd EXCEPT !.msgs = {}])

\* The request failed, or succeeded and its answer was lost.  After the last
\* retry the messages are given up; the retry counter keeps its value.
NotDelivered(pd) ==
    /\ NetFails /\ pd.msgs # {}
    /\ held' \in {held, held \cup KeysOf(pd)}
    /\ dist' = IF pd.retries < MaxRetries
               THEN <<[pd EXCEPT !.retries = @ + 1]>> \o Tail(dist)
               ELSE Advance([pd EXCEPT !.msgs = {}])

ProcessDistribution ==
    /\ Running /\ dist # <<>> /\ crypto # "none"
    /\ \E chunk \in Chunks(Head(dist).todo) :
        \E est \in Establish(Head(dist), chunk) :
            LET pd == Wrapped(Head(dist), chunk, est)
            IN  /\ olm' = olm \cup est
                /\ \/ SkipChunk(pd)
                   \/ Delivered(pd)
                   \/ NotDelivered(pd)
    /\ UNCHANGED <<server, ram, phase, sessions, log, resets>>

\* Without crypto the whole queue is dropped.
DropDistribution ==
    /\ Running /\ dist # <<>> /\ crypto = "none"
    /\ dist' = <<>>
    /\ UNCHANGED <<server, ram, olm, held, phase, sessions, log, resets>>

Tick == ProcessDistribution \/ DropDistribution

-----------------------------------------------------------------------------
(* Life cycle.                                                             *)

\* init_crypto with no live instance: the account may be unreadable, the
\* backup key may not arm; the snapshot may restore fewer Olm sessions than
\* the plugin had.  The sync that follows may open one more.
InitCrypto ==
    /\ crypto' \in {"none", "bare", "armed"}
    /\ IF crypto' = "none" THEN UNCHANGED olm
       ELSE \E kept \in SUBSET olm :
                olm' \in {kept} \cup {kept \cup {u} : u \in Users}

\* plugin_on_enter: load the session, set up crypto, sync in full.
Enter ==
    /\ ~active
    /\ active' = TRUE
    /\ IF session
       THEN InitCrypto /\ SyncInFull
       ELSE UNCHANGED <<crypto, olm, room, members, out, dist, pending>>
    /\ UNCHANGED <<srv, changes, session, held, phase, resets, sessions, log>>

\* plugin_on_exit; a power loss or a trap in any handler does the same to
\* this state, at any moment.  No key of an earlier boot's sessions can be
\* queued afterwards, so the bookkeeping starts again too.
Stop ==
    /\ active
    /\ active' = FALSE
    /\ crypto' = "none"
    /\ room' = FALSE
    /\ members' = {}
    /\ out' = NoOut
    /\ dist' = <<>>
    /\ phase' = "idle"
    /\ sessions' = 0
    /\ held' = {}
    /\ log' = {}
    /\ UNCHANGED <<server, session, olm, resets>>

\* "Reset module": everything stored is wiped; PENDING_DIST is not.
Reset ==
    /\ Running
    /\ resets < MaxResets
    /\ resets' = resets + 1
    /\ session' = FALSE
    /\ crypto' = "none"
    /\ room' = FALSE
    /\ members' = {}
    /\ out' = NoOut
    /\ olm' = {}
    /\ UNCHANGED <<server, active, dist, held, phase, sessions, log>>

\* do_login: a live crypto instance is kept, and the sync is a full one.
Login ==
    /\ Running
    /\ (~room /\ out = NoOut) \/ FullSyncs
    /\ session' = TRUE
    /\ IF crypto = "none" THEN InitCrypto
       ELSE ToDevice(olm) /\ UNCHANGED crypto
    /\ SyncInFull
    /\ UNCHANGED <<srv, changes, active, held, phase, resets, sessions, log>>

\* The user enters a recovery key: init_crypto, logged in or not, but without
\* a session the backup key cannot be fetched.  No sync follows.
EnterRecoveryKey ==
    /\ Running
    /\ crypto' \in (IF crypto = "none" THEN {"none", "bare"} ELSE {crypto})
                    \cup (IF session THEN {"armed"} ELSE {})
    /\ olm' \in IF crypto = "none" /\ crypto' # "none"
                THEN SUBSET olm ELSE {olm}
    /\ UNCHANGED <<server, active, session, room, members, out, dist, held,
                   phase, sessions, log, resets>>

-----------------------------------------------------------------------------
(* The homeserver: users join and leave at any time.                       *)

ServerJoin(u) ==
    /\ u \notin srv /\ changes < MaxChanges
    /\ QuickRejoin \/ pending[u] # "leave"
    /\ srv' = srv \cup {u}
    /\ pending' = [pending EXCEPT ![u] = "join"]
    /\ changes' = changes + 1
    /\ UNCHANGED <<ram, keys, phase, sessions, log, resets>>

ServerLeave(u) ==
    /\ u \in srv /\ changes < MaxChanges
    /\ srv' = srv \ {u}
    /\ pending' = [pending EXCEPT ![u] = "leave"]
    /\ changes' = changes + 1
    /\ UNCHANGED <<ram, keys, phase, sessions, log, resets>>

Step ==
    \/ Enter \/ Stop \/ Reset \/ Login \/ EnterRecoveryKey
    \/ Sync \/ SyncSkipped \/ FullSync \/ LeaveRoom
    \/ Send \/ Distribute \/ Tick
    \/ \E u \in Users : ServerJoin(u) \/ ServerLeave(u)

Next == Step /\ UNCHANGED world

Spec == Init /\ [][Next]_vars

-----------------------------------------------------------------------------
(* Properties.                                                             *)

\* Keys that reached their recipient or will, unless they are given up.
Keyed ==
    held \cup UNION {{[user |-> u, sid |-> dist[i].sid, idx |-> dist[i].idx] :
                        u \in dist[i].todo \cup dist[i].msgs} :
                     i \in DOMAIN dist}

\* A user whose leave the badge has synced has no key of the live session:
\* the next message is out of reach for them (sync_now: "The departed member
\* holds the current key: rotate").
DepartedLockedOut ==
    \A k \in Keyed :
        (k.sid = out.sid /\ k.user \notin srv) => pending[k.user] = "leave"

\* The same, as long as no full sync moves the token past a leave.
Rotated == ~FullSyncs => DepartedLockedOut

\* Whoever can read a message, now or once the queue has drained, is one of
\* the recipients the badge counted on when it sent it: a later joiner gets
\* the key at its current index and reads nothing older
\* (share_outbound_key).  A full sync that skips a leave breaks this and the next
\* property too.
AudienceOnly ==
    ~FullSyncs =>
    \A m \in log : \A k \in Keyed :
        (k.sid = m.sid /\ k.idx <= m.idx) => k.user \in m.to

\* A recipient that gets a key of a session at all gets one that reads every
\* message sent while it was counted a recipient, the session's first one
\* included although that leaves before its key does (e2ee_send).
RecipientCanRead ==
    ~FullSyncs =>
    \A m \in log : \A k \in Keyed :
        (k.sid = m.sid /\ k.user \in m.to) =>
            \E j \in Keyed : j.user = k.user /\ j.sid = m.sid /\ j.idx <= m.idx

\* While the outbound session lives, everyone in the room has its key or is
\* queued for it, apart from joins the badge has not synced: the code sends
\* the key again to nobody (ensure_outbound: "When `is_new` is false the room
\* key was already distributed this boot and need not be sent again").  That
\* takes requests that are answered and members who do not leave and return
\* unseen.
EveryMemberKeyed ==
    (world = {} /\ out # NoOut /\ phase = "idle" /\ room) =>
        \A u \in srv : pending[u] = "none" =>
            \E k \in Keyed : k.user = u /\ k.sid = out.sid

\* The queue drains, whatever the network does: a failing chunk is given up
\* and the next job gets its turn (process_distribution).
QueueDrains == dist # <<>> ~> dist = <<>>
=============================================================================
