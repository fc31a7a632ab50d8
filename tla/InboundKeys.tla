----------------------------- MODULE InboundKeys -----------------------------
(***************************************************************************)
(* The receiving side of plugins/matrix: Olm sessions with one peer        *)
(* device, the room keys it sends over them as to-device messages, the key *)
(* backup, and the snapshot that carries both across a restart.            *)
(*                                                                         *)
(* The homeserver keeps a to-device message until a sync names a token     *)
(* past it, so what a sync has delivered is one-shot once the next one     *)
(* runs.  The power may fail between any two steps.                        *)
(***************************************************************************)
EXTENDS Integers, Sequences, FiniteSets

CONSTANTS
    Keys,         \* room keys the peer may send
    Backup,       \* room keys in the server-side backup, with their sender
    Peer,         \* the peer's curve25519 key
    MaxOlm,       \* MAX_OLM_SESSIONS_PER_PEER
    MaxSessions,  \* bound: Olm sessions ever created with the peer
    MaxMsgs       \* bound: to-device messages of the peer

ASSUME BoundsAssumption ==
    /\ MaxOlm \in Nat \ {0}
    /\ MaxSessions \in Nat
    /\ MaxMsgs \in Nat

\* A chain is told from the absence of one; `Peer` is a key, never empty.
ASSUME KeysAssumption ==
    /\ \A k \in Keys \cup Backup : k.chain \in Nat \ {0} /\ k.idx \in Nat
    /\ Peer # ""

VARIABLES
    \* The homeserver and the peer.
    msgs,       \* to-device messages for the badge, in order
    acked,      \* how many of them the server has deleted
    created,    \* Olm sessions created by either side so far
    cur,        \* the session the peer sends on (0: none)
    confirmed,  \* sessions the peer has received a message on
    \* RAM.
    pc,         \* off, idle, or the next step of the running handler
    token,      \* messages the last sync delivered
    next,       \* message the running sync looks at next
    got,        \* the running sync has imported a key
    entering,   \* the running sync is plugin_on_enter's
    olm,        \* Crypto::olm of the peer, oldest first
    read,       \* messages decrypted: their message keys are used up
    otks,       \* sessions whose one-time key the account still has
    inbound,    \* Crypto::inbound
    \* NVS.
    snap,       \* K_MG_STATE: olm, read and inbound
    acct,       \* K_ACCOUNT: otks
    \* Bookkeeping.
    gone        \* sessions the badge can no longer open

server == <<msgs, acked, created, cur, confirmed>>
sync   == <<token, next, got, entering>>
ram    == <<olm, read, otks, inbound>>
disk   == <<snap, acct>>
vars   == <<server, pc, sync, ram, disk, gone>>

OlmIds == 1..MaxSessions
Sids   == {k.sid : k \in Keys \cup Backup}
NoKey  == [sid |-> "", of |-> "", chain |-> 0, idx |-> 0, room |-> ""]
NoEntry == [chain |-> 0, idx |-> 0, room |-> "", sender |-> ""]

Names == {""} \cup {k.room : k \in Keys \cup Backup}
              \cup {k.sender : k \in Backup} \cup {Peer}
Entry == [chain : Nat, idx : Nat, room : Names, sender : Names]
Msg   == [os : OlmIds, pre : BOOLEAN, key : Keys \cup {NoKey}]

\* Types of all variables; the session list is capped.
TypeOK ==
    /\ msgs \in Seq(Msg) /\ Len(msgs) <= MaxMsgs
    /\ acked \in 0..Len(msgs)
    /\ created \in 0..MaxSessions
    /\ cur \in {0} \cup OlmIds
    /\ confirmed \subseteq OlmIds
    /\ pc \in {"off", "idle", "recv", "persist", "upload", "send"}
    /\ token \in 0..Len(msgs)
    /\ next \in 1..(Len(msgs) + 1)
    /\ got \in BOOLEAN /\ entering \in BOOLEAN
    /\ olm \in Seq(OlmIds) /\ Len(olm) <= MaxOlm
    /\ read \subseteq 1..MaxMsgs
    /\ otks \subseteq OlmIds
    /\ inbound \in [Sids -> Entry]
    /\ snap.olm \in Seq(OlmIds) /\ Len(snap.olm) <= MaxOlm
    /\ snap.read \subseteq 1..MaxMsgs
    /\ snap.inbound \in [Sids -> Entry]
    /\ acct \subseteq OlmIds
    /\ gone \subseteq OlmIds

NoInbound == [s \in Sids |-> NoEntry]

Init ==
    /\ msgs = <<>> /\ acked = 0
    /\ created = 0 /\ cur = 0 /\ confirmed = {}
    /\ pc = "off" /\ token = 0 /\ next = 1 /\ got = FALSE /\ entering = FALSE
    /\ olm = <<>> /\ read = {} /\ otks = {} /\ inbound = NoInbound
    /\ snap = [olm |-> <<>>, read |-> {}, inbound |-> NoInbound]
    /\ acct = OlmIds
    /\ gone = {}

-----------------------------------------------------------------------------
(* Room keys: insert_inbound and decrypt_megolm.                           *)

\* binding_matches: an unknown binding matches anything.
Matches(held, offered) == held = "" \/ offered = "" \/ held = offered

Known(held, offered) == IF held = "" THEN offered ELSE held

\* As a bug might have it: the session with the later first index wins.
InsertLater(inb, k, sender) ==
    LET e == inb[k.sid]
        better == e.idx < k.idx
    IN  IF k.of # k.sid THEN inb
        ELSE IF e = NoEntry
        THEN [inb EXCEPT ![k.sid] = [chain |-> k.chain, idx |-> k.idx,
                                     room |-> k.room, sender |-> sender]]
        ELSE IF ~Matches(e.room, k.room) \/ ~Matches(e.sender, sender)
                \/ e.chain # k.chain
        THEN inb
        ELSE [inb EXCEPT ![k.sid] = [chain |-> e.chain,
                                     idx |-> IF better THEN k.idx ELSE e.idx,
                                     room |-> Known(e.room, k.room),
                                     sender |-> Known(e.sender, sender)]]

\* A key is refused when it does not produce the claimed id, contradicts a
\* binding or is not connected to the held session (another chain).  A lower
\* first index replaces the held one; missing bindings are supplied.
Insert(inb, k, sender) ==
    LET e == inb[k.sid]
        better == k.idx < e.idx
    IN  IF k.of # k.sid THEN inb
        ELSE IF e = NoEntry
        THEN [inb EXCEPT ![k.sid] = [chain |-> k.chain, idx |-> k.idx,
                                     room |-> k.room, sender |-> sender]]
        ELSE IF ~Matches(e.room, k.room) \/ ~Matches(e.sender, sender)
                \/ e.chain # k.chain
        THEN inb
        ELSE [inb EXCEPT ![k.sid] = [chain |-> e.chain,
                                     idx |-> IF better THEN k.idx ELSE e.idx,
                                     room |-> Known(e.room, k.room),
                                     sender |-> Known(e.sender, sender)]]

\* A key from a to-device message is bound to the device it came from, one from
\* the backup to the sender its entry names, if any.  One that cannot be read
\* changes nothing.
ImportRoomKey(inb, k) == Insert(inb, k, Peer)
ImportBackupSession(inb, b) == Insert(inb, b, b.sender)

\* decrypt_megolm: the event of a room, a sender and an index that an entry
\* decrypts.  An entry without a room serves nobody.
Decrypts(e, room, sender, idx) ==
    /\ e # NoEntry
    /\ e.room # "" /\ e.room = room
    /\ e.sender = "" \/ e.sender = sender
    /\ e.idx <= idx

-----------------------------------------------------------------------------
(* Olm: olm_decrypt, establish_olm, olm_encrypt.                           *)

\* As a bug might have it: the cap is not enforced.
PushAll(list, s) == Append(list, s)

\* A session is appended; the oldest goes when the list is full.
Push(list, s) ==
    LET l == Append(list, s)
    IN  IF Len(l) > MaxOlm THEN Tail(l) ELSE l

Held(list) == {list[i] : i \in DOMAIN list}

\* A message decrypts once on a session of the list.  A pre-key message that
\* no session decrypts opens one with the one-time key it names, a second time
\* too while the stored account still has that key.
OlmDecrypts(m, n) == m.os \in Held(olm) /\ n \notin read
OlmOpens(m, n) == ~OlmDecrypts(m, n) /\ m.pre /\ m.os \in otks

-----------------------------------------------------------------------------
(* sync_now.                                                               *)

\* An incremental sync names the token: what it covers is deleted.  A full
\* one names none and gets everything that is left.
Sync(full) ==
    /\ pc = "idle"
    /\ IF full THEN next' = acked + 1 /\ UNCHANGED acked
               ELSE next' = token + 1 /\ acked' = token
    /\ token' = Len(msgs)
    /\ got' = FALSE
    /\ pc' = "recv"
    /\ UNCHANGED entering
    /\ UNCHANGED <<msgs, created, cur, confirmed, ram, disk, gone>>

\* One to-device message: decrypt it and import the room key it holds.
Receive ==
    /\ pc = "recv" /\ next <= token
    /\ next' = next + 1
    /\ LET m == msgs[next]
       IN  IF OlmOpens(m, next) \/ OlmDecrypts(m, next)
           THEN /\ olm' = IF OlmOpens(m, next) THEN Push(olm, m.os) ELSE olm
                /\ otks' = otks \ {m.os}
                /\ read' = read \cup {next}
                /\ inbound' = IF m.key = NoKey THEN inbound
                              ELSE ImportRoomKey(inbound, m.key)
                /\ got' = (got \/ inbound' # inbound)
           ELSE UNCHANGED <<ram, got>>
    /\ gone' = gone \cup (Held(olm) \ Held(olm'))
    /\ UNCHANGED <<server, pc, token, entering, disk>>

AfterSync == IF entering THEN "upload" ELSE "idle"

\* As a bug might have it: the keys of a sync wait for the next snapshot.
ReceivedLazy ==
    /\ pc = "recv" /\ next > token
    /\ pc' = AfterSync
    /\ entering' = FALSE
    /\ UNCHANGED <<server, token, next, got, ram, disk, gone>>

\* The end of the sync: persist_crypto only when a key was imported.
Received ==
    /\ pc = "recv" /\ next > token
    /\ pc' = IF got THEN "persist" ELSE AfterSync
    /\ entering' = (entering /\ got)
    /\ UNCHANGED <<server, token, next, got, ram, disk, gone>>

\* persist_crypto, in sync_now and refresh_backup.
Persist ==
    /\ pc = "persist"
    /\ snap' = [olm |-> olm, read |-> read, inbound |-> inbound]
    /\ pc' = AfterSync
    /\ entering' = FALSE
    /\ UNCHANGED <<server, token, next, got, ram, acct, gone>>

\* refresh_backup: import_backup_session for each backed-up key, then
\* persist_crypto.
RefreshBackup(b) ==
    /\ pc = "idle"
    /\ inbound' = ImportBackupSession(inbound, b)
    /\ pc' = "persist"
    /\ UNCHANGED <<server, sync, olm, read, otks, disk, gone>>

\* e2ee_send with a fresh outbound session: persist_crypto, then
\* ensure_uploaded.
NewOutbound ==
    /\ pc = "idle"
    /\ snap' = [olm |-> olm, read |-> read, inbound |-> inbound]
    /\ pc' = "upload"
    /\ UNCHANGED <<server, sync, ram, acct, gone>>

\* ensure_uploaded stores the account, whatever has become of its keys,
\* unless it was uploaded before or the server holds enough keys.
EnsureUploaded ==
    /\ pc = "upload"
    /\ acct' \in {acct, otks}
    /\ pc' = "idle"
    /\ UNCHANGED <<server, sync, ram, snap, gone>>

-----------------------------------------------------------------------------
(* Sending to the peer: process_distribution.                              *)

\* As a bug might have it: the snapshot is written with the next key import.
WrapUnsaved ==
    /\ pc = "idle"
    /\ IF olm = <<>>
       THEN /\ created < MaxSessions
            /\ created' = created + 1
            /\ olm' = Push(olm, created')
       ELSE UNCHANGED <<created, olm>>
    /\ pc' = "send"
    /\ UNCHANGED <<msgs, acked, cur, confirmed, sync, read, otks,
                   inbound, disk, gone>>

\* A peer without a session gets one from a claimed key; the last session of
\* the list encrypts, and the snapshot is written before the message leaves.
Wrap ==
    /\ pc = "idle"
    /\ IF olm = <<>>
       THEN /\ created < MaxSessions
            /\ created' = created + 1
            /\ olm' = Push(olm, created')
       ELSE UNCHANGED <<created, olm>>
    /\ snap' = [olm |-> olm', read |-> read, inbound |-> inbound]
    /\ pc' = "send"
    /\ UNCHANGED <<msgs, acked, cur, confirmed, sync, read, otks,
                   inbound, acct, gone>>

\* send_to_device: the message is lost, or the peer receives it and answers
\* on its session from then on.
Deliver ==
    /\ pc = "send"
    /\ pc' = "idle"
    /\ LET s == olm[Len(olm)]
       IN  \/ cur' = s /\ confirmed' = confirmed \cup {s}
           \/ UNCHANGED <<cur, confirmed>>
    /\ UNCHANGED <<msgs, acked, created, sync, ram, disk, gone>>

-----------------------------------------------------------------------------
(* Life cycle: init_crypto, plugin_on_exit, power loss.                    *)

\* import_state and the stored account, then a full sync.
Enter ==
    /\ pc = "off"
    /\ olm' = snap.olm /\ read' = snap.read /\ inbound' = snap.inbound
    /\ otks' = acct
    /\ next' = acked + 1 /\ token' = Len(msgs) /\ got' = FALSE
    /\ entering' = TRUE
    /\ pc' = "recv"
    /\ UNCHANGED <<server, disk, gone>>

\* RAM is as it was before plugin_on_enter.
Unload ==
    /\ pc' = "off" /\ token' = 0 /\ next' = 1 /\ got' = FALSE
    /\ entering' = FALSE
    /\ olm' = <<>> /\ read' = {} /\ otks' = {} /\ inbound' = NoInbound

\* plugin_on_exit persists.
Exit ==
    /\ pc = "idle"
    /\ snap' = [olm |-> olm, read |-> read, inbound |-> inbound]
    /\ Unload
    /\ UNCHANGED <<server, acct, gone>>

\* A session that was opened and not yet persisted is lost for good once the
\* account has been stored without its one-time key.
PowerLoss ==
    /\ pc # "off"
    /\ Unload
    /\ gone' = gone \cup {s \in Held(olm) \ Held(snap.olm) : s \notin acct}
    /\ UNCHANGED <<server, disk>>

-----------------------------------------------------------------------------
(* The peer.  It sends on the session it created or received on last; its  *)
(* messages are pre-key messages until it has received one.                *)

PeerNew ==
    /\ created < MaxSessions
    /\ created' = created + 1
    /\ cur' = created'
    /\ UNCHANGED <<msgs, acked, confirmed, pc, sync, ram, disk, gone>>

PeerSend(k) ==
    /\ cur # 0 /\ Len(msgs) < MaxMsgs
    /\ msgs' = Append(msgs, [os |-> cur, pre |-> cur \notin confirmed,
                             key |-> k])
    /\ UNCHANGED <<acked, created, cur, confirmed, pc, sync, ram,
                   disk, gone>>

Next ==
    \/ Enter \/ Exit \/ PowerLoss
    \/ Sync(TRUE) \/ Sync(FALSE) \/ Receive \/ Received \/ Persist
    \/ NewOutbound \/ EnsureUploaded \/ Wrap \/ Deliver
    \/ \E b \in Backup : RefreshBackup(b)
    \/ PeerNew
    \/ \E k \in Keys \cup {NoKey} : PeerSend(k)

Spec == Init /\ [][Next]_vars

-----------------------------------------------------------------------------
(* Properties.                                                             *)

\* A room key whose message the server has deleted is in the stored snapshot:
\* importing it again would change nothing ("To-device events are one-shot
\* (the sync token advances past them), so persist freshly imported keys now
\* rather than risk losing them", sync_now).  It takes a session that the
\* list's cap or a power loss has cost the badge to lose one.
AckedKeysStored ==
    \A n \in 1..acked :
        \/ msgs[n].key = NoKey
        \/ msgs[n].os \in gone
        \/ ImportRoomKey(snap.inbound, msgs[n].key) = snap.inbound

\* The session the peer sends on is one the badge has or can still open, in
\* RAM and after a restart (the snapshot precedes the message that makes the
\* peer rely on a session).
PeerSessionOpen ==
    cur # 0 =>
        \/ cur \in gone
        \/ pc # "off" /\ cur \in Held(olm)
        \/ cur \in Held(snap.olm)
        \/ cur \notin confirmed /\ cur \in acct

\* An entry f that has replaced e decrypts what e did, except for senders the
\* key has turned out not to be bound to.
Keeps(e, f) ==
    \A k \in Keys \cup Backup, p \in Names :
        Decrypts(e, k.room, p, k.idx) =>
            \/ Decrypts(f, k.room, p, k.idx)
            \/ e.sender = "" /\ f.sender \notin {"", p}

\* What the badge can decrypt it can decrypt from then on: while it runs, and
\* from one snapshot to the next, no import worsens, rebinds or replaces an
\* entry (insert_inbound).
StaysReadable ==
    [][\A s \in Sids :
         /\ pc' # "off" => Keeps(inbound[s], inbound'[s])
         /\ Keeps(snap.inbound[s], snap'.inbound[s])]_vars
=============================================================================
