---------------------------- MODULE CryptoStore ----------------------------
(***************************************************************************)
(* What plugins/matrix keeps across a restart: the Olm account, sealed in  *)
(* NVS under a key in the secure element (rmem), and the snapshot of the   *)
(* Olm sessions, of which one session, with one peer, is followed here.    *)
(*                                                                         *)
(* Every NVS or rmem write and every request to the homeserver is a step   *)
(* of its own, and the power may fail before each.  `pc` is the next step  *)
(* of the running handler.                                                 *)
(***************************************************************************)
EXTENDS Integers

CONSTANTS
    Sizes,       \* lengths a sealed blob may have
    Faults,      \* the faults the flash may have, "none" included
    Ids,         \* identities an account may have
    MaxBatches,  \* bound: batches of one-time keys per account
    MaxGens,     \* bound: sending chains of the Olm session
    MaxUses,     \* bound: messages encrypted per chain
    MaxResets    \* bound: times the user resets the module

ASSUME SizesAssumption == Sizes \subseteq Nat /\ Sizes # {}
ASSUME IdsAssumption == Ids \subseteq Nat \ {0}
ASSUME FaultsAssumption == Faults \subseteq {"none", "write", "read"}
ASSUME BoundsAssumption ==
    /\ MaxBatches \in Nat
    /\ MaxGens \in Nat
    /\ MaxUses \in Nat
    /\ MaxResets \in Nat

VARIABLES
    \* RAM.
    acct,    \* the account in CRYPTO
    chain,   \* the sending chain of the Olm session in CRYPTO
    hash,    \* CRYPTO_HASH: the snapshot taken for the one on disk
    pc,      \* next step of the running handler
    \* NVS and rmem.
    key,     \* R_PICKLE, the sealing key (0: the slot is empty)
    acctB,   \* K_ACCOUNT
    acctLen, \* K_ACCOUNT_LEN
    snapB,   \* K_MG_STATE
    snapLen, \* K_MG_LEN
    \* The homeserver.
    pub,     \* the identity and one-time keys it has for this device
    \* Bookkeeping of the model.
    fault,   \* the fault of this behaviour's flash
    used,    \* message keys of messages that left the badge
    gens,    \* chains started
    resets   \* resets so far

ram  == <<acct, chain, hash>>
nvs  == <<acctB, acctLen, snapB, snapLen>>
made == <<used, gens, resets>>
vars == <<ram, pc, key, nvs, pub, fault, made>>

\* An NVS write or the sealing may fail; a blob read may fail although the
\* blob is there.
WriteFails == fault = "write"
ReadFails  == fault = "read"

\* An account: its identity keys and the batches of one-time keys it has
\* generated.  A chain: its number and the next message key.  Number 0 is
\* absence.
Account == [id : Ids \cup {0}, otks : Nat]
Chain   == [gen : 0..MaxGens, n : Nat]
NoAcct  == [id |-> 0, otks |-> 0]
NoChain == [gen |-> 0, n |-> 0]
NoHash  == [gen |-> 0, n |-> 1]  \* CRYPTO_HASH = 0, no snapshot's hash

\* A blob: what is sealed, under which key, and its length.
AcctBlob == [val : Account, key : Nat, size : Sizes \cup {0}]
SnapBlob == [val : Chain, key : Nat, size : Sizes \cup {0}]
NoAcctB  == [val |-> NoAcct, key |-> 0, size |-> 0]
NoSnapB  == [val |-> NoChain, key |-> 0, size |-> 0]

NoLen == -1

\* Types of all variables.
TypeOK ==
    /\ acct \in Account
    /\ chain \in Chain
    /\ hash \in Chain
    /\ pc \in {"idle", "newBlob", "newLen", "upload", "upBlob", "upLen",
               "sendBlob", "sendLen", "send", "exitBlob", "exitLen",
               "keepBlob", "keepLen", "wipe"}
    /\ key \in Nat
    /\ acctB \in AcctBlob
    /\ acctLen \in Sizes \cup {0, NoLen}
    /\ snapB \in SnapBlob
    /\ snapLen \in Sizes \cup {0, NoLen}
    /\ pub \in Account
    /\ fault \in Faults
    /\ used \subseteq Chain
    /\ gens \in 0..MaxGens
    /\ resets \in 0..MaxResets

Init ==
    /\ acct = NoAcct /\ chain = NoChain /\ hash = NoHash
    /\ pc = "idle"
    /\ key = 0
    /\ acctB = NoAcctB /\ acctLen = NoLen
    /\ snapB = NoSnapB /\ snapLen = NoLen
    /\ pub = NoAcct
    /\ fault \in Faults
    /\ used = {} /\ gens = 0 /\ resets = 0

Idle == pc = "idle"

-----------------------------------------------------------------------------
(* Storage: store.rs.                                                      *)

\* pickle_key: the slot's key, or a new one when the slot is empty (keys are
\* numbered by the resets that emptied it).
PickleKey == IF key = 0 THEN resets + 1 ELSE key

\* get_sized_blob: the read has room for the recorded length, or for any
\* blob while no length is recorded; a longer blob is not read.
Fits(size, len) == len = NoLen \/ size <= len

\* load_account, load_crypto_state: read and unseal.
AcctReadable ==
    /\ acctB # NoAcctB
    /\ Fits(acctB.size, acctLen)
    /\ acctB.key = PickleKey

SnapReadable ==
    /\ snapB # NoSnapB
    /\ Fits(snapB.size, snapLen)
    /\ snapB.key = PickleKey

\* The outcomes of a blob read that can succeed, and of a write.
Reads(possible) == IF possible /\ ~ReadFails THEN {TRUE}
                   ELSE IF possible THEN BOOLEAN ELSE {FALSE}
Writes == IF WriteFails THEN BOOLEAN ELSE {TRUE}

\* Mutation: the presence of a sealed account is not looked at.
HasAccountNever == {FALSE}

\* has_account: a recorded length, or a blob that can be read.
HasAccount == IF acctLen # NoLen THEN {TRUE} ELSE Reads(acctB # NoAcctB)

\* seal and set_blob of set_sized_blob, then set_u32: a failed blob write
\* skips the length.
WriteAcct ==
    \E size \in Sizes :
        /\ acctB' = [val |-> acct, key |-> PickleKey, size |-> size]
        /\ key' = PickleKey
WriteSnap ==
    \E size \in Sizes :
        /\ snapB' = [val |-> chain, key |-> PickleKey, size |-> size]
        /\ key' = PickleKey

-----------------------------------------------------------------------------
(* init_crypto, when CRYPTO is None: on entering the plugin, after a login *)
(* and when a recovery key was entered.                                    *)

\* import_state seeds the hash with what was read.
RestoreSnapshot ==
    \E ok \in Reads(SnapReadable) :
        IF ok THEN chain' = snapB.val /\ hash' = snapB.val
              ELSE chain' = NoChain /\ UNCHANGED hash

\* The stored account.
InitLoad ==
    /\ Idle /\ acct = NoAcct
    /\ AcctReadable
    /\ acct' = acctB.val
    /\ key' = PickleKey
    /\ RestoreSnapshot
    /\ UNCHANGED <<pc, nvs, pub, made>>

\* A stored account that cannot be read: crypto stays off.  With no account
\* stored a new one is created.
InitUnread ==
    /\ Idle /\ acct = NoAcct
    /\ FALSE \in Reads(AcctReadable)
    /\ key' = IF acctB # NoAcctB /\ Fits(acctB.size, acctLen)
              THEN PickleKey ELSE key
    /\ \E present \in HasAccount :
        IF present
        THEN UNCHANGED <<acct, pc>>
        ELSE /\ \E id \in Ids \ {acctB.val.id, pub.id} :
                    acct' = [id |-> id, otks |-> 0]
             /\ pc' = "newBlob"
    /\ UNCHANGED <<chain, hash, nvs, pub, used, gens, resets>>

NewBlob ==
    /\ pc = "newBlob"
    /\ \/ /\ WriteAcct
          /\ pc' = "newLen"
          /\ UNCHANGED acct
       \/ /\ WriteFails
          /\ acct' = NoAcct
          /\ pc' = "idle"
          /\ UNCHANGED <<acctB, key>>
    /\ UNCHANGED <<chain, hash, acctLen, snapB, snapLen, pub, made>>

NewLen ==
    /\ pc = "newLen"
    /\ pc' = "idle"
    /\ \/ /\ acctLen' = acctB.size
          /\ RestoreSnapshot
          /\ UNCHANGED acct
       \/ /\ WriteFails
          /\ acct' = NoAcct
          /\ UNCHANGED <<acctLen, chain, hash>>
    /\ UNCHANGED <<key, acctB, snapB, snapLen, pub, made>>

-----------------------------------------------------------------------------
(* ensure_uploaded: new one-time keys, the upload, then save_account, whose *)
(* result is ignored.                                                      *)

EnsureUploaded ==
    /\ Idle /\ acct # NoAcct
    /\ acct.otks < MaxBatches
    /\ acct' = [acct EXCEPT !.otks = @ + 1]
    /\ pc' = "upload"
    /\ UNCHANGED <<chain, hash, key, nvs, pub, made>>

\* The server takes the keys or not, whatever the answer says.
Upload ==
    /\ pc = "upload"
    /\ pub' \in {acct, pub}
    /\ pc' = "upBlob"
    /\ UNCHANGED <<ram, key, nvs, made>>

UploadBlob ==
    /\ pc = "upBlob"
    /\ \/ WriteAcct /\ pc' = "upLen"
       \/ WriteFails /\ pc' = "idle" /\ UNCHANGED <<acctB, key>>
    /\ UNCHANGED <<ram, acctLen, snapB, snapLen, pub, made>>

\* Mutation: the recorded length counts one byte too many.
UploadLenOff ==
    /\ pc = "upLen"
    /\ \E ok \in Writes : acctLen' = IF ok THEN acctB.size + 1 ELSE acctLen
    /\ pc' = "idle"
    /\ UNCHANGED <<ram, key, acctB, snapB, snapLen, pub, made>>

UploadLen ==
    /\ pc = "upLen"
    /\ \E ok \in Writes : acctLen' = IF ok THEN acctB.size ELSE acctLen
    /\ pc' = "idle"
    /\ UNCHANGED <<ram, key, acctB, snapB, snapLen, pub, made>>

-----------------------------------------------------------------------------
(* persist_crypto, and the handlers that call it.                          *)

\* The first step of persist_crypto, or the step after it when the snapshot
\* is the one the hash stands for.
Persist(blob, after, c) == IF c = hash THEN after ELSE blob

\* The snapshot is written, then its length; the hash follows whatever the
\* writes did.
PersistBlob(at, len, after) ==
    /\ pc = at
    /\ \/ WriteSnap /\ pc' = len /\ UNCHANGED hash
       \/ /\ WriteFails
          /\ hash' = chain
          /\ pc' = after
          /\ UNCHANGED <<snapB, key>>
    /\ UNCHANGED <<acct, chain, acctB, acctLen, snapLen, pub, made>>

PersistLen(at, after) ==
    /\ pc = at
    /\ \E ok \in Writes : snapLen' = IF ok THEN snapB.size ELSE snapLen
    /\ hash' = chain
    /\ pc' = after
    /\ UNCHANGED <<acct, chain, key, acctB, acctLen, snapB, pub, made>>

\* Mutation: the messages leave before the snapshot is written.
WrapAndSend ==
    /\ Idle /\ acct # NoAcct /\ chain # NoChain
    /\ chain.n < MaxUses
    /\ chain' = [chain EXCEPT !.n = @ + 1]
    /\ used' = used \cup {chain}
    /\ pc' = "keepBlob"
    /\ UNCHANGED <<acct, hash, key, nvs, pub, gens, resets>>

\* process_distribution: wrapping a room key uses up a message key; the
\* snapshot is persisted before the messages leave.
Wrap ==
    /\ Idle /\ acct # NoAcct /\ chain # NoChain
    /\ chain.n < MaxUses
    /\ chain' = [chain EXCEPT !.n = @ + 1]
    /\ pc' = Persist("sendBlob", "send", chain')
    /\ UNCHANGED <<acct, hash, key, nvs, pub, made>>

\* send_to_device: the message may have left even if the request fails.
Deliver ==
    /\ pc = "send"
    /\ used' \in {used, used \cup {[chain EXCEPT !.n = @ - 1]}}
    /\ pc' = "idle"
    /\ UNCHANGED <<ram, key, nvs, pub, gens, resets>>

\* establish_olm before the first message to the peer, or a message from the
\* peer that opens a session or turns the ratchet: the badge sends on a new
\* chain.  sync_now persists only when a room key came with the message.
NewChain ==
    /\ Idle /\ acct # NoAcct
    /\ gens < MaxGens
    /\ gens' = gens + 1
    /\ chain' = [gen |-> gens + 1, n |-> 0]
    /\ pc' \in {"idle", Persist("keepBlob", "idle", chain')}
    /\ UNCHANGED <<acct, hash, key, nvs, pub, used, resets>>

\* plugin_on_exit persists, then drops CRYPTO.
Exit ==
    /\ Idle /\ acct # NoAcct
    /\ pc' = Persist("exitBlob", "idle", chain)
    /\ IF pc' = "idle" THEN acct' = NoAcct /\ chain' = NoChain
                       ELSE UNCHANGED <<acct, chain>>
    /\ UNCHANGED <<hash, key, nvs, pub, made>>

\* The last step of an exit that had to write; CRYPTO_HASH stays.
ExitBlob ==
    /\ pc = "exitBlob"
    /\ \/ WriteSnap /\ pc' = "exitLen" /\ UNCHANGED ram
       \/ /\ WriteFails
          /\ hash' = chain
          /\ acct' = NoAcct /\ chain' = NoChain
          /\ pc' = "idle"
          /\ UNCHANGED <<snapB, key>>
    /\ UNCHANGED <<acctB, acctLen, snapLen, pub, made>>

ExitLen ==
    /\ pc = "exitLen"
    /\ \E ok \in Writes : snapLen' = IF ok THEN snapB.size ELSE snapLen
    /\ hash' = chain
    /\ acct' = NoAcct /\ chain' = NoChain
    /\ pc' = "idle"
    /\ UNCHANGED <<key, acctB, acctLen, snapB, pub, made>>

-----------------------------------------------------------------------------
(* Reset and power loss.                                                   *)

\* "Reset module": logout, then reset_all empties the rmem slots and wipes
\* the NVS namespace.
Reset ==
    /\ Idle
    /\ resets < MaxResets
    /\ resets' = resets + 1
    /\ pub' = NoAcct
    /\ key' = 0
    /\ pc' = "wipe"
    /\ UNCHANGED <<ram, nvs, used, gens>>

Wipe ==
    /\ pc = "wipe"
    /\ \E ok \in Writes :
        IF ok THEN /\ acctB' = NoAcctB /\ acctLen' = NoLen
                   /\ snapB' = NoSnapB /\ snapLen' = NoLen
              ELSE UNCHANGED nvs
    /\ acct' = NoAcct /\ chain' = NoChain /\ hash' = NoHash
    /\ pc' = "idle"
    /\ UNCHANGED <<key, pub, made>>

PowerLoss ==
    /\ acct # NoAcct \/ ~Idle
    /\ acct' = NoAcct /\ chain' = NoChain /\ hash' = NoHash
    /\ pc' = "idle"
    /\ UNCHANGED <<key, nvs, pub, made>>

Step ==
    \/ InitLoad \/ InitUnread \/ NewBlob \/ NewLen
    \/ EnsureUploaded \/ Upload \/ UploadBlob \/ UploadLen
    \/ Wrap \/ Deliver \/ NewChain \/ Exit \/ ExitBlob \/ ExitLen
    \/ PersistBlob("sendBlob", "sendLen", "send")
    \/ PersistLen("sendLen", "send")
    \/ PersistBlob("keepBlob", "keepLen", "idle")
    \/ PersistLen("keepLen", "idle")
    \/ Reset \/ Wipe \/ PowerLoss

Next == Step /\ UNCHANGED fault

Spec == Init /\ [][Next]_vars

-----------------------------------------------------------------------------
(* Properties.                                                             *)

\* The identity the server knows is the only one the badge ever uses again,
\* until the user resets the module: an account that is on disk and cannot
\* be read is never replaced ("so it never silently rotates the device
\* identity", has_account).  Writes may fail; a read of what is there must
\* not.
IdentityKept ==
    ~ReadFails => (acct # NoAcct /\ pub # NoAcct => acct.id = pub.id)

\* The next message key of the session has not been used by a message that
\* left the badge, wherever the power failed ("a reload can never re-encrypt
\* with an already used message key", process_distribution).
NeverReencrypts == Idle /\ chain # NoChain => chain \notin used

\* The same, as long as writes do not fail.
NoKeyReuse == ~WriteFails => NeverReencrypts
=============================================================================
