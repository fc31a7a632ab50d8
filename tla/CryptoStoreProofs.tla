-------------------------- MODULE CryptoStoreProofs --------------------------
(***************************************************************************)
(* Proofs about CryptoStore, for every number of resets, identities,       *)
(* chains and blob lengths: its types, that the published identity is kept *)
(* (when reads do not fail) and that no message key is used twice (when    *)
(* writes do not fail), wherever the power is lost.                        *)
(***************************************************************************)
EXTENDS CryptoStore, TLAPS

\* While a wrapped message waits to leave, the chain has moved past its key.
Waiting == pc \in {"sendBlob", "sendLen", "send"}

\* TypeOK needs this to be inductive: Deliver steps one key back.
TypeInv ==
    /\ TypeOK
    /\ Waiting => chain.n > 0

USE DEF Idle

\* pickle_key is the key in the slot, or a new one.
LEMMA PickleKeyType ==
    ASSUME TypeOK
    PROVE  PickleKey \in Nat
BY BoundsAssumption DEF TypeOK, PickleKey, BoundsAssumption

\* The account is written under the pickle key, which may be a new one.
LEMMA WriteAcctType ==
    ASSUME TypeOK, WriteAcct
    PROVE  acctB' \in AcctBlob /\ key' \in Nat
BY PickleKeyType DEF TypeOK, WriteAcct, AcctBlob

\* The snapshot is written under the pickle key, which may be a new one.
LEMMA WriteSnapType ==
    ASSUME TypeOK, WriteSnap
    PROVE  snapB' \in SnapBlob /\ key' \in Nat
BY PickleKeyType DEF TypeOK, WriteSnap, SnapBlob

\* The absent values are of their types.
LEMMA NullTypes ==
    /\ NoAcct \in Account /\ NoChain \in Chain /\ NoHash \in Chain
    /\ NoAcctB \in AcctBlob /\ NoSnapB \in SnapBlob
BY BoundsAssumption
   DEF BoundsAssumption, NoAcct, NoChain, NoHash, NoAcctB, NoSnapB, Account,
       Chain, AcctBlob, SnapBlob

\* What the snapshot brings back is a chain.
LEMMA RestoreType ==
    ASSUME TypeOK, RestoreSnapshot
    PROVE  chain' \in Chain /\ hash' \in Chain
BY NullTypes DEF TypeOK, RestoreSnapshot, SnapBlob

\* The types hold of an empty store.
LEMMA TypeInit == Init => TypeInv
<1> SUFFICES ASSUME Init PROVE TypeInv
    OBVIOUS
<1>1. TypeOK
    BY NullTypes, BoundsAssumption DEF Init, TypeOK, BoundsAssumption
<1> QED
    BY <1>1 DEF TypeInv, Waiting, Init

\* Every action keeps the types.
LEMMA TypeStep == TypeInv /\ [Next]_vars => TypeInv'
<1> SUFFICES ASSUME TypeInv, [Next]_vars PROVE TypeInv'
    OBVIOUS
<1> USE NullTypes
<1>t. TypeOK
    BY DEF TypeInv
<1>f. fault' \in Faults
    BY <1>t DEF Next, vars, TypeOK
<1> USE <1>f
<1>1. CASE InitLoad
  <2>1. chain' \in Chain /\ hash' \in Chain
      BY <1>1, <1>t, RestoreType DEF InitLoad
  <2>2. acct' \in Account /\ key' \in Nat
      BY <1>1, <1>t, PickleKeyType DEF InitLoad, TypeOK, AcctBlob
  <2> QED
      BY <1>1, <1>t, <2>1, <2>2 DEF InitLoad, TypeOK, TypeInv, Waiting, nvs, made
<1>2. CASE InitUnread
  <2>1. key' \in Nat
      BY <1>2, <1>t, PickleKeyType DEF InitUnread, TypeOK
  <2>2. acct' \in Account /\ pc' \in {pc, "newBlob"}
      BY <1>2, <1>t DEF InitUnread, TypeOK, Account
  <2> QED
      BY <1>2, <1>t, <2>1, <2>2 DEF InitUnread, TypeOK, TypeInv, Waiting, nvs
<1>3. CASE NewBlob
  <2>1. acctB' \in AcctBlob /\ key' \in Nat
      BY <1>3, <1>t, WriteAcctType DEF NewBlob, TypeOK
  <2> QED
      BY <1>3, <1>t, <2>1 DEF NewBlob, TypeOK, TypeInv, Waiting, made
<1>4. CASE NewLen
  <2>1. chain' \in Chain /\ hash' \in Chain
      BY <1>4, <1>t, RestoreType DEF NewLen, TypeOK
  <2>2. acctLen' \in Sizes \cup {0, NoLen}
      BY <1>4, <1>t DEF NewLen, TypeOK, AcctBlob
  <2> QED
      BY <1>4, <1>t, <2>1, <2>2 DEF NewLen, TypeOK, TypeInv, Waiting, made
<1>5. CASE EnsureUploaded
  <2>1. acct' \in Account
      BY <1>5, <1>t DEF EnsureUploaded, TypeOK, Account
  <2> QED
      BY <1>5, <1>t, <2>1 DEF EnsureUploaded, TypeOK, TypeInv, Waiting, nvs, made
<1>6. CASE Upload
    BY <1>6, <1>t DEF Upload, TypeOK, TypeInv, Waiting, ram, nvs, made
<1>7. CASE UploadBlob
  <2>1. acctB' \in AcctBlob /\ key' \in Nat
      BY <1>7, <1>t, WriteAcctType DEF UploadBlob, TypeOK
  <2> QED
      BY <1>7, <1>t, <2>1 DEF UploadBlob, TypeOK, TypeInv, Waiting, ram, made
<1>8. CASE UploadLen
  <2>1. acctLen' \in Sizes \cup {0, NoLen}
      BY <1>8, <1>t DEF UploadLen, TypeOK, AcctBlob
  <2> QED
      BY <1>8, <1>t, <2>1 DEF UploadLen, TypeOK, TypeInv, Waiting, ram, made
<1>9. CASE Wrap
  <2>1. chain' \in Chain /\ chain'.n > 0
      BY <1>9, <1>t DEF Wrap, TypeOK, Chain
  <2>2. pc' \in {"sendBlob", "send"}
      BY <1>9 DEF Wrap, Persist
  <2> QED
      BY <1>9, <1>t, <2>1, <2>2 DEF Wrap, TypeOK, TypeInv, Waiting, nvs, made
<1>10. CASE Deliver
  <2>1. chain.n > 0
      BY <1>10 DEF Deliver, TypeInv, Waiting
  <2>2. [chain EXCEPT !.n = @ - 1] \in Chain
      BY <2>1, <1>t DEF TypeOK, Chain
  <2>3. used' \subseteq Chain
      BY <1>10, <1>t, <2>2 DEF Deliver, TypeOK
  <2> QED
      BY <1>10, <1>t, <2>3 DEF Deliver, TypeOK, TypeInv, Waiting, ram, nvs
<1>11. CASE NewChain
  <2>1. chain' \in Chain /\ gens' \in 0..MaxGens
      BY <1>11, <1>t, BoundsAssumption
         DEF NewChain, TypeOK, Chain, BoundsAssumption
  <2>2. pc' \in {"idle", "keepBlob"}
      BY <1>11 DEF NewChain, Persist
  <2> QED
      BY <1>11, <1>t, <2>1, <2>2 DEF NewChain, TypeOK, TypeInv, Waiting, nvs
<1>12. CASE Exit
  <2>1. pc' \in {"idle", "exitBlob"}
      BY <1>12 DEF Exit, Persist
  <2> QED
      BY <1>12, <1>t, <2>1 DEF Exit, TypeOK, TypeInv, Waiting, nvs, made
<1>13. CASE ExitBlob
  <2>1. snapB' \in SnapBlob /\ key' \in Nat
      BY <1>13, <1>t, WriteSnapType DEF ExitBlob, TypeOK
  <2> QED
      BY <1>13, <1>t, <2>1 DEF ExitBlob, TypeOK, TypeInv, Waiting, ram, made
<1>14. CASE ExitLen
  <2>1. snapLen' \in Sizes \cup {0, NoLen}
      BY <1>14, <1>t DEF ExitLen, TypeOK, SnapBlob
  <2> QED
      BY <1>14, <1>t, <2>1 DEF ExitLen, TypeOK, TypeInv, Waiting, made
<1>15. ASSUME PersistBlob("sendBlob", "sendLen", "send") PROVE TypeInv'
  <2>1. snapB' \in SnapBlob /\ key' \in Nat /\ hash' \in Chain
      BY <1>15, <1>t, WriteSnapType DEF PersistBlob, TypeOK
  <2> QED
      BY <1>15, <1>t, <2>1 DEF PersistBlob, TypeOK, TypeInv, Waiting, made
<1>16. ASSUME PersistBlob("keepBlob", "keepLen", "idle") PROVE TypeInv'
  <2>1. snapB' \in SnapBlob /\ key' \in Nat /\ hash' \in Chain
      BY <1>16, <1>t, WriteSnapType DEF PersistBlob, TypeOK
  <2> QED
      BY <1>16, <1>t, <2>1 DEF PersistBlob, TypeOK, TypeInv, Waiting, made
<1>17. ASSUME PersistLen("sendLen", "send") PROVE TypeInv'
  <2>1. snapLen' \in Sizes \cup {0, NoLen}
      BY <1>17, <1>t DEF PersistLen, TypeOK, SnapBlob
  <2> QED
      BY <1>17, <1>t, <2>1 DEF PersistLen, TypeOK, TypeInv, Waiting, made
<1>18. ASSUME PersistLen("keepLen", "idle") PROVE TypeInv'
  <2>1. snapLen' \in Sizes \cup {0, NoLen}
      BY <1>18, <1>t DEF PersistLen, TypeOK, SnapBlob
  <2> QED
      BY <1>18, <1>t, <2>1 DEF PersistLen, TypeOK, TypeInv, Waiting, made
<1>19. CASE Reset
    BY <1>19, <1>t, BoundsAssumption
       DEF Reset, TypeOK, TypeInv, Waiting, ram, nvs, BoundsAssumption
<1>20. CASE Wipe
  <2>1. /\ acctB' \in AcctBlob /\ snapB' \in SnapBlob
        /\ acctLen' \in Sizes \cup {0, NoLen}
        /\ snapLen' \in Sizes \cup {0, NoLen}
      BY <1>20, <1>t DEF Wipe, TypeOK, nvs
  <2> QED
      BY <1>20, <1>t, <2>1 DEF Wipe, TypeOK, TypeInv, Waiting, made
<1>21. CASE PowerLoss
    BY <1>21, <1>t DEF PowerLoss, TypeOK, TypeInv, Waiting, nvs, made
<1>22. CASE UNCHANGED vars
    BY <1>22, <1>t DEF vars, TypeOK, TypeInv, Waiting, ram, nvs, made
<1> QED
    BY <1>1, <1>2, <1>3, <1>4, <1>5, <1>6, <1>7, <1>8, <1>9, <1>10, <1>11,
       <1>12, <1>13, <1>14, <1>15, <1>16, <1>17, <1>18, <1>19, <1>20, <1>21,
       <1>22 DEF Next, Step

\* Every variable keeps its type, whatever the storage does and wherever the
\* power is lost in a handler of CryptoStore.
THEOREM TypeCorrect == Spec => []TypeOK
<1>1. TypeInv => TypeOK
    BY DEF TypeInv
<1> QED
    BY TypeInit, TypeStep, <1>1, PTL DEF Spec

-----------------------------------------------------------------------------
(* The published identity.                                                 *)

\* The handlers between creating or extending an account and storing it.
Storing == pc \in {"newBlob", "newLen", "upload", "upBlob", "upLen"}

\* IdentityKept is not inductive: it follows from what is on disk.  The
\* account the server knows, and the one in RAM once it was written, is the
\* stored one; a new account is only made when nothing is published.
IdentityInv ==
    /\ TypeInv
    /\ pub # NoAcct => acctB # NoAcctB /\ acctB.val.id = pub.id
    /\ acct # NoAcct /\ pc # "newBlob" =>
         acctB # NoAcctB /\ acctB.val.id = acct.id
    /\ pc \in {"newBlob", "wipe"} => pub = NoAcct
    /\ Storing => acct # NoAcct

\* A stored account carries the identity of the one in memory.
LEMMA WriteAcctStored ==
    ASSUME TypeOK, WriteAcct, acct # NoAcct
    PROVE  acctB' # NoAcctB /\ acctB'.val.id = acct.id
<1>1. PICK size \in Sizes :
        acctB' = [val |-> acct, key |-> PickleKey, size |-> size]
    BY DEF WriteAcct
<1>2. acctB'.val = acct /\ NoAcctB.val = NoAcct
    BY <1>1 DEF NoAcctB
<1> QED
    BY <1>2

\* While reads do not fail, every action keeps the identity.
LEMMA IdentityStep ==
    ASSUME ~ReadFails
    PROVE  IdentityInv /\ [Next]_vars => IdentityInv'
<1> SUFFICES ASSUME IdentityInv, [Next]_vars PROVE IdentityInv'
    OBVIOUS
<1>t. TypeOK /\ TypeInv'
    BY TypeStep DEF IdentityInv, TypeInv
<1>1. CASE InitLoad
    BY <1>1, <1>t DEF InitLoad, AcctReadable, IdentityInv, Storing, nvs
<1>2. CASE InitUnread
  <2>1. PICK present \in HasAccount :
          IF present
          THEN UNCHANGED <<acct, pc>>
          ELSE /\ \E id \in Ids \ {acctB.val.id, pub.id} :
                    acct' = [id |-> id, otks |-> 0]
               /\ pc' = "newBlob"
      BY <1>2 DEF InitUnread
  <2>2. CASE present
      BY <1>2, <1>t, <2>1, <2>2 DEF InitUnread, IdentityInv, Storing, nvs
  <2>3. CASE ~present
    <3>1. acctB = NoAcctB
        BY <2>1, <2>3 DEF HasAccount, Reads
    <3>2. pub = NoAcct
        BY <3>1 DEF IdentityInv
    <3>3. acct' # NoAcct /\ pc' = "newBlob"
      <4>1. PICK id \in Ids : acct' = [id |-> id, otks |-> 0]
          BY <2>1, <2>3
      <4>2. acct'.id \in Ids /\ NoAcct.id = 0
          BY <4>1 DEF NoAcct
      <4> QED
          BY <4>2, <2>1, <2>3, IdsAssumption DEF IdsAssumption
    <3> QED
        BY <1>2, <1>t, <3>1, <3>2, <3>3 DEF InitUnread, IdentityInv, Storing, nvs
  <2> QED
      BY <2>1, <2>2, <2>3
<1>3. CASE NewBlob
  <2>1. CASE WriteAcct /\ pc' = "newLen" /\ UNCHANGED acct
    <3>1. acct # NoAcct
        BY <1>3 DEF NewBlob, IdentityInv, Storing
    <3>2. acctB' # NoAcctB /\ acctB'.val.id = acct.id
        BY <2>1, <1>t, <3>1, WriteAcctStored
    <3> QED
        BY <1>3, <1>t, <2>1, <3>1, <3>2 DEF NewBlob, IdentityInv, Storing
  <2>2. CASE acct' = NoAcct /\ pc' = "idle" /\ UNCHANGED <<acctB, key>>
      BY <1>3, <1>t, <2>2 DEF NewBlob, IdentityInv, Storing
  <2> QED
      BY <1>3, <2>1, <2>2 DEF NewBlob
<1>4. CASE NewLen
    BY <1>4, <1>t DEF NewLen, IdentityInv, Storing, made
<1>5. CASE EnsureUploaded
  <2>1. acct'.id = acct.id /\ acct' # NoAcct
    <3>1. acct'.id = acct.id /\ acct'.otks = acct.otks + 1 /\ acct.otks \in Nat
        BY <1>5, <1>t DEF EnsureUploaded, TypeOK, Account
    <3>2. NoAcct.otks = 0
        BY DEF NoAcct
    <3> QED
        BY <3>1, <3>2
  <2> QED
      BY <1>5, <1>t, <2>1 DEF EnsureUploaded, IdentityInv, Storing, nvs
<1>6. CASE Upload
    BY <1>6, <1>t DEF Upload, IdentityInv, Storing, ram, nvs
<1>7. CASE UploadBlob
  <2>1. CASE WriteAcct /\ pc' = "upLen"
    <3>1. acct # NoAcct
        BY <1>7 DEF UploadBlob, IdentityInv, Storing
    <3>2. acctB' # NoAcctB /\ acctB'.val.id = acct.id
        BY <2>1, <1>t, <3>1, WriteAcctStored
    <3>3. pub # NoAcct => pub.id = acct.id
        BY <1>7, <3>1 DEF UploadBlob, IdentityInv
    <3> QED
        BY <1>7, <1>t, <2>1, <3>1, <3>2, <3>3
           DEF UploadBlob, IdentityInv, Storing, ram
  <2>2. CASE pc' = "idle" /\ UNCHANGED <<acctB, key>>
      BY <1>7, <1>t, <2>2 DEF UploadBlob, IdentityInv, Storing, ram
  <2> QED
      BY <1>7, <2>1, <2>2 DEF UploadBlob
<1>8. CASE UploadLen
    BY <1>8, <1>t DEF UploadLen, IdentityInv, Storing, ram
<1>9. CASE Wrap
  <2>1. pc' \in {"sendBlob", "send"}
      BY <1>9 DEF Wrap, Persist
  <2> QED
      BY <1>9, <1>t, <2>1 DEF Wrap, IdentityInv, Storing, nvs
<1>10. CASE Deliver
    BY <1>10, <1>t DEF Deliver, IdentityInv, Storing, ram, nvs
<1>11. CASE NewChain
  <2>1. pc' \in {"idle", "keepBlob"}
      BY <1>11 DEF NewChain, Persist
  <2> QED
      BY <1>11, <1>t, <2>1 DEF NewChain, IdentityInv, Storing, nvs
<1>12. CASE Exit
  <2>1. pc' \in {"idle", "exitBlob"}
      BY <1>12 DEF Exit, Persist
  <2> QED
      BY <1>12, <1>t, <2>1 DEF Exit, IdentityInv, Storing, nvs
<1>13. CASE ExitBlob
    BY <1>13, <1>t DEF ExitBlob, IdentityInv, Storing, ram
<1>14. CASE ExitLen
    BY <1>14, <1>t DEF ExitLen, IdentityInv, Storing
<1>15. ASSUME PersistBlob("sendBlob", "sendLen", "send") PROVE IdentityInv'
    BY <1>15, <1>t DEF PersistBlob, IdentityInv, Storing
<1>16. ASSUME PersistBlob("keepBlob", "keepLen", "idle") PROVE IdentityInv'
    BY <1>16, <1>t DEF PersistBlob, IdentityInv, Storing
<1>17. ASSUME PersistLen("sendLen", "send") PROVE IdentityInv'
    BY <1>17, <1>t DEF PersistLen, IdentityInv, Storing
<1>18. ASSUME PersistLen("keepLen", "idle") PROVE IdentityInv'
    BY <1>18, <1>t DEF PersistLen, IdentityInv, Storing
<1>19. CASE Reset
    BY <1>19, <1>t DEF Reset, IdentityInv, Storing, ram, nvs
<1>20. CASE Wipe
    BY <1>20, <1>t DEF Wipe, IdentityInv, Storing
<1>21. CASE PowerLoss
    BY <1>21, <1>t DEF PowerLoss, IdentityInv, Storing, nvs
<1>22. CASE UNCHANGED vars
    BY <1>22, <1>t DEF vars, IdentityInv, Storing, ram, nvs
<1> QED
    BY <1>1, <1>2, <1>3, <1>4, <1>5, <1>6, <1>7, <1>8, <1>9, <1>10, <1>11,
       <1>12, <1>13, <1>14, <1>15, <1>16, <1>17, <1>18, <1>19, <1>20, <1>21,
       <1>22 DEF Next, Step

\* As long as a stored blob can be read, the badge never runs with another
\* identity than the one it has published, however many writes fail and
\* wherever the power is lost (init_crypto, has_account).
THEOREM IdentityIsKept == Spec => []IdentityKept
<1> DEFINE Inv == ~ReadFails => IdentityInv
<1>1. Init => Inv
    BY TypeInit DEF Init, IdentityInv, Storing
<1>2. Inv /\ [Next]_vars => Inv'
    BY IdentityStep DEF Next, vars, ReadFails
<1>3. Inv => IdentityKept
    BY DEF IdentityInv, IdentityKept
<1> QED
    BY <1>1, <1>2, <1>3, PTL DEF Spec

-----------------------------------------------------------------------------
(* Message keys.                                                           *)

\* A chain is past every key that left, and is no chain that is yet to start.
Past(c) ==
    /\ c.gen <= gens
    /\ c.gen = 0 => c = NoChain
    /\ \A u \in used : u.gen = c.gen => u.n < c.n

\* The handlers that have written the snapshot and not yet its length.
HalfWritten == pc \in {"sendLen", "keepLen", "exitLen"}

\* NoKeyReuse needs the same of the stored chain, which a restart goes back
\* to, and that the stored chain is the one in RAM whenever a message may
\* leave.  The hash is trusted to skip a write, so it must stand for what is
\* stored.
ReuseInv ==
    /\ TypeInv
    /\ Past(chain) /\ Past(snapB.val)
    /\ \A u \in used : u.gen # 0 /\ u.gen <= gens
    /\ Waiting => chain.gen # 0
    /\ HalfWritten \/ pc = "send" => snapB.val = chain
    /\ HalfWritten \/ hash = NoHash \/ hash = snapB.val

\* The snapshot is written with the chain in memory.
LEMMA SnapWritten ==
    ASSUME WriteSnap
    PROVE  snapB'.val = chain
BY DEF WriteSnap

\* No message was sent with the absent chain.
LEMMA PastNoChain ==
    ASSUME TypeOK, \A u \in used : u.gen # 0
    PROVE  Past(NoChain)
<1>1. NoChain.gen = 0
    BY DEF NoChain
<1>2. gens \in Nat
    BY BoundsAssumption DEF TypeOK, BoundsAssumption
<1> QED
    BY <1>1, <1>2 DEF Past

\* While writes do not fail, every action keeps the chain past all it sent.
LEMMA ReuseStep ==
    ASSUME ~WriteFails
    PROVE  ReuseInv /\ [Next]_vars => ReuseInv'
<1> SUFFICES ASSUME ReuseInv, [Next]_vars PROVE ReuseInv'
    OBVIOUS
<1>t. TypeOK /\ TypeInv' /\ TypeOK'
    BY TypeStep DEF ReuseInv, TypeInv
<1>n. Past(NoChain)
    BY <1>t, PastNoChain DEF ReuseInv
<1>c. gens \in Nat /\ chain \in Chain /\ hash \in Chain /\ snapB.val \in Chain
    BY <1>t, BoundsAssumption DEF TypeOK, BoundsAssumption, SnapBlob
<1>g. chain # NoChain => chain.gen # 0
    BY DEF ReuseInv, Past
<1>z. NoChain.gen = 0
    BY DEF NoChain
<1>r. ASSUME RestoreSnapshot
      PROVE  /\ chain' \in {snapB.val, NoChain}
             /\ hash' \in {hash, snapB.val}
    BY <1>r DEF RestoreSnapshot
<1>1. CASE InitLoad
    BY <1>1, <1>t, <1>n, <1>r
       DEF InitLoad, ReuseInv, Past, Waiting, HalfWritten, nvs, made
<1>2. CASE InitUnread
  <2>1. pc' \in {"idle", "newBlob"}
      BY <1>2 DEF InitUnread
  <2> QED
      BY <1>2, <1>t, <2>1
         DEF InitUnread, ReuseInv, Past, Waiting, HalfWritten, nvs
<1>3. CASE NewBlob
    BY <1>3, <1>t DEF NewBlob, ReuseInv, Past, Waiting, HalfWritten, made
<1>4. CASE NewLen
    BY <1>4, <1>t, <1>n, <1>r
       DEF NewLen, ReuseInv, Past, Waiting, HalfWritten, made
<1>5. CASE EnsureUploaded
    BY <1>5, <1>t
       DEF EnsureUploaded, ReuseInv, Past, Waiting, HalfWritten, nvs, made
<1>6. CASE Upload
    BY <1>6, <1>t
       DEF Upload, ReuseInv, Past, Waiting, HalfWritten, ram, nvs, made
<1>7. CASE UploadBlob
    BY <1>7, <1>t DEF UploadBlob, ReuseInv, Past, Waiting, HalfWritten, ram, made
<1>8. CASE UploadLen
    BY <1>8, <1>t DEF UploadLen, ReuseInv, Past, Waiting, HalfWritten, ram, made
<1>9. CASE Wrap
  <2>1. chain'.gen = chain.gen /\ chain'.n = chain.n + 1 /\ chain.gen # 0
      BY <1>9, <1>c, <1>g DEF Wrap, Chain
  <2>2. Past(chain)'
    <3>1. \A u \in used : u.gen = chain.gen => u.n < chain.n
        BY DEF ReuseInv, Past
    <3>2. \A u \in used : u.n \in Nat
        BY <1>t DEF TypeOK, Chain
    <3>3. chain.n \in Nat
        BY <1>c DEF Chain
    <3>4. \A u \in used : u.gen = chain'.gen => u.n < chain'.n
        BY <2>1, <3>1, <3>2, <3>3
    <3> QED
        BY <1>9, <2>1, <3>4 DEF Wrap, ReuseInv, Past, made
  <2>3. hash # NoHash => hash = snapB.val
      BY <1>9 DEF Wrap, ReuseInv, HalfWritten
  <2>4. chain' # NoHash
    <3>1. NoHash.gen = 0
        BY DEF NoHash
    <3> QED
        BY <2>1, <3>1
  <2>5. CASE chain' = hash
    <3>1. pc' = "send" /\ snapB.val = chain'
        BY <1>9, <2>3, <2>4, <2>5 DEF Wrap, Persist
    <3> QED
        BY <1>9, <1>t, <2>1, <2>2, <2>3, <3>1
           DEF Wrap, ReuseInv, Past, Waiting, HalfWritten, nvs, made
  <2>6. CASE chain' # hash
    <3>1. pc' = "sendBlob"
        BY <1>9, <2>6 DEF Wrap, Persist
    <3> QED
        BY <1>9, <1>t, <2>1, <2>2, <2>3, <3>1
           DEF Wrap, ReuseInv, Past, Waiting, HalfWritten, nvs, made
  <2> QED
      BY <2>5, <2>6
<1>10. CASE Deliver
  <2> DEFINE k == [chain EXCEPT !.n = @ - 1]
  <2>1. k.gen = chain.gen /\ k.n = chain.n - 1 /\ chain.n \in Nat
      BY <1>c DEF Chain
  <2>2. chain.gen # 0 /\ chain.gen <= gens /\ snapB.val = chain
      BY <1>10 DEF Deliver, ReuseInv, Past, Waiting
  <2>3. used' = used \/ used' = used \cup {k}
      BY <1>10 DEF Deliver
  <2>4. k.n < chain.n
      BY <2>1
  <2> HIDE DEF k
  <2>5. \A u \in used' : u.gen = chain.gen => u.n < chain.n
      BY <2>1, <2>3, <2>4 DEF ReuseInv, Past
  <2>6. \A u \in used' : u.gen # 0 /\ u.gen <= gens
      BY <2>1, <2>2, <2>3 DEF ReuseInv
  <2>7. Past(chain)' /\ Past(snapB.val)'
      BY <1>10, <2>2, <2>5 DEF Deliver, Past, ram, nvs
  <2> QED
      BY <1>10, <1>t, <2>6, <2>7
         DEF Deliver, ReuseInv, Waiting, HalfWritten, ram, nvs
<1>11. CASE NewChain
  <2>1. chain'.gen = gens + 1 /\ gens' = gens + 1 /\ chain'.n = 0
      BY <1>11 DEF NewChain
  <2>2. \A u \in used : u.gen # chain'.gen
    <3>1. \A u \in used : u.gen <= gens /\ u.gen \in Nat
        BY <1>t, BoundsAssumption DEF ReuseInv, TypeOK, Chain, BoundsAssumption
    <3> QED
        BY <2>1, <3>1, <1>c
  <2>3. Past(chain)'
      BY <1>11, <1>c, <2>1, <2>2 DEF NewChain, Past
  <2>4. Past(snapB.val)'
    <3>1. snapB.val.gen \in Nat /\ snapB.val.gen <= gens
        BY <1>c, BoundsAssumption DEF ReuseInv, Past, Chain, BoundsAssumption
    <3>2. snapB.val.gen <= gens'
        BY <3>1, <2>1, <1>c
    <3> QED
        BY <1>11, <3>2 DEF NewChain, ReuseInv, Past, nvs
  <2>5. \A u \in used : u.gen <= gens'
    <3>1. \A u \in used : u.gen <= gens /\ u.gen \in Nat
        BY <1>t, BoundsAssumption DEF ReuseInv, TypeOK, Chain, BoundsAssumption
    <3> QED
        BY <2>1, <3>1, <1>c
  <2>6. pc' \in {"idle", "keepBlob"}
      BY <1>11 DEF NewChain, Persist
  <2> QED
      BY <1>11, <1>t, <2>3, <2>4, <2>5, <2>6
         DEF NewChain, ReuseInv, Waiting, HalfWritten, nvs
<1>12. CASE Exit
  <2>1. pc' \in {"idle", "exitBlob"} /\ chain' \in {chain, NoChain}
      BY <1>12 DEF Exit, Persist
  <2> QED
      BY <1>12, <1>t, <1>n, <2>1
         DEF Exit, ReuseInv, Past, Waiting, HalfWritten, nvs, made
<1>13. CASE ExitBlob
  <2>1. snapB'.val = chain /\ pc' = "exitLen"
      BY <1>13, SnapWritten DEF ExitBlob
  <2> QED
      BY <1>13, <1>t, <2>1
         DEF ExitBlob, ReuseInv, Past, Waiting, HalfWritten, ram, made
<1>14. CASE ExitLen
  <2>1. hash' = snapB.val
      BY <1>14 DEF ExitLen, ReuseInv, HalfWritten
  <2> QED
      BY <1>14, <1>t, <1>n, <2>1
         DEF ExitLen, ReuseInv, Past, Waiting, HalfWritten, made
<1>15. ASSUME PersistBlob("sendBlob", "sendLen", "send") PROVE ReuseInv'
  <2>1. snapB'.val = chain /\ pc' = "sendLen"
      BY <1>15, SnapWritten DEF PersistBlob
  <2> QED
      BY <1>15, <1>t, <2>1
         DEF PersistBlob, ReuseInv, Past, Waiting, HalfWritten, made
<1>16. ASSUME PersistBlob("keepBlob", "keepLen", "idle") PROVE ReuseInv'
  <2>1. snapB'.val = chain /\ pc' = "keepLen"
      BY <1>16, SnapWritten DEF PersistBlob
  <2> QED
      BY <1>16, <1>t, <2>1
         DEF PersistBlob, ReuseInv, Past, Waiting, HalfWritten, made
<1>17. ASSUME PersistLen("sendLen", "send") PROVE ReuseInv'
    BY <1>17, <1>t
       DEF PersistLen, ReuseInv, Past, Waiting, HalfWritten, made
<1>18. ASSUME PersistLen("keepLen", "idle") PROVE ReuseInv'
    BY <1>18, <1>t
       DEF PersistLen, ReuseInv, Past, Waiting, HalfWritten, made
<1>19. CASE Reset
    BY <1>19, <1>t DEF Reset, ReuseInv, Past, Waiting, HalfWritten, ram, nvs
<1>20. CASE Wipe
  <2>1. snapB'.val \in {snapB.val, NoChain}
      BY <1>20 DEF Wipe, nvs, NoSnapB
  <2> QED
      BY <1>20, <1>t, <1>n, <2>1
         DEF Wipe, ReuseInv, Past, Waiting, HalfWritten, made
<1>21. CASE PowerLoss
    BY <1>21, <1>t, <1>n
       DEF PowerLoss, ReuseInv, Past, Waiting, HalfWritten, nvs, made
<1>22. CASE UNCHANGED vars
    BY <1>22, <1>t
       DEF vars, ReuseInv, Past, Waiting, HalfWritten, ram, nvs, made
<1> QED
    BY <1>1, <1>2, <1>3, <1>4, <1>5, <1>6, <1>7, <1>8, <1>9, <1>10, <1>11,
       <1>12, <1>13, <1>14, <1>15, <1>16, <1>17, <1>18, <1>19, <1>20, <1>21,
       <1>22 DEF Next, Step

\* As long as writes to NVS succeed, the badge never encrypts twice with one
\* message key, however often and wherever the power is lost: the snapshot is
\* on disk before the message leaves (process_distribution, persist_crypto).
THEOREM KeysUsedOnce == Spec => []NoKeyReuse
<1> DEFINE Inv == ~WriteFails => ReuseInv
<1>1. Init => ReuseInv
  <2> SUFFICES ASSUME Init PROVE ReuseInv
      OBVIOUS
  <2>1. TypeInv /\ TypeOK
      BY TypeInit DEF TypeInv
  <2>2. Past(NoChain)
      BY <2>1, PastNoChain DEF Init
  <2>3. snapB.val = NoChain
      BY DEF Init, NoSnapB
  <2> QED
      BY <2>1, <2>2, <2>3 DEF Init, ReuseInv, Waiting, HalfWritten
<1>2. ReuseInv => NeverReencrypts
  <2> SUFFICES ASSUME ReuseInv, chain \in used PROVE FALSE
      BY DEF NeverReencrypts
  <2>1. chain.n < chain.n /\ chain.n \in Nat
      BY DEF ReuseInv, Past, TypeInv, TypeOK, Chain
  <2> QED
      BY <2>1
<1>3. Init => Inv
    BY <1>1
<1>4. Inv /\ [Next]_vars => Inv'
    BY ReuseStep DEF Next, vars, WriteFails
<1>5. Inv => NoKeyReuse
    BY <1>2 DEF NoKeyReuse
<1> QED
    BY <1>3, <1>4, <1>5, PTL DEF Spec
=============================================================================
