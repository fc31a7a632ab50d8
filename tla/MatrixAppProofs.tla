--------------------------- MODULE MatrixAppProofs ---------------------------
(***************************************************************************)
(* Proofs about the receiving side of plugins/matrix.  InboundKeys, for    *)
(* any keys, backup, number of sessions, messages and cap of the session   *)
(* list: its types, that the session the peer relies on can be opened,     *)
(* that a key whose message the server has deleted is stored, and that no  *)
(* import makes a session unreadable; the power may fail anywhere.  The    *)
(* screens, for any number of rooms, depth of the views and any of the     *)
(* limits: what the open chat shows and what the list of rooms stands for. *)
(***************************************************************************)
EXTENDS MatrixApp, Recursion, TLAPS

-----------------------------------------------------------------------------
(* The keys that come in: the inductive invariant, part by part.           *)

\* A message leaves with a session that is in the snapshot.
SendFits == pc = "send" => olm # <<>> /\ olm = snap.olm

\* Every session anyone refers to has been created; the one-time keys of the
\* others are where they were.
Created ==
    /\ cur <= created
    /\ \A n \in 1..Len(msgs) : msgs[n].os <= created
    /\ \A s \in Held(olm) \cup Held(snap.olm) \cup confirmed : s <= created
    /\ \A s \in OlmIds : s > created => s \in acct /\ (pc # "off" => s \in otks)

\* A session is restored from the snapshot or was evicted, and one the peer
\* has received on is in the snapshot.
SnapKept ==
    /\ pc # "off" => Held(snap.olm) \subseteq Held(olm) \cup gone
    /\ confirmed \subseteq Held(snap.olm) \cup gone

\* A one-time key that is used up has opened a session.
OtkOpened ==
    /\ pc # "off" => OlmIds \subseteq otks \cup Held(olm) \cup gone
    /\ \A s \in OlmIds : \/ s \in acct \cup Held(snap.olm) \cup gone
                         \/ pc # "off" /\ s \in Held(olm)

\* The sessions.
SessionInv ==
    /\ TypeOK
    /\ SendFits
    /\ Created
    /\ SnapKept
    /\ OtkOpened
    /\ PeerSessionOpen

\* Message m has nothing more to give to the room keys inb, when the sessions
\* lost can no longer be opened.
Spent(m, inb, lost) ==
    \/ m.key = NoKey
    \/ m.os \in lost
    \/ ImportRoomKey(inb, m.key) = inb

Done(n, inb) == Spent(msgs[n], inb, gone)

\* Room keys in RAM are the stored ones until a handler imports one; it will
\* write the snapshot then.
RamIsSnap ==
    (pc \in {"idle", "upload", "send"} \/ (pc = "recv" /\ ~got)) =>
        inbound = snap.inbound

\* A running plugin is ahead of what the server has deleted.
TokenFits == pc # "off" => acked <= token

\* What the sync has looked at is done, and all of it once the loop has ended.
LookedAt ==
    /\ pc = "recv" => \A n \in 1..(next - 1) : Done(n, inbound)
    /\ pc \in {"idle", "persist", "upload", "send"} =>
            \A n \in 1..token : Done(n, inbound)

\* A message that was read has left its key, in RAM and in the snapshot.
ReadDone ==
    /\ \A n \in read : n <= Len(msgs) /\ Done(n, inbound)
    /\ \A n \in snap.read : n <= Len(msgs) /\ Done(n, snap.inbound)

\* The peer stops sending pre-key messages once it has received one.
PreKeys == \A n \in 1..Len(msgs) : msgs[n].pre \/ msgs[n].os \in confirmed

\* An entry is absent or has a chain.
EntriesFit ==
    \A s \in Sids : /\ inbound[s] = NoEntry \/ inbound[s].chain # 0
                    /\ snap.inbound[s] = NoEntry \/ snap.inbound[s].chain # 0

\* Entry f is e, with more of the chain and of its bindings.
Grows(e, f) ==
    \/ e = NoEntry
    \/ /\ f.chain = e.chain /\ f.idx <= e.idx
       /\ e.room = "" \/ f.room = e.room
       /\ e.sender = "" \/ f.sender = e.sender

\* RAM has what is stored, or more; nothing when the plugin is not loaded.
RamGrows ==
    /\ pc = "off" => inbound = NoInbound
    /\ pc # "off" => \A s \in Sids : Grows(snap.inbound[s], inbound[s])

\* The room keys.
KeysInv ==
    /\ RamIsSnap
    /\ TokenFits
    /\ LookedAt
    /\ ReadDone
    /\ PreKeys
    /\ EntriesFit
    /\ RamGrows
    /\ AckedKeysStored

\* The induction.
IInv == SessionInv /\ KeysInv

-----------------------------------------------------------------------------
(* Entries.                                                                *)

\* insert_inbound, as it acts on the one entry it is about.
Merged(e, k, sender) ==
    IF k.of # k.sid THEN e
    ELSE IF e = NoEntry
    THEN [chain |-> k.chain, idx |-> k.idx, room |-> k.room, sender |-> sender]
    ELSE IF ~Matches(e.room, k.room) \/ ~Matches(e.sender, sender)
            \/ e.chain # k.chain
    THEN e
    ELSE [chain |-> e.chain, idx |-> IF k.idx < e.idx THEN k.idx ELSE e.idx,
          room |-> Known(e.room, k.room), sender |-> Known(e.sender, sender)]

\* An absent entry, or one with a chain.
KeyFits(e) == e = NoEntry \/ e.chain # 0

\* The empty entry is an entry, and the names in keys are names.
LEMMA NameFacts ==
    /\ NoEntry \in Entry
    /\ "" \in Names /\ Peer \in Names
    /\ \A k \in Keys \cup Backup : k.sid \in Sids /\ k.room \in Names
    /\ \A b \in Backup : b.sender \in Names
BY DEF NoEntry, Entry, Names, Sids

\* The fields of the empty entry and of any other.
LEMMA EntryFields ==
    /\ NoEntry.chain = 0 /\ NoEntry.room = "" /\ NoEntry.sender = ""
    /\ \A e \in Entry : /\ e.chain \in Nat /\ e.idx \in Nat
                        /\ e = [chain |-> e.chain, idx |-> e.idx,
                                room |-> e.room, sender |-> e.sender]
BY DEF NoEntry, Entry

\* Indices are ordered.
LEMMA IndexOrder ==
    \A a, b, c \in Nat : a <= b => (b <= c => a <= c) /\ (~(c < b) => ~(c < a))
OBVIOUS

\* A merge gives an entry.
LEMMA MergedType ==
    ASSUME NEW e \in Entry, NEW k \in Keys \cup Backup, NEW sender \in Names
    PROVE  Merged(e, k, sender) \in Entry
<1>1. k.chain \in Nat /\ k.idx \in Nat /\ k.room \in Names
  BY KeysAssumption, NameFacts
<1>2. /\ e.chain \in Nat /\ e.idx \in Nat /\ e.room \in Names
      /\ e.sender \in Names
  BY DEF Entry
<1>3. Known(e.room, k.room) \in Names /\ Known(e.sender, sender) \in Names
  BY <1>1, <1>2 DEF Known
<1> QED
  BY <1>1, <1>2, <1>3 DEF Merged, Entry

\* insert_inbound touches one entry.
LEMMA InsertMerges ==
    ASSUME NEW inb \in [Sids -> Entry], NEW k \in Keys \cup Backup,
           NEW sender \in Names
    PROVE  /\ Insert(inb, k, sender) \in [Sids -> Entry]
           /\ Insert(inb, k, sender) =
                [inb EXCEPT ![k.sid] = Merged(inb[k.sid], k, sender)]
<1>1. k.sid \in Sids /\ inb[k.sid] \in Entry
  BY NameFacts
<1>2. Merged(inb[k.sid], k, sender) \in Entry
  BY <1>1, MergedType
<1>3. Insert(inb, k, sender) =
        [inb EXCEPT ![k.sid] = Merged(inb[k.sid], k, sender)]
  BY <1>1 DEF Insert, Merged
<1> QED
  BY <1>1, <1>2, <1>3

\* A merge keeps what was there: the chain, at the same or an earlier index,
\* and the bindings.
LEMMA MergedGrows ==
    ASSUME NEW e \in Entry, NEW k \in Keys \cup Backup, NEW sender \in Names
    PROVE  /\ Grows(e, Merged(e, k, sender))
           /\ KeyFits(e) => KeyFits(Merged(e, k, sender))
<1>1. k.chain \in Nat \ {0} /\ k.idx \in Nat
  BY KeysAssumption
<1>2. e.chain \in Nat /\ e.idx \in Nat
  BY DEF Entry
<1>3. CASE Merged(e, k, sender) = e
  BY <1>2, <1>3 DEF Grows, KeyFits
<1>4. CASE e = NoEntry
  BY <1>1, <1>4 DEF Grows, KeyFits, Merged
<1>5. CASE e # NoEntry /\ Merged(e, k, sender) # e
  <2>1. Merged(e, k, sender) =
          [chain |-> e.chain, idx |-> IF k.idx < e.idx THEN k.idx ELSE e.idx,
           room |-> Known(e.room, k.room),
           sender |-> Known(e.sender, sender)]
    BY <1>5 DEF Merged
  <2> QED
    <3> DEFINE i == IF k.idx < e.idx THEN k.idx ELSE e.idx
    <3>1. i <= e.idx
      BY <1>1, <1>2
    <3> HIDE DEF i
    <3> DEFINE f == Merged(e, k, sender)
    <3>2. /\ f.chain = e.chain /\ f.idx = i
          /\ f.room = Known(e.room, k.room)
          /\ f.sender = Known(e.sender, sender)
      BY <2>1 DEF i
    <3> HIDE DEF f
    <3>3. /\ e.room = "" \/ f.room = e.room
          /\ e.sender = "" \/ f.sender = e.sender
      BY <3>2 DEF Known
    <3>4. Grows(e, f) /\ (KeyFits(e) => KeyFits(f))
      BY <3>1, <3>2, <3>3, <1>5 DEF Grows, KeyFits
    <3> QED
      BY <3>4 DEF f
<1> QED
  BY <1>3, <1>4, <1>5

\* The second import of a key changes nothing.
LEMMA MergedTwice ==
    ASSUME NEW e \in Entry, NEW k \in Keys \cup Backup, NEW sender \in Names
    PROVE  Merged(Merged(e, k, sender), k, sender) = Merged(e, k, sender)
<1>1. k.chain \in Nat \ {0} /\ k.idx \in Nat
  BY KeysAssumption
<1>2. e.chain \in Nat /\ e.idx \in Nat
  BY DEF Entry
<1>3. CASE Merged(e, k, sender) = e
  BY <1>3
<1>4. CASE e = NoEntry /\ Merged(e, k, sender) # e
  BY <1>1, <1>4 DEF Merged, Matches, Known, NoEntry
<1>5. CASE e # NoEntry /\ Merged(e, k, sender) # e
  <2> DEFINE f == [chain |-> e.chain,
                   idx |-> IF k.idx < e.idx THEN k.idx ELSE e.idx,
                   room |-> Known(e.room, k.room),
                   sender |-> Known(e.sender, sender)]
  <2>1. /\ Merged(e, k, sender) = f /\ k.of = k.sid /\ e.chain = k.chain
        /\ Matches(e.room, k.room) /\ Matches(e.sender, sender)
    BY <1>5 DEF Merged
  <2>2. f # NoEntry
    BY <2>1, <1>1 DEF NoEntry
  <2>3. /\ f.chain = e.chain /\ f.idx <= k.idx /\ f.idx \in Nat
        /\ Known(f.room, k.room) = f.room /\ Known(f.sender, sender) = f.sender
    <3>1. \A a, b : Known(Known(a, b), b) = Known(a, b)
      BY DEF Known
    <3>2. f.chain = e.chain /\ f.idx <= k.idx /\ f.idx \in Nat
      BY <1>1, <1>2
    <3> QED
      BY <3>1, <3>2
  <2>4. Merged(f, k, sender) = f
    <3>1. Merged(f, k, sender) = f \/ Merged(f, k, sender) =
            [chain |-> f.chain, idx |-> IF k.idx < f.idx THEN k.idx ELSE f.idx,
             room |-> Known(f.room, k.room),
             sender |-> Known(f.sender, sender)]
      BY <2>2 DEF Merged
    <3>2. (IF k.idx < f.idx THEN k.idx ELSE f.idx) = f.idx
      BY <2>3, <1>1
    <3>3. [chain |-> f.chain, idx |-> f.idx, room |-> f.room,
           sender |-> f.sender] = f
      OBVIOUS
    <3> QED
      BY <3>1, <3>2, <3>3, <2>3
  <2> QED
    BY <2>1, <2>4
<1> QED
  BY <1>3, <1>4, <1>5

\* A key that had nothing to give still has nothing to give later.
LEMMA MergedStable ==
    ASSUME NEW e \in Entry, NEW f \in Entry, NEW k \in Keys \cup Backup,
           NEW sender \in Names,
           KeyFits(e), Grows(e, f), Merged(e, k, sender) = e
    PROVE  Merged(f, k, sender) = f
<1>1. k.chain \in Nat \ {0} /\ k.idx \in Nat
  BY KeysAssumption
<1>2. /\ e.chain \in Nat /\ e.idx \in Nat /\ f.chain \in Nat /\ f.idx \in Nat
      /\ e = [chain |-> e.chain, idx |-> e.idx, room |-> e.room,
              sender |-> e.sender]
      /\ f = [chain |-> f.chain, idx |-> f.idx, room |-> f.room,
              sender |-> f.sender]
  BY DEF Entry
<1>3. CASE k.of # k.sid
  BY <1>3 DEF Merged
<1>4. CASE k.of = k.sid
  <2>1. e # NoEntry
    <3> SUFFICES ASSUME e = NoEntry PROVE FALSE
      OBVIOUS
    <3>1. e = [chain |-> k.chain, idx |-> k.idx, room |-> k.room,
               sender |-> sender]
      BY <1>4 DEF Merged
    <3>2. e.chain = k.chain
      BY <3>1
    <3> QED
      BY <3>2, <1>1, EntryFields
  <2>2. /\ e.chain # 0 /\ f.chain = e.chain /\ f.idx <= e.idx
        /\ e.room = "" \/ f.room = e.room
        /\ e.sender = "" \/ f.sender = e.sender
    BY <2>1 DEF KeyFits, Grows
  <2>3. f # NoEntry
    BY <2>2, EntryFields
  <2>4. CASE ~Matches(e.room, k.room) \/ ~Matches(e.sender, sender)
             \/ e.chain # k.chain
    BY <2>2, <2>3, <2>4, <1>4 DEF Merged, Matches
  <2>5. CASE /\ Matches(e.room, k.room) /\ Matches(e.sender, sender)
             /\ e.chain = k.chain
    <3>1. e = [chain |-> e.chain,
               idx |-> IF k.idx < e.idx THEN k.idx ELSE e.idx,
               room |-> Known(e.room, k.room),
               sender |-> Known(e.sender, sender)]
      BY <2>1, <2>5, <1>4 DEF Merged
    <3>2. /\ ~(k.idx < e.idx)
          /\ e.room = "" => k.room = ""
          /\ e.sender = "" => sender = ""
      <4> DEFINE i == IF k.idx < e.idx THEN k.idx ELSE e.idx
      <4>1. /\ e.idx = i /\ e.room = Known(e.room, k.room)
            /\ e.sender = Known(e.sender, sender)
        BY <3>1
      <4>2. ~(k.idx < e.idx)
        BY <4>1, <1>1, <1>2
      <4> QED
        BY <4>1, <4>2 DEF Known
    <3>3. /\ Known(f.room, k.room) = f.room
          /\ Known(f.sender, sender) = f.sender
          /\ ~(k.idx < f.idx)
      <4>1. ~(k.idx < f.idx)
        BY <3>2, <2>2, <1>1, <1>2, IndexOrder, Zenon
      <4>2. /\ f.room = "" => k.room = ""
            /\ f.sender = "" => sender = ""
        BY <3>2, <2>2
      <4> QED
        BY <4>1, <4>2 DEF Known
    <3> QED
      BY <3>3, <2>3, <1>2 DEF Merged
  <2> QED
    BY <2>4, <2>5
<1> QED
  BY <1>3, <1>4

\* Growing is a preorder on entries that fit.
LEMMA GrowsOrder ==
    ASSUME NEW e \in Entry, NEW f \in Entry, NEW g \in Entry
    PROVE  /\ Grows(e, e)
           /\ KeyFits(e) /\ Grows(e, f) /\ Grows(f, g) => Grows(e, g)
<1>1. /\ e.chain \in Nat /\ e.idx \in Nat /\ f.chain \in Nat /\ f.idx \in Nat
      /\ g.chain \in Nat /\ g.idx \in Nat
  BY EntryFields
<1>2. Grows(e, e)
  BY <1>1 DEF Grows
<1>3. ASSUME KeyFits(e), Grows(e, f), Grows(f, g), e # NoEntry
      PROVE  Grows(e, g)
  <2>1. /\ e.chain # 0 /\ f.chain = e.chain /\ f.idx <= e.idx
        /\ e.room = "" \/ f.room = e.room
        /\ e.sender = "" \/ f.sender = e.sender
    BY <1>3 DEF KeyFits, Grows
  <2>2. f # NoEntry
    BY <2>1, EntryFields
  <2>3. /\ g.chain = f.chain /\ g.idx <= f.idx
        /\ f.room = "" \/ g.room = f.room
        /\ f.sender = "" \/ g.sender = f.sender
    BY <2>2, <1>3 DEF Grows
  <2>4. g.chain = e.chain /\ g.idx <= e.idx
    BY <2>1, <2>3, <1>1, IndexOrder, Zenon
  <2>5. /\ e.room = "" \/ g.room = e.room
        /\ e.sender = "" \/ g.sender = e.sender
    BY <2>1, <2>3
  <2> QED
    BY <2>4, <2>5 DEF Grows
<1> QED
  BY <1>2, <1>3 DEF Grows

\* What has grown decrypts what it did.
LEMMA GrowsKeeps ==
    ASSUME NEW e \in Entry, NEW f \in Entry, KeyFits(e), Grows(e, f)
    PROVE  Keeps(e, f)
<1> SUFFICES ASSUME NEW k \in Keys \cup Backup, NEW p \in Names,
                    Decrypts(e, k.room, p, k.idx)
             PROVE  \/ Decrypts(f, k.room, p, k.idx)
                    \/ e.sender = "" /\ f.sender \notin {"", p}
  BY DEF Keeps
<1>1. e # NoEntry /\ e.chain # 0 /\ e.room # "" /\ e.idx <= k.idx
  BY DEF Decrypts, KeyFits
<1>2. /\ f.chain = e.chain /\ f.idx <= e.idx /\ f.room = e.room
      /\ e.sender = "" \/ f.sender = e.sender
  BY <1>1 DEF Grows
<1>3. f # NoEntry
  BY <1>1, <1>2, EntryFields
<1>4. f.idx <= k.idx
  <2>1. f.idx \in Nat /\ e.idx \in Nat /\ k.idx \in Nat
    BY EntryFields, KeysAssumption
  <2> QED
    BY <1>1, <1>2, <2>1, IndexOrder, Zenon
<1> QED
  BY <1>1, <1>2, <1>3, <1>4 DEF Decrypts

-----------------------------------------------------------------------------
(* The session list.                                                       *)

\* What is held is a session.
LEMMA HeldType ==
    ASSUME NEW list \in Seq(OlmIds)
    PROVE  /\ Held(list) \subseteq OlmIds
           /\ list # <<>> => list[Len(list)] \in Held(list)
           /\ Held(<<>>) = {}
BY DEF Held

\* A pushed session is in the list; nothing else comes in.
LEMMA SessionPushed ==
    ASSUME NEW list \in Seq(OlmIds), Len(list) <= MaxOlm, NEW s \in OlmIds
    PROVE  /\ Push(list, s) \in Seq(OlmIds)
           /\ Len(Push(list, s)) <= MaxOlm
           /\ Push(list, s) # <<>>
           /\ s \in Held(Push(list, s))
           /\ Held(Push(list, s)) \subseteq Held(list) \cup {s}
<1> DEFINE l == Append(list, s)
<1>0. MaxOlm \in Nat \ {0}
  BY BoundsAssumption
<1>1. /\ l \in Seq(OlmIds) /\ Len(l) = Len(list) + 1 /\ Len(list) \in Nat
      /\ l[Len(l)] = s
      /\ \A i \in 1..Len(list) : l[i] = list[i]
  OBVIOUS
<1> HIDE DEF l
<1>2. CASE Len(l) > MaxOlm
  <2>1. Push(list, s) = Tail(l)
    BY <1>2 DEF Push, l
  <2>2. /\ Tail(l) \in Seq(OlmIds) /\ Len(Tail(l)) = Len(list)
        /\ \A i \in 1..Len(list) : Tail(l)[i] = l[i + 1]
    BY <1>0, <1>1, <1>2
  <2>3. Len(list) = MaxOlm
    BY <1>0, <1>1, <1>2
  <2>4. Tail(l)[Len(list)] = s /\ Len(list) \in DOMAIN Tail(l)
    BY <1>0, <1>1, <2>2, <2>3
  <2>5. \A i \in 1..Len(list) : i + 1 \in 1..Len(list) \/ i + 1 = Len(l)
    BY <1>1
  <2>6. \A i \in DOMAIN Tail(l) : Tail(l)[i] \in Held(list) \cup {s}
    BY <1>1, <2>2, <2>5 DEF Held
  <2> QED
    BY <1>0, <2>1, <2>2, <2>3, <2>4, <2>6 DEF Held
<1>3. CASE ~(Len(l) > MaxOlm)
  <2>1. Push(list, s) = l
    BY <1>3 DEF Push, l
  <2>2. \A i \in DOMAIN l : l[i] \in Held(list) \cup {s}
    BY <1>1 DEF Held
  <2> QED
    BY <1>0, <1>1, <1>3, <2>1, <2>2 DEF Held
<1> QED
  BY <1>2, <1>3

-----------------------------------------------------------------------------
(* The sessions.                                                           *)

\* Where the sync and the server are in the messages.
LEMMA Positions ==
    TypeOK =>
      /\ acked \in Nat /\ token \in Nat /\ Len(msgs) \in Nat
      /\ acked <= Len(msgs) /\ token <= Len(msgs)
      /\ next \in Nat /\ next <= Len(msgs) + 1
      /\ read \subseteq Nat \ {0} /\ snap.read \subseteq Nat \ {0}
BY BoundsAssumption DEF TypeOK

\* Every step of the receiving sync stays in the messages.
LEMMA ReceiveAt ==
    ASSUME TypeOK, pc = "recv", next <= token
    PROVE  /\ next \in 1..Len(msgs) /\ next \in 1..MaxMsgs
           /\ next + 1 \in 1..(Len(msgs) + 1)
           /\ msgs[next] \in Msg /\ msgs[next].os \in OlmIds
           /\ msgs[next].key \in Keys \cup {NoKey}
<1>1. next \in Nat /\ token \in Nat /\ Len(msgs) \in Nat /\ MaxMsgs \in Nat
  BY BoundsAssumption DEF TypeOK
<1>2. next \in 1..Len(msgs) /\ next \in 1..MaxMsgs
      /\ next + 1 \in 1..(Len(msgs) + 1)
  BY <1>1 DEF TypeOK
<1>3. msgs[next] \in Msg
  BY <1>2 DEF TypeOK
<1> QED
  BY <1>2, <1>3 DEF Msg

\* Room keys that are imported are room keys.
LEMMA ImportType ==
    ASSUME NEW inb \in [Sids -> Entry], NEW k \in Keys \cup Backup
    PROVE  /\ ImportRoomKey(inb, k) \in [Sids -> Entry]
           /\ k \in Backup => ImportBackupSession(inb, k) \in [Sids -> Entry]
BY InsertMerges, NameFacts DEF ImportRoomKey, ImportBackupSession

\* No entry for any session.
LEMMA NoInboundType == NoInbound \in [Sids -> Entry]
BY NameFacts DEF NoInbound

\* The empty list is a list.
LEMMA EmptyType ==
    /\ <<>> \in Seq(OlmIds) /\ Len(<<>>) = 0 /\ Len(<<>>) <= MaxOlm
    /\ <<>> \in Seq(Msg) /\ Len(<<>>) <= MaxMsgs
    /\ 0 \in 0..MaxSessions
BY BoundsAssumption

\* The initial types.
LEMMA TypeInit == Init => TypeOK
<1> SUFFICES ASSUME Init PROVE TypeOK
  OBVIOUS
<1>1. MaxOlm \in Nat /\ MaxMsgs \in Nat /\ MaxSessions \in Nat
  BY BoundsAssumption
<1>2. /\ msgs \in Seq(Msg) /\ Len(msgs) <= MaxMsgs /\ Len(msgs) = 0
      /\ olm \in Seq(OlmIds) /\ Len(olm) <= MaxOlm
      /\ snap.olm \in Seq(OlmIds) /\ Len(snap.olm) <= MaxOlm
      /\ snap.read = {} /\ snap.inbound = NoInbound
  BY EmptyType DEF Init
<1>3. acked \in 0..Len(msgs) /\ token \in 0..Len(msgs)
      /\ next \in 1..(Len(msgs) + 1) /\ created \in 0..MaxSessions
  BY <1>1, <1>2 DEF Init
<1> QED
  BY <1>2, <1>3, NoInboundType DEF Init, TypeOK

\* Each action keeps the types.
LEMMA TypeStep ==
    ASSUME TypeOK, SendFits, [Next]_vars
    PROVE  TypeOK'
<1> USE BoundsAssumption, NoInboundType
<1>1. CASE Enter
  <2>1. next' \in 1..(Len(msgs) + 1) /\ token' \in 0..Len(msgs)
    BY <1>1 DEF Enter, TypeOK
  <2> QED
    BY <1>1, <2>1 DEF Enter, TypeOK, server, disk
<1>2. CASE Exit
  <2>1. /\ snap'.olm = olm /\ snap'.read = read /\ snap'.inbound = inbound
        /\ next' = 1 /\ token' = 0
    BY <1>2 DEF Exit, Unload
  <2>2. next' \in 1..(Len(msgs) + 1) /\ token' \in 0..Len(msgs)
    BY <2>1 DEF TypeOK
  <2> QED
    BY <1>2, <2>1, <2>2, EmptyType DEF Exit, Unload, TypeOK, server
<1>3. CASE PowerLoss
  <2>1. Held(olm) \subseteq OlmIds
    BY HeldType DEF TypeOK
  <2>2. next' \in 1..(Len(msgs) + 1) /\ token' \in 0..Len(msgs)
    BY <1>3 DEF PowerLoss, Unload, TypeOK
  <2> QED
    BY <1>3, <2>1, <2>2, EmptyType
       DEF PowerLoss, Unload, TypeOK, server, disk
<1>4. CASE Sync(TRUE) \/ Sync(FALSE)
  <2>1. /\ next' \in 1..(Len(msgs) + 1) /\ token' \in 0..Len(msgs)
        /\ acked' \in 0..Len(msgs)
    BY <1>4 DEF Sync, TypeOK
  <2> QED
    BY <1>4, <2>1 DEF Sync, TypeOK, ram, disk
<1>5. CASE Receive
  <2>1. Held(olm) \subseteq OlmIds
    BY HeldType DEF TypeOK
  <2>2. /\ Push(olm, msgs[next].os) \in Seq(OlmIds)
        /\ Len(Push(olm, msgs[next].os)) <= MaxOlm
    BY <1>5, ReceiveAt, SessionPushed DEF Receive, TypeOK
  <2>3. msgs[next].key # NoKey =>
           ImportRoomKey(inbound, msgs[next].key) \in [Sids -> Entry]
    BY <1>5, ReceiveAt, ImportType DEF Receive, TypeOK
  <2>4. /\ olm' \in Seq(OlmIds) /\ Len(olm') <= MaxOlm
        /\ inbound' \in [Sids -> Entry]
        /\ read' \subseteq 1..MaxMsgs /\ otks' \subseteq OlmIds
    BY <1>5, <2>2, <2>3, ReceiveAt DEF Receive, TypeOK, ram
  <2>5. got' \in BOOLEAN
    <3>1. got' = got \/ got' = (got \/ inbound' # inbound)
      BY <1>5, Zenon DEF Receive
    <3> QED
      BY <3>1 DEF TypeOK
  <2>6. next' \in 1..(Len(msgs) + 1) /\ gone' \subseteq OlmIds
    BY <1>5, <2>1, ReceiveAt DEF Receive, TypeOK
  <2> QED
    BY <1>5, <2>4, <2>5, <2>6 DEF Receive, TypeOK, server, disk
<1>6. CASE Received
  BY <1>6 DEF Received, AfterSync, TypeOK, server, ram, disk
<1>7. CASE Persist
  BY <1>7 DEF Persist, AfterSync, TypeOK, server, ram
<1>8. CASE NewOutbound
  BY <1>8 DEF NewOutbound, TypeOK, server, sync, ram
<1>9. CASE EnsureUploaded
  BY <1>9 DEF EnsureUploaded, TypeOK, server, sync, ram
<1>10. CASE Wrap
  <2>1. olm = <<>> => created + 1 \in OlmIds /\ created + 1 \in 0..MaxSessions
    BY <1>10 DEF Wrap, TypeOK, OlmIds
  <2>2. /\ olm' \in Seq(OlmIds) /\ Len(olm') <= MaxOlm
        /\ created' \in 0..MaxSessions
    <3>1. CASE olm = <<>>
      <4>1. created' = created + 1 /\ olm' = Push(olm, created + 1)
        BY <1>10, <3>1 DEF Wrap
      <4> QED
        BY <2>1, <3>1, <4>1, SessionPushed DEF TypeOK
    <3>2. CASE olm # <<>>
      BY <1>10, <3>2 DEF Wrap, TypeOK
    <3> QED
      BY <3>1, <3>2
  <2> QED
    BY <1>10, <2>2 DEF Wrap, TypeOK, sync
<1>11. CASE Deliver
  <2>1. olm[Len(olm)] \in OlmIds
    BY <1>11, HeldType DEF Deliver, TypeOK, SendFits
  <2> QED
    BY <1>11, <2>1 DEF Deliver, TypeOK, sync, ram, disk
<1>12. ASSUME NEW b \in Backup, RefreshBackup(b) PROVE TypeOK'
  <2>1. inbound' \in [Sids -> Entry]
    BY <1>12, ImportType DEF RefreshBackup, TypeOK
  <2> QED
    BY <1>12, <2>1 DEF RefreshBackup, TypeOK, server, sync, disk
<1>13. CASE PeerNew
  BY <1>13 DEF PeerNew, TypeOK, OlmIds, sync, ram, disk
<1>14. ASSUME NEW k \in Keys \cup {NoKey}, PeerSend(k) PROVE TypeOK'
  <2> DEFINE m == [os |-> cur, pre |-> cur \notin confirmed, key |-> k]
  <2>1. m \in Msg
    BY <1>14 DEF PeerSend, TypeOK, Msg
  <2> HIDE DEF m
  <2>2. msgs' = Append(msgs, m) /\ Len(msgs) < MaxMsgs
    BY <1>14 DEF PeerSend, m
  <2>3. /\ msgs' \in Seq(Msg) /\ Len(msgs') = Len(msgs) + 1
        /\ Len(msgs') <= MaxMsgs
    BY <2>1, <2>2 DEF TypeOK
  <2> QED
    BY <1>14, <2>3 DEF PeerSend, TypeOK, sync, ram, disk
<1>15. CASE UNCHANGED vars
  BY <1>15 DEF vars, server, sync, ram, disk, TypeOK
<1> QED
  BY <1>1, <1>2, <1>3, <1>4, <1>5, <1>6, <1>7, <1>8, <1>9, <1>10, <1>11,
     <1>12, <1>13, <1>14, <1>15 DEF Next

\* The sessions at the start.
LEMMA SessionInit == Init => SessionInv
<1> SUFFICES ASSUME Init PROVE SessionInv
  OBVIOUS
<1>1. TypeOK
  BY TypeInit
<1>2. Held(olm) = {} /\ Held(snap.olm) = {}
  BY HeldType, EmptyType DEF Init
<1>3. Len(msgs) = 0 /\ 1..Len(msgs) = {}
  BY EmptyType DEF Init
<1> QED
  BY <1>1, <1>2, <1>3
     DEF Init, SessionInv, SendFits, Created, SnapKept, OtkOpened,
         PeerSessionOpen

\* How Receive changes the sessions: it drops the one-time key of a session it
\* then has, and what the list loses is gone.
LEMMA ReceiveSessions ==
    ASSUME TypeOK, Receive
    PROVE  /\ Held(olm) \subseteq Held(olm') \cup gone'
           /\ gone \subseteq gone'
           /\ \E s \in OlmIds :
                /\ s = msgs[next].os
                /\ otks \ {s} \subseteq otks'
                /\ otks \subseteq otks' \cup Held(olm')
                /\ Held(olm') \subseteq Held(olm) \cup {s}
<1>1. gone' = gone \cup (Held(olm) \ Held(olm'))
  BY DEF Receive
<1> DEFINE s == msgs[next].os
<1>2. s \in OlmIds
  BY ReceiveAt DEF Receive
<1>3. CASE OlmOpens(msgs[next], next)
  <2>1. olm' = Push(olm, s) /\ otks' = otks \ {s}
    BY <1>3 DEF Receive
  <2>2. s \in Held(olm') /\ Held(olm') \subseteq Held(olm) \cup {s}
    BY <1>2, <2>1, SessionPushed DEF TypeOK
  <2> QED
    BY <1>1, <1>2, <2>1, <2>2
<1>4. CASE ~OlmOpens(msgs[next], next) /\ OlmDecrypts(msgs[next], next)
  <2>1. olm' = olm /\ otks' = otks \ {s} /\ s \in Held(olm)
    BY <1>4 DEF Receive, OlmDecrypts
  <2> QED
    BY <1>1, <1>2, <2>1
<1>5. CASE ~OlmOpens(msgs[next], next) /\ ~OlmDecrypts(msgs[next], next)
  <2>1. olm' = olm /\ otks' = otks
    BY <1>5 DEF Receive, ram
  <2> QED
    BY <1>1, <1>2, <2>1
<1> QED
  BY <1>3, <1>4, <1>5

\* Each action keeps the invariant of the sessions.
LEMMA SessionStep ==
    ASSUME SessionInv, [Next]_vars
    PROVE  SessionInv'
<1>1. TypeOK /\ TypeOK'
  BY TypeStep DEF SessionInv
<1>2. /\ Held(olm) \subseteq OlmIds /\ Held(snap.olm) \subseteq OlmIds
      /\ Held(<<>>) = {}
  BY <1>1, HeldType DEF TypeOK
<1>3. created \in Nat /\ OlmIds \subseteq Nat \ {0} /\ cur \in {0} \cup OlmIds
      /\ confirmed \subseteq OlmIds
  <2>1. created \in 0..MaxSessions /\ cur \in {0} \cup OlmIds /\ confirmed \subseteq OlmIds
    BY <1>1, Zenon DEF TypeOK
  <2>2. created \in Nat /\ OlmIds \subseteq Nat \ {0}
    BY <2>1, BoundsAssumption DEF OlmIds
  <2> QED
    BY <2>1, <2>2
<1>3a. \A n \in 1..Len(msgs) : msgs[n].os \in OlmIds
  <2>1. \A n \in 1..Len(msgs) : msgs[n] \in Msg
    <3>1. msgs \in Seq(Msg)
      BY <1>1, Zenon DEF TypeOK
    <3> QED
      BY <3>1
  <2> QED
    BY <2>1 DEF Msg
<1>3b. /\ \A a \in {0} \cup OlmIds : a <= created => a <= created + 1
       /\ created + 1 <= created + 1
  BY <1>3
<1> DEFINE Parts == SendFits /\ Created /\ SnapKept /\ OtkOpened
                    /\ PeerSessionOpen
<1>4. Parts
  BY DEF SessionInv
<1> SUFFICES Parts'
  BY <1>1 DEF SessionInv
<1> USE DEF SendFits, Created, SnapKept, OtkOpened, PeerSessionOpen
<1>5. CASE Enter
  BY <1>2, <1>3, <1>4, <1>5 DEF Enter, server, disk
<1>6. CASE Exit
  <2>1. snap'.olm = olm
    BY <1>6 DEF Exit
  <2> QED
    BY <1>2, <1>3, <1>4, <1>6, <2>1 DEF Exit, Unload, server
<1>7. CASE PowerLoss
  BY <1>2, <1>3, <1>4, <1>7 DEF PowerLoss, Unload, server, disk
<1>8. CASE Sync(TRUE) \/ Sync(FALSE)
  BY <1>2, <1>3, <1>4, <1>8 DEF Sync, ram, disk
<1>9. CASE Receive
  <2>1. PICK s \in OlmIds :
          /\ s = msgs[next].os
          /\ otks \ {s} \subseteq otks'
          /\ otks \subseteq otks' \cup Held(olm')
          /\ Held(olm') \subseteq Held(olm) \cup {s}
    BY <1>1, <1>9, ReceiveSessions
  <2>2. s <= created
    BY <1>1, <1>4, <1>9, <2>1, ReceiveAt DEF Receive
  <2>3. Held(olm) \subseteq Held(olm') \cup gone' /\ gone \subseteq gone'
    BY <1>1, <1>9, ReceiveSessions
  <2>4. pc = "recv" /\ UNCHANGED <<server, pc, disk>>
    BY <1>9 DEF Receive
  <2>5. SendFits' /\ SnapKept' /\ OtkOpened' /\ PeerSessionOpen'
    BY <1>2, <1>3, <1>4, <2>1, <2>3, <2>4 DEF server, disk
  <2>6. Created'
    BY <1>2, <1>3, <1>4, <2>1, <2>2, <2>4 DEF server, disk
  <2> QED
    BY <2>5, <2>6
<1>10. CASE Received
  BY <1>2, <1>3, <1>4, <1>10 DEF Received, AfterSync, server, ram, disk
<1>11. CASE Persist
  <2>1. snap'.olm = olm
    BY <1>11 DEF Persist
  <2> QED
    BY <1>2, <1>3, <1>4, <1>11, <2>1 DEF Persist, AfterSync, server, ram
<1>12. CASE NewOutbound
  <2>1. snap'.olm = olm
    BY <1>12 DEF NewOutbound
  <2> QED
    BY <1>2, <1>3, <1>4, <1>12, <2>1 DEF NewOutbound, server, ram
<1>13. CASE EnsureUploaded
  BY <1>2, <1>3, <1>4, <1>13 DEF EnsureUploaded, server, ram
<1>14. CASE Wrap
  <2>1. snap'.olm = olm' /\ pc = "idle" /\ pc' = "send"
    BY <1>14 DEF Wrap
  <2>2. CASE olm = <<>>
    <3>1. /\ created + 1 \in OlmIds /\ created' = created + 1
          /\ olm' = Push(olm, created + 1)
      BY <1>14, <1>1, <2>2 DEF Wrap, TypeOK, OlmIds
    <3>2. /\ olm' # <<>> /\ created + 1 \in Held(olm')
          /\ Held(olm') \subseteq Held(olm) \cup {created + 1}
      BY <1>1, <3>1, SessionPushed DEF TypeOK
    <3>3. Held(olm) = {}
      BY <1>2, <2>2
    <3>5. SendFits' /\ SnapKept' /\ OtkOpened' /\ PeerSessionOpen'
      BY <1>2, <1>3, <1>4, <1>14, <2>1, <3>1, <3>2, <3>3 DEF Wrap
    <3>6. Created'
      <4>1. UNCHANGED <<msgs, cur, confirmed, acct, otks>>
        BY <1>14 DEF Wrap
      <4>2. /\ cur <= created'
            /\ \A n \in 1..Len(msgs) : msgs[n].os <= created'
            /\ \A s \in Held(olm') \cup confirmed : s <= created'
        <5>1. /\ cur <= created + 1
              /\ \A n \in 1..Len(msgs) : msgs[n].os <= created + 1
              /\ \A s \in confirmed : s <= created + 1
          BY <1>3, <1>4, <1>3a, <1>3b, Zenon
        <5>2. \A s \in Held(olm') : s = created + 1
          BY <3>2, <3>3
        <5> QED
          BY <1>3b, <3>1, <5>1, <5>2
      <4>3. \A s \in OlmIds : s > created' => s > created
        BY <1>3, <3>1
      <4> QED
        BY <1>4, <2>1, <4>1, <4>2, <4>3
    <3> QED
      BY <3>5, <3>6
  <2>3. CASE olm # <<>>
    BY <1>2, <1>3, <1>4, <1>14, <2>1, <2>3 DEF Wrap
  <2> QED
    BY <2>2, <2>3
<1>15. CASE Deliver
  <2>1. olm[Len(olm)] \in Held(olm)
    BY <1>1, <1>4, <1>15, HeldType DEF Deliver, TypeOK
  <2> QED
    BY <1>2, <1>3, <1>4, <1>15, <2>1 DEF Deliver, ram, disk
<1>16. ASSUME NEW b \in Backup, RefreshBackup(b) PROVE Parts'
  BY <1>2, <1>3, <1>4, <1>16 DEF RefreshBackup, server, disk
<1>17. CASE PeerNew
  <2>1. created + 1 \in OlmIds
    BY <1>1, <1>17 DEF PeerNew, TypeOK, OlmIds
  <2>2. created + 1 \in acct /\ created + 1 \notin confirmed
    BY <1>3, <1>4, <2>1
  <2>3. /\ created' = created + 1 /\ cur' = created + 1
        /\ UNCHANGED <<msgs, confirmed, pc, olm, otks, snap, acct, gone>>
    BY <1>17 DEF PeerNew, ram, disk
  <2>4. Created'
    <3>1. /\ cur' <= created'
          /\ \A n \in 1..Len(msgs) : msgs[n].os <= created'
          /\ \A s \in Held(olm) \cup Held(snap.olm) \cup confirmed :
                s <= created'
      <4>1. /\ \A n \in 1..Len(msgs) : msgs[n].os <= created + 1
            /\ \A s \in Held(olm) \cup Held(snap.olm) \cup confirmed :
                  s \in OlmIds /\ s <= created
        BY <1>2, <1>3, <1>4, <1>3a, <1>3b, Zenon
      <4>2. \A s \in Held(olm) \cup Held(snap.olm) \cup confirmed :
                  s <= created + 1
        BY <1>3b, <4>1
      <4> QED
        BY <1>3b, <2>3, <4>1, <4>2
    <3>2. \A s \in OlmIds : s > created' => s > created
      BY <1>3, <2>3
    <3> QED
      BY <1>4, <2>3, <3>1, <3>2
  <2>5. SendFits' /\ SnapKept' /\ OtkOpened' /\ PeerSessionOpen'
    BY <1>2, <1>4, <2>2, <2>3
  <2> QED
    BY <2>4, <2>5
<1>18. ASSUME NEW k \in Keys \cup {NoKey}, PeerSend(k) PROVE Parts'
  <2>1. /\ Len(msgs') = Len(msgs) + 1
        /\ \A n \in 1..Len(msgs) : msgs'[n] = msgs[n]
        /\ msgs'[Len(msgs')].os = cur
    BY <1>1, <1>18 DEF PeerSend, TypeOK
  <2>2. \A n \in 1..Len(msgs') : msgs'[n].os <= created
    <3> DEFINE k0 == Len(msgs)
               k1 == Len(msgs')
    <3>1. k0 \in Nat /\ k1 = k0 + 1
      BY <1>1, <2>1 DEF TypeOK
    <3> HIDE DEF k0, k1
    <3>2. \A n \in 1..k1 : n \in 1..k0 \/ n = k1
      BY <3>1
    <3> QED
      BY <1>4, <2>1, <3>2 DEF k0, k1
  <2> QED
    BY <1>2, <1>3, <1>4, <1>18, <2>2 DEF PeerSend, ram, disk
<1>19. CASE UNCHANGED vars
  BY <1>2, <1>3, <1>4, <1>19 DEF vars, server, ram, disk
<1> QED
  BY <1>5, <1>6, <1>7, <1>8, <1>9, <1>10, <1>11, <1>12, <1>13, <1>14, <1>15,
     <1>16, <1>17, <1>18, <1>19 DEF Next

-----------------------------------------------------------------------------
(* The room keys.                                                          *)

\* The room keys b are those of a, or more.
AllGrow(a, b) ==
    \A s \in Sids : KeyFits(a[s]) /\ KeyFits(b[s]) /\ Grows(a[s], b[s])

\* A key that leaves its entry as it is leaves them all.
LEMMA ImportSame ==
    \A inb \in [Sids -> Entry], k \in Keys \cup Backup :
        (ImportRoomKey(inb, k) = inb) <=>
            (Merged(inb[k.sid], k, Peer) = inb[k.sid])
<1> TAKE inb \in [Sids -> Entry], k \in Keys \cup Backup
<1>1. k.sid \in Sids /\ Peer \in Names
  BY NameFacts
<1>2. ImportRoomKey(inb, k) =
        [inb EXCEPT ![k.sid] = Merged(inb[k.sid], k, Peer)]
  BY <1>1, InsertMerges DEF ImportRoomKey
<1> QED
  BY <1>1, <1>2

\* What is spent stays spent.
LEMMA SpentLater ==
    \A g, h : \A m \in Msg, a, b \in [Sids -> Entry] :
        AllGrow(a, b) /\ g \subseteq h /\ Spent(m, a, g) => Spent(m, b, h)
<1> SUFFICES ASSUME NEW m \in Msg, NEW a \in [Sids -> Entry],
                    NEW b \in [Sids -> Entry], NEW g, NEW h,
                    AllGrow(a, b), g \subseteq h,
                    m.key # NoKey, m.os \notin g,
                    ImportRoomKey(a, m.key) = a
             PROVE  ImportRoomKey(b, m.key) = b
  BY DEF Spent
<1> DEFINE k == m.key
<1>1. k \in Keys \cup Backup
  BY DEF Msg
<1> HIDE DEF k
<1>2. k.sid \in Sids /\ Peer \in Names
  BY <1>1, NameFacts
<1>3. Merged(a[k.sid], k, Peer) = a[k.sid]
  BY <1>1, ImportSame DEF k
<1>4. /\ a[k.sid] \in Entry /\ b[k.sid] \in Entry
      /\ KeyFits(a[k.sid]) /\ Grows(a[k.sid], b[k.sid])
  BY <1>2 DEF AllGrow
<1>5. Merged(b[k.sid], k, Peer) = b[k.sid]
  BY <1>1, <1>2, <1>3, <1>4, MergedStable
<1> QED
  BY <1>1, <1>5, ImportSame DEF k

\* An imported key is spent.
LEMMA SpentOnImport ==
    \A inb \in [Sids -> Entry], k \in Keys :
        ImportRoomKey(ImportRoomKey(inb, k), k) = ImportRoomKey(inb, k)
<1> TAKE inb \in [Sids -> Entry], k \in Keys
<1> DEFINE f == ImportRoomKey(inb, k)
<1>1. k.sid \in Sids /\ Peer \in Names /\ inb[k.sid] \in Entry
  BY NameFacts
<1>2. f = [inb EXCEPT ![k.sid] = Merged(inb[k.sid], k, Peer)]
      /\ f \in [Sids -> Entry]
  BY <1>1, InsertMerges DEF ImportRoomKey
<1> HIDE DEF f
<1>3. f[k.sid] = Merged(inb[k.sid], k, Peer)
  BY <1>1, <1>2
<1>4. Merged(f[k.sid], k, Peer) = f[k.sid]
  BY <1>1, <1>3, MergedTwice
<1>5. ImportRoomKey(f, k) = f
  BY <1>2, <1>4, ImportSame
<1> QED
  BY <1>5 DEF f

\* An import grows the entries.
LEMMA InsertGrows ==
    ASSUME NEW inb \in [Sids -> Entry], NEW k \in Keys \cup Backup,
           NEW sender \in Names, \A s \in Sids : KeyFits(inb[s])
    PROVE  AllGrow(inb, Insert(inb, k, sender))
<1> DEFINE f == Insert(inb, k, sender)
<1>1. /\ f = [inb EXCEPT ![k.sid] = Merged(inb[k.sid], k, sender)]
      /\ k.sid \in Sids
  BY InsertMerges, NameFacts
<1> HIDE DEF f
<1>2. ASSUME NEW s \in Sids
      PROVE  Grows(inb[s], f[s]) /\ KeyFits(f[s])
  <2>1. CASE s = k.sid
    BY <1>1, <2>1, MergedGrows
  <2>2. CASE s # k.sid
    <3>1. f[s] = inb[s] /\ inb[s] \in Entry
      BY <1>1, <2>2
    <3> QED
      BY <3>1, GrowsOrder
  <2> QED
    BY <2>1, <2>2
<1> QED
  BY <1>2 DEF AllGrow, f

\* Room keys grow from themselves.
LEMMA AllGrowSame ==
    \A inb \in [Sids -> Entry] :
        (\A s \in Sids : KeyFits(inb[s])) => AllGrow(inb, inb)
BY GrowsOrder DEF AllGrow

\* Messages stay where they are, and a session stays lost.
LEMMA MsgsStep ==
    ASSUME TypeOK, [Next]_vars
    PROVE  /\ Len(msgs) <= Len(msgs')
           /\ \A n \in 1..Len(msgs) : msgs[n] \in Msg /\ msgs'[n] = msgs[n]
           /\ gone \subseteq gone'
<1>1. \A n \in 1..Len(msgs) : msgs[n] \in Msg
  BY DEF TypeOK
<1>2. ASSUME NEW k \in Keys \cup {NoKey}, PeerSend(k)
      PROVE  /\ Len(msgs) <= Len(msgs')
             /\ \A n \in 1..Len(msgs) : msgs'[n] = msgs[n]
             /\ gone' = gone
  BY <1>2 DEF PeerSend, TypeOK
<1>3. ~(\E k \in Keys \cup {NoKey} : PeerSend(k)) => msgs' = msgs
  BY DEF Next, vars, server, sync, ram, disk, Enter, Exit, PowerLoss, Unload,
         Sync, Receive, Received, Persist, NewOutbound, EnsureUploaded, Wrap,
         Deliver, RefreshBackup, PeerNew
<1>4. gone \subseteq gone'
  BY DEF Next, vars, server, sync, ram, disk, Enter, Exit, PowerLoss, Unload,
         Sync, Receive, Received, Persist, NewOutbound, EnsureUploaded, Wrap,
         Deliver, RefreshBackup, PeerNew, PeerSend
<1>5. Len(msgs) \in Nat
  BY DEF TypeOK
<1> QED
  BY <1>1, <1>2, <1>3, <1>4, <1>5

\* What is done stays done.
LEMMA DoneStep ==
    ASSUME TypeOK, [Next]_vars
    PROVE  \A n \in 1..Len(msgs), a, b \in [Sids -> Entry] :
              AllGrow(a, b) /\ Done(n, a) => Spent(msgs'[n], b, gone')
BY MsgsStep, SpentLater DEF Done

\* How each step changes the room keys: those of a running plugin grow or stay,
\* those stored become what RAM holds or stay, a stopped plugin has none.
LEMMA InboundMoves ==
    ASSUME TypeOK, EntriesFit, RamGrows, [Next]_vars
    PROVE  /\ \/ pc' = "off" /\ inbound' = NoInbound
              \/ pc = "off" /\ pc' # "off" /\ inbound' = snap.inbound
              \/ pc # "off" /\ pc' # "off" /\ AllGrow(inbound, inbound')
           /\ \/ snap'.inbound = snap.inbound
              \/ pc # "off" /\ snap'.inbound = inbound
                 /\ (inbound' = inbound \/ pc' = "off")
<1>1. inbound \in [Sids -> Entry] /\ \A s \in Sids : KeyFits(inbound[s])
  BY DEF TypeOK, EntriesFit, KeyFits
<1>2. AllGrow(inbound, inbound)
  BY <1>1, AllGrowSame
<1>3. CASE Receive
  <2>1. pc # "off" /\ pc' = pc /\ snap' = snap
    BY <1>3 DEF Receive, disk
  <2>2. \/ inbound' = inbound
        \/ /\ msgs[next].key \in Keys
           /\ inbound' = Insert(inbound, msgs[next].key, Peer)
    BY <1>3, ReceiveAt DEF Receive, ram, ImportRoomKey
  <2>3. AllGrow(inbound, inbound')
    BY <1>1, <1>2, <2>2, NameFacts, InsertGrows
  <2> QED
    BY <2>1, <2>3
<1>4. ASSUME NEW b \in Backup, RefreshBackup(b)
      PROVE  /\ pc # "off" /\ pc' # "off" /\ AllGrow(inbound, inbound')
             /\ snap' = snap
  <2>1. inbound' = Insert(inbound, b, b.sender) /\ b.sender \in Names
    BY <1>4, NameFacts DEF RefreshBackup, ImportBackupSession
  <2>2. AllGrow(inbound, inbound')
    BY <1>1, <2>1, InsertGrows
  <2> QED
    BY <1>4, <2>2 DEF RefreshBackup, disk
<1>5. CASE Enter
  BY <1>5 DEF Enter, disk
<1>6. CASE Exit \/ PowerLoss
  BY <1>6 DEF Exit, PowerLoss, Unload, disk
<1>7. CASE \/ Sync(TRUE) \/ Sync(FALSE) \/ Received \/ Persist \/ NewOutbound
           \/ EnsureUploaded \/ Wrap \/ Deliver
  <2>1. inbound' = inbound /\ pc # "off" /\ pc' # "off"
    BY <1>7 DEF Sync, Received, Persist, NewOutbound, EnsureUploaded, Wrap,
                Deliver, AfterSync, ram
  <2>2. snap'.inbound = snap.inbound \/ snap'.inbound = inbound
    BY <1>7 DEF Sync, Received, Persist, NewOutbound, EnsureUploaded, Wrap,
                Deliver, disk
  <2> QED
    BY <1>2, <2>1, <2>2
<1>8. CASE \/ PeerNew \/ (\E k \in Keys \cup {NoKey} : PeerSend(k))
           \/ UNCHANGED vars
  <2>1. UNCHANGED <<inbound, pc, snap>>
    BY <1>8 DEF PeerNew, PeerSend, vars, ram, disk
  <2> QED
    BY <1>2, <2>1 DEF RamGrows
<1> QED
  BY <1>3, <1>4, <1>5, <1>6, <1>7, <1>8 DEF Next

\* No step makes an entry worse, in RAM or in the snapshot.
LEMMA InboundStep ==
    ASSUME TypeOK, TypeOK', EntriesFit, RamGrows, [Next]_vars
    PROVE  /\ EntriesFit' /\ RamGrows'
           /\ AllGrow(snap.inbound, snap'.inbound)
           /\ pc' # "off" => AllGrow(inbound, inbound')
<1>1. /\ inbound \in [Sids -> Entry] /\ \A s \in Sids : KeyFits(inbound[s])
      /\ snap.inbound \in [Sids -> Entry]
      /\ \A s \in Sids : KeyFits(snap.inbound[s])
      /\ inbound' \in [Sids -> Entry] /\ snap'.inbound \in [Sids -> Entry]
  BY DEF TypeOK, EntriesFit, KeyFits
<1>2. /\ AllGrow(inbound, inbound) /\ AllGrow(snap.inbound, snap.inbound)
      /\ pc # "off" => AllGrow(snap.inbound, inbound)
  BY <1>1, AllGrowSame DEF RamGrows, AllGrow
<1>3. \A s \in Sids : NoInbound[s] = NoEntry
  BY DEF NoInbound
<1>4. /\ \A a, b \in [Sids -> Entry] :
           AllGrow(a, b) => \A s \in Sids : KeyFits(b[s])
      /\ \A a, b, c \in [Sids -> Entry] :
           AllGrow(a, b) /\ AllGrow(b, c) => AllGrow(a, c)
  BY GrowsOrder DEF AllGrow
<1>5. /\ AllGrow(snap.inbound, snap'.inbound)
      /\ pc' # "off" => AllGrow(snap'.inbound, inbound')
      /\ pc' # "off" => AllGrow(inbound, inbound')
  <2>1. CASE pc' = "off"
    BY <1>2, <2>1, InboundMoves
  <2>2. CASE pc = "off" /\ pc' # "off"
    <3>1. inbound' = snap.inbound /\ snap'.inbound = snap.inbound
      BY <2>2, InboundMoves
    <3>2. \A s \in Sids : inbound[s] = NoEntry
      BY <1>3, <2>2 DEF RamGrows
    <3>3. AllGrow(inbound, snap.inbound)
      BY <1>1, <3>2 DEF AllGrow, Grows, KeyFits
    <3> QED
      BY <1>2, <3>1, <3>3
  <2>3. CASE pc # "off" /\ pc' # "off"
    <3>1. /\ AllGrow(inbound, inbound') /\ AllGrow(snap.inbound, inbound)
          /\ \/ snap'.inbound = snap.inbound
             \/ snap'.inbound = inbound /\ inbound' = inbound
      BY <1>2, <2>3, InboundMoves
    <3> QED
      BY <1>1, <1>2, <1>4, <3>1
  <2> QED
    BY <2>1, <2>2, <2>3
<1>6. pc' = "off" => inbound' = NoInbound
  BY InboundMoves
<1>7. EntriesFit'
  <2>1. \A s \in Sids : KeyFits(snap'.inbound[s])
    BY <1>5 DEF AllGrow
  <2>2. \A s \in Sids : KeyFits(inbound'[s])
    BY <1>3, <1>5, <1>6 DEF AllGrow, KeyFits
  <2> QED
    BY <2>1, <2>2 DEF EntriesFit, KeyFits
<1>8. RamGrows'
  BY <1>5, <1>6 DEF RamGrows, AllGrow
<1> QED
  BY <1>5, <1>7, <1>8

\* The stored keys cover what is acknowledged: AckedKeysStored, as the other
\* parts say it.
LEMMA AckedDone ==
    AckedKeysStored <=> \A n \in 1..acked : Done(n, snap.inbound)
BY DEF AckedKeysStored, Done, Spent

\* The room keys at the start.
LEMMA KeysInit == Init => KeysInv
<1> SUFFICES ASSUME Init PROVE KeysInv
  OBVIOUS
<1>1. 1..acked = {} /\ 1..Len(msgs) = {}
  BY EmptyType DEF Init
<1>2. snap.read = {} /\ snap.inbound = NoInbound /\ inbound = NoInbound
      /\ read = {}
  BY DEF Init
<1>3. EntriesFit
  BY <1>2 DEF EntriesFit, NoInbound
<1>4. RamIsSnap /\ TokenFits /\ LookedAt /\ RamGrows
  BY <1>2 DEF Init, RamIsSnap, TokenFits, LookedAt, RamGrows
<1>5. ReadDone /\ PreKeys /\ AckedKeysStored
  BY <1>1, <1>2 DEF ReadDone, PreKeys, AckedKeysStored
<1> QED
  BY <1>3, <1>4, <1>5 DEF KeysInv

\* The message Receive looks at is done after it: its key is imported, or it
\* was read before, or its session is lost.
LEMMA ReceiveDone ==
    ASSUME SessionInv, KeysInv, Receive
    PROVE  Spent(msgs[next], inbound', gone')
<1> DEFINE m == msgs[next]
<1>1. /\ m \in Msg /\ m.os \in OlmIds /\ m.key \in Keys \cup {NoKey}
      /\ next \in 1..Len(msgs) /\ pc = "recv"
  BY ReceiveAt DEF Receive, SessionInv
<1>2. gone \subseteq gone' /\ inbound \in [Sids -> Entry]
  BY DEF Receive, SessionInv, TypeOK
<1> HIDE DEF m
<1>3. CASE OlmOpens(m, next) \/ OlmDecrypts(m, next)
  <2>1. inbound' = IF m.key = NoKey THEN inbound
                   ELSE ImportRoomKey(inbound, m.key)
    BY <1>3 DEF Receive, m
  <2>2. m.key = NoKey \/ ImportRoomKey(inbound', m.key) = inbound'
    BY <1>1, <1>2, <2>1, SpentOnImport
  <2> QED
    BY <2>2 DEF Spent, m
<1>4. CASE ~OlmOpens(m, next) /\ ~OlmDecrypts(m, next)
  <2>1. inbound' = inbound
    BY <1>4 DEF Receive, m, ram
  <2>2. CASE next \in read
    <3>1. Done(next, inbound)
      BY <2>2 DEF KeysInv, ReadDone
    <3> QED
      BY <1>2, <2>1, <3>1 DEF Done, Spent
  <2>3. CASE next \notin read
    <3>1. m.os \notin Held(olm) /\ (~m.pre \/ m.os \notin otks)
      BY <1>4, <2>3 DEF OlmOpens, OlmDecrypts
    <3>2. CASE ~m.pre
      <4>1. m.os \in confirmed
        BY <1>1, <3>2 DEF KeysInv, PreKeys, m
      <4> QED
        BY <1>1, <1>2, <3>1, <4>1 DEF SessionInv, SnapKept, Spent, m
    <3>3. CASE m.os \notin otks
      BY <1>1, <1>2, <3>1, <3>3 DEF SessionInv, OtkOpened, Spent, m
    <3> QED
      BY <3>1, <3>2, <3>3
  <2> QED
    BY <2>2, <2>3
<1> QED
  BY <1>3, <1>4

\* The steps that leave the messages the badge is ahead of where they are.
LEMMA TokenStep ==
    ASSUME SessionInv, KeysInv, [Next]_vars
    PROVE  TokenFits' /\ PreKeys' /\ RamIsSnap'
<1>1. /\ TypeOK /\ acked \in Nat /\ token \in Nat /\ Len(msgs) \in Nat
      /\ acked <= Len(msgs) /\ token <= Len(msgs)
  BY DEF SessionInv, TypeOK
<1>2. TokenFits'
  BY <1>1 DEF KeysInv, TokenFits, Next, vars, server, sync, Enter, Exit,
              PowerLoss, Unload, Sync, Receive, Received, Persist, NewOutbound,
              EnsureUploaded, Wrap, Deliver, RefreshBackup, PeerNew, PeerSend
<1>3. RamIsSnap'
  <2>1. CASE Receive
    <3>1. /\ pc = "recv" /\ pc' = pc /\ snap' = snap
          /\ ~got' => ~got /\ inbound' = inbound
      BY <2>1 DEF Receive, ram, disk
    <3> QED
      BY <3>1 DEF KeysInv, RamIsSnap
  <2>2. CASE Persist \/ NewOutbound \/ Wrap
    <3>1. snap'.inbound = inbound /\ inbound' = inbound
      BY <2>2 DEF Persist, NewOutbound, Wrap, ram
    <3> QED
      BY <3>1 DEF RamIsSnap
  <2>3. CASE \/ Exit \/ PowerLoss \/ (\E b \in Backup : RefreshBackup(b))
    BY <2>3 DEF RamIsSnap, Exit, PowerLoss, Unload, RefreshBackup
  <2>4. CASE Enter
    BY <2>4 DEF RamIsSnap, Enter, disk
  <2>5. CASE \/ Sync(TRUE) \/ Sync(FALSE) \/ Received \/ EnsureUploaded
             \/ Deliver \/ PeerNew \/ UNCHANGED vars
             \/ (\E k \in Keys \cup {NoKey} : PeerSend(k))
    <3>1. snap' = snap /\ inbound' = inbound
      BY <2>5 DEF Sync, Received, EnsureUploaded, Deliver, PeerNew, PeerSend,
                  vars, ram, disk
    <3>2. (pc' \in {"idle", "upload", "send"} \/ (pc' = "recv" /\ ~got')) =>
             (pc \in {"idle", "upload", "send"} \/ (pc = "recv" /\ ~got))
      BY <2>5 DEF Sync, Received, EnsureUploaded, Deliver, PeerNew, PeerSend,
                  vars, sync, AfterSync
    <3> QED
      BY <3>1, <3>2 DEF KeysInv, RamIsSnap
  <2> QED
    BY <2>1, <2>2, <2>3, <2>4, <2>5 DEF Next
<1>4. PreKeys'
  <2>1. confirmed \subseteq confirmed'
    BY DEF Next, vars, server, Enter, Exit, PowerLoss, Unload, Sync, Receive,
           Received, Persist, NewOutbound, EnsureUploaded, Wrap, Deliver,
           RefreshBackup, PeerNew, PeerSend
  <2>2. ASSUME NEW k \in Keys \cup {NoKey}, PeerSend(k) PROVE PreKeys'
    <3>1. /\ Len(msgs') = Len(msgs) + 1
          /\ \A n \in 1..Len(msgs) : msgs'[n] = msgs[n]
          /\ msgs'[Len(msgs')].os = cur
          /\ msgs'[Len(msgs')].pre = (cur \notin confirmed)
      BY <1>1, <2>2 DEF PeerSend, TypeOK
    <3>2. \A n \in 1..Len(msgs') : n \in 1..Len(msgs) \/ n = Len(msgs')
      BY <1>1, <3>1
    <3>3. \A n \in 1..Len(msgs) : msgs[n].pre \/ msgs[n].os \in confirmed'
      BY <2>1 DEF KeysInv, PreKeys
    <3>4. msgs'[Len(msgs')].pre \/ msgs'[Len(msgs')].os \in confirmed'
      BY <2>1, <3>1
    <3> QED
      BY <3>1, <3>2, <3>3, <3>4 DEF PreKeys
  <2>3. ASSUME ~(\E k \in Keys \cup {NoKey} : PeerSend(k)) PROVE PreKeys'
    <3>1. msgs' = msgs
      BY <2>3 DEF Next, vars, server, Enter, Exit, PowerLoss, Unload, Sync,
                  Receive, Received, Persist, NewOutbound, EnsureUploaded,
                  Wrap, Deliver, RefreshBackup, PeerNew
    <3> QED
      BY <2>1, <3>1 DEF KeysInv, PreKeys
  <2> QED
    BY <2>2, <2>3
<1> QED
  BY <1>2, <1>3, <1>4

\* What the running sync has looked at stays done.
LEMMA LookedStep ==
    ASSUME SessionInv, SessionInv', KeysInv, [Next]_vars
    PROVE  LookedAt'
<1>1. /\ TypeOK /\ acked \in Nat /\ token \in Nat /\ Len(msgs) \in Nat
      /\ next \in Nat /\ acked <= Len(msgs) /\ token <= Len(msgs)
      /\ next <= Len(msgs) + 1
      /\ inbound \in [Sids -> Entry] /\ inbound' \in [Sids -> Entry]
      /\ snap.inbound \in [Sids -> Entry]
  <2>1. TypeOK /\ TypeOK'
    BY Zenon DEF SessionInv
  <2>2. /\ msgs \in Seq(Msg) /\ acked \in 0..Len(msgs) /\ token \in 0..Len(msgs)
        /\ next \in 1..(Len(msgs) + 1)
        /\ inbound \in [Sids -> Entry] /\ inbound' \in [Sids -> Entry]
        /\ snap.inbound \in [Sids -> Entry]
    BY <2>1, Zenon DEF TypeOK
  <2> QED
    BY <2>1, <2>2
<1>2. pc' # "off" => AllGrow(inbound, inbound')
  BY InboundStep DEF SessionInv, KeysInv
<1>3. pc' # "off" =>
        \A n \in 1..Len(msgs) :
            Done(n, inbound) => Spent(msgs'[n], inbound', gone')
  BY <1>1, <1>2, DoneStep
<1>4. \A n \in 1..acked : n \in 1..Len(msgs)
  BY <1>1
<1>5. \A n \in 1..token : n \in 1..Len(msgs)
  BY <1>1
<1>6. \A n \in 1..(next - 1) : n \in 1..Len(msgs)
  BY <1>1
<1>7. CASE Enter
  <2>1. /\ inbound' = snap.inbound /\ next' - 1 = acked /\ pc' = "recv"
        /\ msgs' = msgs /\ gone' = gone
    BY <1>1, <1>7 DEF Enter, server
  <2>2. \A n \in 1..acked : Done(n, snap.inbound)
    BY AckedDone DEF KeysInv
  <2> QED
    BY <2>1, <2>2 DEF LookedAt, Done
<1>8. CASE Sync(TRUE) \/ Sync(FALSE)
  <2>1. /\ pc = "idle" /\ pc' = "recv"
        /\ next' - 1 = acked \/ next' - 1 = token
    BY <1>1, <1>8 DEF Sync
  <2>2. \A n \in 1..token : Done(n, inbound)
    BY <2>1 DEF KeysInv, LookedAt
  <2>3. \A n \in 1..(next' - 1) : n \in 1..token
    BY <1>1, <2>1 DEF KeysInv, TokenFits
  <2>4. \A n \in 1..(next' - 1) : Spent(msgs'[n], inbound', gone')
    BY <1>3, <1>5, <2>1, <2>2, <2>3
  <2> QED
    BY <2>1, <2>4 DEF LookedAt, Done
<1>9. CASE Receive
  <2>1. /\ pc = "recv" /\ pc' = "recv" /\ next' = next + 1 /\ msgs' = msgs
    BY <1>9 DEF Receive, server
  <2>2. Spent(msgs'[next], inbound', gone')
    BY <1>9, <2>1, ReceiveDone
  <2>3. \A n \in 1..(next - 1) : Spent(msgs'[n], inbound', gone')
    BY <1>3, <1>6, <2>1 DEF KeysInv, LookedAt
  <2>4. \A n \in 1..(next' - 1) : n \in 1..(next - 1) \/ n = next
    BY <1>1, <2>1
  <2>5. \A n \in 1..(next' - 1) : Spent(msgs'[n], inbound', gone')
    BY <2>2, <2>3, <2>4
  <2> QED
    BY <2>1, <2>5 DEF LookedAt, Done
<1>10. CASE Received
  <2>1. /\ pc = "recv" /\ next > token /\ token' = token
        /\ pc' \in {"idle", "persist", "upload"}
    BY <1>10 DEF Received, AfterSync
  <2>2. \A n \in 1..token : n \in 1..(next - 1)
    BY <1>1, <2>1
  <2>3. \A n \in 1..token : Spent(msgs'[n], inbound', gone')
    BY <1>3, <1>5, <2>1, <2>2 DEF KeysInv, LookedAt
  <2> QED
    BY <2>1, <2>3 DEF LookedAt, Done
<1>11. CASE Exit \/ PowerLoss
  BY <1>11 DEF Exit, PowerLoss, Unload, LookedAt
<1>12. CASE \/ Persist \/ NewOutbound \/ EnsureUploaded \/ Wrap \/ Deliver
            \/ (\E b \in Backup : RefreshBackup(b))
  <2>1. /\ pc \in {"idle", "persist", "upload", "send"}
        /\ pc' \in {"idle", "persist", "upload", "send"} /\ token' = token
    BY <1>12 DEF Persist, NewOutbound, EnsureUploaded, Wrap, Deliver,
                 RefreshBackup, AfterSync, sync
  <2>2. \A n \in 1..token : Spent(msgs'[n], inbound', gone')
    BY <1>3, <1>5, <2>1 DEF KeysInv, LookedAt
  <2> QED
    BY <2>1, <2>2 DEF LookedAt, Done
<1>13. CASE \/ PeerNew \/ (\E k \in Keys \cup {NoKey} : PeerSend(k))
            \/ UNCHANGED vars
  <2>1. UNCHANGED <<pc, token, next>>
    BY <1>13 DEF PeerNew, PeerSend, vars, sync
  <2>2. pc' # "off" /\ (\A n \in 1..token : Done(n, inbound)) =>
           \A n \in 1..token : Spent(msgs'[n], inbound', gone')
    BY <1>3, <1>5
  <2>3. pc' # "off" /\ (\A n \in 1..(next - 1) : Done(n, inbound)) =>
           \A n \in 1..(next - 1) : Spent(msgs'[n], inbound', gone')
    BY <1>3, <1>6
  <2> QED
    BY <2>1, <2>2, <2>3 DEF LookedAt, Done, KeysInv
<1> QED
  BY <1>7, <1>8, <1>9, <1>10, <1>11, <1>12, <1>13 DEF Next

\* What has been read has left its key.
LEMMA ReadStep ==
    ASSUME SessionInv, SessionInv', KeysInv, [Next]_vars
    PROVE  ReadDone'
<1>1. /\ TypeOK /\ Len(msgs) \in Nat /\ Len(msgs') \in Nat
      /\ read \subseteq Nat \ {0} /\ snap.read \subseteq Nat \ {0}
  <2>1. TypeOK /\ TypeOK'
    BY DEF SessionInv
  <2>2. Len(msgs') \in Nat
    BY <2>1 DEF TypeOK
  <2> QED
    BY <2>1, <2>2, Positions
<1>1a. /\ inbound \in [Sids -> Entry] /\ inbound' \in [Sids -> Entry]
       /\ snap.inbound \in [Sids -> Entry]
       /\ snap'.inbound \in [Sids -> Entry]
       /\ AllGrow(snap.inbound, snap.inbound) /\ AllGrow(inbound, inbound)
  <2>1. /\ inbound \in [Sids -> Entry] /\ inbound' \in [Sids -> Entry]
        /\ snap.inbound \in [Sids -> Entry]
        /\ snap'.inbound \in [Sids -> Entry]
    BY DEF SessionInv, TypeOK
  <2>2. \A s \in Sids : KeyFits(inbound[s]) /\ KeyFits(snap.inbound[s])
    BY DEF KeysInv, EntriesFit, KeyFits
  <2> QED
    BY <2>1, <2>2, AllGrowSame
<1>2. Len(msgs) <= Len(msgs')
  BY <1>1, MsgsStep
<1>3. /\ \A n \in read : n \in 1..Len(msgs) /\ Done(n, inbound)
      /\ \A n \in snap.read : n \in 1..Len(msgs) /\ Done(n, snap.inbound)
  <2>1. \A n \in Nat \ {0} : n <= Len(msgs) => n \in 1..Len(msgs)
    BY <1>1
  <2> QED
    BY <1>1, <2>1 DEF KeysInv, ReadDone
<1>4. \A n \in 1..Len(msgs), a, b \in [Sids -> Entry] :
        AllGrow(a, b) /\ Done(n, a) => Spent(msgs'[n], b, gone')
  BY <1>1, DoneStep
<1>5. /\ AllGrow(snap.inbound, snap'.inbound)
      /\ pc' # "off" => AllGrow(inbound, inbound')
  BY InboundStep DEF SessionInv, KeysInv
<1>6. \A n \in 1..Len(msgs) : n <= Len(msgs')
  BY <1>1, <1>2
<1>7. \A n \in read' : n <= Len(msgs') /\ Spent(msgs'[n], inbound', gone')
  <2>1. CASE read' = {}
    BY <2>1
  <2>2. CASE Enter
    <3>1. read' = snap.read /\ inbound' = snap.inbound
      BY <2>2 DEF Enter
    <3> QED
      BY <1>1, <1>1a, <1>3, <1>4, <1>6, <3>1
  <2>3. CASE read' = read /\ pc' # "off"
    BY <1>1, <1>1a, <1>3, <1>4, <1>5, <1>6, <2>3
  <2>4. CASE Receive
    <3>1. /\ read' \subseteq read \cup {next} /\ pc' # "off"
          /\ next \in 1..Len(msgs) /\ msgs' = msgs
      BY <1>1, <2>4, ReceiveAt DEF Receive, ram, server
    <3>2. Spent(msgs'[next], inbound', gone')
      BY <2>4, <3>1, ReceiveDone
    <3> QED
      BY <1>1, <1>1a, <1>3, <1>4, <1>5, <1>6, <3>1, <3>2
  <2>5. \/ read' = {} \/ Enter \/ Receive
        \/ read' = read /\ pc' # "off"
        \/ read' = read /\ inbound' = inbound
    BY DEF Next, vars, ram, Exit, PowerLoss, Unload, Sync, Received, Persist,
           NewOutbound, EnsureUploaded, Wrap, Deliver, RefreshBackup, PeerNew,
           PeerSend, AfterSync
  <2>6. CASE read' = read /\ inbound' = inbound
    BY <1>1, <1>1a, <1>3, <1>4, <1>6, <2>6
  <2> QED
    BY <2>1, <2>2, <2>3, <2>4, <2>5, <2>6
<1>8. \A n \in snap'.read :
        n <= Len(msgs') /\ Spent(msgs'[n], snap'.inbound, gone')
  <2>1. \/ snap' = snap
        \/ snap'.read = read /\ snap'.inbound = inbound
    <3>1. Exit \/ Persist \/ NewOutbound \/ Wrap \/ snap' = snap
      BY DEF Next, vars, disk, Enter, PowerLoss, Sync, Receive, Received,
             EnsureUploaded, Deliver, RefreshBackup, PeerNew, PeerSend
    <3>2. ASSUME Exit \/ Persist \/ NewOutbound \/ Wrap
          PROVE  snap'.read = read /\ snap'.inbound = inbound
      BY <3>2 DEF Exit, Persist, NewOutbound, Wrap
    <3> QED
      BY <3>1, <3>2
  <2> QED
    BY <1>1, <1>1a, <1>3, <1>4, <1>6, <2>1
<1> QED
  BY <1>7, <1>8 DEF ReadDone, Done

\* What the server deletes is stored.
LEMMA AckedStep ==
    ASSUME SessionInv, SessionInv', KeysInv, [Next]_vars
    PROVE  AckedKeysStored'
<1>1. /\ TypeOK /\ acked \in Nat /\ token \in Nat /\ Len(msgs) \in Nat
      /\ acked <= Len(msgs) /\ token <= Len(msgs)
  BY Positions DEF SessionInv
<1>1a. snap.inbound \in [Sids -> Entry] /\ snap'.inbound \in [Sids -> Entry]
  BY DEF SessionInv, TypeOK
<1>2. AllGrow(snap.inbound, snap'.inbound)
  BY InboundStep DEF SessionInv, KeysInv
<1>3. \A n \in 1..Len(msgs) :
        Done(n, snap.inbound) => Spent(msgs'[n], snap'.inbound, gone')
  BY <1>1, <1>1a, <1>2, DoneStep
<1>4. \A n \in 1..acked : n \in 1..Len(msgs) /\ Done(n, snap.inbound)
  BY <1>1, AckedDone DEF KeysInv
<1>5. CASE Sync(FALSE)
  <2>1. acked' = token /\ pc = "idle"
    BY <1>5 DEF Sync
  <2>2. \A n \in 1..token : n \in 1..Len(msgs) /\ Done(n, snap.inbound)
    BY <1>1, <2>1 DEF KeysInv, LookedAt, RamIsSnap
  <2>3. \A n \in 1..acked' : Spent(msgs'[n], snap'.inbound, gone')
    BY <1>3, <2>1, <2>2
  <2> QED
    BY <2>3 DEF AckedKeysStored, Spent
<1>6. ASSUME ~Sync(FALSE) PROVE AckedKeysStored'
  <2>1. acked' = acked
    BY <1>6 DEF Next, vars, server, Enter, Exit, PowerLoss, Unload, Sync,
                Receive, Received, Persist, NewOutbound, EnsureUploaded, Wrap,
                Deliver, RefreshBackup, PeerNew, PeerSend
  <2>2. \A n \in 1..acked' : Spent(msgs'[n], snap'.inbound, gone')
    BY <1>3, <1>4, <2>1
  <2> QED
    BY <2>2 DEF AckedKeysStored, Spent
<1> QED
  BY <1>5, <1>6

-----------------------------------------------------------------------------
(* The theorems.                                                           *)

\* The induction.
LEMMA Induction == Spec => []IInv
<1>1. Init => IInv
  BY SessionInit, KeysInit DEF IInv
<1>2. IInv /\ [Next]_vars => IInv'
  <2> SUFFICES ASSUME IInv, [Next]_vars PROVE IInv'
    OBVIOUS
  <2>1. SessionInv /\ SessionInv' /\ KeysInv
    BY SessionStep DEF IInv
  <2>2. EntriesFit' /\ RamGrows'
    BY <2>1, InboundStep DEF SessionInv, KeysInv
  <2> QED
    BY <2>1, <2>2, TokenStep, LookedStep, ReadStep, AckedStep
       DEF IInv, KeysInv
<1> QED
  BY <1>1, <1>2, PTL DEF Spec

\* The variables keep their types, and the list of a peer's sessions its cap
\* (MAX_OLM_SESSIONS_PER_PEER), in RAM and in the snapshot.
THEOREM TypeCorrect == Spec => []TypeOK
BY Induction, PTL DEF IInv, SessionInv

\* Wherever the power fails, the session the peer sends on is one the badge
\* has, can restore or can open: process_distribution writes the snapshot
\* before the message that makes the peer use a session.
THEOREM PeerCanReach == Spec => []PeerSessionOpen
BY Induction, PTL DEF IInv, SessionInv

\* Wherever the power fails, a key whose to-device message the server has
\* deleted is in the snapshot (sync_now persists before the next sync names
\* the token), unless its session was evicted or lost.
THEOREM DeletedKeysAreStored == Spec => []AckedKeysStored
BY Induction, PTL DEF IInv, KeysInv

\* No import, restart or snapshot takes away what the badge could decrypt
\* (insert_inbound).
THEOREM NothingBecomesUnreadable == Spec => StaysReadable
<1> DEFINE Step == \A s \in Sids :
                     /\ pc' # "off" => Keeps(inbound[s], inbound'[s])
                     /\ Keeps(snap.inbound[s], snap'.inbound[s])
<1>1. IInv /\ [Next]_vars => [Step]_vars
  <2> SUFFICES ASSUME IInv, [Next]_vars PROVE Step
    OBVIOUS
  <2>1. /\ inbound \in [Sids -> Entry] /\ inbound' \in [Sids -> Entry]
        /\ snap.inbound \in [Sids -> Entry] /\ snap'.inbound \in [Sids -> Entry]
    BY SessionStep DEF IInv, SessionInv, TypeOK
  <2>2. /\ AllGrow(snap.inbound, snap'.inbound)
        /\ pc' # "off" => AllGrow(inbound, inbound')
    BY SessionStep, InboundStep DEF IInv, SessionInv, KeysInv
  <2>3. \A a, b \in [Sids -> Entry] :
          AllGrow(a, b) => \A s \in Sids : Keeps(a[s], b[s])
    BY GrowsKeeps DEF AllGrow
  <2> QED
    BY <2>1, <2>2, <2>3
<1> QED
  BY <1>1, Induction, PTL DEF Spec, StaysReadable

-----------------------------------------------------------------------------
(* The parts of the application.                                           *)

\* A step of the application is a step of each part, or leaves it alone.
LEMMA StepOfEach ==
    ASSUME [AppNext]_appVars
    PROVE  CH!Next \/ UNCHANGED ch
BY Zenon DEF AppNext, appVars

-----------------------------------------------------------------------------
(* The chat: sequences of messages.                                        *)

Ordered(ms) == \A i, j \in DOMAIN ms : i < j => ms[i] < ms[j]

\* The messages from a to b.
LEMMA RunFacts ==
    \A a, b \in Int : a > 0 =>
        /\ CH!Run(a, b) \in Seq(Nat)
        /\ b < a => CH!Run(a, b) = <<>>
        /\ b >= a => Len(CH!Run(a, b)) = b - a + 1
        /\ \A n \in DOMAIN CH!Run(a, b) : CH!Run(a, b)[n] = a + n - 1
<1> SUFFICES ASSUME NEW a \in Int, NEW b \in Int, a > 0
             PROVE  /\ CH!Run(a, b) \in Seq(Nat)
                    /\ b < a => CH!Run(a, b) = <<>>
                    /\ b >= a => Len(CH!Run(a, b)) = b - a + 1
                    /\ \A n \in DOMAIN CH!Run(a, b) : CH!Run(a, b)[n] = a + n - 1
  OBVIOUS
<1> DEFINE L == CH!Greater(b - a + 1, 0)
<1>1. L \in Nat /\ (b < a => L = 0) /\ (b >= a => L = b - a + 1)
  BY DEF CH!Greater
<1>2. CH!Run(a, b) = [n \in 1..L |-> a + n - 1]
  BY DEF CH!Run
<1> HIDE DEF L
<1>3. \A n \in 1..L : a + n - 1 \in Nat
  BY <1>1
<1>4. CH!Run(a, b) \in Seq(Nat) /\ Len(CH!Run(a, b)) = L /\ DOMAIN CH!Run(a, b) = 1..L
  BY <1>1, <1>2, <1>3
<1> QED
  BY <1>1, <1>2, <1>4

\* They are in order, and the last is b.
LEMMA RunOrdered ==
    \A a, b \in Int : a > 0 =>
        /\ Ordered(CH!Run(a, b))
        /\ CH!Run(a, b) # <<>> => CH!Newest(CH!Run(a, b)) = b /\ CH!Run(a, b)[1] = a
        /\ b \in Nat => CH!Newest(CH!Run(a, b)) <= b
<1> SUFFICES ASSUME NEW a \in Int, NEW b \in Int, a > 0
             PROVE  /\ Ordered(CH!Run(a, b))
                    /\ CH!Run(a, b) # <<>> =>
                          CH!Newest(CH!Run(a, b)) = b /\ CH!Run(a, b)[1] = a
                    /\ b \in Nat => CH!Newest(CH!Run(a, b)) <= b
  OBVIOUS
<1> DEFINE r == CH!Run(a, b)
<1>1. /\ r \in Seq(Nat) /\ (b < a => r = <<>>) /\ (b >= a => Len(r) = b - a + 1)
      /\ \A n \in DOMAIN r : r[n] = a + n - 1
  BY RunFacts
<1> HIDE DEF r
<1>2. Ordered(r)
  BY <1>1 DEF Ordered
<1>3. r # <<>> => CH!Newest(r) = b /\ r[1] = a
  BY <1>1 DEF CH!Newest
<1>4. b \in Nat => CH!Newest(r) <= b
  BY <1>1, <1>3 DEF CH!Newest
<1> QED
  BY <1>2, <1>3, <1>4 DEF r

\* push_messages keeps the newest RETAIN messages.
LEMMA PushFacts ==
    \A buf, inc \in Seq(Nat) :
        /\ CH!PushMessages(buf, inc) \in Seq(Nat)
        /\ Len(CH!PushMessages(buf, inc)) <= Retain
        /\ Len(CH!PushMessages(buf, inc)) < Retain =>
              CH!PushMessages(buf, inc) = buf \o inc
        /\ inc = <<>> /\ Len(buf) <= Retain => CH!PushMessages(buf, inc) = buf
        /\ inc # <<>> => CH!Newest(CH!PushMessages(buf, inc)) = CH!Newest(inc)
<1> SUFFICES ASSUME NEW buf \in Seq(Nat), NEW inc \in Seq(Nat)
             PROVE  /\ CH!PushMessages(buf, inc) \in Seq(Nat)
                    /\ Len(CH!PushMessages(buf, inc)) <= Retain
                    /\ Len(CH!PushMessages(buf, inc)) < Retain =>
                          CH!PushMessages(buf, inc) = buf \o inc
                    /\ inc = <<>> /\ Len(buf) <= Retain => CH!PushMessages(buf, inc) = buf
                    /\ inc # <<>> => CH!Newest(CH!PushMessages(buf, inc)) = CH!Newest(inc)
  OBVIOUS
<1> DEFINE all == buf \o inc
           d == CH!Greater(Len(all) - Retain, 0)
           p == SubSeq(all, d + 1, Len(all))
<1>1. CH!PushMessages(buf, inc) = p
  BY DEF CH!PushMessages
<1>2. all \in Seq(Nat) /\ Len(all) = Len(buf) + Len(inc)
  OBVIOUS
<1>3. /\ d \in Nat /\ d <= Len(all) /\ Len(all) - d <= Retain
      /\ d = 0 \/ Len(all) - d = Retain
  BY <1>2, ChatAssumption DEF CH!Greater
<1>4. inc # <<>> => all[Len(all)] = inc[Len(inc)] /\ Len(all) > 0
  OBVIOUS
<1>5. inc = <<>> => all = buf
  OBVIOUS
<1> HIDE DEF all, d
<1>6. p \in Seq(Nat) /\ Len(p) = Len(all) - d /\ \A i \in 1..Len(all) - d : p[i] = all[i + d]
  BY <1>2, <1>3
<1>7. d = 0 => p = all
  BY <1>2, <1>6
<1>8. inc # <<>> => p[Len(p)] = inc[Len(inc)] /\ Len(p) > 0
  <2> SUFFICES ASSUME inc # <<>> PROVE p[Len(p)] = inc[Len(inc)] /\ Len(p) > 0
    OBVIOUS
  <2>1. Len(all) \in Nat /\ Len(all) > 0 /\ Len(all) - d > 0
    BY <1>2, <1>3, <1>4, ChatAssumption
  <2>2. Len(all) - d \in 1..Len(all) - d /\ (Len(all) - d) + d = Len(all)
    BY <1>3, <2>1
  <2>3. p[Len(all) - d] = all[Len(all)]
    BY <1>6, <2>2
  <2> HIDE DEF p
  <2> QED
    BY <1>4, <1>6, <2>1, <2>3
<1>9. inc = <<>> /\ Len(buf) <= Retain => d = 0 /\ all = buf
  <2> SUFFICES ASSUME inc = <<>>, Len(buf) <= Retain PROVE d = 0 /\ all = buf
    OBVIOUS
  <2>1. Len(buf) \in Nat /\ Len(all) = Len(buf) /\ all = buf
    BY <1>5
  <2>2. ~(Len(all) - Retain > 0)
    BY <2>1, ChatAssumption
  <2> QED
    BY <2>1, <2>2 DEF CH!Greater, d
<1>10. Len(p) < Retain => p = all
  BY <1>3, <1>6, <1>7, ChatAssumption
<1> HIDE DEF p
<1>11. inc # <<>> => CH!Newest(p) = CH!Newest(inc)
  BY <1>6, <1>8 DEF CH!Newest
<1> QED
  BY <1>1, <1>3, <1>6, <1>7, <1>9, <1>10, <1>11, ChatAssumption DEF all

\* What it keeps stays in order, when what is new comes after what is there.
LEMMA PushOrdered ==
    \A buf, inc \in Seq(Nat) :
        /\ Ordered(buf) /\ Ordered(inc)
        /\ inc # <<>> => CH!Newest(buf) < inc[1]
        => Ordered(CH!PushMessages(buf, inc))
<1> SUFFICES ASSUME NEW buf \in Seq(Nat), NEW inc \in Seq(Nat), Ordered(buf), Ordered(inc),
                    inc # <<>> => CH!Newest(buf) < inc[1]
             PROVE  Ordered(CH!PushMessages(buf, inc))
  OBVIOUS
<1> DEFINE all == buf \o inc
           d == CH!Greater(Len(all) - Retain, 0)
           p == SubSeq(all, d + 1, Len(all))
<1>1. CH!PushMessages(buf, inc) = p
  BY DEF CH!PushMessages
<1>2. /\ all \in Seq(Nat) /\ Len(all) = Len(buf) + Len(inc)
      /\ \A i \in 1..Len(buf) : all[i] = buf[i]
      /\ \A i \in 1..Len(inc) : all[i + Len(buf)] = inc[i]
  OBVIOUS
<1> HIDE DEF all
<1>3. ASSUME NEW i \in 1..Len(all), NEW j \in 1..Len(all), i < j PROVE all[i] < all[j]
  <2> DEFINE m == Len(buf)
             k == Len(inc)
  <2>0. m \in Nat /\ k \in Nat /\ Len(all) = m + k /\ DOMAIN buf = 1..m /\ DOMAIN inc = 1..k
        /\ i \in Int /\ j \in Int
    <3>1. m \in Nat /\ DOMAIN buf = 1..m
      OBVIOUS
    <3>2. k \in Nat /\ DOMAIN inc = 1..k
      OBVIOUS
    <3>3. i \in Int /\ j \in Int
      BY <1>3
    <3> QED
      BY <1>2, <3>1, <3>2, <3>3
  <2>1. CASE j <= Len(buf)
    <3>1. i \in DOMAIN buf /\ j \in DOMAIN buf
      BY <1>3, <2>0, <2>1
    <3>2. all[i] = buf[i] /\ all[j] = buf[j]
      BY <1>2, <2>0, <3>1
    <3> QED
      BY <1>3, <3>1, <3>2 DEF Ordered
  <2>2. CASE i > Len(buf)
    <3>1. i - Len(buf) \in DOMAIN inc /\ j - Len(buf) \in DOMAIN inc
      BY <1>3, <2>0, <2>2
    <3>2. /\ all[i] = inc[i - Len(buf)] /\ all[j] = inc[j - Len(buf)]
          /\ i - Len(buf) < j - Len(buf)
      <4>1. (i - m) + m = i /\ (j - m) + m = j /\ i - m < j - m
        BY <1>3, <2>0
      <4> QED
        BY <1>2, <2>0, <3>1, <4>1
    <3> QED
      BY <3>1, <3>2 DEF Ordered
  <2>3. CASE i <= Len(buf) /\ j > Len(buf)
    <3>1. i \in DOMAIN buf /\ j - Len(buf) \in DOMAIN inc /\ Len(buf) \in DOMAIN buf
      BY <1>3, <2>0, <2>3
    <3>2. all[i] = buf[i] /\ all[j] = inc[j - Len(buf)] /\ inc # <<>> /\ buf # <<>>
      <4>1. (j - m) + m = j
        BY <2>0
      <4>2. all[(j - m) + m] = inc[j - m] /\ all[i] = buf[i]
        BY <1>2, <2>0, <3>1
      <4>3. inc # <<>> /\ buf # <<>>
        BY <2>0, <3>1
      <4> QED
        BY <4>1, <4>2, <4>3
    <3>3. Len(buf) \in DOMAIN buf /\ 1 \in DOMAIN inc
      BY <2>0, <3>1
    <3>4. /\ \A x \in DOMAIN buf : buf[x] \in Nat
          /\ \A x \in DOMAIN inc : inc[x] \in Nat
      OBVIOUS
    <3>5. buf[i] \in Nat /\ buf[m] \in Nat /\ inc[1] \in Nat /\ inc[j - m] \in Nat
      BY Zenon, <3>1, <3>3, <3>4
    <3>6. buf[i] <= buf[m]
      <4>1. i <= m /\ m \in Nat /\ i \in Int
        BY <2>0, <2>3
      <4>2. i < m => buf[i] < buf[m]
        BY <3>1, <3>3 DEF Ordered
      <4>3. buf[i] \in Nat /\ buf[m] \in Nat
        BY <3>5
      <4> HIDE DEF m
      <4>4. i = m \/ i < m
        BY <4>1
      <4>5. CASE i = m
        BY <4>3, <4>5
      <4> QED
        BY <4>2, <4>3, <4>4, <4>5
    <3>7. inc[1] <= inc[j - m]
      <4> DEFINE x == j - m
      <4>1. x \in DOMAIN inc /\ inc[x] \in Nat
        BY Zenon, <3>1, <3>5
      <4> HIDE DEF x
      <4>2. 1 < x => inc[1] < inc[x]
        BY <3>3, <4>1 DEF Ordered
      <4>3. x = 1 \/ 1 < x
        BY <2>0, <4>1
      <4>4. inc[1] <= inc[x]
        BY <3>5, <4>1, <4>2, <4>3
      <4> QED
        BY <4>4 DEF x
    <3>8. buf[m] < inc[1]
      <4>1. CH!Newest(buf) = buf[m]
        BY <3>2 DEF CH!Newest
      <4> QED
        BY <3>2, <4>1
    <3>9. \A a, b, c, e \in Nat : a <= b /\ b < c /\ c <= e => a < e
      OBVIOUS
    <3>10. buf[i] < inc[j - m]
      BY <3>5, <3>6, <3>7, <3>8, <3>9
    <3> QED
      BY <3>2, <3>10
  <2> QED
    BY <2>0, <2>1, <2>2, <2>3
<1>4. d \in Nat /\ d <= Len(all)
  BY <1>2, ChatAssumption DEF CH!Greater
<1> HIDE DEF d
<1>5. Len(p) = Len(all) - d /\ DOMAIN p = 1..Len(all) - d
      /\ \A i \in 1..Len(all) - d : p[i] = all[i + d]
  <2>1. d \in 0..Len(all) /\ Len(all) \in Nat
    BY <1>2, <1>4
  <2>2. SplitsAt(Nat, all, d)
    BY <1>2, <2>1, SplitAt
  <2>3. p \in Seq(Nat) /\ Len(p) = Len(all) - d
        /\ \A i \in 1..(Len(all) - d) : p[i] = all[d + i]
    BY <2>2 DEF SplitsAt
  <2> HIDE DEF p
  <2>4. DOMAIN p = 1..Len(all) - d
    BY <2>3
  <2>5. \A i \in 1..Len(all) - d : d + i = i + d
    BY <2>1
  <2> QED
    BY <2>3, <2>4, <2>5
<1> HIDE DEF p
<1>6. ASSUME NEW i \in DOMAIN p, NEW j \in DOMAIN p, i < j PROVE p[i] < p[j]
  <2>1. i + d \in 1..Len(all) /\ j + d \in 1..Len(all) /\ i + d < j + d
    <3>1. Len(all) \in Nat
      BY <1>2
    <3> QED
      BY <1>4, <1>5, <1>6, <3>1
  <2> QED
    BY <1>3, <1>5, <2>1
<1> QED
  BY <1>1, <1>6 DEF Ordered

-----------------------------------------------------------------------------
(* The chat: its invariant.                                                *)

\* The views the plugin can be in: the list, the chat, and one dialog over it.
Shapes ==
    {<<>>, <<"list">>, <<"list", "chat">>, <<"list", "chat", "menu">>,
     <<"list", "chat", "invite">>, <<"list", "chat", "reply">>}

ChatTypes ==
    /\ joined \in Nat /\ log \in Nat /\ tok \in Nat /\ tok <= log
    /\ saved \in Nat \X BOOLEAN /\ saved[1] <= log
    /\ messages \in Seq(Nat) /\ Len(messages) <= Retain
    /\ scroll \in Nat /\ seen \in Nat
    /\ member \in BOOLEAN /\ told \in BOOLEAN /\ known \in BOOLEAN /\ unread \in BOOLEAN
    /\ chatOpen \in BOOLEAN /\ ahead \in BOOLEAN
    /\ chatStack \in Shapes

\* The open room is a known one, under its canvas; a canvas without an open
\* room is of one that was left.  Nothing is known before the plugin is entered.
RoomOfCanvas ==
    /\ chatOpen => known /\ Len(chatStack) >= 2
    /\ Len(chatStack) >= 2 /\ ~chatOpen => ~known /\ ~member
    /\ chatStack = <<>> => ~known /\ messages = <<>> /\ ~ahead /\ seen = 0

\* The token is past every message that is kept.
PastToken == ~ahead => Ordered(messages) /\ CH!Newest(messages) <= tok

\* Below RETAIN, an open chat that VIEW knows of is drawn and seen, whatever is
\* on top of it.
DrawnAndSeen ==
    Len(messages) < Retain /\ chatView = "Chat" /\ chatOpen =>
        canvas = CH!Window(messages, scroll) /\ CH!Newest(messages) <= seen

\* A menu over an open chat leaves VIEW alone.
ViewUnderMenu == chatOpen /\ CH!Top \in {"chat", "menu"} => chatView = "Chat"

\* Without a canvas, what is new is marked.
MarkedOnList ==
    known /\ CH!Newest(messages) > seen /\ Len(messages) < Retain =>
        unread \/ Len(chatStack) >= 2

ChatInv ==
    ChatTypes /\ RoomOfCanvas /\ PastToken /\ DrawnAndSeen /\ ViewUnderMenu /\ MarkedOnList

\* The stack of views, case by case.
LEMMA ShapeFacts ==
    \A s \in Shapes :
        /\ Len(s) \in 0..3
        /\ s # <<>> => Len(s) >= 1
        /\ Len(s) >= 2 => s[2] = "chat" /\ 2 \in DOMAIN s
<1> SUFFICES ASSUME NEW s \in Shapes
             PROVE  /\ Len(s) \in 0..3
                    /\ s # <<>> => Len(s) >= 1
                    /\ Len(s) >= 2 => s[2] = "chat" /\ 2 \in DOMAIN s
  OBVIOUS
<1>1. CASE s = <<>>
  BY <1>1
<1>2. CASE s = <<"list">>
  BY <1>2
<1>3. CASE s = <<"list", "chat">>
  BY <1>3
<1>4. CASE s = <<"list", "chat", "menu">>
  BY <1>4
<1>5. CASE s = <<"list", "chat", "invite">>
  BY <1>5
<1>6. CASE s = <<"list", "chat", "reply">>
  BY <1>6
<1> QED
  BY <1>1, <1>2, <1>3, <1>4, <1>5, <1>6 DEF Shapes

\* The invariant is what the property asks for.
LEMMA ChatIsTrue == ChatInv => CH!ChatTrue
<1> SUFFICES ASSUME ChatInv PROVE CH!ChatTrue
  OBVIOUS
<1>1. CH!CurrentBelowCap
  BY DEF ChatInv, DrawnAndSeen, CH!CurrentBelowCap, CH!ChatIsCurrent
<1>2. CH!NoneTwice
  BY DEF ChatInv, PastToken, Ordered, CH!NoneTwice
<1>3. CH!NewIsMarked
  <2>1. Len(chatStack) >= 2 => \E i \in DOMAIN chatStack : chatStack[i] = "chat"
    BY ShapeFacts DEF ChatInv, ChatTypes
  <2> QED
    BY <2>1 DEF ChatInv, MarkedOnList, CH!NewIsMarked
<1>4. CH!KeysReachChat
  BY DEF ChatInv, ViewUnderMenu, CH!KeysReachChat
<1> QED
  BY <1>1, <1>2, <1>3, <1>4 DEF CH!ChatTrue

\* Nothing is known, open or drawn at the start.
LEMMA ChatInit == CH!Init => ChatInv
<1> SUFFICES ASSUME CH!Init PROVE ChatInv
  OBVIOUS
<1>1. ChatTypes
  <2>1. saved \in Nat \X BOOLEAN /\ saved[1] = 0
    BY DEF CH!Init
  <2>2. messages \in Seq(Nat) /\ Len(messages) = 0 /\ log \in Nat
    BY DEF CH!Init
  <2>3. chatStack \in Shapes
    BY DEF CH!Init, Shapes
  <2>4. /\ joined \in Nat /\ log \in Nat /\ tok = 0 /\ scroll = 0 /\ seen = 0
    BY DEF CH!Init
  <2>5. /\ member \in BOOLEAN /\ told \in BOOLEAN /\ known \in BOOLEAN /\ unread \in BOOLEAN
        /\ chatOpen \in BOOLEAN /\ ahead \in BOOLEAN
    BY DEF CH!Init
  <2> QED
    BY <2>1, <2>2, <2>3, <2>4, <2>5, ChatAssumption DEF ChatTypes
<1>2. Len(chatStack) = 0 /\ CH!Newest(messages) = 0 /\ Ordered(messages)
  BY DEF CH!Init, CH!Newest, Ordered
<1> QED
  BY <1>1, <1>2 DEF CH!Init, ChatInv, RoomOfCanvas, PastToken, DrawnAndSeen, ViewUnderMenu,
                    MarkedOnList

-----------------------------------------------------------------------------
(* The chat: an answer that is merged.                                     *)

\* What a timeline holds is in order and after the token.
LEMMA TimelineFacts ==
    ASSUME ChatTypes
    PROVE  \A full \in BOOLEAN, upto \in Nat :
              LET new == CH!Timeline(full, upto)
              IN  /\ new \in Seq(Nat) /\ Ordered(new) /\ CH!Newest(new) <= upto
                  /\ new # <<>> /\ ~full => tok < new[1]
<1> SUFFICES ASSUME NEW full \in BOOLEAN, NEW upto \in Nat
             PROVE  LET new == CH!Timeline(full, upto)
                    IN  /\ new \in Seq(Nat) /\ Ordered(new) /\ CH!Newest(new) <= upto
                        /\ new # <<>> /\ ~full => tok < new[1]
  OBVIOUS
<1> DEFINE from == IF full THEN joined ELSE CH!Greater(tok, joined)
           a == CH!Greater(from + 1, upto - Limit + 1)
<1>1. CH!Timeline(full, upto) = CH!Run(a, upto)
  BY DEF CH!Timeline
<1>2. from \in Nat /\ (~full => tok <= from)
  BY DEF ChatTypes, CH!Greater
<1> HIDE DEF from
<1>3. a \in Int /\ a >= from + 1 /\ a > 0
  BY <1>2, ChatAssumption DEF CH!Greater
<1> HIDE DEF a
<1>4. CH!Run(a, upto) \in Seq(Nat) /\ upto \in Int
  BY <1>3, RunFacts
<1>5. /\ Ordered(CH!Run(a, upto)) /\ CH!Newest(CH!Run(a, upto)) <= upto
      /\ CH!Run(a, upto) # <<>> => CH!Run(a, upto)[1] = a
  BY <1>3, <1>4, RunOrdered
<1>6. ~full => tok < a
  BY <1>2, <1>3 DEF ChatTypes
<1> QED
  BY <1>1, <1>4, <1>5, <1>6

\* The messages after a merge: the types and their order.
LEMMA MergeMessages ==
    ASSUME ChatInv
    PROVE  \A full \in BOOLEAN, upto \in Nat :
              upto >= log /\ CH!Merge(full, upto) =>
                /\ messages' \in Seq(Nat) /\ Len(messages') <= Retain /\ tok' = upto
                /\ ~ahead => Ordered(messages') /\ CH!Newest(messages') <= tok'
<1> SUFFICES ASSUME NEW full \in BOOLEAN, NEW upto \in Nat, upto >= log,
                    CH!Merge(full, upto)
             PROVE  /\ messages' \in Seq(Nat) /\ Len(messages') <= Retain /\ tok' = upto
                    /\ ~ahead => Ordered(messages') /\ CH!Newest(messages') <= tok'
  OBVIOUS
<1> DEFINE new == CH!Timeline(full, upto)
           old == IF known /\ ~full THEN messages ELSE <<>>
<1>1. /\ \/ messages' = <<>>
         \/ messages' = CH!PushMessages(old, new)
         \/ messages' = messages
      /\ tok' = upto
  BY DEF CH!Merge
<1>2. /\ new \in Seq(Nat) /\ Ordered(new) /\ CH!Newest(new) <= upto
      /\ new # <<>> /\ ~full => tok < new[1]
  BY TimelineFacts DEF ChatInv
<1>3. messages \in Seq(Nat) /\ Len(messages) <= Retain /\ tok \in Nat /\ tok <= log /\ log \in Nat
  BY DEF ChatInv, ChatTypes
<1>4. ~ahead => Ordered(messages) /\ CH!Newest(messages) <= tok
  BY DEF ChatInv, PastToken
<1>5. CASE messages' = <<>>
  <2>1. Ordered(messages') /\ CH!Newest(messages') = 0 /\ Len(messages') = 0
        /\ messages' \in Seq(Nat)
    BY <1>5 DEF Ordered, CH!Newest
  <2> QED
    BY <1>1, <2>1, ChatAssumption
<1>6. CASE messages' = messages
  <2>1. CH!Newest(messages) \in Nat
    BY <1>3 DEF CH!Newest
  <2>2. ~ahead => CH!Newest(messages) <= upto
    BY <1>3, <1>4, <2>1
  <2> QED
    BY <1>1, <1>3, <1>4, <1>6, <2>2
<1>7. CASE messages' = CH!PushMessages(old, new)
  <2>1. /\ old \in Seq(Nat) /\ Len(old) <= Retain /\ CH!Newest(old) \in Nat
        /\ ~ahead => Ordered(old) /\ CH!Newest(old) <= tok
        /\ full => CH!Newest(old) = 0
    <3>1. CASE known /\ ~full
      BY <1>3, <1>4, <3>1 DEF CH!Newest
    <3>2. CASE ~(known /\ ~full)
      <4>1. old = <<>>
        BY <3>2
      <4> HIDE DEF old
      <4>2. old \in Seq(Nat) /\ Len(old) = 0 /\ CH!Newest(old) = 0 /\ Ordered(old)
        BY <4>1 DEF CH!Newest, Ordered
      <4> QED
        BY <1>3, <4>2, ChatAssumption
    <3> QED
      BY <3>1, <3>2
  <2>2. new # <<>> /\ full => new[1] > 0
    <3>1. CASE full /\ new # <<>>
      <4> DEFINE a == CH!Greater(joined + 1, upto - Limit + 1)
      <4>1. new = CH!Run(a, upto)
        BY <3>1 DEF CH!Timeline
      <4>2. a \in Int /\ a > 0
        BY ChatAssumption DEF CH!Greater, ChatInv, ChatTypes
      <4> HIDE DEF a, new
      <4>3. new[1] = a
        BY <3>1, <4>1, <4>2, RunOrdered
      <4> QED
        BY <4>2, <4>3
    <3> QED
      BY <3>1
  <2> HIDE DEF old, new
  <2>3. /\ messages' \in Seq(Nat) /\ Len(messages') <= Retain
        /\ new = <<>> => messages' = old
        /\ new # <<>> => CH!Newest(messages') = CH!Newest(new)
    BY <1>2, <1>7, <2>1, PushFacts
  <2>4. ASSUME ~ahead PROVE Ordered(messages') /\ CH!Newest(messages') <= tok'
    <3>1. new # <<>> => CH!Newest(old) < new[1]
      <4>1. new # <<>> => new[1] \in Nat
        BY <1>2
      <4> QED
        BY <1>2, <1>3, <2>1, <2>2, <2>4, <4>1
    <3>2. Ordered(messages')
      BY <1>2, <1>7, <2>1, <2>4, <3>1, PushOrdered
    <3>3. CASE new = <<>>
      BY <1>1, <1>3, <2>1, <2>3, <2>4, <3>2, <3>3
    <3>4. CASE new # <<>>
      BY <1>1, <1>2, <2>3, <3>2, <3>4
    <3> QED
      BY <3>3, <3>4
  <2> QED
    BY <1>1, <2>3, <2>4
<1> QED
  BY <1>1, <1>5, <1>6, <1>7

\* The room after a merge: when it is known, open and marked.
LEMMA MergeRoom ==
    ASSUME ChatInv
    PROVE  \A full \in BOOLEAN, upto \in Nat :
              upto >= log /\ CH!Merge(full, upto) =>
                /\ told' \in BOOLEAN /\ known' \in BOOLEAN /\ unread' \in BOOLEAN
                /\ chatOpen' \in BOOLEAN
                /\ chatOpen' => chatOpen /\ known'
                /\ chatOpen /\ ~chatOpen' => ~known' /\ ~member
                /\ ~known /\ ~member => ~known'
                /\ ~full /\ known' => \/ messages' = messages /\ known /\ (unread => unread')
                                      \/ unread' \/ chatOpen
                /\ ~full /\ chatOpen' /\ Len(messages') < Retain =>
                      messages' = messages \/ Len(messages') # Len(messages)
<1> SUFFICES ASSUME NEW full \in BOOLEAN, NEW upto \in Nat, upto >= log,
                    CH!Merge(full, upto)
             PROVE  /\ told' \in BOOLEAN /\ known' \in BOOLEAN /\ unread' \in BOOLEAN
                    /\ chatOpen' \in BOOLEAN
                    /\ chatOpen' => chatOpen /\ known'
                    /\ chatOpen /\ ~chatOpen' => ~known' /\ ~member
                    /\ ~known /\ ~member => ~known'
                    /\ ~full /\ known' => \/ messages' = messages /\ known /\ (unread => unread')
                                          \/ unread' \/ chatOpen
                    /\ ~full /\ chatOpen' /\ Len(messages') < Retain =>
                          messages' = messages \/ Len(messages') # Len(messages)
  OBVIOUS
<1> DEFINE new == CH!Timeline(full, upto)
           some == new # <<>>
           room == member /\ (full \/ some)
           left == ~full /\ ~member /\ ~told
           old == IF known /\ ~full THEN messages ELSE <<>>
<1>1. messages' = IF left THEN <<>> ELSE IF room THEN CH!PushMessages(old, new) ELSE messages
  BY DEF CH!Merge
<1>2. known' = (~left /\ (room \/ known))
  BY Zenon DEF CH!Merge
<1>3. unread' = (~left /\ (unread \/ (room /\ ~full /\ some /\ ~chatOpen)))
  BY Zenon DEF CH!Merge
<1>4. chatOpen' = (chatOpen /\ ~left) /\ told' = ~member
  BY Zenon DEF CH!Merge
<1>5. /\ member \in BOOLEAN /\ told \in BOOLEAN /\ known \in BOOLEAN /\ unread \in BOOLEAN
      /\ chatOpen \in BOOLEAN /\ (chatOpen => known)
  BY DEF ChatInv, ChatTypes, RoomOfCanvas
<1>6. new \in Seq(Nat) /\ messages \in Seq(Nat)
  BY TimelineFacts DEF ChatInv, ChatTypes
<1>7. ASSUME ~full, chatOpen', Len(messages') < Retain
      PROVE  messages' = messages \/ Len(messages') # Len(messages)
  <2>1. ~left /\ known
    BY <1>5, <1>7, <1>4
  <2>2. CASE room
    <3>1. messages' = CH!PushMessages(messages, new)
      BY <1>1, <1>7, <2>1, <2>2
    <3>2. some
      BY <1>7, <2>2
    <3> HIDE DEF new
    <3>3. messages' = messages \o new
      BY <1>6, <1>7, <3>1, PushFacts
    <3> QED
      BY <1>6, <3>2, <3>3
  <2>3. CASE ~room
    BY <1>1, <2>1, <2>3
  <2> QED
    BY <2>2, <2>3
<1>8. some \in BOOLEAN
  OBVIOUS
<1> HIDE DEF some, new, old
<1>9. told' \in BOOLEAN /\ known' \in BOOLEAN /\ unread' \in BOOLEAN /\ chatOpen' \in BOOLEAN
  BY <1>5, <1>8, <1>2, <1>3, <1>4
<1>10. /\ chatOpen' => chatOpen /\ known'
       /\ chatOpen /\ ~chatOpen' => ~known' /\ ~member
       /\ ~known /\ ~member => ~known'
  BY <1>5, <1>8, <1>2, <1>4
<1>11. ASSUME ~full, known'
       PROVE  \/ messages' = messages /\ known /\ (unread => unread')
              \/ unread' \/ chatOpen
  <2>1. CASE room
    BY <1>5, <1>8, <1>2, <1>3, <1>11, <2>1
  <2>2. CASE ~room
    BY <1>1, <1>5, <1>8, <1>2, <1>3, <1>11, <2>2
  <2> QED
    BY <2>1, <2>2
<1> QED
  BY <1>7, <1>9, <1>10, <1>11

-----------------------------------------------------------------------------
(* The chat: drawing.                                                      *)

\* An offset that was clamped shows the same lines.
LEMMA WindowClamped ==
    \A ms \in Seq(Nat), s \in Nat :
        /\ CH!Clamped(ms, s) \in Nat
        /\ CH!Window(ms, CH!Clamped(ms, s)) = CH!Window(ms, s)
        /\ CH!Newest(ms) \in Nat
<1> SUFFICES ASSUME NEW ms \in Seq(Nat), NEW s \in Nat
             PROVE  /\ CH!Clamped(ms, s) \in Nat
                    /\ CH!Window(ms, CH!Clamped(ms, s)) = CH!Window(ms, s)
                    /\ CH!Newest(ms) \in Nat
  OBVIOUS
<1>1. CH!Greater(Len(ms) - Lines, 0) \in Nat
  BY ChatAssumption DEF CH!Greater
<1>2. CH!Clamped(ms, s) \in Nat /\ CH!Clamped(ms, CH!Clamped(ms, s)) = CH!Clamped(ms, s)
  BY <1>1 DEF CH!Clamped, CH!Lesser
<1>3. CH!Newest(ms) \in Nat
  BY DEF CH!Newest
<1> QED
  BY <1>2, <1>3 DEF CH!Window

\* show_open_chat draws an open room, with VIEW at Chat, and leaves the rest.
LEMMA Drawing ==
    ASSUME messages' \in Seq(Nat), seen \in Nat, chatOpen' \in BOOLEAN
    PROVE  \A s \in Nat : CH!ShowOpenChat(s) =>
              /\ scroll' \in Nat /\ seen' \in Nat /\ seen <= seen'
              /\ chatOpen' => /\ chatView' = "Chat" /\ canvas' = CH!Window(messages', scroll')
                              /\ CH!Newest(messages') <= seen'
              /\ ~chatOpen' => chatView' = chatView
<1> SUFFICES ASSUME NEW s \in Nat, CH!ShowOpenChat(s)
             PROVE  /\ scroll' \in Nat /\ seen' \in Nat /\ seen <= seen'
                    /\ chatOpen' => /\ chatView' = "Chat"
                                    /\ canvas' = CH!Window(messages', scroll')
                                    /\ CH!Newest(messages') <= seen'
                    /\ ~chatOpen' => chatView' = chatView
  OBVIOUS
<1>1. /\ CH!Clamped(messages', s) \in Nat
      /\ CH!Window(messages', CH!Clamped(messages', s)) = CH!Window(messages', s)
      /\ CH!Newest(messages') \in Nat
  BY WindowClamped
<1>2. CASE chatOpen'
  <2>1. /\ scroll' = CH!Clamped(messages', s) /\ canvas' = CH!Window(messages', s)
        /\ chatView' = "Chat" /\ seen' = CH!Greater(seen, CH!Newest(messages'))
    BY <1>2 DEF CH!ShowOpenChat, CH!Sees
  <2> QED
    BY <1>1, <1>2, <2>1 DEF CH!Greater
<1>3. CASE ~chatOpen'
  <2>1. scroll' = s /\ chatView' = chatView /\ seen' = seen
    BY <1>3 DEF CH!ShowOpenChat, CH!Sees
  <2> QED
    BY <1>3, <2>1
<1> QED
  BY <1>2, <1>3

\* Sees(TRUE) is past what is kept.
LEMMA Seen ==
    ASSUME messages' \in Seq(Nat), seen \in Nat, CH!Sees(TRUE)
    PROVE  seen' \in Nat /\ CH!Newest(messages') <= seen'
<1>1. CH!Newest(messages') \in Nat
  BY DEF CH!Newest
<1> QED
  BY <1>1 DEF CH!Sees, CH!Greater

\* Which views are open, from the one on top.
LEMMA TopOfShape ==
    ASSUME chatStack \in Shapes
    PROVE  /\ CH!Top = "list" => chatStack = <<"list">>
           /\ CH!Top = "chat" => chatStack = <<"list", "chat">>
           /\ CH!Top = "menu" => chatStack = <<"list", "chat", "menu">>
           /\ CH!Top = "invite" => chatStack = <<"list", "chat", "invite">>
           /\ CH!Top = "reply" => chatStack = <<"list", "chat", "reply">>
<1>1. CASE chatStack = <<>>
  BY <1>1 DEF CH!Top
<1>2. CASE chatStack = <<"list">>
  BY <1>2 DEF CH!Top
<1>3. CASE chatStack = <<"list", "chat">>
  BY <1>3 DEF CH!Top
<1>4. CASE chatStack = <<"list", "chat", "menu">>
  BY <1>4 DEF CH!Top
<1>5. CASE chatStack = <<"list", "chat", "invite">>
  BY <1>5 DEF CH!Top
<1>6. CASE chatStack = <<"list", "chat", "reply">>
  BY <1>6 DEF CH!Top
<1> QED
  BY <1>1, <1>2, <1>3, <1>4, <1>5, <1>6 DEF Shapes

\* A dialog opens over the chat, and closes.
LEMMA DialogShapes ==
    ASSUME chatStack \in Shapes
    PROVE  /\ CH!Top = "list" => Append(chatStack, "chat") = <<"list", "chat">>
           /\ CH!Top = "chat" => /\ Append(chatStack, "menu") = <<"list", "chat", "menu">>
                                 /\ Append(chatStack, "reply") = <<"list", "chat", "reply">>
                                 /\ CH!Under = <<"list">>
           /\ CH!Top \in {"menu", "invite", "reply"} => CH!Under = <<"list", "chat">>
           /\ CH!Top = "menu" => Append(CH!Under, "invite") = <<"list", "chat", "invite">>
<1>0. /\ Append(<<"list">>, "chat") = <<"list", "chat">>
      /\ Append(<<"list", "chat">>, "menu") = <<"list", "chat", "menu">>
      /\ Append(<<"list", "chat">>, "reply") = <<"list", "chat", "reply">>
      /\ SubSeq(<<"list", "chat">>, 1, Len(<<"list", "chat">>) - 1) = <<"list">>
  BY Zenon, Tuples
<1>1. CH!Top = "list" => Append(chatStack, "chat") = <<"list", "chat">>
  BY Zenon, <1>0, TopOfShape
<1>2. CH!Top = "chat" => /\ Append(chatStack, "menu") = <<"list", "chat", "menu">>
                         /\ Append(chatStack, "reply") = <<"list", "chat", "reply">>
                         /\ CH!Under = <<"list">>
  BY Zenon, <1>0, TopOfShape DEF CH!Under
<1>3. CH!Top = "menu" => CH!Under = <<"list", "chat">>
  <2>1. SubSeq(<<"list", "chat", "menu">>, 1, Len(<<"list", "chat", "menu">>) - 1)
            = <<"list", "chat">>
    BY Zenon, Tuples
  <2> QED
    BY Zenon, <2>1, TopOfShape DEF CH!Under
<1>4. CH!Top = "invite" => CH!Under = <<"list", "chat">>
  <2>1. SubSeq(<<"list", "chat", "invite">>, 1, Len(<<"list", "chat", "invite">>) - 1)
            = <<"list", "chat">>
    BY Zenon, Tuples
  <2> QED
    BY Zenon, <2>1, TopOfShape DEF CH!Under
<1>5. CH!Top = "reply" => CH!Under = <<"list", "chat">>
  <2>1. SubSeq(<<"list", "chat", "reply">>, 1, Len(<<"list", "chat", "reply">>) - 1)
            = <<"list", "chat">>
    BY Zenon, Tuples
  <2> QED
    BY Zenon, <2>1, TopOfShape DEF CH!Under
<1>6. CH!Top = "menu" => Append(CH!Under, "invite") = <<"list", "chat", "invite">>
  <2>1. Append(<<"list", "chat">>, "invite") = <<"list", "chat", "invite">>
    BY Zenon, Tuples
  <2> QED
    BY Zenon, <1>3, <2>1
<1>7. CH!Top \in {"menu", "invite", "reply"} => CH!Under = <<"list", "chat">>
  <2>1. CH!Top \in {"menu", "invite", "reply"}
        => CH!Top = "menu" \/ CH!Top = "invite" \/ CH!Top = "reply"
    OBVIOUS
  <2> QED
    BY Zenon, <1>3, <1>4, <1>5, <2>1
<1> QED
  BY Zenon, <1>1, <1>2, <1>6, <1>7

-----------------------------------------------------------------------------
(* The chat: the steps.                                                    *)

\* A sync that is merged, or fails.
LEMMA SyncFacts ==
    ASSUME ChatInv
    PROVE  \A full \in BOOLEAN, upto \in Nat :
              upto >= log /\ CH!SyncNow(full, upto) =>
                /\ messages' \in Seq(Nat) /\ Len(messages') <= Retain
                /\ tok' \in Nat /\ tok' <= upto
                /\ told' \in BOOLEAN /\ known' \in BOOLEAN /\ unread' \in BOOLEAN
                /\ chatOpen' \in BOOLEAN
                /\ ~ahead => Ordered(messages') /\ CH!Newest(messages') <= tok'
                /\ chatOpen' => chatOpen /\ known'
                /\ chatOpen /\ ~chatOpen' => ~known' /\ ~member
                /\ ~known /\ ~member => ~known'
                /\ ~full /\ known' => \/ messages' = messages /\ known /\ (unread => unread')
                                      \/ unread' \/ chatOpen
                /\ ~full /\ chatOpen' /\ Len(messages') < Retain =>
                      messages' = messages \/ Len(messages') # Len(messages)
<1> SUFFICES ASSUME NEW full \in BOOLEAN, NEW upto \in Nat, upto >= log,
                    CH!SyncNow(full, upto)
             PROVE  /\ messages' \in Seq(Nat) /\ Len(messages') <= Retain
                    /\ tok' \in Nat /\ tok' <= upto
                    /\ told' \in BOOLEAN /\ known' \in BOOLEAN /\ unread' \in BOOLEAN
                    /\ chatOpen' \in BOOLEAN
                    /\ ~ahead => Ordered(messages') /\ CH!Newest(messages') <= tok'
                    /\ chatOpen' => chatOpen /\ known'
                    /\ chatOpen /\ ~chatOpen' => ~known' /\ ~member
                    /\ ~known /\ ~member => ~known'
                    /\ ~full /\ known' => \/ messages' = messages /\ known /\ (unread => unread')
                                          \/ unread' \/ chatOpen
                    /\ ~full /\ chatOpen' /\ Len(messages') < Retain =>
                          messages' = messages \/ Len(messages') # Len(messages)
  OBVIOUS
<1>1. CASE CH!Merge(full, upto)
  BY <1>1, MergeMessages, MergeRoom
<1>2. CASE UNCHANGED CH!syncv
  <2>1. /\ messages' = messages /\ tok' = tok /\ told' = told /\ known' = known
        /\ unread' = unread /\ chatOpen' = chatOpen
    BY <1>2 DEF CH!syncv
  <2>2. tok \in Nat /\ log \in Nat /\ tok <= log /\ tok <= upto
    BY DEF ChatInv, ChatTypes
  <2> QED
    BY <2>1, <2>2 DEF ChatInv, ChatTypes, RoomOfCanvas, PastToken
<1> QED
  BY <1>1, <1>2 DEF CH!SyncNow

\* What happens at the server alone.
LEMMA ChatServer ==
    ASSUME ChatInv, CH!Arrives \/ CH!LeftElsewhere
    PROVE  ChatInv'
<1>1. /\ UNCHANGED <<joined, CH!syncv, saved, CH!screenv, seen, ahead>>
      /\ log' \in Nat /\ log' >= log /\ member' \in BOOLEAN /\ (~member => ~member')
  <2>1. CASE CH!Arrives
    BY <2>1 DEF CH!Arrives, ChatInv, ChatTypes
  <2>2. CASE CH!LeftElsewhere
    <3>1. /\ UNCHANGED <<joined, CH!syncv, saved, CH!screenv, seen, ahead>>
      BY <2>2 DEF CH!LeftElsewhere
    <3>2. log' = log /\ member' = FALSE
      BY <2>2 DEF CH!LeftElsewhere
    <3>3. log' \in Nat /\ log' >= log
      BY <3>2 DEF ChatInv, ChatTypes
    <3>4. member' \in BOOLEAN /\ (~member => ~member')
      BY Zenon, <3>2
    <3> QED
      BY Zenon, <3>1, <3>3, <3>4
  <2> QED
    BY <2>1, <2>2
<1>2. /\ UNCHANGED <<joined, tok, told, known, messages, unread, chatOpen, saved, chatView,
                     chatStack, scroll, canvas, seen, ahead>>
  BY <1>1 DEF CH!syncv, CH!screenv
<1>3. tok <= log' /\ saved[1] <= log'
  BY <1>1 DEF ChatInv, ChatTypes
<1>4. ChatTypes'
  BY <1>1, <1>2, <1>3 DEF ChatInv, ChatTypes
<1>5. RoomOfCanvas'
  BY <1>1, <1>2 DEF ChatInv, ChatTypes, RoomOfCanvas
<1>6. CH!Top' = CH!Top
  BY <1>2 DEF CH!Top
<1>7. PastToken' /\ DrawnAndSeen' /\ ViewUnderMenu' /\ MarkedOnList'
  BY <1>2, <1>6 DEF ChatInv, PastToken, DrawnAndSeen, ViewUnderMenu, MarkedOnList
<1> QED
  BY <1>4, <1>5, <1>7 DEF ChatInv

\* plugin_on_enter.
LEMMA ChatEnter ==
    ASSUME ChatInv, CH!Enter
    PROVE  ChatInv'
<1>1. /\ chatStack = <<>> /\ chatStack' = <<"list">> /\ chatView' = "RoomList"
      /\ UNCHANGED <<joined, log, member, saved, scroll, ahead>>
      /\ CH!Sees(TRUE)
  BY DEF CH!Enter, CH!serverv
<1>2. /\ ~known /\ messages = <<>> /\ ~ahead /\ seen = 0 /\ ~chatOpen
      /\ messages \in Seq(Nat) /\ log \in Nat /\ log >= log /\ seen \in Nat
  <2>1. Len(chatStack) = 0
    BY <1>1
  <2> QED
    BY <1>1, <2>1 DEF ChatInv, ChatTypes, RoomOfCanvas
<1>3. /\ messages' \in Seq(Nat) /\ Len(messages') <= Retain /\ tok' \in Nat /\ tok' <= log
      /\ told' \in BOOLEAN /\ known' \in BOOLEAN /\ unread' \in BOOLEAN
      /\ chatOpen' = FALSE
      /\ Ordered(messages') /\ CH!Newest(messages') <= tok'
  <2>1. CASE CH!Merge(TRUE, log)
    <3>1. /\ messages' \in Seq(Nat) /\ Len(messages') <= Retain /\ tok' = log
          /\ ~ahead => Ordered(messages') /\ CH!Newest(messages') <= tok'
      BY Zenon, <1>2, <2>1, MergeMessages
    <3>2. /\ told' \in BOOLEAN /\ known' \in BOOLEAN /\ unread' \in BOOLEAN
          /\ chatOpen' \in BOOLEAN /\ (chatOpen' => chatOpen)
      BY Zenon, <1>2, <2>1, MergeRoom
    <3> QED
      BY <1>2, <3>1, <3>2
  <2>2. CASE tok' = saved[1] /\ told' = saved[2] /\ UNCHANGED <<known, messages, unread, chatOpen>>
    <3>1. Ordered(messages') /\ CH!Newest(messages') = 0 /\ Len(messages') = 0
      BY <1>2, <2>2 DEF Ordered, CH!Newest
    <3>2. saved[1] \in Nat /\ saved[2] \in BOOLEAN /\ saved[1] <= log
      BY DEF ChatInv, ChatTypes
    <3>3. chatOpen' = FALSE
      BY <1>2, <2>2 DEF ChatInv, ChatTypes
    <3> QED
      BY <1>2, <2>2, <3>1, <3>2, <3>3, ChatAssumption DEF ChatInv, ChatTypes
  <2> QED
    BY <2>1, <2>2 DEF CH!Enter
<1>4. seen' \in Nat /\ CH!Newest(messages') <= seen' /\ CH!Newest(messages') \in Nat
  BY <1>1, <1>2, <1>3, Seen, WindowClamped
<1>5. Len(chatStack') = 1 /\ chatStack' # <<>> /\ chatStack' \in Shapes
  BY <1>1 DEF Shapes
<1>6. ChatTypes'
  BY <1>1, <1>3, <1>4, <1>5 DEF ChatInv, ChatTypes
<1>7. RoomOfCanvas' /\ PastToken' /\ DrawnAndSeen' /\ ViewUnderMenu'
  BY <1>3, <1>5 DEF RoomOfCanvas, PastToken, DrawnAndSeen, ViewUnderMenu
<1>8. MarkedOnList'
  BY <1>4 DEF MarkedOnList
<1> QED
  BY <1>6, <1>7, <1>8 DEF ChatInv

\* plugin_on_exit, or a power loss.
LEMMA ChatStop ==
    ASSUME ChatInv, NEW flushed \in BOOLEAN, CH!Stop(flushed)
    PROVE  ChatInv'
<1>1. /\ known' = FALSE /\ messages' = <<>> /\ unread' = FALSE /\ chatOpen' = FALSE
      /\ chatStack' = <<>> /\ scroll' = 0 /\ seen' = 0 /\ ahead' = FALSE
      /\ UNCHANGED <<joined, log, member, tok, told>>
      /\ saved' = IF flushed THEN <<tok, told>> ELSE saved
  BY DEF CH!Stop, CH!serverv
<1>2. /\ messages' \in Seq(Nat) /\ Len(messages') = 0 /\ Ordered(messages')
      /\ CH!Newest(messages') = 0 /\ Len(chatStack') = 0 /\ chatStack' \in Shapes
  BY <1>1 DEF Ordered, CH!Newest, Shapes
<1>3. saved' \in Nat \X BOOLEAN /\ saved'[1] <= log'
  BY <1>1 DEF ChatInv, ChatTypes
<1>4. ChatTypes'
  <2>1. /\ joined' \in Nat /\ log' \in Nat /\ tok' \in Nat /\ tok' <= log'
        /\ member' \in BOOLEAN /\ told' \in BOOLEAN
    BY <1>1 DEF ChatInv, ChatTypes
  <2>2. known' \in BOOLEAN /\ unread' \in BOOLEAN /\ chatOpen' \in BOOLEAN /\ ahead' \in BOOLEAN
    BY <1>1
  <2>3. scroll' \in Nat /\ seen' \in Nat /\ Len(messages') <= Retain
    BY <1>1, <1>2, ChatAssumption
  <2> QED
    BY <1>2, <1>3, <2>1, <2>2, <2>3 DEF ChatTypes
<1>5. RoomOfCanvas' /\ PastToken' /\ DrawnAndSeen' /\ ViewUnderMenu' /\ MarkedOnList'
  <2>1. tok' \in Nat
    BY <1>4 DEF ChatTypes
  <2> QED
    BY <1>1, <1>2, <2>1 DEF RoomOfCanvas, PastToken, DrawnAndSeen, ViewUnderMenu, MarkedOnList
<1> QED
  BY <1>4, <1>5 DEF ChatInv

\* accept_invite, new_room, create_room: another room is joined.
LEMMA ChatJoinOther ==
    ASSUME ChatInv, CH!JoinOther
    PROVE  ChatInv'
<1>1. /\ UNCHANGED <<joined, log, member, saved, chatView, chatStack, scroll, canvas, ahead>>
      /\ CH!Top = "list" /\ chatView = "RoomList" /\ CH!SyncNow(TRUE, log) /\ CH!Sees(TRUE)
  BY Zenon DEF CH!JoinOther, CH!serverv, CH!screenv
<1>2. chatStack = <<"list">> /\ Len(chatStack) = 1 /\ ~chatOpen
  <2>1. chatStack = <<"list">>
    BY <1>1, TopOfShape DEF ChatInv, ChatTypes
  <2> QED
    BY <2>1 DEF ChatInv, RoomOfCanvas
<1>3. log \in Nat /\ log >= log /\ seen \in Nat
  BY DEF ChatInv, ChatTypes
<1>4. /\ messages' \in Seq(Nat) /\ Len(messages') <= Retain
      /\ tok' \in Nat /\ tok' <= log
      /\ told' \in BOOLEAN /\ known' \in BOOLEAN /\ unread' \in BOOLEAN
      /\ chatOpen' \in BOOLEAN /\ (chatOpen' => chatOpen)
      /\ ~ahead => Ordered(messages') /\ CH!Newest(messages') <= tok'
  BY Zenon, <1>1, <1>3, SyncFacts
<1>5. seen' \in Nat /\ CH!Newest(messages') <= seen' /\ CH!Newest(messages') \in Nat
  BY <1>1, <1>3, <1>4, Seen, WindowClamped
<1>6. ChatTypes'
  BY <1>1, <1>4, <1>5 DEF ChatInv, ChatTypes
<1>7. RoomOfCanvas' /\ PastToken' /\ DrawnAndSeen' /\ ViewUnderMenu' /\ MarkedOnList'
  BY <1>1, <1>2, <1>4, <1>5
     DEF ChatInv, RoomOfCanvas, PastToken, DrawnAndSeen, ViewUnderMenu, MarkedOnList
<1> QED
  BY <1>6, <1>7 DEF ChatInv

\* An incremental sync, or none, after which the chat is drawn, or need not be.
LEMMA ChatSynced ==
    ASSUME ChatInv, log' \in Nat,
           UNCHANGED <<joined, member, saved, ahead>>,
           chatStack' \in Shapes, chatStack' # <<>>,
           Len(chatStack') >= 2 <=> Len(chatStack) >= 2,
           scroll' \in Nat, seen' \in Nat, seen <= seen',
           \/ chatOpen' => /\ chatView' = "Chat" /\ canvas' = CH!Window(messages', scroll')
                           /\ CH!Newest(messages') <= seen'
           \/ /\ UNCHANGED <<chatView, chatStack, scroll, canvas, seen>>
              /\ chatOpen' /\ chatView = "Chat" /\ Len(messages') < Retain => messages' = messages
    PROVE  \A upto \in Nat : upto >= log /\ upto <= log' /\ CH!SyncNow(FALSE, upto) => ChatInv'
<1> SUFFICES ASSUME NEW upto \in Nat, upto >= log, upto <= log', CH!SyncNow(FALSE, upto)
             PROVE  ChatInv'
  OBVIOUS
<1>1. /\ messages' \in Seq(Nat) /\ Len(messages') <= Retain
      /\ tok' \in Nat /\ tok' <= upto
      /\ told' \in BOOLEAN /\ known' \in BOOLEAN /\ unread' \in BOOLEAN
      /\ chatOpen' \in BOOLEAN
      /\ ~ahead => Ordered(messages') /\ CH!Newest(messages') <= tok'
      /\ chatOpen' => chatOpen /\ known'
      /\ chatOpen /\ ~chatOpen' => ~known' /\ ~member
      /\ ~known /\ ~member => ~known'
      /\ known' => \/ messages' = messages /\ known /\ (unread => unread')
                   \/ unread' \/ chatOpen
  BY Zenon, SyncFacts
<1>2. ChatTypes'
  <2>1. log <= log' /\ saved[1] <= log' /\ tok' <= log' /\ saved \in Nat \X BOOLEAN
    BY <1>1 DEF ChatInv, ChatTypes
  <2>2. joined' \in Nat /\ member' \in BOOLEAN /\ ahead' \in BOOLEAN
    BY DEF ChatInv, ChatTypes
  <2> QED
    BY <1>1, <2>1, <2>2 DEF ChatTypes
<1>3. RoomOfCanvas'
  <2>1. /\ chatOpen => known /\ Len(chatStack) >= 2
        /\ Len(chatStack) >= 2 /\ ~chatOpen => ~known /\ ~member
    BY DEF ChatInv, RoomOfCanvas
  <2> QED
    BY <1>1, <2>1 DEF RoomOfCanvas
<1>4. PastToken'
  BY <1>1 DEF PastToken
<1>5. CH!Newest(messages') \in Nat /\ CH!Newest(messages) \in Nat /\ seen \in Nat
  <2>1. messages \in Seq(Nat) /\ seen \in Nat
    BY DEF ChatInv, ChatTypes
  <2> QED
    BY <1>1, <2>1, WindowClamped
<1>6. MarkedOnList'
  <2> SUFFICES ASSUME known', CH!Newest(messages') > seen', Len(messages') < Retain,
                      ~(Len(chatStack') >= 2)
               PROVE  unread'
    BY DEF MarkedOnList
  <2>1. ~(Len(chatStack) >= 2) /\ ~chatOpen
    BY DEF ChatInv, RoomOfCanvas
  <2>2. CASE messages' = messages /\ known /\ (unread => unread')
    <3>1. CH!Newest(messages) > seen
      BY <1>5, <2>2
    <3> QED
      BY <2>1, <2>2, <3>1 DEF ChatInv, MarkedOnList
  <2> QED
    BY <1>1, <2>1, <2>2
<1>7. CASE chatOpen' => /\ chatView' = "Chat" /\ canvas' = CH!Window(messages', scroll')
                        /\ CH!Newest(messages') <= seen'
  <2>1. DrawnAndSeen' /\ ViewUnderMenu'
    BY <1>7 DEF DrawnAndSeen, ViewUnderMenu
  <2> QED
    BY <1>2, <1>3, <1>4, <1>6, <2>1 DEF ChatInv
<1>8. CASE /\ UNCHANGED <<chatView, chatStack, scroll, canvas, seen>>
           /\ chatOpen' /\ chatView = "Chat" /\ Len(messages') < Retain => messages' = messages
  <2>1. DrawnAndSeen'
    <3> SUFFICES ASSUME Len(messages') < Retain, chatView' = "Chat", chatOpen'
                 PROVE  canvas' = CH!Window(messages', scroll') /\ CH!Newest(messages') <= seen'
      BY DEF DrawnAndSeen
    <3>1. messages' = messages /\ chatOpen /\ chatView = "Chat"
      BY <1>1, <1>8
    <3> QED
      BY <1>8, <3>1 DEF ChatInv, DrawnAndSeen
  <2>2. ViewUnderMenu'
    <3>1. CH!Top' = CH!Top /\ chatView' = chatView
      BY <1>8 DEF CH!Top
    <3> QED
      BY <1>1, <3>1 DEF ChatInv, ViewUnderMenu
  <2> QED
    BY <1>2, <1>3, <1>4, <1>6, <2>1, <2>2 DEF ChatInv
<1> QED
  BY <1>7, <1>8

\* plugin_on_tick and the key [1] of the list.
LEMMA ChatPoll ==
    ASSUME ChatInv, CH!Poll \/ CH!SyncKey
    PROVE  ChatInv'
<1> DEFINE shown(o, ms) == IF o THEN Len(ms) ELSE 0
           differs == shown(chatOpen', messages') # shown(chatOpen, messages)
<1>1. /\ CH!SyncNow(FALSE, log) /\ chatStack # <<>>
      /\ UNCHANGED <<joined, log, member, saved, chatStack, ahead>>
  BY Zenon DEF CH!Poll, CH!SyncKey, CH!serverv, CH!screenv
<1>2. \/ CH!ShowOpenChat(scroll)
      \/ /\ UNCHANGED <<chatView, scroll, canvas, seen>>
         /\ chatView = "Chat" => ~differs
  <2>1. CASE CH!Poll
    BY <2>1 DEF CH!Poll
  <2>2. CASE CH!SyncKey
    BY <2>2 DEF CH!SyncKey, CH!screenv
  <2> QED
    BY <2>1, <2>2
<1>3. /\ log \in Nat /\ log >= log /\ log <= log' /\ log' \in Nat /\ seen \in Nat
      /\ scroll \in Nat /\ chatStack \in Shapes /\ chatOpen \in BOOLEAN
  BY <1>1 DEF ChatInv, ChatTypes
<1>4. /\ messages' \in Seq(Nat) /\ chatOpen' \in BOOLEAN
      /\ chatOpen' => chatOpen
      /\ chatOpen' /\ Len(messages') < Retain =>
            messages' = messages \/ Len(messages') # Len(messages)
  BY Zenon, <1>1, <1>3, SyncFacts
<1>5. CASE CH!ShowOpenChat(scroll)
  <2>1. /\ scroll' \in Nat /\ seen' \in Nat /\ seen <= seen'
        /\ chatOpen' => /\ chatView' = "Chat" /\ canvas' = CH!Window(messages', scroll')
                        /\ CH!Newest(messages') <= seen'
    BY <1>3, <1>4, <1>5, Drawing
  <2>2. chatStack' \in Shapes /\ chatStack' # <<>> /\ Len(chatStack') = Len(chatStack)
    BY <1>1, <1>3
  <2> QED
    BY <1>1, <1>3, <2>1, <2>2, ChatSynced
<1>6. CASE /\ UNCHANGED <<chatView, scroll, canvas, seen>>
           /\ chatView = "Chat" => ~differs
  <2>1. chatOpen' /\ chatView = "Chat" /\ Len(messages') < Retain => messages' = messages
    BY <1>4, <1>6
  <2>2. /\ chatStack' \in Shapes /\ chatStack' # <<>> /\ Len(chatStack') = Len(chatStack)
        /\ scroll' \in Nat /\ seen' \in Nat /\ seen <= seen'
    BY <1>1, <1>3, <1>6
  <2> QED
    BY <1>1, <1>3, <1>6, <2>1, <2>2, ChatSynced
<1> QED
  BY <1>2, <1>5, <1>6

\* Scrolling, and an input that was cancelled: the chat is drawn again.
LEMMA ChatRedrawn ==
    ASSUME ChatInv, (\E s \in 0..Retain : CH!Scroll(s)) \/ CH!InputDone
    PROVE  ChatInv'
<1>1. PICK s \in Nat :
         /\ CH!ShowOpenChat(s)
         /\ UNCHANGED <<joined, log, member, CH!syncv, saved, ahead>>
         /\ \/ CH!Top = "chat" /\ chatStack' = chatStack
            \/ CH!Top \in {"invite", "reply"} /\ chatStack' = CH!Under
  <2>1. ASSUME NEW s \in 0..Retain, CH!Scroll(s)
        PROVE  \E t \in Nat :
                 /\ CH!ShowOpenChat(t)
                 /\ UNCHANGED <<joined, log, member, CH!syncv, saved, ahead>>
                 /\ \/ CH!Top = "chat" /\ chatStack' = chatStack
                    \/ CH!Top \in {"invite", "reply"} /\ chatStack' = CH!Under
    <3>1. s \in Nat
      BY ChatAssumption
    <3>2. /\ CH!ShowOpenChat(s)
          /\ UNCHANGED <<joined, log, member, CH!syncv, saved, ahead>>
          /\ CH!Top = "chat" /\ chatStack' = chatStack
      BY Zenon, <2>1 DEF CH!Scroll, CH!Key, CH!serverv
    <3> QED
      BY Zenon, <3>1, <3>2
  <2>2. ASSUME CH!InputDone
        PROVE  \E t \in Nat :
                 /\ CH!ShowOpenChat(t)
                 /\ UNCHANGED <<joined, log, member, CH!syncv, saved, ahead>>
                 /\ \/ CH!Top = "chat" /\ chatStack' = chatStack
                    \/ CH!Top \in {"invite", "reply"} /\ chatStack' = CH!Under
    <3>1. scroll \in Nat
      BY DEF ChatInv, ChatTypes
    <3>2. /\ CH!ShowOpenChat(scroll)
          /\ UNCHANGED <<joined, log, member, CH!syncv, saved, ahead>>
          /\ CH!Top \in {"invite", "reply"} /\ chatStack' = CH!Under
      BY Zenon, <2>2 DEF CH!InputDone, CH!serverv
    <3> QED
      BY Zenon, <3>1, <3>2
  <2> QED
    BY <2>1, <2>2
<1>2. /\ chatStack' = <<"list", "chat">> /\ Len(chatStack) >= 2 /\ chatStack' \in Shapes
      /\ Len(chatStack') = 2 /\ chatStack' # <<>>
  <2>1. chatStack \in Shapes
    BY DEF ChatInv, ChatTypes
  <2>2. ASSUME CH!Top = "chat" /\ chatStack' = chatStack
        PROVE  chatStack' = <<"list", "chat">> /\ Len(chatStack) >= 2
    <3>1. chatStack = <<"list", "chat">>
      BY <2>1, <2>2, TopOfShape
    <3> QED
      BY <2>2, <3>1
  <2>3. ASSUME CH!Top \in {"invite", "reply"} /\ chatStack' = CH!Under
        PROVE  chatStack' = <<"list", "chat">> /\ Len(chatStack) >= 2
    <3>1. CH!Top = "invite" \/ CH!Top = "reply"
      BY <2>3
    <3>2. chatStack' = <<"list", "chat">>
      BY <2>1, <2>3, DialogShapes
    <3>3. chatStack = <<"list", "chat", "invite">> \/ chatStack = <<"list", "chat", "reply">>
      BY <2>1, <3>1, TopOfShape
    <3> QED
      BY <3>2, <3>3
  <2>4. chatStack' = <<"list", "chat">> /\ Len(chatStack) >= 2
    BY Zenon, <1>1, <2>2, <2>3
  <2> QED
    BY <2>4 DEF Shapes
<1>3. /\ log \in Nat /\ log >= log /\ log <= log' /\ log' \in Nat /\ seen \in Nat
      /\ messages' \in Seq(Nat) /\ chatOpen' \in BOOLEAN
  BY <1>1 DEF ChatInv, ChatTypes, CH!syncv
<1>4. /\ scroll' \in Nat /\ seen' \in Nat /\ seen <= seen'
      /\ chatOpen' => /\ chatView' = "Chat" /\ canvas' = CH!Window(messages', scroll')
                      /\ CH!Newest(messages') <= seen'
  BY <1>1, <1>3, Drawing
<1>5. CH!SyncNow(FALSE, log)
  BY <1>1 DEF CH!SyncNow
<1>6. /\ UNCHANGED <<joined, member, saved, ahead>>
      /\ Len(chatStack') >= 2 <=> Len(chatStack) >= 2
  BY <1>1, <1>2
<1> QED
  BY Zenon, <1>2, <1>3, <1>4, <1>5, <1>6, ChatSynced

\* reply_done: what was entered is sent and fetched, or was not.
LEMMA ChatReply ==
    ASSUME ChatInv, CH!ReplyDone
    PROVE  ChatInv'
<1>1. CH!Top = "reply" /\ chatStack' = CH!Under /\ UNCHANGED <<saved, ahead>>
  BY DEF CH!ReplyDone
<1>2. /\ chatStack' = <<"list", "chat">> /\ Len(chatStack) >= 2 /\ chatStack' \in Shapes
      /\ Len(chatStack') = 2 /\ chatStack' # <<>>
  <2>1. chatStack \in Shapes
    BY DEF ChatInv, ChatTypes
  <2>2. chatStack' = <<"list", "chat">> /\ Len(chatStack) >= 2
    BY <1>1, <2>1, TopOfShape, DialogShapes
  <2> QED
    BY <2>2 DEF Shapes
<1>3. log \in Nat /\ seen \in Nat /\ scroll \in Nat /\ log >= log /\ log + 1 \in Nat
      /\ log + 1 >= log
  BY DEF ChatInv, ChatTypes
<1>4. CASE ~chatOpen
  <2>1. /\ UNCHANGED <<joined, log, member, tok, told, known, messages, unread, chatOpen,
                       scroll, canvas, seen>>
    BY <1>4 DEF CH!ReplyDone, CH!serverv, CH!syncv
  <2>2. CH!SyncNow(FALSE, log)
    BY <2>1 DEF CH!SyncNow, CH!syncv
  <2>3. /\ log' \in Nat /\ log <= log' /\ scroll' \in Nat /\ seen' \in Nat /\ seen <= seen'
        /\ ~chatOpen'
    BY <1>3, <1>4, <2>1
  <2>4. /\ UNCHANGED <<joined, member, saved, ahead>>
        /\ Len(chatStack') >= 2 <=> Len(chatStack) >= 2
    BY <1>1, <1>2, <2>1
  <2> QED
    BY Zenon, <1>2, <1>3, <2>2, <2>3, <2>4, ChatSynced
<1>5. CASE chatOpen
  <2>1. /\ CH!ShowOpenChat(0)
        /\ \/ UNCHANGED <<CH!serverv, CH!syncv>>
           \/ CH!SendText /\ CH!SyncNow(FALSE, log + 1)
    BY Zenon, <1>5 DEF CH!ReplyDone
  <2>2. ASSUME NEW upto \in Nat, upto >= log, CH!SyncNow(FALSE, upto), log' = upto,
               UNCHANGED <<joined, member>>
        PROVE  ChatInv'
    <3>1. messages' \in Seq(Nat) /\ chatOpen' \in BOOLEAN
      BY Zenon, <2>2, SyncFacts
    <3>2. /\ scroll' \in Nat /\ seen' \in Nat /\ seen <= seen'
          /\ chatOpen' => /\ chatView' = "Chat" /\ canvas' = CH!Window(messages', scroll')
                          /\ CH!Newest(messages') <= seen'
      BY <1>3, <2>1, <3>1, Drawing
    <3>3. upto <= log' /\ log' \in Nat
      BY <2>2
    <3>4. /\ UNCHANGED <<joined, member, saved, ahead>>
          /\ Len(chatStack') >= 2 <=> Len(chatStack) >= 2
      BY <1>1, <1>2, <2>2
    <3> QED
      BY Zenon, <1>2, <2>2, <3>2, <3>3, <3>4, ChatSynced
  <2>3. CASE UNCHANGED <<CH!serverv, CH!syncv>>
    <3>1. CH!SyncNow(FALSE, log) /\ log' = log /\ UNCHANGED <<joined, member>>
      BY <2>3 DEF CH!SyncNow, CH!serverv
    <3> QED
      BY <1>3, <2>2, <3>1
  <2>4. CASE CH!SendText /\ CH!SyncNow(FALSE, log + 1)
    <3>1. log' = log + 1 /\ UNCHANGED <<joined, member>>
      BY <2>4 DEF CH!SendText
    <3> QED
      BY <1>3, <2>2, <2>4, <3>1
  <2> QED
    BY <2>1, <2>3, <2>4
<1> QED
  BY <1>4, <1>5

\* Dialogs over the chat: writing, the menu, inviting.
LEMMA ChatDialog ==
    ASSUME ChatInv, CH!Write \/ CH!Menu \/ CH!Invite \/ CH!CloseMenu
    PROVE  ChatInv'
<1>1. UNCHANGED <<joined, log, member, tok, told, known, messages, unread, chatOpen, saved,
                  scroll, canvas, seen, ahead>>
  BY DEF CH!Write, CH!Menu, CH!Invite, CH!CloseMenu, CH!serverv, CH!syncv
<1>2. chatStack \in Shapes
  BY DEF ChatInv, ChatTypes
<1>3. /\ Len(chatStack) >= 2
      /\ \/ /\ chatStack' \in {<<"list", "chat", "reply">>, <<"list", "chat", "invite">>}
            /\ chatView' = "Composing"
         \/ /\ chatStack' \in {<<"list", "chat">>, <<"list", "chat", "menu">>}
            /\ chatView' = chatView /\ CH!Top \in {"chat", "menu"}
  <2>1. CASE CH!Write
    BY <1>2, <2>1, TopOfShape, DialogShapes DEF CH!Write, CH!Key
  <2>2. CASE CH!Menu
    BY <1>2, <2>2, TopOfShape, DialogShapes DEF CH!Menu, CH!Key
  <2>3. CASE CH!Invite
    BY <1>2, <2>3, TopOfShape, DialogShapes DEF CH!Invite
  <2>4. CASE CH!CloseMenu
    BY <1>2, <2>4, TopOfShape, DialogShapes DEF CH!CloseMenu
  <2> QED
    BY <2>1, <2>2, <2>3, <2>4
<1>4. chatStack' \in Shapes /\ Len(chatStack') >= 2 /\ chatStack' # <<>>
  <2>1. CASE chatStack' = <<"list", "chat", "reply">>
    BY <2>1 DEF Shapes
  <2>2. CASE chatStack' = <<"list", "chat", "invite">>
    BY <2>2 DEF Shapes
  <2>3. CASE chatStack' = <<"list", "chat">>
    BY <2>3 DEF Shapes
  <2>4. CASE chatStack' = <<"list", "chat", "menu">>
    BY <2>4 DEF Shapes
  <2> QED
    BY <1>3, <2>1, <2>2, <2>3, <2>4
<1>5. ChatTypes' /\ RoomOfCanvas' /\ PastToken' /\ MarkedOnList'
  BY <1>1, <1>3, <1>4 DEF ChatInv, ChatTypes, RoomOfCanvas, PastToken, MarkedOnList
<1>6. DrawnAndSeen'
  BY <1>1, <1>3 DEF ChatInv, DrawnAndSeen
<1>7. ViewUnderMenu'
  <2>1. CASE /\ chatStack' \in {<<"list", "chat", "reply">>, <<"list", "chat", "invite">>}
             /\ chatView' = "Composing"
    <3>1. CH!Top' \in {"reply", "invite"}
      <4>1. chatStack' # <<>> /\ chatStack'[Len(chatStack')] \in {"reply", "invite"}
        <5>1. CASE chatStack' = <<"list", "chat", "reply">>
          BY <5>1
        <5>2. CASE chatStack' = <<"list", "chat", "invite">>
          BY <5>2
        <5> QED
          BY <2>1, <5>1, <5>2
      <4> QED
        BY <4>1 DEF CH!Top
    <3> QED
      BY <3>1 DEF ViewUnderMenu
  <2>2. CASE chatView' = chatView /\ CH!Top \in {"chat", "menu"}
    BY <1>1, <2>2 DEF ChatInv, ViewUnderMenu
  <2> QED
    BY <1>3, <2>1, <2>2
<1> QED
  BY <1>5, <1>6, <1>7 DEF ChatInv

\* N leaves the chat.
LEMMA ChatLeave ==
    ASSUME ChatInv, CH!Leave
    PROVE  ChatInv'
<1>1. /\ UNCHANGED <<joined, log, member, tok, told, known, messages, unread, saved,
                     scroll, canvas, seen, ahead>>
      /\ CH!Top = "chat" /\ chatView = "Chat" /\ chatStack' = CH!Under
  BY DEF CH!Leave, CH!Key, CH!serverv
<1>2. chatOpen' = FALSE
  BY DEF CH!Leave
<1>3. chatStack \in Shapes
  BY DEF ChatInv, ChatTypes
<1>4. Len(chatStack) >= 2 /\ chatStack' = <<"list">>
  BY <1>1, <1>3, TopOfShape, DialogShapes
<1>5. chatStack' \in Shapes /\ Len(chatStack') = 1 /\ chatStack' # <<>>
  BY <1>4 DEF Shapes
<1>6. ChatTypes'
  <2>1. chatOpen' \in BOOLEAN
    BY <1>2
  <2> QED
    BY <1>1, <1>5, <2>1 DEF ChatInv, ChatTypes
<1>7. RoomOfCanvas' /\ PastToken' /\ DrawnAndSeen' /\ ViewUnderMenu'
  BY <1>1, <1>2, <1>5
     DEF ChatInv, RoomOfCanvas, PastToken, DrawnAndSeen, ViewUnderMenu
<1>8. MarkedOnList'
  <2>1. CASE chatOpen
    <3>1. Len(messages) < Retain => CH!Newest(messages) <= seen
      BY <1>1, <2>1 DEF ChatInv, DrawnAndSeen
    <3>2. CH!Newest(messages) \in Nat /\ seen \in Nat
      BY WindowClamped DEF ChatInv, ChatTypes
    <3> QED
      BY <1>1, <3>1, <3>2 DEF MarkedOnList
  <2>2. CASE ~chatOpen
    BY <1>1, <1>4, <2>2 DEF ChatInv, RoomOfCanvas, MarkedOnList
  <2> QED
    BY <2>1, <2>2
<1> QED
  BY <1>6, <1>7, <1>8 DEF ChatInv

\* open_chat: the history of an empty room is in order.
LEMMA HistoryFacts ==
    ASSUME ChatTypes
    PROVE  \A history \in CH!History :
              /\ history \in Seq(Nat) /\ Ordered(history)
              /\ messages # <<>> => history = <<>>
              /\ history # <<>> => history[1] > 0
<1> SUFFICES ASSUME NEW history \in CH!History
             PROVE  /\ history \in Seq(Nat) /\ Ordered(history)
                    /\ messages # <<>> => history = <<>>
                    /\ history # <<>> => history[1] > 0
  OBVIOUS
<1>1. CASE history = <<>>
  BY <1>1 DEF Ordered
<1>2. CASE history # <<>>
  <2> DEFINE a == CH!Greater(1, log - Backfill + 1)
  <2>1. messages = <<>> /\ history = CH!Run(a, log)
    BY <1>2 DEF CH!History, CH!RoomMessages
  <2>2. a \in Int /\ a > 0 /\ log \in Int
    BY ChatAssumption DEF CH!Greater, ChatTypes
  <2> HIDE DEF a
  <2>3. history \in Seq(Nat) /\ Ordered(history) /\ history[1] = a
    BY <1>2, <2>1, <2>2, RunFacts, RunOrdered
  <2> QED
    BY <2>1, <2>2, <2>3
<1> QED
  BY <1>1, <1>2

\* open_chat.
LEMMA ChatOpens ==
    ASSUME ChatInv, CH!OpenChat
    PROVE  ChatInv'
<1>1. /\ CH!Top = "list" /\ known /\ chatStack' = Append(chatStack, "chat")
      /\ chatView' = "Chat" /\ scroll' = 0 /\ canvas' = CH!Window(messages', 0)
      /\ CH!Sees(TRUE)
      /\ UNCHANGED <<joined, log, member, tok, told, saved, known>>
  BY Zenon DEF CH!OpenChat, CH!serverv
<1>2. chatOpen' = TRUE /\ unread' = FALSE
  BY DEF CH!OpenChat
<1>3. PICK history \in CH!History :
         /\ messages' = CH!PushMessages(messages, history)
         /\ ahead' = (ahead \/ CH!Newest(history) > tok)
  BY DEF CH!OpenChat
<1>4. /\ chatStack \in Shapes /\ messages \in Seq(Nat) /\ Len(messages) <= Retain
      /\ tok \in Nat /\ seen \in Nat /\ ahead \in BOOLEAN
  BY DEF ChatInv, ChatTypes
<1>5. /\ history \in Seq(Nat) /\ Ordered(history)
      /\ messages # <<>> => history = <<>>
      /\ history # <<>> => history[1] > 0
  BY HistoryFacts DEF ChatInv
<1>6. /\ messages' \in Seq(Nat) /\ Len(messages') <= Retain
      /\ history = <<>> => messages' = messages
      /\ history # <<>> => CH!Newest(messages') = CH!Newest(history)
  BY <1>3, <1>4, <1>5, PushFacts
<1>7. chatStack' \in Shapes /\ Len(chatStack') = 2 /\ chatStack' # <<>>
  <2>1. chatStack' = <<"list", "chat">>
    BY <1>1, <1>4, DialogShapes
  <2> QED
    BY <2>1 DEF Shapes
<1>8. PastToken'
  <2> SUFFICES ASSUME ~ahead' PROVE Ordered(messages') /\ CH!Newest(messages') <= tok'
    BY DEF PastToken
  <2>1. ~ahead /\ ~(CH!Newest(history) > tok)
    BY <1>3, <1>4
  <2>2. Ordered(messages) /\ CH!Newest(messages) <= tok
    BY <2>1 DEF ChatInv, PastToken
  <2>3. CASE history = <<>>
    BY <1>1, <1>6, <2>2, <2>3
  <2>4. CASE history # <<>>
    <3>1. messages = <<>> /\ CH!Newest(messages) = 0 /\ history[1] \in Nat
      BY <1>5, <2>4 DEF CH!Newest
    <3>2. Ordered(messages')
      BY <1>3, <1>4, <1>5, <2>2, <3>1, PushOrdered
    <3>3. CH!Newest(history) \in Nat
      BY <1>5 DEF CH!Newest
    <3> QED
      BY <1>1, <1>4, <1>6, <2>1, <2>4, <3>2, <3>3
  <2> QED
    BY <2>3, <2>4
<1>9. seen' \in Nat /\ CH!Newest(messages') <= seen'
  BY <1>1, <1>4, <1>6, Seen
<1>10. ChatTypes'
  <2>1. chatOpen' \in BOOLEAN /\ unread' \in BOOLEAN
    BY <1>2
  <2>2. ahead' \in BOOLEAN
    BY Zenon, <1>3
  <2>3. scroll' \in Nat
    BY <1>1
  <2> QED
    BY <1>1, <1>6, <1>7, <1>9, <2>1, <2>2, <2>3 DEF ChatInv, ChatTypes
<1>11. RoomOfCanvas' /\ MarkedOnList'
  BY <1>1, <1>2, <1>7 DEF RoomOfCanvas, MarkedOnList
<1>12. DrawnAndSeen' /\ ViewUnderMenu'
  BY <1>1, <1>9 DEF DrawnAndSeen, ViewUnderMenu
<1> QED
  BY <1>8, <1>10, <1>11, <1>12 DEF ChatInv

\* Every step of the chat keeps the invariant.
LEMMA ChatStep ==
    ASSUME ChatInv, CH!Next
    PROVE  ChatInv'
<1>1. ASSUME NEW flushed \in BOOLEAN, CH!Stop(flushed) PROVE ChatInv'
  BY <1>1, ChatStop
<1> QED
  BY <1>1, ChatServer, ChatEnter, ChatOpens, ChatJoinOther, ChatPoll, ChatRedrawn, ChatDialog,
     ChatLeave, ChatReply
     DEF CH!Next

\* The chat: an open chat below RETAIN shows what is kept, nothing is kept twice
\* or out of order, what is new is marked and the canvas answers its keys,
\* whatever RETAIN, the limits of the requests and the size of the canvas are,
\* and whatever syncs, histories and sends fail.
THEOREM ChatIsTheRooms == AppSpec => []ChatTrue
<1>1. AppInit => ChatInv
  BY ChatInit DEF AppInit
<1>2. ChatInv /\ [AppNext]_appVars => ChatInv'
  <2> SUFFICES ASSUME ChatInv, [AppNext]_appVars PROVE ChatInv'
    OBVIOUS
  <2>1. CASE CH!Next
    BY <2>1, ChatStep
  <2>2. CASE UNCHANGED ch
    <3>1. CH!Top' = CH!Top
      BY <2>2 DEF ch, CH!Top
    <3> QED
      BY <2>2, <3>1 DEF ch, ChatInv, ChatTypes, RoomOfCanvas, PastToken, DrawnAndSeen,
                        ViewUnderMenu, MarkedOnList
  <2> QED
    BY <2>1, <2>2, StepOfEach
<1>3. ChatInv => ChatTrue
  BY ChatIsTrue DEF ChatTrue
<1> QED
  BY <1>1, <1>2, <1>3, PTL DEF AppSpec

-----------------------------------------------------------------------------
(* The room list: its invariant.                                           *)

Memberships == {"none", "invited", "joined"}

Holds(s, x) == \E i \in 1..Len(s) : s[i] = x

RoomSet == [id : 1..RoomCount, invited : BOOLEAN]
Kinds   == {"rooms", "system", "menu", "menuinv", "invite", "chat", "input", "delete",
            "editor", "reset"}
ViewSet == [v : Kinds, who : 0..RoomCount, rows : Seq(Nat \X Nat)]

\* The first view is the room list, an editor is over the system list.
Stacked(vs) ==
    /\ vs # <<>> => vs[1].v = "rooms"
    /\ \A i \in 1..Len(vs) : vs[i].v = "editor" => i > 1 /\ vs[i - 1].v = "system"

\* Without a chat.
NoChat(vs) == \A i \in 1..Len(vs) : vs[i].v # "chat"

\* A chat has nothing over it, and VIEW is Chat while it is on top.
ChatOnTop(vs, vw) ==
    /\ \A i \in 1..Len(vs) : vs[i].v = "chat" <=> i = Len(vs) /\ vw = "Chat"
    /\ vw = "Chat" => vs # <<>>

\* A row carries the place of the room it shows.
RowsMatch(rows, rs) ==
    /\ Len(rows) = Len(rs)
    /\ \A p \in 1..Len(rows) : rows[p][1] \in 1..Len(rs) /\ rs[rows[p][1]].id = rows[p][2]

\* The list drawn last matches ROOMS, whatever is over it, but under a chat.
LastDrawn(vs, vw, dr, rs) ==
    dr # 0 => vs[dr].v = "rooms" /\ (vw # "Chat" => RowsMatch(vs[dr].rows, rs))

\* The delete dialog nearest to the top is the one PENDING_DELETE is about.
TopmostDelete(vs, del) ==
    \A i \in 1..Len(vs) :
        vs[i].v = "delete" /\ (\A j \in i + 1..Len(vs) : vs[j].v # "delete")
            => del \in {0, vs[i].who}

\* What the screen shows.
ScreenInv(vs, vw, dr, rs, del) ==
    /\ vs \in Seq(ViewSet) /\ dr \in 0..Len(vs)
    /\ Stacked(vs) /\ ChatOnTop(vs, vw) /\ LastDrawn(vs, vw, dr, rs) /\ TopmostDelete(vs, del)

\* A room is open in the chat only, and listed.
OpenInChat == open # 0 => view = "Chat" /\ open \in MR!Listed(rooms)

\* But for the rooms nws, hid and drp, ROOMS rs is what the account has.
Accounts(rs, srv, nws, hid, drp) ==
    \A r \in 1..RoomCount \ (nws \cup hid \cup drp) :
        /\ r \in MR!Listed(rs) <=> srv[r] # "none"
        /\ \A x \in RoomSet : Holds(rs, x) /\ x.id = r => (x.invited <=> srv[r] = "invited")

ListTypes ==
    /\ members \in [1..RoomCount -> Memberships] /\ rooms \in Seq(RoomSet)
    /\ target \in 0..RoomCount /\ deleting \in 0..RoomCount
    /\ news \subseteq 1..RoomCount

ListInv ==
    /\ ListTypes /\ ScreenInv(views, view, drawn, rooms, deleting) /\ OpenInChat
    /\ batch = "fresh" => Accounts(rooms, members, news, hidden, dropped)

-----------------------------------------------------------------------------
(* The room list: sifting a sequence.                                      *)

\* f sifts s up to each place.
Sifts(f, s, keep) ==
    f = [n \in 0..Len(s) |->
            IF n = 0 THEN <<>>
            ELSE IF n \in keep THEN Append(f[n - 1], s[n]) ELSE f[n - 1]]

\* The recursive definition of Sift has a solution, and Sift is its last value.
LEMMA SiftUnfolds ==
    \A S, s, keep : s \in Seq(S) =>
        \E f : Sifts(f, s, keep) /\ MR!Sift(s, keep) = f[Len(s)]
<1> SUFFICES ASSUME NEW S, NEW s, NEW keep, s \in Seq(S)
             PROVE  \E f : Sifts(f, s, keep) /\ MR!Sift(s, keep) = f[Len(s)]
  OBVIOUS
<1> DEFINE L == Len(s)
           G == [p \in (1..L) \X Seq(S) |->
                    IF p[1] \in keep THEN Append(p[2], s[p[1]]) ELSE p[2]]
           U == [n \in 0..L |-> Seq(S)]
           upto == CHOOSE u : u = [n \in 0..L |->
                                      IF n = 0 THEN <<>>
                                      ELSE IF n \in keep THEN Append(u[n - 1], s[n]) ELSE u[n - 1]]
<1>1. L \in Nat /\ \A n \in 1..L : s[n] \in S
  OBVIOUS
<1>2. MR!Sift(s, keep) = upto[L]
  BY DEF MR!Sift
<1> HIDE DEF L
<1>3. ASSUME NEW n \in 1..L, NEW v \in Seq(S)
      PROVE  /\ G[<<n, v>>] = IF n \in keep THEN Append(v, s[n]) ELSE v
             /\ G[<<n, v>>] \in Seq(S)
  BY <1>1
<1>4. PICK f : Recursive(f, L, <<>>, G)
  BY <1>1, RecursionDefines
<1>5. \A n \in 0..L : f[n] \in Seq(S)
  <2>1. \A n \in 1..L : \A v \in U[n - 1] : G[<<n, v>>] \in U[n]
    <3> SUFFICES ASSUME NEW n \in 1..L, NEW v \in U[n - 1] PROVE G[<<n, v>>] \in U[n]
      OBVIOUS
    <3>1. U[n - 1] = Seq(S) /\ U[n] = Seq(S)
      BY <1>1
    <3> HIDE DEF U, G
    <3> QED
      BY <1>3, <3>1
  <2>2. <<>> \in U[0]
    BY <1>1
  <2> HIDE DEF U, G
  <2>3. \A n \in 0..L : f[n] \in U[n]
    BY <1>1, <1>4, <2>1, <2>2, RecursionIn
  <2> QED
    BY <2>3 DEF U
<1>6. f = [n \in 0..L |-> IF n = 0 THEN <<>>
                          ELSE IF n \in keep THEN Append(f[n - 1], s[n]) ELSE f[n - 1]]
  <2>1. ASSUME NEW n \in 0..L, n # 0
        PROVE  G[<<n, f[n - 1]>>] = IF n \in keep THEN Append(f[n - 1], s[n]) ELSE f[n - 1]
    <3>1. n \in 1..L /\ n - 1 \in 0..L
      BY <1>1, <2>1
    <3> HIDE DEF G
    <3> QED
      BY <1>3, <1>5, <3>1
  <2> HIDE DEF G
  <2>2. f = [n \in 0..L |-> IF n = 0 THEN <<>> ELSE G[<<n, f[n - 1]>>]]
    BY <1>4 DEF Recursive
  <2> QED
    BY <2>1, <2>2
<1>7. upto = [n \in 0..L |-> IF n = 0 THEN <<>>
                             ELSE IF n \in keep THEN Append(upto[n - 1], s[n]) ELSE upto[n - 1]]
  BY <1>6
<1> HIDE DEF upto, G, U
<1>8. Sifts(upto, s, keep)
  BY <1>7 DEF Sifts, L
<1> QED
  BY <1>2, <1>8 DEF L

\* Sifting goes place by place.
LEMMA SiftsStep ==
    \A S, f, s, keep : s \in Seq(S) /\ Sifts(f, s, keep) =>
        /\ f[0] = <<>>
        /\ \A n \in 1..Len(s) : f[n] = IF n \in keep THEN Append(f[n - 1], s[n]) ELSE f[n - 1]
<1> SUFFICES ASSUME NEW S, NEW f, NEW s, NEW keep, s \in Seq(S), Sifts(f, s, keep)
             PROVE  /\ f[0] = <<>>
                    /\ \A n \in 1..Len(s) :
                          f[n] = IF n \in keep THEN Append(f[n - 1], s[n]) ELSE f[n - 1]
  OBVIOUS
<1> DEFINE v(n) == IF n = 0 THEN <<>>
                   ELSE IF n \in keep THEN Append(f[n - 1], s[n]) ELSE f[n - 1]
<1>1. Len(s) \in Nat
  OBVIOUS
<1>2. f = [n \in 0..Len(s) |-> v(n)]
  BY DEF Sifts
<1> HIDE DEF v
<1>3. \A n \in 0..Len(s) : f[n] = v(n)
  BY <1>2
<1>4. 0 \in 0..Len(s) /\ \A n \in 1..Len(s) : n \in 0..Len(s) /\ n # 0
  BY <1>1
<1> QED
  BY <1>3, <1>4 DEF v

\* What is sifted are the elements at the places that are kept.
LEMMA SiftFacts ==
    \A S, s, keep : s \in Seq(S) =>
        /\ MR!Sift(s, keep) \in Seq(S)
        /\ \A i \in 1..Len(MR!Sift(s, keep)) :
              \E k \in 1..Len(s) : k \in keep /\ MR!Sift(s, keep)[i] = s[k]
        /\ \A k \in 1..Len(s) : k \in keep =>
              \E i \in 1..Len(MR!Sift(s, keep)) : MR!Sift(s, keep)[i] = s[k]
<1> SUFFICES ASSUME NEW S, NEW s, NEW keep, s \in Seq(S)
             PROVE  /\ MR!Sift(s, keep) \in Seq(S)
                    /\ \A i \in 1..Len(MR!Sift(s, keep)) :
                          \E k \in 1..Len(s) : k \in keep /\ MR!Sift(s, keep)[i] = s[k]
                    /\ \A k \in 1..Len(s) : k \in keep =>
                          \E i \in 1..Len(MR!Sift(s, keep)) : MR!Sift(s, keep)[i] = s[k]
  OBVIOUS
<1>1. PICK f : Sifts(f, s, keep) /\ MR!Sift(s, keep) = f[Len(s)]
  BY SiftUnfolds
<1> DEFINE L == Len(s)
           P(n) == /\ f[n] \in Seq(S)
                   /\ \A i \in 1..Len(f[n]) : \E k \in 1..n : k \in keep /\ f[n][i] = s[k]
                   /\ \A k \in 1..n : k \in keep => \E i \in 1..Len(f[n]) : f[n][i] = s[k]
           T == {n \in 0..L : P(n)}
<1>2. L \in Nat /\ \A n \in 1..L : s[n] \in S
  OBVIOUS
<1>3. /\ f[0] = <<>>
      /\ \A n \in 1..L : f[n] = IF n \in keep THEN Append(f[n - 1], s[n]) ELSE f[n - 1]
  BY <1>1, SiftsStep
<1> HIDE DEF L
<1>4. 0 \in T
  <2>1. f[0] \in Seq(S) /\ Len(f[0]) = 0 /\ 1..0 = {}
    BY <1>3
  <2> QED
    BY <1>2, <2>1
<1>5. ASSUME NEW n \in 1..L, n - 1 \in T PROVE n \in T
  <2>1. P(n - 1) /\ n \in 0..L /\ n \in Nat /\ \A k \in 1..n : k = n \/ k \in 1..n - 1
    BY <1>2, <1>5
  <2>2. CASE n \in keep
    <3> DEFINE u == f[n - 1]
    <3>1. f[n] = Append(u, s[n])
      BY <1>3, <2>2
    <3>2. u \in Seq(S) /\ s[n] \in S
      BY <1>2, <2>1
    <3>3. /\ f[n] \in Seq(S) /\ Len(f[n]) = Len(u) + 1 /\ Len(u) \in Nat
          /\ \A i \in 1..Len(u) : f[n][i] = u[i]
          /\ f[n][Len(u) + 1] = s[n]
      BY <3>1, <3>2
    <3>4. ASSUME NEW i \in 1..Len(f[n]) PROVE \E k \in 1..n : k \in keep /\ f[n][i] = s[k]
      <4>1. CASE i = Len(u) + 1
        BY <2>1, <2>2, <3>3, <4>1
      <4>2. CASE i # Len(u) + 1
        <5>1. i \in 1..Len(u)
          BY <3>3, <4>2
        <5>2. PICK k \in 1..n - 1 : k \in keep /\ u[i] = s[k]
          BY <2>1, <5>1
        <5>3. k \in 1..n
          BY <2>1
        <5> QED
          BY <3>3, <5>1, <5>2, <5>3
      <4> QED
        BY <4>1, <4>2
    <3>5. ASSUME NEW k \in 1..n, k \in keep PROVE \E i \in 1..Len(f[n]) : f[n][i] = s[k]
      <4>1. CASE k = n
        <5>1. Len(u) + 1 \in 1..Len(f[n])
          BY <3>3
        <5> QED
          BY <3>3, <4>1, <5>1
      <4>2. CASE k \in 1..n - 1
        <5>1. PICK i \in 1..Len(u) : u[i] = s[k]
          BY <2>1, <3>5, <4>2
        <5>2. i \in 1..Len(f[n])
          BY <3>3
        <5> QED
          BY <3>3, <5>1, <5>2
      <4> QED
        BY <2>1, <4>1, <4>2
    <3> QED
      BY <2>1, <3>3, <3>4, <3>5
  <2>3. CASE n \notin keep
    <3>1. f[n] = f[n - 1]
      BY <1>3, <2>3
    <3>2. \A k \in 1..n - 1 : k \in 1..n
      BY <2>1
    <3>3. \A i \in 1..Len(f[n]) : \E k \in 1..n : k \in keep /\ f[n][i] = s[k]
      BY <2>1, <3>1, <3>2
    <3>4. \A k \in 1..n : k \in keep => \E i \in 1..Len(f[n]) : f[n][i] = s[k]
      BY <2>1, <2>3, <3>1
    <3> QED
      BY <2>1, <3>1, <3>3, <3>4
  <2> QED
    BY <2>2, <2>3
<1> HIDE DEF T
<1>6. 0..L \subseteq T
  BY <1>2, <1>4, <1>5, UpTo
<1>7. P(L)
  <2>1. L \in T
    BY <1>2, <1>6
  <2> HIDE DEF P
  <2> QED
    BY <2>1 DEF T
<1> QED
  BY <1>1, <1>7 DEF L

\* Every place of a sequence is in one of two sets.
OneOf(s, a, b) == \A n \in 1..Len(s) : n \in a <=> n \notin b

\* Of two complementary choices one or the other keeps each place.
LEMMA SiftLengths ==
    \A S, s, a, b : s \in Seq(S) /\ OneOf(s, a, b) =>
        Len(MR!Sift(s, a)) + Len(MR!Sift(s, b)) = Len(s)
<1> SUFFICES ASSUME NEW S, NEW s, NEW a, NEW b, s \in Seq(S),
                    \A n \in 1..Len(s) : n \in a <=> n \notin b
             PROVE  Len(MR!Sift(s, a)) + Len(MR!Sift(s, b)) = Len(s)
  BY DEF OneOf
<1>1. PICK f : Sifts(f, s, a) /\ MR!Sift(s, a) = f[Len(s)]
  BY SiftUnfolds
<1>2. PICK g : Sifts(g, s, b) /\ MR!Sift(s, b) = g[Len(s)]
  BY SiftUnfolds
<1> DEFINE L == Len(s)
           P(n) == f[n] \in Seq(S) /\ g[n] \in Seq(S) /\ Len(f[n]) + Len(g[n]) = n
           T == {n \in 0..L : P(n)}
<1>3. L \in Nat /\ \A n \in 1..L : s[n] \in S /\ (n \in a <=> n \notin b)
  OBVIOUS
<1>4. /\ f[0] = <<>> /\ g[0] = <<>>
      /\ \A n \in 1..L : f[n] = IF n \in a THEN Append(f[n - 1], s[n]) ELSE f[n - 1]
      /\ \A n \in 1..L : g[n] = IF n \in b THEN Append(g[n - 1], s[n]) ELSE g[n - 1]
  BY <1>1, <1>2, SiftsStep
<1> HIDE DEF L
<1>5. 0 \in T
  <2>1. f[0] \in Seq(S) /\ Len(f[0]) = 0 /\ g[0] \in Seq(S) /\ Len(g[0]) = 0
    BY <1>4
  <2>2. P(0) /\ 0 \in 0..L
    BY <1>3, <2>1
  <2> HIDE DEF P
  <2> QED
    BY <2>2
<1>6. ASSUME NEW n \in 1..L, n - 1 \in T PROVE n \in T
  <2>1. P(n - 1)
    <3> HIDE DEF P
    <3> QED
      BY <1>6
  <2>2. n \in 0..L /\ n \in Nat /\ s[n] \in S
    BY <1>3
  <2> SUFFICES P(n)
    <3> HIDE DEF P
    <3> QED
      BY <2>2
  <2> HIDE DEF T
  <2>3. /\ f[n - 1] \in Seq(S) /\ g[n - 1] \in Seq(S)
        /\ Len(f[n - 1]) + Len(g[n - 1]) = n - 1 /\ n \in 0..L /\ n \in Nat /\ s[n] \in S
    BY <2>2, <2>1
  <2>4. CASE n \in a
    <3>1. f[n] = Append(f[n - 1], s[n]) /\ g[n] = g[n - 1]
      BY <1>3, <1>4, <2>4
    <3>2. f[n] \in Seq(S) /\ Len(f[n]) = Len(f[n - 1]) + 1
          /\ Len(f[n - 1]) \in Nat /\ Len(g[n - 1]) \in Nat
      BY <2>3, <3>1
    <3>3. Len(f[n]) + Len(g[n]) = n
      <4> DEFINE x == Len(f[n - 1])
                 y == Len(g[n - 1])
      <4>1. x \in Nat /\ y \in Nat /\ x + y = n - 1 /\ n \in Nat
        BY <2>3, <3>2
      <4>2. Len(f[n]) = x + 1 /\ Len(g[n]) = y
        BY <3>1, <3>2
      <4> HIDE DEF x, y
      <4> QED
        BY <4>1, <4>2
    <3> QED
      BY <2>3, <3>1, <3>2, <3>3, Zenon
  <2>5. CASE n \notin a
    <3>1. g[n] = Append(g[n - 1], s[n]) /\ f[n] = f[n - 1]
      BY <1>3, <1>4, <2>5
    <3>2. g[n] \in Seq(S) /\ Len(g[n]) = Len(g[n - 1]) + 1
          /\ Len(f[n - 1]) \in Nat /\ Len(g[n - 1]) \in Nat
      BY <2>3, <3>1
    <3>3. Len(f[n]) + Len(g[n]) = n
      <4> DEFINE x == Len(f[n - 1])
                 y == Len(g[n - 1])
      <4>1. x \in Nat /\ y \in Nat /\ x + y = n - 1 /\ n \in Nat
        BY <2>3, <3>2
      <4>2. Len(f[n]) = x /\ Len(g[n]) = y + 1
        BY <3>1, <3>2
      <4> HIDE DEF x, y
      <4> QED
        BY <4>1, <4>2
    <3> QED
      BY <2>3, <3>1, <3>2, <3>3, Zenon
  <2> QED
    BY <2>4, <2>5
<1> HIDE DEF T
<1>7. 0..L \subseteq T
  BY <1>3, <1>5, <1>6, UpTo
<1>8. P(L)
  <2>1. L \in T
    BY <1>3, <1>7
  <2> HIDE DEF P
  <2> QED
    BY <2>1 DEF T
<1> QED
  BY <1>1, <1>2, <1>8 DEF L


-----------------------------------------------------------------------------
(* The room list: rows and rooms.                                          *)

\* A concatenation holds what its two parts hold.
LEMMA ConcatHolds ==
    \A S, u, w, x : u \in Seq(S) /\ w \in Seq(S) =>
        /\ u \o w \in Seq(S) /\ Len(u \o w) = Len(u) + Len(w)
        /\ Holds(u \o w, x) <=> Holds(u, x) \/ Holds(w, x)
<1> SUFFICES ASSUME NEW S, NEW u, NEW w, NEW x, u \in Seq(S), w \in Seq(S)
             PROVE  /\ u \o w \in Seq(S) /\ Len(u \o w) = Len(u) + Len(w)
                    /\ Holds(u \o w, x) <=> Holds(u, x) \/ Holds(w, x)
  OBVIOUS
<1> DEFINE c == u \o w
<1>1. /\ c \in Seq(S) /\ Len(c) = Len(u) + Len(w) /\ Len(u) \in Nat /\ Len(w) \in Nat
      /\ \A i \in 1..Len(u) : c[i] = u[i]
      /\ \A i \in 1..Len(w) : c[Len(u) + i] = w[i]
  OBVIOUS
<1> HIDE DEF c
<1>2. ASSUME NEW i \in 1..Len(c)
      PROVE  i \in 1..Len(u) \/ (i - Len(u) \in 1..Len(w) /\ i = Len(u) + (i - Len(u)))
  BY <1>1
<1>3. ASSUME NEW i \in 1..Len(u) PROVE i \in 1..Len(c)
  BY <1>1
<1>4. ASSUME NEW i \in 1..Len(w) PROVE Len(u) + i \in 1..Len(c)
  BY <1>1
<1>5. ASSUME Holds(c, x) PROVE Holds(u, x) \/ Holds(w, x)
  <2>1. PICK i \in 1..Len(c) : c[i] = x
    BY <1>5 DEF Holds
  <2>2. CASE i \in 1..Len(u)
    BY <1>1, <2>1, <2>2 DEF Holds
  <2>3. CASE i - Len(u) \in 1..Len(w) /\ i = Len(u) + (i - Len(u))
    <3>1. c[Len(u) + (i - Len(u))] = w[i - Len(u)]
      BY <1>1, <2>3
    <3> QED
      BY <2>1, <2>3, <3>1 DEF Holds
  <2> QED
    BY <1>2, <2>2, <2>3
<1>6. ASSUME Holds(u, x) PROVE Holds(c, x)
  BY <1>1, <1>3, <1>6 DEF Holds
<1>7. ASSUME Holds(w, x) PROVE Holds(c, x)
  <2>1. PICK i \in 1..Len(w) : w[i] = x
    BY <1>7 DEF Holds
  <2> QED
    BY <1>1, <1>4, <2>1 DEF Holds
<1> QED
  BY <1>1, <1>5, <1>6, <1>7 DEF c

Kept(s, keep, x) == \E k \in 1..Len(s) : k \in keep /\ x = s[k]

\* Sift keeps the elements at the kept places and no others.
LEMMA SiftHolds ==
    \A S, s, keep, x : s \in Seq(S) =>
        MR!Sift(s, keep) \in Seq(S) /\ (Holds(MR!Sift(s, keep), x) <=> Kept(s, keep, x))
<1> SUFFICES ASSUME NEW S, NEW s, NEW keep, NEW x, s \in Seq(S)
             PROVE  /\ MR!Sift(s, keep) \in Seq(S)
                    /\ Holds(MR!Sift(s, keep), x) <=> Kept(s, keep, x)
  OBVIOUS
<1> DEFINE v == MR!Sift(s, keep)
<1>1. /\ v \in Seq(S)
      /\ \A i \in 1..Len(v) : \E k \in 1..Len(s) : k \in keep /\ v[i] = s[k]
      /\ \A k \in 1..Len(s) : k \in keep => \E i \in 1..Len(v) : v[i] = s[k]
  BY SiftFacts
<1> HIDE DEF v
<1>2. Holds(v, x) <=> Kept(s, keep, x)
  BY <1>1 DEF Holds, Kept
<1> QED
  BY <1>1, <1>2 DEF v

\* The rooms of ROOMS are the ones it holds.
LEMMA ListedHolds ==
    \A rs, r : rs \in Seq(RoomSet) =>
        /\ r \in MR!Listed(rs) <=> \E x \in RoomSet : Holds(rs, x) /\ x.id = r
        /\ r \in MR!Listed(rs) <=> \E n \in 1..Len(rs) : rs[n].id = r
<1> SUFFICES ASSUME NEW rs, NEW r, rs \in Seq(RoomSet)
             PROVE  /\ r \in MR!Listed(rs) <=> \E x \in RoomSet : Holds(rs, x) /\ x.id = r
                    /\ r \in MR!Listed(rs) <=> \E n \in 1..Len(rs) : rs[n].id = r
  OBVIOUS
<1>1. DOMAIN rs = 1..Len(rs) /\ \A n \in 1..Len(rs) : rs[n] \in RoomSet
  OBVIOUS
<1>2. r \in MR!Listed(rs) <=> \E n \in 1..Len(rs) : rs[n].id = r
  BY <1>1 DEF MR!Listed
<1>3. (\E n \in 1..Len(rs) : rs[n].id = r) <=> \E x \in RoomSet : Holds(rs, x) /\ x.id = r
  BY <1>1 DEF Holds
<1> QED
  BY <1>2, <1>3

\* render_room_list draws every room once, with its place.
LEMMA RowsFacts ==
    \A rs : rs \in Seq(RoomSet) =>
        MR!RowsOf(rs) \in Seq(Nat \X Nat) /\ RowsMatch(MR!RowsOf(rs), rs)
<1> SUFFICES ASSUME NEW rs, rs \in Seq(RoomSet)
             PROVE  MR!RowsOf(rs) \in Seq(Nat \X Nat) /\ RowsMatch(MR!RowsOf(rs), rs)
  OBVIOUS
<1> DEFINE L == Len(rs)
           at == [n \in DOMAIN rs |-> n]
           a == {n \in DOMAIN rs : rs[n].invited = TRUE}
           b == {n \in DOMAIN rs : rs[n].invited = FALSE}
           u == MR!Sift(at, a)
           w == MR!Sift(at, b)
           order == u \o w
           rows == [p \in DOMAIN order |-> <<order[p], rs[order[p]].id>>]
<1>1. MR!RowsOf(rs) = rows
  BY DEF MR!RowsOf
<1>2. L \in Nat /\ DOMAIN rs = 1..L /\ \A n \in 1..L : rs[n] \in RoomSet
  OBVIOUS
<1>3. at \in Seq(1..L) /\ Len(at) = L
  BY <1>2
<1>4. \A n \in 1..L : n \in a <=> n \notin b
  BY <1>2 DEF RoomSet
<1> HIDE DEF L, at, a, b
<1>5. u \in Seq(1..L) /\ w \in Seq(1..L) /\ Len(u) + Len(w) = L
  <2>1. u \in Seq(1..L)
    BY <1>3, SiftFacts, Zenon
  <2>2. w \in Seq(1..L)
    BY <1>3, SiftFacts, Zenon
  <2>3. Len(u) + Len(w) = L
    <3>1. Len(u) + Len(w) = Len(at)
      <4>1. OneOf(at, a, b)
        BY <1>3, <1>4 DEF OneOf
      <4> QED
        BY <1>3, <4>1, SiftLengths
    <3> QED
      BY <1>3, <3>1
  <2> QED
    BY <2>1, <2>2, <2>3
<1> HIDE DEF u, w
<1>6. order \in Seq(1..L) /\ Len(order) = L
  BY <1>5
<1> HIDE DEF order
<1>7. DOMAIN order = 1..L /\ \A p \in 1..L : order[p] \in 1..L
  BY <1>6
<1>8. \A p \in 1..L : rs[order[p]].id \in Nat /\ order[p] \in Nat
  BY <1>2, <1>7, RoomsAssumption DEF RoomSet
<1>9. /\ rows = [p \in 1..L |-> <<order[p], rs[order[p]].id>>]
      /\ \A p \in 1..L : rows[p] \in Nat \X Nat /\ rows[p][1] = order[p]
                         /\ rows[p][2] = rs[order[p]].id
  BY <1>7, <1>8
<1> HIDE DEF rows
<1>10. rows \in Seq(Nat \X Nat) /\ Len(rows) = L
  <2>1. rows \in [1..L -> Nat \X Nat]
    BY <1>9
  <2> QED
    BY <1>2, <2>1
<1>11. \A p \in 1..L : rows[p][1] \in 1..L /\ rs[rows[p][1]].id = rows[p][2]
  BY <1>7, <1>9
<1>12. RowsMatch(rows, rs)
  BY <1>10, <1>11 DEF RowsMatch, L
<1> QED
  BY <1>1, <1>10, <1>12

\* What a room that is rep of is shown as.
Told(r, srv) == MR!Room(r, srv[r] = "invited")

\* What an answer that tells of the rooms rep makes of ROOMS rs.
Brought(rs, rep, srv, x) ==
    \/ \E k \in 1..Len(rs) : x = IF rs[k].id \in rep THEN Told(rs[k].id, srv) ELSE rs[k]
    \/ \E r \in rep \ MR!Listed(rs) : x = Told(r, srv)

\* The rooms ks, as they are added.
Fresh(ks, v) ==
    LET new == MR!Sift([n \in 1..RoomCount |-> n], ks)
    IN  [n \in DOMAIN new |-> MR!Room(new[n], v)]

Among(x, ks, v) == \E r \in ks : x = MR!Room(r, v)

\* The rooms appended by a sync are those of the set it was given, each once
\* with the membership it was given.
LEMMA FreshHolds ==
    \A ks, v, x : ks \subseteq 1..RoomCount /\ v \in BOOLEAN =>
        Fresh(ks, v) \in Seq(RoomSet) /\ (Holds(Fresh(ks, v), x) <=> Among(x, ks, v))
<1> SUFFICES ASSUME NEW ks, NEW v, NEW x, ks \subseteq 1..RoomCount, v \in BOOLEAN
             PROVE  Fresh(ks, v) \in Seq(RoomSet) /\ (Holds(Fresh(ks, v), x) <=> Among(x, ks, v))
  BY Zenon
<1> DEFINE at  == [n \in 1..RoomCount |-> n]
           new == MR!Sift(at, ks)
           f   == [n \in DOMAIN new |-> MR!Room(new[n], v)]
<1>1. Fresh(ks, v) = f
  BY DEF Fresh
<1>2. at \in Seq(1..RoomCount) /\ Len(at) = RoomCount /\ \A n \in 1..RoomCount : at[n] = n
  BY RoomsAssumption
<1> HIDE DEF at
<1>3. new \in Seq(1..RoomCount)
  BY <1>2, SiftHolds
<1>4. \A y : Holds(new, y) <=> y \in ks
  <2> TAKE y
  <2>1. Holds(new, y) <=> Kept(at, ks, y)
    BY <1>2, SiftHolds
  <2> HIDE DEF new
  <2> QED
    BY <1>2, <2>1 DEF Kept
<1> HIDE DEF new
<1>5. DOMAIN new = 1..Len(new) /\ Len(new) \in Nat /\ \A n \in 1..Len(new) : new[n] \in 1..RoomCount
  BY <1>3, RoomsAssumption
<1>6. \A r \in 1..RoomCount : MR!Room(r, v) \in RoomSet
  BY DEF RoomSet, MR!Room
<1>7. f \in [1..Len(new) -> RoomSet] /\ \A n \in 1..Len(new) : f[n] = MR!Room(new[n], v)
  BY <1>5, <1>6
<1> HIDE DEF f
<1>8. f \in Seq(RoomSet) /\ Len(f) = Len(new)
  BY <1>5, <1>7
<1>9. Holds(f, x) <=> Among(x, ks, v)
  BY <1>4, <1>7, <1>8 DEF Holds, Among
<1> QED
  BY <1>1, <1>8, <1>9

\* Rooms that are left go.
LEMMA TakenOut ==
    \A rs, left, x : rs \in Seq(RoomSet) =>
        /\ MR!Sift(rs, {n \in DOMAIN rs : rs[n].id \notin left}) \in Seq(RoomSet)
        /\ Holds(MR!Sift(rs, {n \in DOMAIN rs : rs[n].id \notin left}), x)
              <=> Holds(rs, x) /\ x.id \notin left
<1> SUFFICES ASSUME NEW rs, NEW left, NEW x, rs \in Seq(RoomSet)
             PROVE  /\ MR!Sift(rs, {n \in DOMAIN rs : rs[n].id \notin left}) \in Seq(RoomSet)
                    /\ Holds(MR!Sift(rs, {n \in DOMAIN rs : rs[n].id \notin left}), x)
                          <=> Holds(rs, x) /\ x.id \notin left
  BY Zenon
<1> DEFINE keep == {n \in DOMAIN rs : rs[n].id \notin left}
<1>1. \A k \in 1..Len(rs) : k \in keep <=> rs[k].id \notin left
  OBVIOUS
<1> HIDE DEF keep
<1>2. /\ MR!Sift(rs, keep) \in Seq(RoomSet)
      /\ Holds(MR!Sift(rs, keep), x) <=> Kept(rs, keep, x)
  BY SiftHolds
<1>3. Kept(rs, keep, x) <=> Holds(rs, x) /\ x.id \notin left
  BY <1>1 DEF Holds, Kept
<1> QED
  BY <1>2, <1>3 DEF keep

\* sync_now brings the rooms it holds up to date, adds the rooms it does not
\* hold, and takes out the rooms that are left.
LEMMA MergedHolds ==
    \A rs, rep, left, srv, x :
        /\ rs \in Seq(RoomSet) /\ rep \subseteq 1..RoomCount
        /\ srv \in [1..RoomCount -> Memberships] /\ (\A r \in rep : srv[r] # "none")
        => /\ MR!Merged(rs, rep, left, srv) \in Seq(RoomSet)
           /\ Holds(MR!Merged(rs, rep, left, srv), x)
                 <=> x.id \notin left /\ Brought(rs, rep, srv, x)
<1> SUFFICES ASSUME NEW rs, NEW rep, NEW left, NEW srv, NEW x,
                    rs \in Seq(RoomSet), rep \subseteq 1..RoomCount,
                    srv \in [1..RoomCount -> Memberships], \A r \in rep : srv[r] # "none"
             PROVE  /\ MR!Merged(rs, rep, left, srv) \in Seq(RoomSet)
                    /\ Holds(MR!Merged(rs, rep, left, srv), x)
                          <=> x.id \notin left /\ Brought(rs, rep, srv, x)
  BY Zenon
<1> DEFINE ofs(k) == {r \in rep \ MR!Listed(rs) : srv[r] = k}
           kn  == [n \in DOMAIN rs |->
                      IF rs[n].id \in rep
                      THEN MR!Room(rs[n].id, srv[rs[n].id] = "invited") ELSE rs[n]]
           j   == Fresh(ofs("joined"), FALSE)
           i   == Fresh(ofs("invited"), TRUE)
           all == kn \o j \o i
           m   == MR!Sift(all, {n \in DOMAIN all : all[n].id \notin left})
<1>1. MR!Merged(rs, rep, left, srv) = m
  BY DEF MR!Merged, Fresh
<1>2. /\ Len(rs) \in Nat /\ DOMAIN rs = 1..Len(rs) /\ \A n \in 1..Len(rs) : rs[n] \in RoomSet
      /\ \A n \in 1..Len(rs) : rs[n].id \in 1..RoomCount
  <2>1. /\ Len(rs) \in Nat /\ DOMAIN rs = 1..Len(rs)
        /\ \A n \in 1..Len(rs) : rs[n] \in RoomSet
    OBVIOUS
  <2>2. \A y \in RoomSet : y.id \in 1..RoomCount
    BY DEF RoomSet
  <2> QED
    BY <2>1, <2>2
<1>3. \A r \in 1..RoomCount : \A v \in BOOLEAN : MR!Room(r, v) \in RoomSet
  BY DEF RoomSet, MR!Room
<1>4. kn \in Seq(RoomSet) /\ Len(kn) = Len(rs)
      /\ \A n \in 1..Len(rs) :
            kn[n] = IF rs[n].id \in rep THEN Told(rs[n].id, srv) ELSE rs[n]
  <2>1. \A n \in 1..Len(rs) : (srv[rs[n].id] = "invited") \in BOOLEAN
    BY Zenon
  <2>2. kn \in [1..Len(rs) -> RoomSet]
    BY <1>2, <1>3, <2>1
  <2>3. \A n \in 1..Len(rs) :
            kn[n] = IF rs[n].id \in rep THEN Told(rs[n].id, srv) ELSE rs[n]
    BY <1>2 DEF Told
  <2> HIDE DEF kn
  <2> QED
    BY <1>2, <2>2, <2>3
<1> HIDE DEF kn
<1>5. \A k : ofs(k) \subseteq 1..RoomCount
  OBVIOUS
<1>6. \A r, k : r \in ofs(k) <=> r \in rep \ MR!Listed(rs) /\ srv[r] = k
  BY Zenon
<1> HIDE DEF ofs
<1>7. j \in Seq(RoomSet) /\ (Holds(j, x) <=> Among(x, ofs("joined"), FALSE))
  BY <1>5, FreshHolds, Zenon
<1>8. i \in Seq(RoomSet) /\ (Holds(i, x) <=> Among(x, ofs("invited"), TRUE))
  BY <1>5, FreshHolds, Zenon
<1>9. Among(x, ofs("joined"), FALSE) \/ Among(x, ofs("invited"), TRUE)
      <=> \E r \in rep \ MR!Listed(rs) : x = Told(r, srv)
  <2>1. \A r \in rep : srv[r] = "joined" \/ srv[r] = "invited"
    BY DEF Memberships
  <2>2. \A r : srv[r] = "joined" => Told(r, srv) = MR!Room(r, FALSE)
    BY DEF Told, MR!Room
  <2>3. \A r : srv[r] = "invited" => Told(r, srv) = MR!Room(r, TRUE)
    BY DEF Told, MR!Room
  <2>4. ASSUME NEW r \in rep \ MR!Listed(rs), x = Told(r, srv)
        PROVE  Among(x, ofs("joined"), FALSE) \/ Among(x, ofs("invited"), TRUE)
    BY <1>6, <2>1, <2>2, <2>3, <2>4, Zenon DEF Among
  <2>5. ASSUME NEW r \in ofs("joined"), x = MR!Room(r, FALSE)
        PROVE  \E q \in rep \ MR!Listed(rs) : x = Told(q, srv)
    <3>1. r \in rep \ MR!Listed(rs) /\ srv[r] = "joined"
      BY <1>6, Zenon
    <3>2. x = Told(r, srv)
      BY <2>2, <2>5, <3>1, Zenon
    <3> QED
      BY <3>1, <3>2, Zenon
  <2>6. ASSUME NEW r \in ofs("invited"), x = MR!Room(r, TRUE)
        PROVE  \E q \in rep \ MR!Listed(rs) : x = Told(q, srv)
    <3>1. r \in rep \ MR!Listed(rs) /\ srv[r] = "invited"
      BY <1>6, Zenon
    <3>2. x = Told(r, srv)
      BY <2>3, <2>6, <3>1, Zenon
    <3> QED
      BY <3>1, <3>2, Zenon
  <2> QED
    BY <2>4, <2>5, <2>6, Zenon DEF Among
<1> HIDE DEF j, i
<1>10. /\ all \in Seq(RoomSet)
       /\ Holds(all, x) <=> Holds(kn, x) \/ Holds(j, x) \/ Holds(i, x)
  <2>1. kn \o j \in Seq(RoomSet) /\ (Holds(kn \o j, x) <=> Holds(kn, x) \/ Holds(j, x))
    BY <1>4, <1>7, ConcatHolds
  <2>2. all \in Seq(RoomSet) /\ (Holds(all, x) <=> Holds(kn \o j, x) \/ Holds(i, x))
    BY <1>8, <2>1, ConcatHolds
  <2> QED
    BY <2>1, <2>2
<1> HIDE DEF all
<1>11. m \in Seq(RoomSet) /\ (Holds(m, x) <=> Holds(all, x) /\ x.id \notin left)
  BY <1>10, TakenOut, Zenon
<1>12. Holds(kn, x) <=>
          \E k \in 1..Len(rs) : x = IF rs[k].id \in rep THEN Told(rs[k].id, srv) ELSE rs[k]
  BY <1>4 DEF Holds
<1>13. Holds(all, x) <=> Brought(rs, rep, srv, x)
  BY <1>7, <1>8, <1>9, <1>10, <1>12, Zenon DEF Brought
<1> HIDE DEF m
<1> QED
  BY <1>1, <1>11, <1>13, Zenon

-----------------------------------------------------------------------------
(* The room list: a sync and the account.                                  *)

\* The rooms of ROOMS after an answer.
LEMMA MergedListed ==
    \A rs, rep, left, srv, r :
        /\ rs \in Seq(RoomSet) /\ rep \subseteq 1..RoomCount
        /\ srv \in [1..RoomCount -> Memberships] /\ (\A q \in rep : srv[q] # "none")
        => /\ MR!Merged(rs, rep, left, srv) \in Seq(RoomSet)
           /\ r \in MR!Listed(MR!Merged(rs, rep, left, srv))
                 <=> r \notin left /\ (r \in rep \/ r \in MR!Listed(rs))
<1> SUFFICES ASSUME NEW rs, NEW rep, NEW left, NEW srv, NEW r,
                    rs \in Seq(RoomSet), rep \subseteq 1..RoomCount,
                    srv \in [1..RoomCount -> Memberships], \A q \in rep : srv[q] # "none"
             PROVE  /\ MR!Merged(rs, rep, left, srv) \in Seq(RoomSet)
                    /\ r \in MR!Listed(MR!Merged(rs, rep, left, srv))
                          <=> r \notin left /\ (r \in rep \/ r \in MR!Listed(rs))
  BY Zenon
<1> DEFINE m == MR!Merged(rs, rep, left, srv)
<1>1. m \in Seq(RoomSet) /\ \A x : Holds(m, x) <=> x.id \notin left /\ Brought(rs, rep, srv, x)
  BY MergedHolds, Zenon
<1> HIDE DEF m
<1>2. r \in MR!Listed(m) <=> \E x \in RoomSet : Holds(m, x) /\ x.id = r
  BY <1>1, ListedHolds
<1>3. r \in MR!Listed(rs) <=> \E n \in 1..Len(rs) : rs[n].id = r
  BY ListedHolds
<1>4. \A q, s : Told(q, s).id = q
  BY DEF Told, MR!Room
<1>5. \A q \in 1..RoomCount : Told(q, srv) \in RoomSet
  <2> TAKE q \in 1..RoomCount
  <2>1. (srv[q] = "invited") \in BOOLEAN
    BY Zenon
  <2> HIDE DEF Memberships
  <2> QED
    BY <2>1 DEF Told, MR!Room, RoomSet
<1>6. \A n \in 1..Len(rs) : rs[n] \in RoomSet /\ rs[n].id \in 1..RoomCount
  <2>1. \A n \in 1..Len(rs) : rs[n] \in RoomSet
    OBVIOUS
  <2>2. \A x \in RoomSet : x.id \in 1..RoomCount
    BY DEF RoomSet
  <2> QED
    BY <2>1, <2>2
<1>7. ASSUME NEW x, Brought(rs, rep, srv, x)
      PROVE  x.id \in rep \/ x.id \in MR!Listed(rs)
  <2>1. CASE \E k \in 1..Len(rs) : x = IF rs[k].id \in rep THEN Told(rs[k].id, srv) ELSE rs[k]
    <3>1. PICK k \in 1..Len(rs) : x = IF rs[k].id \in rep THEN Told(rs[k].id, srv) ELSE rs[k]
      BY <2>1
    <3>2. x.id = rs[k].id
      BY <1>4, <3>1
    <3>3. rs[k].id \in MR!Listed(rs)
      BY ListedHolds
    <3> QED
      BY <3>2, <3>3
  <2>2. CASE \E q \in rep \ MR!Listed(rs) : x = Told(q, srv)
    BY <1>4, <2>2
  <2> QED
    BY <1>7, <2>1, <2>2 DEF Brought
<1>8. ASSUME r \in MR!Listed(rs) PROVE \E x \in RoomSet : Brought(rs, rep, srv, x) /\ x.id = r
  <2>1. PICK n \in 1..Len(rs) : rs[n].id = r
    BY <1>3, <1>8
  <2> DEFINE x == IF rs[n].id \in rep THEN Told(rs[n].id, srv) ELSE rs[n]
  <2>2. x \in RoomSet /\ x.id = r
    BY <1>4, <1>5, <1>6, <2>1
  <2>3. Brought(rs, rep, srv, x)
    BY Zenon DEF Brought
  <2> HIDE DEF x
  <2> QED
    BY <2>2, <2>3
<1>9. ASSUME r \in rep, r \notin MR!Listed(rs)
      PROVE  \E x \in RoomSet : Brought(rs, rep, srv, x) /\ x.id = r
  <2>1. Told(r, srv) \in RoomSet /\ Told(r, srv).id = r
    BY <1>4, <1>5, <1>9
  <2>2. Brought(rs, rep, srv, Told(r, srv))
    BY <1>9, Zenon DEF Brought
  <2> QED
    BY <2>1, <2>2
<1>10. r \in MR!Listed(m) <=> r \notin left /\ (r \in rep \/ r \in MR!Listed(rs))
  <2>1. ASSUME r \in MR!Listed(m) PROVE r \notin left /\ (r \in rep \/ r \in MR!Listed(rs))
    BY <1>1, <1>2, <1>7, <2>1
  <2>2. ASSUME r \notin left, r \in rep \/ r \in MR!Listed(rs) PROVE r \in MR!Listed(m)
    BY <1>1, <1>2, <1>8, <1>9, <2>2
  <2> QED
    BY <2>1, <2>2
<1> QED
  BY <1>1, <1>10 DEF m

\* What a room is shown as after an answer.
LEMMA MergedInvited ==
    \A rs, rep, left, srv, x :
        /\ rs \in Seq(RoomSet) /\ rep \subseteq 1..RoomCount
        /\ srv \in [1..RoomCount -> Memberships] /\ (\A q \in rep : srv[q] # "none")
        /\ Holds(MR!Merged(rs, rep, left, srv), x)
        => \/ x.id \in rep /\ (x.invited <=> srv[x.id] = "invited")
           \/ x.id \notin rep /\ Holds(rs, x)
<1> SUFFICES ASSUME NEW rs, NEW rep, NEW left, NEW srv, NEW x,
                    rs \in Seq(RoomSet), rep \subseteq 1..RoomCount,
                    srv \in [1..RoomCount -> Memberships], \A q \in rep : srv[q] # "none",
                    Holds(MR!Merged(rs, rep, left, srv), x)
             PROVE  \/ x.id \in rep /\ (x.invited <=> srv[x.id] = "invited")
                    \/ x.id \notin rep /\ Holds(rs, x)
  BY Zenon
<1>1. Brought(rs, rep, srv, x)
  BY MergedHolds, Zenon
<1>2. \A q : Told(q, srv).id = q /\ (Told(q, srv).invited <=> srv[q] = "invited")
  BY DEF Told, MR!Room
<1>3. CASE \E k \in 1..Len(rs) : x = IF rs[k].id \in rep THEN Told(rs[k].id, srv) ELSE rs[k]
  <2>1. PICK k \in 1..Len(rs) : x = IF rs[k].id \in rep THEN Told(rs[k].id, srv) ELSE rs[k]
    BY <1>3
  <2>2. CASE rs[k].id \in rep
    BY <1>2, <2>1, <2>2, Zenon
  <2>3. CASE rs[k].id \notin rep
    BY <2>1, <2>3, Zenon DEF Holds
  <2> QED
    BY <2>2, <2>3
<1>4. CASE \E q \in rep \ MR!Listed(rs) : x = Told(q, srv)
  <2>1. PICK q \in rep \ MR!Listed(rs) : x = Told(q, srv)
    BY <1>4
  <2>2. q \in rep /\ x.id = q /\ (x.invited <=> srv[q] = "invited")
    BY <1>2, <2>1, Zenon
  <2> QED
    BY <2>2, Zenon
<1> QED
  BY <1>1, <1>3, <1>4, Zenon DEF Brought

\* An answer tells of the rooms rep, and that left are left, while the server is
\* at srv and has the rooms there.
Reports(srv, nws, chatty, whole, there, rep, left) ==
    /\ there = {r \in 1..RoomCount : srv[r] # "none"}
    /\ \/ whole /\ rep = there /\ left = {}
       \/ ~whole /\ rep = there \cap (nws \cup chatty) /\ left = nws \ there

\* The rooms whose leave was gone past, after the answer.
WentPast(rs, hid, whole, there, rep, left) ==
    ((IF whole THEN hid \cup (MR!Listed(rs) \ there) ELSE hid) \ rep) \ left

\* An answer leaves ROOMS as the account has it: of all the rooms when it is
\* whole, and else of those the token was behind on, while the others stay.
LEMMA MergedAccounts ==
    \A rs, srv, nws, chatty, hid, drp, there, rep, left, whole :
        /\ rs \in Seq(RoomSet) /\ srv \in [1..RoomCount -> Memberships]
        /\ Reports(srv, nws, chatty, whole, there, rep, left)
        /\ (whole \/ Accounts(rs, srv, nws, hid, drp))
        => Accounts(MR!Merged(rs, rep, left, srv), srv, {},
                    WentPast(rs, hid, whole, there, rep, left), drp \ rep)
<1> TAKE rs, srv, nws, chatty, hid, drp, there, rep, left, whole
<1> HAVE /\ rs \in Seq(RoomSet) /\ srv \in [1..RoomCount -> Memberships]
         /\ Reports(srv, nws, chatty, whole, there, rep, left)
         /\ (whole \/ Accounts(rs, srv, nws, hid, drp))
<1> DEFINE m  == MR!Merged(rs, rep, left, srv)
           hd == WentPast(rs, hid, whole, there, rep, left)
<1>1. /\ \A r \in 1..RoomCount : r \in there <=> srv[r] # "none"
      /\ rep \subseteq there /\ there \subseteq 1..RoomCount
      /\ \A q \in rep : srv[q] # "none"
  BY DEF Reports
<1>2. rep \subseteq 1..RoomCount
  BY <1>1
<1>3. \A r : r \in MR!Listed(m) <=> r \notin left /\ (r \in rep \/ r \in MR!Listed(rs))
  BY <1>1, <1>2, MergedListed, Zenon
<1>4. \A x : Holds(m, x) => \/ x.id \in rep /\ (x.invited <=> srv[x.id] = "invited")
                            \/ x.id \notin rep /\ Holds(rs, x)
  BY <1>1, <1>2, MergedInvited, Zenon
<1> HIDE DEF m
<1> SUFFICES ASSUME NEW r \in 1..RoomCount, r \notin hd, r \notin drp \ rep
             PROVE  /\ r \in MR!Listed(m) <=> srv[r] # "none"
                    /\ \A x \in RoomSet : Holds(m, x) /\ x.id = r
                          => (x.invited <=> srv[r] = "invited")
  <2>1. ASSUME NEW q \in 1..RoomCount \ ({} \cup hd \cup (drp \ rep))
        PROVE  q \in 1..RoomCount /\ q \notin hd /\ q \notin drp \ rep
    BY Zenon
  <2> HIDE DEF hd
  <2> QED
    BY <2>1 DEF Accounts, m, hd
<1>5. CASE r \in rep
  <2>1. r \notin left /\ srv[r] # "none"
    BY <1>1, <1>5 DEF Reports
  <2> QED
    BY <1>3, <1>4, <1>5, <2>1, Zenon
<1>6. CASE r \notin rep /\ whole
  <2>1. r \notin there /\ left = {} /\ srv[r] = "none"
    BY <1>1, <1>6 DEF Reports
  <2>2. r \notin MR!Listed(rs)
    BY <1>6, <2>1 DEF hd, WentPast
  <2>3. r \notin MR!Listed(m)
    BY <1>3, <1>6, <2>2
  <2>4. \A x \in RoomSet : Holds(m, x) => x.id # r
    <3>1. \A x \in RoomSet : Holds(rs, x) => x.id \in MR!Listed(rs)
      BY ListedHolds
    <3> QED
      BY <1>4, <1>6, <2>2, <3>1, Zenon
  <2> QED
    BY <2>1, <2>3, <2>4, Zenon
<1>7. CASE r \notin rep /\ ~whole /\ r \in left
  <2>1. r \notin there /\ srv[r] = "none" /\ r \notin MR!Listed(m)
    BY <1>1, <1>3, <1>7 DEF Reports
  <2>2. \A x \in RoomSet : Holds(m, x) => x.id # r
    <3>1. m \in Seq(RoomSet)
      BY <1>1, <1>2, MergedListed, Zenon DEF m
    <3>2. \A x \in RoomSet : Holds(m, x) => x.id \in MR!Listed(m)
      BY <3>1, ListedHolds
    <3> QED
      BY <2>1, <3>2, Zenon
  <2> QED
    BY <2>1, <2>2, Zenon
<1>8. CASE r \notin rep /\ ~whole /\ r \notin left
  <2>1. r \notin nws /\ r \notin hid /\ r \notin drp /\ Accounts(rs, srv, nws, hid, drp)
    BY <1>8 DEF hd, Reports, WentPast
  <2>2. /\ r \in MR!Listed(rs) <=> srv[r] # "none"
        /\ \A x \in RoomSet : Holds(rs, x) /\ x.id = r => (x.invited <=> srv[r] = "invited")
    BY <2>1, Zenon DEF Accounts
  <2> QED
    BY <1>3, <1>4, <1>8, <2>2, Zenon
<1> QED
  BY <1>5, <1>6, <1>7, <1>8

\* The model's form of it.
LEMMA AccountsMean ==
    \A rs, srv, nws, hid, drp : rs \in Seq(RoomSet) =>
        (Accounts(rs, srv, nws, hid, drp) <=>
            \A r \in 1..RoomCount \ (nws \cup hid \cup drp) :
                /\ r \in MR!Listed(rs) <=> srv[r] # "none"
                /\ \A n \in DOMAIN rs :
                      rs[n].id = r => rs[n].invited = (srv[r] = "invited"))
<1> SUFFICES ASSUME NEW rs, NEW srv, NEW nws, NEW hid, NEW drp, rs \in Seq(RoomSet)
             PROVE  Accounts(rs, srv, nws, hid, drp) <=>
                        \A r \in 1..RoomCount \ (nws \cup hid \cup drp) :
                            /\ r \in MR!Listed(rs) <=> srv[r] # "none"
                            /\ \A n \in DOMAIN rs :
                                  rs[n].id = r => rs[n].invited = (srv[r] = "invited")
  BY Zenon
<1>1. DOMAIN rs = 1..Len(rs) /\ \A n \in 1..Len(rs) : rs[n] \in RoomSet
  OBVIOUS
<1>2. \A x \in RoomSet : x.invited \in BOOLEAN
  BY DEF RoomSet
<1>3. ASSUME NEW r
      PROVE  (\A n \in DOMAIN rs : rs[n].id = r => rs[n].invited = (srv[r] = "invited"))
             <=> \A x \in RoomSet : Holds(rs, x) /\ x.id = r => (x.invited <=> srv[r] = "invited")
  <2>1. \A n \in DOMAIN rs : rs[n].invited = (srv[r] = "invited")
                             <=> (rs[n].invited <=> srv[r] = "invited")
    BY <1>1, <1>2, Zenon
  <2> QED
    BY <1>1, <2>1, Zenon DEF Holds
<1> QED
  BY <1>3, Zenon DEF Accounts

\* ROOMS is typed and the account's after a step.
Tracked ==
    /\ rooms' \in Seq(RoomSet) /\ news' \subseteq 1..RoomCount
    /\ batch' = "fresh" => Accounts(rooms', members', news', hidden', dropped')

\* What a sync of ROOMS rs leaves.
Synced(rs) ==
    /\ Tracked
    /\ open' = 0 \/ (open' = open /\ (open \in MR!Listed(rs) => open \in MR!Listed(rooms')))

\* The answer to a sync leaves the list in line with the account, if the
\* merged rooms are.
LEMMA AnswerKeepsList ==
    \A full, rs, srv, nws, chatty :
        /\ rs \in Seq(RoomSet) /\ srv \in [1..RoomCount -> Memberships]
        /\ members' = srv
        /\ (batch = "fresh" => Accounts(rs, srv, nws, hidden, dropped))
        /\ MR!Answered(full, rs, srv, nws, chatty)
        => Synced(rs)
<1> TAKE full, rs, srv, nws, chatty
<1> HAVE /\ rs \in Seq(RoomSet) /\ srv \in [1..RoomCount -> Memberships]
         /\ members' = srv
         /\ (batch = "fresh" => Accounts(rs, srv, nws, hidden, dropped))
         /\ MR!Answered(full, rs, srv, nws, chatty)
<1> DEFINE there == {r \in 1..RoomCount : srv[r] # "none"}
           whole == full \/ batch = "none"
           rep   == IF whole THEN there ELSE there \cap (nws \cup chatty)
           left  == IF whole THEN {} ELSE nws \ there
<1>1. /\ rooms' = MR!Merged(rs, rep, left, srv)
      /\ open' = IF open \in left THEN 0 ELSE open
      /\ batch' = IF whole THEN "fresh" ELSE batch
      /\ news' = {}
      /\ hidden' = ((IF whole THEN hidden \cup (MR!Listed(rs) \ there) ELSE hidden) \ rep) \ left
      /\ dropped' = dropped \ rep
  BY Zenon DEF MR!Answered, MR!Ids
<1>2. Reports(srv, nws, chatty, whole, there, rep, left)
  <2> HIDE DEF there
  <2>1. there = {r \in 1..RoomCount : srv[r] # "none"}
    BY DEF there
  <2> HIDE DEF whole
  <2> QED
    BY <2>1, Zenon DEF Reports
<1>3. rep \subseteq 1..RoomCount /\ \A q \in rep : srv[q] # "none"
  OBVIOUS
<1>4. hidden' = WentPast(rs, hidden, whole, there, rep, left)
  BY <1>1, Zenon DEF WentPast
<1> HIDE DEF there, whole, rep, left
<1>5. /\ rooms' \in Seq(RoomSet)
      /\ \A r : r \in MR!Listed(rooms') <=> r \notin left /\ (r \in rep \/ r \in MR!Listed(rs))
  BY <1>1, <1>3, MergedListed, Zenon
<1>6. ASSUME batch' = "fresh" PROVE Accounts(rooms', members', news', hidden', dropped')
  <2>1. whole \/ Accounts(rs, srv, nws, hidden, dropped)
    BY <1>1, <1>6, Zenon
  <2>2. Accounts(MR!Merged(rs, rep, left, srv), srv, {},
                 WentPast(rs, hidden, whole, there, rep, left), dropped \ rep)
    BY <1>2, <2>1, MergedAccounts, Zenon
  <2> QED
    BY <1>1, <1>4, <2>2, Zenon
<1>7. open' = 0 \/ (open' = open /\ (open \in MR!Listed(rs) => open \in MR!Listed(rooms')))
  BY <1>1, <1>5, Zenon
<1>8. news' \subseteq 1..RoomCount
  BY <1>1
<1> QED
  BY <1>5, <1>6, <1>7, <1>8, Zenon DEF Synced, Tracked

\* sync_now: without an answer nothing of the list changes.
LEMMA SyncKeepsList ==
    \A full, rs, srv, nws :
        /\ rs \in Seq(RoomSet) /\ srv \in [1..RoomCount -> Memberships]
        /\ nws \subseteq 1..RoomCount /\ members' = srv
        /\ (batch = "fresh" => Accounts(rs, srv, nws, hidden, dropped))
        /\ MR!SyncNow(full, rs, srv, nws)
        => Synced(rs)
<1> TAKE full, rs, srv, nws
<1> HAVE /\ rs \in Seq(RoomSet) /\ srv \in [1..RoomCount -> Memberships]
         /\ nws \subseteq 1..RoomCount /\ members' = srv
         /\ (batch = "fresh" => Accounts(rs, srv, nws, hidden, dropped))
         /\ MR!SyncNow(full, rs, srv, nws)
<1>1. CASE MR!Answered(full, rs, srv, nws, {})
  BY <1>1, AnswerKeepsList, Zenon
<1>2. CASE rooms' = rs /\ news' = nws /\ UNCHANGED <<open, batch, hidden, dropped>>
  <2>1. open' = open /\ batch' = batch /\ hidden' = hidden /\ dropped' = dropped
    BY <1>2
  <2> QED
    BY <1>2, <2>1, Zenon DEF Synced, Tracked
<1> QED
  <2>1. \/ MR!Answered(full, rs, srv, nws, {})
        \/ rooms' = rs /\ news' = nws /\ UNCHANGED <<open, batch, MR!lapses>>
    BY Zenon DEF MR!SyncNow
  <2>2. UNCHANGED <<open, batch, MR!lapses>> => UNCHANGED <<open, batch, hidden, dropped>>
    BY DEF MR!lapses
  <2> QED
    BY <1>1, <1>2, <2>1, <2>2, Zenon
-----------------------------------------------------------------------------
(* The room list: the stack of views.                                      *)

\* The views without the top one, and the top one.
LEMMA FrontFacts ==
    \A S, s : s \in Seq(S) /\ s # <<>> =>
        /\ Len(s) \in Nat /\ Len(s) > 0 /\ MR!Last(s) = s[Len(s)] /\ s[Len(s)] \in S
        /\ MR!Front(s) \in Seq(S) /\ Len(MR!Front(s)) = Len(s) - 1
        /\ \A i \in 1..Len(s) - 1 : MR!Front(s)[i] = s[i]
<1> TAKE S, s
<1> HAVE s \in Seq(S) /\ s # <<>>
<1>1. Len(s) \in Nat /\ Len(s) > 0 /\ s[Len(s)] \in S /\ Len(s) - 1 \in 0..Len(s)
  OBVIOUS
<1> DEFINE k == Len(s) - 1
           u == SubSeq(s, 1, k)
<1>2. MR!Last(s) = s[Len(s)] /\ MR!Front(s) = u /\ k \in Nat /\ k <= Len(s)
  BY <1>1 DEF MR!Last, MR!Front
<1> HIDE DEF k
<1>3. u \in Seq(S) /\ Len(u) = k
  BY <1>1, <1>2
<1>4. \A i \in 1..k : u[i] = s[i]
  BY <1>1, <1>2
<1> QED
  BY <1>1, <1>2, <1>3, <1>4 DEF k

\* What a stack with a view over it is made of.
LEMMA PushedFacts ==
    \A S, s, x : s \in Seq(S) /\ x \in S =>
        /\ Append(s, x) \in Seq(S) /\ Len(s) \in Nat /\ Len(Append(s, x)) = Len(s) + 1
        /\ Append(s, x)[Len(s) + 1] = x
        /\ \A i \in 1..Len(s) : Append(s, x)[i] = s[i]
OBVIOUS

\* Views one can put another view over.
Base(vs, del) == vs \in Seq(ViewSet) /\ Stacked(vs) /\ NoChat(vs) /\ TopmostDelete(vs, del)

\* The view x fits over vs.
Fits(vs, x) ==
    /\ x \in ViewSet /\ (vs = <<>> => x.v = "rooms")
    /\ x.v = "editor" => vs # <<>> /\ vs[Len(vs)].v = "system"

\* A view that fits on the top keeps the order of the stack.
LEMMA PushStacked ==
    \A vs, x : vs \in Seq(ViewSet) /\ Stacked(vs) /\ Fits(vs, x) => Stacked(Append(vs, x))
<1> TAKE vs, x
<1> HAVE vs \in Seq(ViewSet) /\ Stacked(vs) /\ Fits(vs, x)
<1> DEFINE w == Append(vs, x)
<1>1. /\ w \in Seq(ViewSet) /\ Len(vs) \in Nat /\ Len(w) = Len(vs) + 1 /\ w[Len(vs) + 1] = x
      /\ \A i \in 1..Len(vs) : w[i] = vs[i]
  BY PushedFacts DEF Fits
<1> HIDE DEF w
<1>2. w[1].v = "rooms"
  <2>1. CASE vs = <<>>
    <3>1. Len(vs) = 0
      BY <2>1
    <3> QED
      BY <1>1, <2>1, <3>1 DEF Fits
  <2>2. CASE vs # <<>>
    <3>1. 1 \in 1..Len(vs)
      BY <2>2
    <3> QED
      BY <1>1, <2>2, <3>1 DEF Stacked
  <2> QED
    BY <2>1, <2>2
<1>3. ASSUME NEW i \in 1..Len(w), w[i].v = "editor" PROVE i > 1 /\ w[i - 1].v = "system"
  <2>1. CASE i \in 1..Len(vs)
    <3>1. i > 1 /\ vs[i - 1].v = "system"
      BY <1>1, <1>3, <2>1 DEF Stacked
    <3>2. i - 1 \in 1..Len(vs)
      BY <1>1, <2>1, <3>1
    <3> QED
      BY <1>1, <3>1, <3>2
  <2>2. CASE i = Len(vs) + 1
    <3>1. vs # <<>> /\ vs[Len(vs)].v = "system"
      BY <1>1, <1>3, <2>2 DEF Fits
    <3>2. Len(vs) > 0
      BY <3>1
    <3>3. Len(vs) \in 1..Len(vs) /\ i - 1 = Len(vs)
      BY <1>1, <2>2, <3>2
    <3> QED
      BY <1>1, <2>2, <3>1, <3>2, <3>3
  <2>3. i \in 1..Len(vs) \/ i = Len(vs) + 1
    BY <1>1
  <2> QED
    BY <2>1, <2>2, <2>3
<1> QED
  BY <1>2, <1>3 DEF Stacked, w

\* A delete dialog on the top is the one PENDING_DELETE is about; another view
\* leaves the topmost one what it was.
LEMMA PushDelete ==
    \A vs, x, del : vs \in Seq(ViewSet) /\ x \in ViewSet
                    /\ (IF x.v = "delete" THEN del = x.who ELSE TopmostDelete(vs, del))
                    => TopmostDelete(Append(vs, x), del)
<1> TAKE vs, x, del
<1> HAVE vs \in Seq(ViewSet) /\ x \in ViewSet
         /\ (IF x.v = "delete" THEN del = x.who ELSE TopmostDelete(vs, del))
<1> DEFINE w == Append(vs, x)
<1>1. /\ w \in Seq(ViewSet) /\ Len(vs) \in Nat /\ Len(w) = Len(vs) + 1 /\ w[Len(vs) + 1] = x
      /\ \A i \in 1..Len(vs) : w[i] = vs[i]
  BY PushedFacts
<1> HIDE DEF w
<1>2. ASSUME NEW i \in 1..Len(w), w[i].v = "delete", \A j \in i + 1..Len(w) : w[j].v # "delete"
      PROVE  del \in {0, w[i].who}
  <2>1. CASE i = Len(vs) + 1
    BY <1>1, <1>2, <2>1
  <2>2. CASE i \in 1..Len(vs)
    <3>1. \A j \in i + 1..Len(vs) : vs[j].v # "delete"
      <4> TAKE j \in i + 1..Len(vs)
      <4>1. j \in i + 1..Len(w) /\ j \in 1..Len(vs)
        BY <1>1, <2>2
      <4> QED
        BY <1>1, <1>2, <4>1
    <3>2. x.v # "delete" /\ TopmostDelete(vs, del)
      <4>1. Len(vs) + 1 \in i + 1..Len(w)
        BY <1>1, <2>2
      <4> QED
        BY <1>1, <1>2, <4>1
    <3> QED
      BY <1>1, <1>2, <2>2, <3>1, <3>2 DEF TopmostDelete
  <2> QED
    BY <1>1, <2>1, <2>2
<1> QED
  BY <1>2 DEF TopmostDelete, w

\* A view put over others.
LEMMA PushBase ==
    \A vs, x, d, del :
                    /\ Base(vs, d) /\ Fits(vs, x) /\ x.v # "chat"
                    /\ (IF x.v = "delete" THEN del = x.who ELSE del = d)
                    => Base(Append(vs, x), del) /\ Append(vs, x) # <<>>
<1> TAKE vs, x, d, del
<1> HAVE /\ Base(vs, d) /\ Fits(vs, x) /\ x.v # "chat"
         /\ (IF x.v = "delete" THEN del = x.who ELSE del = d)
<1> DEFINE w == Append(vs, x)
<1>1. vs \in Seq(ViewSet) /\ x \in ViewSet
  BY DEF Base, Fits
<1>2. /\ w \in Seq(ViewSet) /\ Len(vs) \in Nat /\ Len(w) = Len(vs) + 1 /\ w[Len(vs) + 1] = x
      /\ \A i \in 1..Len(vs) : w[i] = vs[i]
  BY <1>1, PushedFacts
<1>3. Stacked(w)
  BY <1>1, PushStacked DEF Base
<1>4. TopmostDelete(w, del)
  BY <1>1, PushDelete, Zenon DEF Base
<1>5. NoChat(w)
  <2> HIDE DEF w
  <2>1. \A i \in 1..Len(w) : i \in 1..Len(vs) \/ i = Len(vs) + 1
    BY <1>2
  <2> QED
    BY <1>2, <2>1 DEF NoChat, Base
<1>6. w # <<>>
  <2> HIDE DEF w
  <2> QED
    BY <1>2
<1> QED
  BY <1>2, <1>3, <1>4, <1>5, <1>6 DEF Base

\* What is under the view on top.
LEMMA FrontBase ==
    \A vs, vw, del :
        /\ vs \in Seq(ViewSet) /\ vs # <<>> /\ Stacked(vs) /\ ChatOnTop(vs, vw)
        /\ (del = 0 \/ (TopmostDelete(vs, del) /\ vs[Len(vs)].v # "delete"))
        => Base(MR!Front(vs), del)
<1> TAKE vs, vw, del
<1> HAVE /\ vs \in Seq(ViewSet) /\ vs # <<>> /\ Stacked(vs) /\ ChatOnTop(vs, vw)
         /\ (del = 0 \/ (TopmostDelete(vs, del) /\ vs[Len(vs)].v # "delete"))
<1> DEFINE u == MR!Front(vs)
<1>1. /\ Len(vs) \in Nat /\ Len(vs) > 0 /\ u \in Seq(ViewSet) /\ Len(u) = Len(vs) - 1
      /\ \A i \in 1..Len(u) : u[i] = vs[i]
  BY FrontFacts
<1> HIDE DEF u
<1>2. \A i \in 1..Len(u) : i \in 1..Len(vs) /\ i # Len(vs) /\ i \in Nat
  BY <1>1
<1>3. NoChat(u)
  BY <1>1, <1>2 DEF NoChat, ChatOnTop
<1>4. Stacked(u)
  <2>1. ASSUME u # <<>> PROVE u[1].v = "rooms"
    <3>1. 1 \in 1..Len(u)
      BY <1>1, <2>1
    <3> QED
      BY <1>1, <3>1 DEF Stacked
  <2>2. ASSUME NEW i \in 1..Len(u), u[i].v = "editor" PROVE i > 1 /\ u[i - 1].v = "system"
    <3>1. i > 1 /\ vs[i - 1].v = "system"
      BY <1>1, <1>2, <2>2 DEF Stacked
    <3>2. i - 1 \in 1..Len(u)
      BY <1>1, <3>1
    <3> QED
      BY <1>1, <3>1, <3>2
  <2> QED
    BY <2>1, <2>2 DEF Stacked
<1>5. TopmostDelete(u, del)
  <2>1. CASE del = 0
    BY <2>1 DEF TopmostDelete
  <2>2. CASE TopmostDelete(vs, del) /\ vs[Len(vs)].v # "delete"
    <3> SUFFICES ASSUME NEW i \in 1..Len(u), u[i].v = "delete",
                        \A j \in i + 1..Len(u) : u[j].v # "delete"
                 PROVE  del \in {0, u[i].who}
      BY DEF TopmostDelete
    <3>1. \A j \in i + 1..Len(vs) : vs[j].v # "delete"
      <4> TAKE j \in i + 1..Len(vs)
      <4> DEFINE L == Len(u)
      <4>1. L \in Nat /\ i \in 1..L /\ Len(vs) = L + 1 /\ j \in i + 1..L + 1
        BY <1>1
      <4> HIDE DEF L
      <4>2. j = L + 1 \/ (j \in i + 1..L /\ j \in 1..L)
        BY <4>1
      <4>3. j = Len(vs) \/ (j \in i + 1..Len(u) /\ j \in 1..Len(u))
        BY <4>1, <4>2 DEF L
      <4> QED
        BY <1>1, <2>2, <4>3
    <3> QED
      BY <1>1, <1>2, <2>2, <3>1 DEF TopmostDelete
  <2> QED
    BY <2>1, <2>2
<1> QED
  BY <1>1, <1>3, <1>4, <1>5 DEF Base, u

\* Without a chat on top a view can go over all of them.
LEMMA ShownBase ==
    \A vs, vw, del :
        /\ vs \in Seq(ViewSet) /\ Stacked(vs) /\ ChatOnTop(vs, vw) /\ TopmostDelete(vs, del)
        /\ vw # "Chat"
        => Base(vs, del)
BY DEF Base, NoChat, ChatOnTop

\* The view on the top is taken away; if it is a delete dialog, PENDING_DELETE
\* is cleared before.
LEMMA FrontOfBase ==
    \A vs, del : Base(vs, del) /\ vs # <<>> /\ (del = 0 \/ vs[Len(vs)].v # "delete")
                 => Base(MR!Front(vs), del)
<1> TAKE vs, del
<1> HAVE Base(vs, del) /\ vs # <<>> /\ (del = 0 \/ vs[Len(vs)].v # "delete")
<1>1. ChatOnTop(vs, "RoomList")
  BY DEF Base, NoChat, ChatOnTop
<1> QED
  BY <1>1, FrontBase, Zenon DEF Base

\* The room list alone, or no view at all.
LEMMA FirstBase ==
    \A del : /\ Base(<<>>, del)
             /\ \A x \in ViewSet : x.v = "rooms" => Base(<<x>>, del)
<1> TAKE del
<1>1. Base(<<>>, del)
  BY DEF Base, Stacked, NoChat, TopmostDelete
<1>2. ASSUME NEW x \in ViewSet, x.v = "rooms" PROVE Base(<<x>>, del)
  <2> DEFINE w == <<x>>
  <2>1. w \in Seq(ViewSet) /\ Len(w) = 1 /\ w[1] = x
    OBVIOUS
  <2> HIDE DEF w
  <2>2. \A i \in 1..Len(w) : w[i].v = "rooms"
    BY <1>2, <2>1
  <2> QED
    BY <1>2, <2>1, <2>2 DEF Base, Stacked, NoChat, TopmostDelete, w
<1> QED
  BY <1>1, <1>2

\* ListBuilder::replace.
LEMMA ReplaceBase ==
    \A vs, x, del :
        /\ Base(vs, del) /\ x \in ViewSet /\ x.v \in {"rooms", "system"}
        /\ (x.v = "system" => vs # <<>> /\ vs[1] # vs[Len(vs)])
        => LET w == MR!Replace(vs, x)
           IN  /\ Base(w, del) /\ Len(w) \in Nat /\ Len(w) > 0 /\ w[Len(w)] = x
               /\ \A i \in 1..Len(w) - 1 : i \in 1..Len(vs) /\ w[i] = vs[i]
               /\ vs # <<>> /\ vs[Len(vs)].v \in {"rooms", "system"} => Len(w) = Len(vs)
<1> TAKE vs, x, del
<1> HAVE /\ Base(vs, del) /\ x \in ViewSet /\ x.v \in {"rooms", "system"}
         /\ (x.v = "system" => vs # <<>> /\ vs[1] # vs[Len(vs)])
<1> DEFINE w == MR!Replace(vs, x)
<1>1. vs \in Seq(ViewSet) /\ Len(vs) \in Nat
  BY DEF Base
<1>2. CASE vs # <<>> /\ vs[Len(vs)].v \in {"rooms", "system"}
  <2> DEFINE u == MR!Front(vs)
  <2>1. /\ u \in Seq(ViewSet) /\ Len(u) = Len(vs) - 1 /\ Len(vs) > 0
        /\ MR!Last(vs) = vs[Len(vs)] /\ \A i \in 1..Len(vs) - 1 : u[i] = vs[i]
    BY <1>1, <1>2, FrontFacts
  <2>2. w = Append(u, x)
    BY <1>2, <2>1 DEF MR!Replace
  <2>3. Base(u, del)
    <3>1. vs[Len(vs)].v # "delete"
      BY <1>2
    <3> QED
      BY <1>2, <3>1, FrontOfBase
  <2> HIDE DEF w, u
  <2>4. Fits(u, x)
    <3>1. u = <<>> => x.v = "rooms"
      <4>1. ASSUME u = <<>> PROVE Len(vs) = 1
        BY <1>1, <2>1, <4>1
      <4> QED
        BY <4>1
    <3> QED
      BY <3>1 DEF Fits
  <2>5. Base(w, del)
    BY <2>2, <2>3, <2>4, PushBase
  <2>6. Len(w) = Len(u) + 1 /\ w[Len(u) + 1] = x /\ \A i \in 1..Len(u) : w[i] = u[i]
    BY <2>1, <2>2, PushedFacts
  <2> QED
    BY <1>1, <2>1, <2>5, <2>6 DEF w
<1>3. CASE ~(vs # <<>> /\ vs[Len(vs)].v \in {"rooms", "system"})
  <2>1. w = Append(vs, x)
    <3>1. vs # <<>> => MR!Last(vs) = vs[Len(vs)]
      BY <1>1, FrontFacts
    <3> QED
      BY <1>3, <3>1 DEF MR!Replace
  <2> HIDE DEF w
  <2>2. Fits(vs, x)
    BY DEF Fits
  <2>3. Base(w, del)
    BY <2>1, <2>2, PushBase
  <2>4. Len(w) = Len(vs) + 1 /\ w[Len(vs) + 1] = x /\ \A i \in 1..Len(vs) : w[i] = vs[i]
    BY <1>1, <2>1, PushedFacts
  <2> QED
    BY <1>1, <1>3, <2>3, <2>4 DEF w
<1> QED
  BY <1>2, <1>3

-----------------------------------------------------------------------------
(* The room list: what a step draws.                                       *)

\* Views without a chat make a screen with any VIEW but Chat.
LEMMA BaseScreen ==
    \A vs, vw, dr, rs, del :
        /\ Base(vs, del) /\ vw # "Chat" /\ dr \in 0..Len(vs)
        /\ (dr # 0 => vs[dr].v = "rooms" /\ RowsMatch(vs[dr].rows, rs))
        => ScreenInv(vs, vw, dr, rs, del)
<1> TAKE vs, vw, dr, rs, del
<1> HAVE /\ Base(vs, del) /\ vw # "Chat" /\ dr \in 0..Len(vs)
         /\ (dr # 0 => vs[dr].v = "rooms" /\ RowsMatch(vs[dr].rows, rs))
<1>1. ChatOnTop(vs, vw)
  BY DEF Base, NoChat, ChatOnTop
<1>2. LastDrawn(vs, vw, dr, rs)
  BY DEF LastDrawn
<1> QED
  BY <1>1, <1>2 DEF Base, ScreenInv

\* render_rooms over views without a chat.
LEMMA RenderKeeps ==
    \A s : /\ Base(s, deleting') /\ rooms' \in Seq(RoomSet) /\ MR!RenderRooms(s)
           => ScreenInv(views', view', drawn', rooms', deleting') /\ view' # "Chat"
<1> TAKE s
<1> HAVE Base(s, deleting') /\ rooms' \in Seq(RoomSet) /\ MR!RenderRooms(s)
<1> DEFINE x == [v |-> "rooms", who |-> 0, rows |-> MR!RowsOf(rooms')]
           w == MR!Replace(s, x)
<1>1. view' = "RoomList" /\ views' = w /\ drawn' = Len(views')
  BY DEF MR!RenderRooms
<1>2. MR!RowsOf(rooms') \in Seq(Nat \X Nat) /\ RowsMatch(MR!RowsOf(rooms'), rooms')
  BY RowsFacts
<1>3. x \in ViewSet /\ x.v = "rooms" /\ x.rows = MR!RowsOf(rooms')
  BY <1>2, RoomsAssumption DEF ViewSet, Kinds
<1> HIDE DEF x
<1>4. Base(w, deleting') /\ Len(w) \in Nat /\ Len(w) > 0 /\ w[Len(w)] = x
  BY <1>3, ReplaceBase
<1> HIDE DEF w
<1>5. Len(w) \in 0..Len(w) /\ w[Len(w)].v = "rooms" /\ RowsMatch(w[Len(w)].rows, rooms')
  BY <1>2, <1>3, <1>4
<1>6. ScreenInv(w, "RoomList", Len(w), rooms', deleting')
  BY <1>4, <1>5, BaseScreen
<1> QED
  BY <1>1, <1>6

\* render_rooms over a well-formed stack ends in a state of the invariant.
LEMMA RenderedList ==
    \A s : /\ Base(s, deleting') /\ MR!RenderRooms(s) /\ Tracked /\ open' = 0
           /\ members' \in [1..RoomCount -> Memberships]
           /\ target' \in 0..RoomCount /\ deleting' \in 0..RoomCount
           => ListInv'
<1> TAKE s
<1> HAVE /\ Base(s, deleting') /\ MR!RenderRooms(s) /\ Tracked /\ open' = 0
         /\ members' \in [1..RoomCount -> Memberships]
         /\ target' \in 0..RoomCount /\ deleting' \in 0..RoomCount
<1>1. ScreenInv(views', view', drawn', rooms', deleting')
  BY RenderKeeps, Zenon DEF Tracked
<1> QED
  BY <1>1, Zenon DEF Tracked, ListInv, ListTypes, OpenInChat

\* A view shown while ROOMS stays, over or under what was drawn.
LEMMA ShownList ==
    \A s, v :
        /\ ListInv /\ view # "Chat" /\ v # "Chat" /\ MR!Show(s, v) /\ Base(s, deleting')
        /\ (drawn # 0 /\ drawn <= Len(s) => s[drawn] = views[drawn])
        /\ UNCHANGED <<members, news, batch, rooms, open, hidden, dropped>>
        /\ target' \in 0..RoomCount /\ deleting' \in 0..RoomCount
        => ListInv'
<1> TAKE s, v
<1> HAVE /\ ListInv /\ view # "Chat" /\ v # "Chat" /\ MR!Show(s, v) /\ Base(s, deleting')
         /\ (drawn # 0 /\ drawn <= Len(s) => s[drawn] = views[drawn])
         /\ UNCHANGED <<members, news, batch, rooms, open, hidden, dropped>>
         /\ target' \in 0..RoomCount /\ deleting' \in 0..RoomCount
<1>1. /\ members' = members /\ news' = news /\ batch' = batch /\ rooms' = rooms /\ open' = open
      /\ hidden' = hidden /\ dropped' = dropped
  OBVIOUS
<1>2. views' = s /\ view' = v /\ drawn' = IF drawn <= Len(s) THEN drawn ELSE 0
  BY DEF MR!Show
<1>3. /\ views \in Seq(ViewSet) /\ drawn \in 0..Len(views)
      /\ LastDrawn(views, view, drawn, rooms)
  BY DEF ListInv, ScreenInv
<1>4. Len(s) \in Nat /\ drawn' \in 0..Len(s)
  BY <1>2, <1>3 DEF Base
<1>5. drawn' # 0 => s[drawn'].v = "rooms" /\ RowsMatch(s[drawn'].rows, rooms')
  BY <1>1, <1>2, <1>3 DEF LastDrawn
<1>6. ScreenInv(views', view', drawn', rooms', deleting')
  BY <1>2, <1>4, <1>5, BaseScreen
<1>7. open' = 0
  BY <1>1 DEF ListInv, OpenInChat
<1> QED
  BY <1>1, <1>6, <1>7, Zenon DEF ListInv, ListTypes, OpenInChat

\* The view on top, and what is under it.
LEMMA OnTop ==
    ASSUME ListInv, MR!Top # "none"
    PROVE  /\ views \in Seq(ViewSet) /\ Len(views) \in Nat /\ Len(views) > 0 /\ views # <<>>
           /\ views[Len(views)].v = MR!Top /\ MR!Last(views) = views[Len(views)]
           /\ MR!Under = MR!Front(views) /\ Len(MR!Under) = Len(views) - 1
           /\ \A i \in 1..Len(views) - 1 : MR!Under[i] = views[i]
           /\ MR!Top # "chat" => view # "Chat" /\ open = 0 /\ Base(views, deleting)
           /\ MR!Top # "delete" => Base(MR!Under, deleting)
           /\ Base(MR!Under, 0)
<1>1. views \in Seq(ViewSet) /\ views # <<>>
  BY DEF ListInv, ScreenInv, MR!Top
<1>2. /\ Len(views) \in Nat /\ Len(views) > 0 /\ MR!Last(views) = views[Len(views)]
      /\ Len(MR!Front(views)) = Len(views) - 1
      /\ \A i \in 1..Len(views) - 1 : MR!Front(views)[i] = views[i]
  BY <1>1, FrontFacts
<1>3. MR!Top = views[Len(views)].v /\ MR!Under = MR!Front(views)
  BY <1>1, <1>2 DEF MR!Top, MR!Under
<1>4. ASSUME MR!Top # "chat" PROVE view # "Chat" /\ open = 0 /\ Base(views, deleting)
  <2>1. view # "Chat"
    BY <1>1, <1>2, <1>3, <1>4 DEF ListInv, ScreenInv, ChatOnTop
  <2>2. open = 0
    BY <2>1 DEF ListInv, OpenInChat
  <2>3. Base(views, deleting)
    BY <2>1, ShownBase, Zenon DEF ListInv, ScreenInv
  <2> QED
    BY <2>1, <2>2, <2>3
<1>5. ASSUME MR!Top # "delete" PROVE Base(MR!Under, deleting)
  BY <1>1, <1>3, <1>5, FrontBase, Zenon DEF ListInv, ScreenInv
<1>6. Base(MR!Under, 0)
  BY <1>1, <1>3, FrontBase, Zenon DEF ListInv, ScreenInv
<1> QED
  BY <1>1, <1>2, <1>3, <1>4, <1>5, <1>6

\* The invariant says what is meant.
LEMMA ListIsTrue == ListInv => MR!ListTrue
<1> SUFFICES ASSUME ListInv PROVE MR!ListTrue
  OBVIOUS
<1>1. /\ views \in Seq(ViewSet) /\ Len(views) \in Nat
      /\ rooms \in Seq(RoomSet) /\ drawn \in 0..Len(views)
  BY DEF ListInv, ListTypes, ScreenInv
<1>2. MR!RowsStandForRooms
  <2> SUFFICES ASSUME drawn # 0, drawn = Len(views)
               PROVE  /\ Len(views[drawn].rows) = Len(rooms)
                      /\ \A p \in DOMAIN views[drawn].rows :
                            /\ views[drawn].rows[p][1] \in DOMAIN rooms
                            /\ rooms[views[drawn].rows[p][1]].id = views[drawn].rows[p][2]
    BY Zenon DEF MR!RowsStandForRooms
  <2>1. drawn \in 1..Len(views)
    BY <1>1
  <2>2. views[drawn].v = "rooms" /\ views[drawn].rows \in Seq(Nat \X Nat)
    <3>1. views[drawn] \in ViewSet
      BY <1>1, <2>1
    <3> QED
      BY <3>1 DEF ListInv, ScreenInv, LastDrawn, ViewSet
  <2>3. view # "Chat"
    BY <1>1, <2>1, <2>2 DEF ListInv, ScreenInv, ChatOnTop
  <2>4. RowsMatch(views[drawn].rows, rooms)
    BY <2>3 DEF ListInv, ScreenInv, LastDrawn
  <2>5. DOMAIN views[drawn].rows = 1..Len(views[drawn].rows) /\ DOMAIN rooms = 1..Len(rooms)
    BY <1>1, <2>2
  <2> QED
    BY <2>4, <2>5, Zenon DEF RowsMatch
<1>3. MR!ListIsAccounts
  <2>1. batch = "fresh" => Accounts(rooms, members, news, hidden, dropped)
    BY DEF ListInv
  <2>2. Accounts(rooms, members, news, hidden, dropped) <=>
            \A r \in 1..RoomCount \ (news \cup hidden \cup dropped) :
                /\ r \in MR!Listed(rooms) <=> members[r] # "none"
                /\ \A n \in DOMAIN rooms :
                      rooms[n].id = r => rooms[n].invited = (members[r] = "invited")
    BY <1>1, AccountsMean
  <2> QED
    BY <2>1, <2>2, Zenon DEF MR!ListIsAccounts, MR!Ids
<1>4. MR!OpenIsListed
  BY DEF ListInv, OpenInChat, MR!OpenIsListed
<1>5. MR!DeletesNamed
  <2> SUFFICES ASSUME MR!Top = "delete" PROVE deleting \in {0, MR!Last(views).who}
    BY DEF MR!DeletesNamed, MR!DeleteTarget
  <2>1. Len(views) > 0 /\ views[Len(views)].v = "delete" /\ MR!Last(views) = views[Len(views)]
    BY OnTop
  <2>2. Len(views) \in 1..Len(views) /\ Len(views) + 1..Len(views) = {}
    BY <1>1, <2>1
  <2> QED
    BY <2>1, <2>2 DEF ListInv, ScreenInv, TopmostDelete
<1> QED
  BY <1>2, <1>3, <1>4, <1>5 DEF MR!ListTrue

-----------------------------------------------------------------------------
(* The room list: its steps.                                               *)

\* Before the first entry there is no list.
LEMMA ListInitial == MR!Init => ListInv
<1> SUFFICES ASSUME MR!Init PROVE ListInv
  OBVIOUS
<1>1. /\ members \in [1..RoomCount -> {"none", "joined"}] /\ news = {}
      /\ batch \in {"none", "stored"} /\ rooms = <<>> /\ target = 0 /\ deleting = 0 /\ open = 0
      /\ view = "RoomList" /\ views = <<>> /\ drawn = 0
  BY DEF MR!Init, MR!Ids
<1>2. ListTypes
  BY <1>1, RoomsAssumption DEF ListTypes, Memberships
<1>3. ScreenInv(<<>>, "RoomList", 0, rooms, 0)
  <2>1. 0 \in 0..Len(<<>>)
    OBVIOUS
  <2> QED
    BY <2>1, FirstBase, BaseScreen, Zenon
<1> QED
  BY <1>1, <1>2, <1>3 DEF ListInv, OpenInChat

\* Steps that leave the other rooms alone leave them the account's.
LEMMA AccountsElsewhere ==
    \A rs, rs2, srv, srv2, nws, nws2, hid, hid2, drp, drp2 :
        /\ Accounts(rs, srv, nws, hid, drp)
        /\ \A r \in 1..RoomCount \ (nws2 \cup hid2 \cup drp2) :
              /\ r \notin nws \cup hid \cup drp /\ srv2[r] = srv[r]
              /\ r \in MR!Listed(rs2) <=> r \in MR!Listed(rs)
              /\ \A x \in RoomSet : Holds(rs2, x) /\ x.id = r => Holds(rs, x)
        => Accounts(rs2, srv2, nws2, hid2, drp2)
<1> TAKE rs, rs2, srv, srv2, nws, nws2, hid, hid2, drp, drp2
<1> HAVE /\ Accounts(rs, srv, nws, hid, drp)
         /\ \A r \in 1..RoomCount \ (nws2 \cup hid2 \cup drp2) :
               /\ r \notin nws \cup hid \cup drp /\ srv2[r] = srv[r]
               /\ r \in MR!Listed(rs2) <=> r \in MR!Listed(rs)
               /\ \A x \in RoomSet : Holds(rs2, x) /\ x.id = r => Holds(rs, x)
<1> SUFFICES ASSUME NEW r \in 1..RoomCount \ (nws2 \cup hid2 \cup drp2)
             PROVE  /\ r \in MR!Listed(rs2) <=> srv2[r] # "none"
                    /\ \A x \in RoomSet : Holds(rs2, x) /\ x.id = r
                          => (x.invited <=> srv2[r] = "invited")
  BY Zenon DEF Accounts
<1>1. r \in 1..RoomCount \ (nws \cup hid \cup drp)
  BY Zenon
<1>2. /\ r \in MR!Listed(rs) <=> srv[r] # "none"
      /\ \A x \in RoomSet : Holds(rs, x) /\ x.id = r => (x.invited <=> srv[r] = "invited")
  BY <1>1, Zenon DEF Accounts
<1>3. /\ srv2[r] = srv[r] /\ (r \in MR!Listed(rs2) <=> r \in MR!Listed(rs))
      /\ \A x \in RoomSet : Holds(rs2, x) /\ x.id = r => Holds(rs, x)
  BY Zenon
<1> QED
  BY <1>2, <1>3, Zenon

\* Another client of the account joins, leaves or is invited: the room is
\* news until a sync reports it.
LEMMA ListElsewhere ==
    ASSUME ListInv, NEW r \in 1..RoomCount, NEW m \in Memberships, MR!Elsewhere(r, m)
    PROVE  ListInv'
<1>1. /\ members' = [members EXCEPT ![r] = m] /\ news' = news \cup {r}
      /\ UNCHANGED <<batch, rooms, target, deleting, open, view, views, drawn, hidden, dropped>>
  BY DEF MR!Elsewhere, MR!ids, MR!screen, MR!lapses
<1>2. /\ batch' = batch /\ rooms' = rooms /\ target' = target /\ deleting' = deleting
      /\ open' = open /\ view' = view /\ views' = views /\ drawn' = drawn
      /\ hidden' = hidden /\ dropped' = dropped
  BY <1>1
<1>3. members' \in [1..RoomCount -> Memberships] /\ news' \subseteq 1..RoomCount
      /\ \A q \in 1..RoomCount : q # r => members'[q] = members[q]
  BY <1>1 DEF ListInv, ListTypes
<1>4. ASSUME batch = "fresh" PROVE Accounts(rooms, members', news', hidden, dropped)
  <2>1. Accounts(rooms, members, news, hidden, dropped)
    BY <1>4 DEF ListInv
  <2>2. \A q \in 1..RoomCount \ (news' \cup hidden \cup dropped) :
            q \notin news \cup hidden \cup dropped /\ members'[q] = members[q]
    BY <1>1, <1>3
  <2> QED
    BY <2>1, <2>2, AccountsElsewhere, Zenon
<1> QED
  BY <1>2, <1>3, <1>4, Zenon DEF ListInv, ListTypes, OpenInChat

\* on_exit leaves the views to the host, which drops them.
LEMMA ListExit == ASSUME ListInv, MR!Exit PROVE ListInv'
<1>1. /\ rooms' = <<>> /\ target' = 0 /\ deleting' = 0 /\ open' = 0
      /\ batch' = (IF batch = "none" THEN "none" ELSE "stored")
      /\ view' = "RoomList" /\ views' = <<>> /\ drawn' = 0
      /\ members' = members /\ news' = news
  BY DEF MR!Exit, MR!serverv
<1>2. ListTypes'
  BY <1>1, RoomsAssumption DEF ListTypes, ListInv
<1>3. ScreenInv(<<>>, "RoomList", 0, rooms', 0)
  <2>1. 0 \in 0..Len(<<>>)
    OBVIOUS
  <2> QED
    BY <2>1, FirstBase, BaseScreen, Zenon
<1>4. batch' # "fresh"
  BY <1>1
<1> QED
  BY <1>1, <1>2, <1>3, <1>4 DEF ListInv, OpenInChat

\* A sync that draws the list over the views s.
LEMMA ListSynced ==
    \A full, s :
        /\ ListInv /\ view # "Chat" /\ UNCHANGED <<members, target, deleting>>
        /\ MR!SyncNow(full, rooms, members, news) /\ MR!RenderRooms(s) /\ Base(s, deleting)
        => ListInv'
<1> TAKE full, s
<1> HAVE /\ ListInv /\ view # "Chat" /\ UNCHANGED <<members, target, deleting>>
         /\ MR!SyncNow(full, rooms, members, news) /\ MR!RenderRooms(s) /\ Base(s, deleting)
<1>1. members' = members /\ target' = target /\ deleting' = deleting
  OBVIOUS
<1>2. Synced(rooms)
  BY <1>1, SyncKeepsList, Zenon DEF ListInv, ListTypes
<1>3. open' = 0
  BY <1>2, Zenon DEF Synced, ListInv, OpenInChat
<1> QED
  BY <1>1, <1>2, <1>3, RenderedList, Zenon DEF Synced, ListInv, ListTypes

\* on_enter draws the list, or the system list without a session.
LEMMA ListEnter == ASSUME ListInv, MR!Enter PROVE ListInv'
<1>1. /\ views = <<>> /\ UNCHANGED <<members, target, deleting>>
      /\ MR!SyncNow(TRUE, rooms, members, news) /\ MR!RenderRooms(<<>>)
  BY DEF MR!Enter
<1>2. view # "Chat"
  BY <1>1 DEF ListInv, ScreenInv, ChatOnTop
<1>3. Base(<<>>, deleting)
  BY FirstBase
<1> QED
  BY <1>1, <1>2, <1>3, ListSynced, Zenon

\* The sync key over the room list.
LEMMA ListSyncKey == ASSUME ListInv, MR!SyncKey PROVE ListInv'
<1>1. /\ view = "RoomList" /\ UNCHANGED <<members, target, deleting>>
      /\ MR!SyncNow(FALSE, rooms, members, news) /\ MR!RenderRooms(views)
  BY DEF MR!SyncKey
<1>2. view # "Chat"
  BY <1>1
<1>3. Base(views, deleting)
  BY <1>2, ShownBase, Zenon DEF ListInv, ScreenInv
<1> QED
  BY <1>1, <1>2, <1>3, ListSynced, Zenon

\* A login starts over with an empty list and a full sync.
LEMMA ListLogin == ASSUME ListInv, MR!Login PROVE ListInv'
<1>1. /\ MR!Top = "system" /\ UNCHANGED <<members, target, deleting>>
      /\ MR!SyncNow(TRUE, rooms, members, news) /\ MR!RenderRooms(<<views[1]>>)
  BY DEF MR!Login
<1>2. view # "Chat" /\ views \in Seq(ViewSet) /\ views # <<>>
  BY <1>1, OnTop
<1>3. views[1] \in ViewSet /\ views[1].v = "rooms"
  BY <1>2 DEF ListInv, ScreenInv, Stacked
<1>4. Base(<<views[1]>>, deleting)
  BY <1>3, FirstBase
<1> QED
  BY <1>1, <1>2, <1>4, ListSynced, Zenon

\* The poll: the list is drawn unless nothing of it changed, or a chat is over it.
LEMMA ListPoll ==
    ASSUME ListInv, NEW chatty, MR!Poll(chatty) PROVE ListInv'
<1>1. /\ views # <<>> /\ view \in {"RoomList", "Chat"} /\ UNCHANGED <<members, target, deleting>>
      /\ MR!Answered(FALSE, rooms, members, news, chatty)
      /\ IF view = "RoomList" /\ (rooms' # rooms \/ chatty # {})
         THEN MR!RenderRooms(views) ELSE UNCHANGED MR!screen
  BY DEF MR!Poll
<1>2. members' = members /\ target' = target /\ deleting' = deleting
  BY <1>1
<1>3. Synced(rooms)
  BY <1>1, <1>2, AnswerKeepsList, Zenon DEF ListInv, ListTypes
<1>4. CASE view = "RoomList" /\ (rooms' # rooms \/ chatty # {})
  <2>1. MR!RenderRooms(views) /\ view # "Chat"
    BY <1>1, <1>4
  <2>2. Base(views, deleting')
    BY <1>2, <2>1, ShownBase, Zenon DEF ListInv, ScreenInv
  <2>3. open' = 0
    BY <1>3, <2>1, Zenon DEF Synced, ListInv, OpenInChat
  <2> QED
    BY <1>2, <1>3, <2>1, <2>2, <2>3, RenderedList, Zenon DEF Synced, ListInv, ListTypes
<1>5. CASE ~(view = "RoomList" /\ (rooms' # rooms \/ chatty # {}))
  <2>1. view' = view /\ views' = views /\ drawn' = drawn
    BY <1>1, <1>5 DEF MR!screen
  <2>2. view = "Chat" \/ rooms' = rooms
    BY <1>1, <1>5
  <2>3. ScreenInv(views', view', drawn', rooms', deleting')
    BY <1>2, <2>1, <2>2 DEF ListInv, ScreenInv, LastDrawn
  <2>4. open' # 0 => view' = "Chat" /\ open' \in MR!Listed(rooms')
    BY <1>3, <2>1, Zenon DEF Synced, ListInv, OpenInChat
  <2> QED
    BY <1>2, <1>3, <2>3, <2>4, Zenon DEF Synced, Tracked, ListInv, ListTypes, OpenInChat
<1> QED
  BY <1>4, <1>5

\* The fields of a view.
LEMMA ViewFacts ==
    \A k, who : k \in Kinds /\ who \in 0..RoomCount =>
        MR!View(k, who) \in ViewSet /\ MR!View(k, who).v = k /\ MR!View(k, who).who = who
BY DEF MR!View, ViewSet

\* ROOMS, the account and the open room stay.
SameRooms == UNCHANGED <<members, news, batch, rooms, open, hidden, dropped>>

\* A view that is pushed over the top or put in its place.
LEMMA ListPushed ==
    \A x, v :
        /\ ListInv /\ MR!Top # "none" /\ MR!Top # "chat" /\ v # "Chat" /\ SameRooms
        /\ Fits(views, x) /\ x.v \notin {"chat", "delete"}
        /\ MR!Show(Append(views, x), v)
        /\ target' \in 0..RoomCount /\ deleting' = deleting
        => ListInv'
<1> TAKE x, v
<1> HAVE /\ ListInv /\ MR!Top # "none" /\ MR!Top # "chat" /\ v # "Chat" /\ SameRooms
         /\ Fits(views, x) /\ x.v \notin {"chat", "delete"}
         /\ MR!Show(Append(views, x), v)
         /\ target' \in 0..RoomCount /\ deleting' = deleting
<1> DEFINE w == Append(views, x)
<1>1. /\ views \in Seq(ViewSet) /\ view # "Chat" /\ Base(views, deleting)
  BY OnTop
<1>2. Base(w, deleting)
  BY <1>1, PushBase
<1>3. \A i \in 1..Len(views) : w[i] = views[i]
  BY <1>1, PushedFacts DEF Fits
<1>4. drawn \in 0..Len(views) /\ deleting \in 0..RoomCount
  BY DEF ListInv, ListTypes, ScreenInv
<1> HIDE DEF w
<1>5. drawn # 0 /\ drawn <= Len(w) => w[drawn] = views[drawn]
  BY <1>1, <1>3, <1>4
<1>6. MR!Show(w, v)
  BY DEF w
<1> QED
  BY <1>1, <1>2, <1>4, <1>5, <1>6, ShownList, Zenon DEF SameRooms

\* A menu is replaced by another view, the rooms staying as they are.
LEMMA ListReplaced ==
    \A x, v :
        /\ ListInv /\ MR!Top \in {"menu", "menuinv"} /\ v # "Chat" /\ SameRooms
        /\ x \in ViewSet /\ x.v \notin {"chat", "editor"}
        /\ (x.v = "delete" => deleting' = x.who) /\ (x.v # "delete" => deleting' = deleting)
        /\ MR!Show(Append(MR!Under, x), v)
        /\ target' = target
        => ListInv'
<1> TAKE x, v
<1> HAVE /\ ListInv /\ MR!Top \in {"menu", "menuinv"} /\ v # "Chat" /\ SameRooms
         /\ x \in ViewSet /\ x.v \notin {"chat", "editor"}
         /\ (x.v = "delete" => deleting' = x.who) /\ (x.v # "delete" => deleting' = deleting)
         /\ MR!Show(Append(MR!Under, x), v)
         /\ target' = target
<1> DEFINE u == MR!Under
           w == Append(u, x)
<1>1. /\ views \in Seq(ViewSet) /\ view # "Chat" /\ Base(u, deleting) /\ Base(u, 0)
      /\ Len(views) \in Nat /\ Len(views) > 0 /\ views[Len(views)].v \in {"menu", "menuinv"}
      /\ Len(u) = Len(views) - 1 /\ \A i \in 1..Len(views) - 1 : u[i] = views[i]
  BY OnTop
<1>2. u \in Seq(ViewSet)
  BY <1>1 DEF Base
<1>3. /\ drawn \in 0..Len(views) /\ LastDrawn(views, view, drawn, rooms)
      /\ target \in 0..RoomCount /\ deleting \in 0..RoomCount /\ Stacked(views)
  BY DEF ListInv, ListTypes, ScreenInv
<1>4. drawn # Len(views)
  BY <1>1, <1>3 DEF LastDrawn
<1> HIDE DEF u
<1>5. u # <<>>
  <2>1. ASSUME u = <<>> PROVE FALSE
    <3>1. Len(views) = 1
      BY <1>1, <2>1
    <3>2. views # <<>>
      BY <1>1
    <3>3. views[1].v \in {"menu", "menuinv"}
      <4>1. views[Len(views)].v \in {"menu", "menuinv"}
        BY <1>1
      <4> QED
        BY <3>1, <4>1
    <3> QED
      BY <1>3, <3>2, <3>3 DEF Stacked
  <2> QED
    BY <2>1
<1>6. Fits(u, x)
  BY <1>5 DEF Fits
<1>7. Base(w, deleting') /\ deleting' \in 0..RoomCount
  <2>1. CASE x.v # "delete"
    BY <1>1, <1>3, <1>6, <2>1, PushBase
  <2>2. CASE x.v = "delete"
    <3>1. deleting' = x.who /\ x.who \in 0..RoomCount
      BY <2>2 DEF ViewSet
    <3> QED
      BY <1>1, <1>6, <2>2, <3>1, PushBase
  <2> QED
    BY <2>1, <2>2
<1>8. Len(w) = Len(views) /\ \A i \in 1..Len(views) - 1 : w[i] = views[i]
  <2>1. Len(w) = Len(u) + 1 /\ \A i \in 1..Len(u) : w[i] = u[i]
    BY <1>2, PushedFacts
  <2> HIDE DEF w
  <2> QED
    BY <1>1, <2>1
<1> HIDE DEF w
<1>9. drawn # 0 /\ drawn <= Len(w) => w[drawn] = views[drawn]
  BY <1>1, <1>3, <1>4, <1>8
<1>10. MR!Show(w, v)
  BY DEF w, u
<1> QED
  BY <1>1, <1>3, <1>7, <1>9, <1>10, ShownList, Zenon DEF SameRooms

\* A view is taken off, the rooms staying as they are.
LEMMA ListPopped ==
    \A v :
        /\ ListInv /\ MR!Top \notin {"none", "chat", "delete"} /\ v # "Chat" /\ SameRooms
        /\ MR!Show(MR!Under, v) /\ target' = target /\ deleting' = deleting
        => ListInv'
<1> TAKE v
<1> HAVE /\ ListInv /\ MR!Top \notin {"none", "chat", "delete"} /\ v # "Chat" /\ SameRooms
         /\ MR!Show(MR!Under, v) /\ target' = target /\ deleting' = deleting
<1> DEFINE u == MR!Under
<1>1. /\ view # "Chat" /\ Base(u, deleting) /\ Len(views) \in Nat
      /\ Len(u) = Len(views) - 1 /\ \A i \in 1..Len(views) - 1 : u[i] = views[i]
  BY OnTop
<1>2. drawn \in 0..Len(views) /\ target \in 0..RoomCount /\ deleting \in 0..RoomCount
  BY DEF ListInv, ListTypes, ScreenInv
<1> HIDE DEF u
<1>3. drawn # 0 /\ drawn <= Len(u) => u[drawn] = views[drawn]
  BY <1>1, <1>2
<1>4. MR!Show(u, v)
  BY DEF u
<1> QED
  BY <1>1, <1>2, <1>3, <1>4, ShownList, Zenon DEF SameRooms

\* The host takes a list, a menu or the reset dialog away.
LEMMA ListBack == ASSUME ListInv, MR!Back \/ MR!ResetDeclined PROVE ListInv'
<1>1. /\ MR!Top \in {"rooms", "system", "menu", "menuinv", "reset"}
      /\ MR!Show(MR!Under, MR!AfterN)
      /\ SameRooms /\ target' = target /\ deleting' = deleting
  BY DEF MR!Back, MR!ResetDeclined, MR!Keeps, MR!serverv, MR!ids, MR!lapses, SameRooms
<1>2. view # "Chat"
  BY <1>1, OnTop
<1>3. MR!AfterN # "Chat"
  BY <1>2 DEF MR!AfterN
<1>4. MR!Top \notin {"none", "chat", "delete"}
  BY <1>1
<1> QED
  BY <1>1, <1>3, <1>4, ListPopped, Zenon

\* A row of the list opens its room, or asks about the invitation.
LEMMA ListSelect == ASSUME ListInv, NEW p, MR!Select(p) PROVE ListInv'
<1> DEFINE i == MR!Last(views).rows[p][1]
           r == rooms[i].id
<1>1. /\ MR!Top = "rooms"
      /\ IF i \notin DOMAIN rooms THEN UNCHANGED <<target, open, MR!screen>>
         ELSE IF rooms[i].invited
         THEN /\ target' = r /\ MR!Show(Append(views, MR!View("invite", r)), view)
              /\ UNCHANGED open
         ELSE /\ open' = r /\ MR!Show(Append(views, MR!View("chat", r)), "Chat")
              /\ UNCHANGED target
      /\ members' = members /\ news' = news /\ batch' = batch /\ rooms' = rooms
      /\ deleting' = deleting /\ hidden' = hidden /\ dropped' = dropped
  BY DEF MR!Select, MR!serverv, MR!lapses
<1> HIDE DEF i
<1>2. /\ rooms \in Seq(RoomSet) /\ target \in 0..RoomCount /\ deleting \in 0..RoomCount
      /\ drawn \in 0..Len(views) /\ LastDrawn(views, view, drawn, rooms)
  BY DEF ListInv, ListTypes, ScreenInv
<1>3. /\ views \in Seq(ViewSet) /\ views # <<>> /\ view # "Chat" /\ open = 0
      /\ Base(views, deleting) /\ Len(views) \in Nat /\ MR!Top # "none" /\ MR!Top # "chat"
  BY <1>1, OnTop
<1>4. CASE i \notin DOMAIN rooms
  <2>1. target' = target /\ open' = open /\ view' = view /\ views' = views /\ drawn' = drawn
    BY <1>1, <1>4 DEF MR!screen
  <2> QED
    BY <1>1, <2>1, Zenon DEF ListInv, ListTypes, OpenInChat
<1>5. ASSUME i \in DOMAIN rooms PROVE r \in 1..RoomCount /\ r \in MR!Listed(rooms)
  <2>1. rooms[i] \in RoomSet
    BY <1>2, <1>5
  <2> QED
    BY <1>5, <2>1 DEF RoomSet, MR!Listed
<1> HIDE DEF r
<1>6. CASE i \in DOMAIN rooms /\ rooms[i].invited
  <2>1. /\ target' = r /\ MR!Show(Append(views, MR!View("invite", r)), view) /\ open' = open
        /\ r \in 0..RoomCount
    BY <1>1, <1>5, <1>6
  <2>2. "invite" \in Kinds
    BY DEF Kinds
  <2>3. MR!View("invite", r) \in ViewSet /\ MR!View("invite", r).v = "invite"
    BY <2>1, <2>2, ViewFacts
  <2>4. Fits(views, MR!View("invite", r)) /\ MR!View("invite", r).v \notin {"chat", "delete"}
    BY <1>3, <2>3 DEF Fits
  <2>5. SameRooms
    BY <1>1, <2>1 DEF SameRooms
  <2> QED
    BY <1>1, <1>3, <2>1, <2>4, <2>5, ListPushed, Zenon
<1>7. CASE i \in DOMAIN rooms /\ ~rooms[i].invited
  <2> DEFINE x == MR!View("chat", r)
             w == Append(views, x)
  <2>1. /\ open' = r /\ MR!Show(w, "Chat") /\ target' = target
        /\ r \in 0..RoomCount /\ r \in MR!Listed(rooms)
    BY <1>1, <1>5, <1>7
  <2>2. "chat" \in Kinds
    BY DEF Kinds
  <2>3. x \in ViewSet /\ x.v = "chat"
    BY <2>1, <2>2, ViewFacts
  <2>4. Fits(views, x)
    BY <1>3, <2>3 DEF Fits
  <2> HIDE DEF x
  <2>5. Stacked(w)
    BY <1>3, <2>4, PushStacked DEF Base
  <2>6. TopmostDelete(w, deleting)
    BY <1>3, <2>3, PushDelete DEF Base
  <2>7. /\ w \in Seq(ViewSet) /\ Len(w) = Len(views) + 1 /\ w[Len(views) + 1] = x
        /\ \A n \in 1..Len(views) : w[n] = views[n]
    BY <1>3, <2>3, PushedFacts
  <2>8. views' = w /\ view' = "Chat" /\ drawn' = IF drawn <= Len(w) THEN drawn ELSE 0
    BY <2>1 DEF MR!Show
  <2> HIDE DEF w
  <2>9. drawn' = drawn /\ drawn \in 0..Len(w)
    BY <1>2, <1>3, <2>7, <2>8
  <2>10. ChatOnTop(w, "Chat")
    <3>1. \A n \in 1..Len(w) : n \in 1..Len(views) \/ n = Len(views) + 1
      BY <1>3, <2>7
    <3>2. \A n \in 1..Len(views) : n # Len(w) /\ w[n].v # "chat"
      BY <1>3, <2>7 DEF Base, NoChat
    <3>3. w # <<>>
      BY <1>3, <2>7
    <3> QED
      BY <2>3, <2>7, <3>1, <3>2, <3>3 DEF ChatOnTop
  <2>11. LastDrawn(w, "Chat", drawn, rooms')
    BY <1>2, <1>3, <2>7 DEF LastDrawn
  <2>12. ScreenInv(views', view', drawn', rooms', deleting')
    BY <1>1, <2>5, <2>6, <2>7, <2>8, <2>9, <2>10, <2>11 DEF ScreenInv
  <2> QED
    BY <1>1, <2>1, <2>8, <2>12, Zenon DEF ListInv, ListTypes, OpenInChat
<1> QED
  BY <1>4, <1>6, <1>7

\* The menu of the room in the selected row.
LEMMA ListRoomMenu == ASSUME ListInv, NEW i, MR!RoomMenu(i) PROVE ListInv'
<1> DEFINE met == i \in DOMAIN rooms
           k == IF met /\ rooms[i].invited THEN "menuinv" ELSE "menu"
           x == MR!View(k, target')
<1>1. /\ MR!Top = "rooms" /\ target' = (IF met THEN rooms[i].id ELSE 0)
      /\ MR!Show(Append(views, x), view)
      /\ SameRooms /\ deleting' = deleting
  BY DEF MR!RoomMenu, MR!serverv, MR!lapses, SameRooms
<1>2. target' \in 0..RoomCount
  <2>1. CASE ~met
    BY <1>1, <2>1, RoomsAssumption
  <2>2. CASE met
    <3>1. rooms \in Seq(RoomSet)
      BY DEF ListInv, ListTypes
    <3>2. rooms[i] \in RoomSet
      BY <2>2, <3>1
    <3>3. rooms[i].id \in 1..RoomCount
      BY <3>2 DEF RoomSet
    <3> QED
      BY <1>1, <2>2, <3>3
  <2> QED
    BY <2>1, <2>2
<1>3. k \in Kinds /\ k \in {"menu", "menuinv"}
  BY DEF Kinds
<1> HIDE DEF k, met
<1>4. x \in ViewSet /\ x.v = k
  BY <1>2, <1>3, ViewFacts
<1> HIDE DEF x
<1>5. views # <<>> /\ view # "Chat" /\ MR!Top # "none" /\ MR!Top # "chat"
  BY <1>1, OnTop
<1>6. Fits(views, x) /\ x.v \notin {"chat", "delete"}
  BY <1>3, <1>4, <1>5 DEF Fits
<1> QED
  BY <1>1, <1>2, <1>5, <1>6, ListPushed, Zenon

\* ctx_pick on the menu of a room: an input, the delete dialog, the system list.
LEMMA ListPick == ASSUME ListInv, MR!Input \/ MR!Delete \/ MR!System PROVE ListInv'
<1>1. target \in 0..RoomCount /\ 0 \in 0..RoomCount
  BY RoomsAssumption DEF ListInv, ListTypes
<1>2. "input" \in Kinds /\ "delete" \in Kinds /\ "system" \in Kinds
  BY DEF Kinds
<1>3. CASE MR!Input
  <2> DEFINE x == MR!View("input", 0)
  <2>1. /\ MR!Top \in {"menu", "menuinv"} /\ MR!Show(Append(MR!Under, x), "Composing")
        /\ SameRooms /\ target' = target /\ deleting' = deleting
    BY <1>3 DEF MR!Input, MR!Keeps, MR!serverv, MR!ids, MR!lapses, SameRooms
  <2>2. x \in ViewSet /\ x.v = "input"
    BY <1>1, <1>2, ViewFacts
  <2> HIDE DEF x
  <2>3. x.v \notin {"chat", "editor"} /\ x.v # "delete"
    BY <2>2
  <2> QED
    BY <2>1, <2>2, <2>3, ListReplaced, Zenon
<1>4. CASE MR!Delete
  <2> DEFINE x == MR!View("delete", target)
  <2>1. /\ MR!Top \in {"menu", "menuinv"} /\ MR!Show(Append(MR!Under, x), view)
        /\ SameRooms /\ target' = target /\ deleting' = target
    BY <1>4 DEF MR!Delete, MR!serverv, MR!lapses, SameRooms
  <2>2. x \in ViewSet /\ x.v = "delete" /\ x.who = target
    BY <1>1, <1>2, ViewFacts
  <2>3. view # "Chat"
    BY <2>1, OnTop
  <2> HIDE DEF x
  <2>4. x.v \notin {"chat", "editor"}
    BY <2>2
  <2> QED
    BY <2>1, <2>2, <2>3, <2>4, ListReplaced, Zenon
<1>5. CASE MR!System
  <2> DEFINE x == MR!View("system", 0)
  <2>1. /\ MR!Top \in {"menu", "menuinv"} /\ MR!Show(Append(MR!Under, x), "System")
        /\ SameRooms /\ target' = target /\ deleting' = deleting
    BY <1>5 DEF MR!System, MR!Keeps, MR!serverv, MR!ids, MR!lapses, SameRooms
  <2>2. x \in ViewSet /\ x.v = "system"
    BY <1>1, <1>2, ViewFacts
  <2> HIDE DEF x
  <2>3. x.v \notin {"chat", "editor"} /\ x.v # "delete"
    BY <2>2
  <2> QED
    BY <2>1, <2>2, <2>3, ListReplaced, Zenon
<1> QED
  BY <1>3, <1>4, <1>5

\* The system list's editor and its reset dialog open.
LEMMA ListSystem == ASSUME ListInv, MR!Edit \/ MR!AskReset PROVE ListInv'
<1>1. 0 \in 0..RoomCount /\ target \in 0..RoomCount
  BY RoomsAssumption DEF ListInv, ListTypes
<1>2. "editor" \in Kinds /\ "reset" \in Kinds
  BY DEF Kinds
<1>3. /\ MR!Top = "system" /\ SameRooms /\ target' = target /\ deleting' = deleting
  BY DEF MR!Edit, MR!AskReset, MR!Keeps, MR!serverv, MR!ids, MR!lapses, SameRooms
<1>4. /\ views # <<>> /\ views[Len(views)].v = "system" /\ view # "Chat"
      /\ MR!Top # "none" /\ MR!Top # "chat" /\ target' \in 0..RoomCount
  BY <1>1, <1>3, OnTop
<1>5. CASE MR!Edit
  <2> DEFINE x == MR!View("editor", 0)
  <2>1. MR!Show(Append(views, x), "EditingField")
    BY <1>5 DEF MR!Edit
  <2>2. x \in ViewSet /\ x.v = "editor"
    BY <1>1, <1>2, ViewFacts
  <2> HIDE DEF x
  <2>3. Fits(views, x) /\ x.v \notin {"chat", "delete"}
    BY <1>4, <2>2 DEF Fits
  <2> QED
    BY <1>3, <1>4, <2>1, <2>3, ListPushed, Zenon
<1>6. CASE MR!AskReset
  <2> DEFINE x == MR!View("reset", 0)
  <2>1. MR!Show(Append(views, x), view)
    BY <1>6 DEF MR!AskReset
  <2>2. x \in ViewSet /\ x.v = "reset"
    BY <1>1, <1>2, ViewFacts
  <2> HIDE DEF x
  <2>3. Fits(views, x) /\ x.v \notin {"chat", "delete"}
    BY <1>4, <2>2 DEF Fits
  <2> QED
    BY <1>3, <1>4, <2>1, <2>3, ListPushed, Zenon
<1> QED
  BY <1>5, <1>6

\* An editor ends, and the system list under it is drawn again.
LEMMA ListEditDone == ASSUME ListInv, MR!EditDone PROVE ListInv'
<1> DEFINE u == MR!Under
           x == MR!View("system", 0)
           w == MR!Replace(u, x)
<1>1. /\ MR!Top = "editor" /\ MR!Show(w, "System")
      /\ SameRooms /\ target' = target /\ deleting' = deleting
  BY DEF MR!EditDone, MR!Keeps, MR!serverv, MR!ids, MR!lapses, SameRooms
<1>2. /\ views \in Seq(ViewSet) /\ view # "Chat" /\ Base(u, deleting) /\ Len(views) \in Nat
      /\ Len(views) > 0 /\ views[Len(views)].v = "editor"
      /\ Len(u) = Len(views) - 1 /\ \A i \in 1..Len(views) - 1 : u[i] = views[i]
  BY <1>1, OnTop
<1>3. /\ drawn \in 0..Len(views) /\ LastDrawn(views, view, drawn, rooms) /\ Stacked(views)
      /\ target \in 0..RoomCount /\ deleting \in 0..RoomCount
  BY DEF ListInv, ListTypes, ScreenInv
<1>4. x \in ViewSet /\ x.v = "system"
  <2>1. "system" \in Kinds /\ 0 \in 0..RoomCount
    BY RoomsAssumption DEF Kinds
  <2> QED
    BY <2>1, ViewFacts
<1> HIDE DEF x, u
<1>5. Len(views) > 1 /\ views[Len(views) - 1].v = "system" /\ views[1].v = "rooms"
  <2>1. Len(views) \in 1..Len(views) /\ views # <<>>
    BY <1>2
  <2> QED
    BY <1>2, <1>3, <2>1 DEF Stacked
<1>6. u # <<>> /\ u[Len(u)].v = "system" /\ u[1].v = "rooms" /\ Len(u) \in Nat
  <2>1. Len(u) > 0 /\ Len(u) \in 1..Len(views) - 1 /\ 1 \in 1..Len(views) - 1
    BY <1>2, <1>5
  <2> QED
    BY <1>2, <1>5, <2>1
<1>7. u[1] # u[Len(u)]
  BY <1>6
<1>8. /\ Base(w, deleting) /\ Len(w) = Len(u)
      /\ \A i \in 1..Len(w) - 1 : w[i] = u[i]
  BY <1>2, <1>4, <1>6, <1>7, ReplaceBase
<1> HIDE DEF w
<1>9. drawn # 0 /\ drawn <= Len(w) => w[drawn] = views[drawn]
  <2> SUFFICES ASSUME drawn # 0, drawn <= Len(w) PROVE w[drawn] = views[drawn]
    OBVIOUS
  <2>1. drawn # Len(views) - 1
    BY <1>3, <1>5 DEF LastDrawn
  <2>2. drawn \in 1..Len(w) - 1 /\ drawn \in 1..Len(views) - 1
    BY <1>2, <1>3, <1>8, <2>1
  <2> QED
    BY <1>2, <1>8, <2>2
<1> QED
  BY <1>1, <1>2, <1>3, <1>8, <1>9, ShownList, Zenon DEF SameRooms

\* Nothing of the account or of ROOMS changes: it stays the account's.
LEMMA SameTracked ==
    ASSUME ListInv, UNCHANGED <<members, news, batch, rooms, hidden, dropped>>
    PROVE  Tracked /\ members' \in [1..RoomCount -> Memberships]
<1>1. /\ members' = members /\ news' = news /\ batch' = batch /\ rooms' = rooms
      /\ hidden' = hidden /\ dropped' = dropped
  OBVIOUS
<1> QED
  BY <1>1, Zenon DEF Tracked, ListInv, ListTypes

\* Back from the chat to the list, which is drawn again.
LEMMA ListLeaveChat == ASSUME ListInv, MR!LeaveChat PROVE ListInv'
<1>1. /\ MR!Top = "chat" /\ open' = 0 /\ MR!RenderRooms(MR!Under)
      /\ UNCHANGED <<members, news, batch, rooms, hidden, dropped>>
      /\ target' = target /\ deleting' = deleting
  BY DEF MR!LeaveChat, MR!serverv, MR!lapses
<1>2. Base(MR!Under, deleting')
  BY <1>1, OnTop
<1>3. target' \in 0..RoomCount /\ deleting' \in 0..RoomCount
  BY <1>1 DEF ListInv, ListTypes
<1> QED
  BY <1>1, <1>2, <1>3, SameTracked, RenderedList, Zenon

\* r is joined and added to ROOMS, where the other rooms stay.
LEMMA ListJoined ==
    \A r, rs, s :
        /\ ListInv /\ view # "Chat" /\ r \in 1..RoomCount /\ rs \in Seq(RoomSet)
        /\ \A q \in 1..RoomCount : q # r =>
              /\ q \in MR!Listed(rs) <=> q \in MR!Listed(rooms)
              /\ \A x \in RoomSet : Holds(rs, x) /\ x.id = q => Holds(rooms, x)
        /\ MR!Joins(r, rs) /\ MR!RenderRooms(s) /\ Base(s, deleting)
        => ListInv'
<1> TAKE r, rs, s
<1> HAVE /\ ListInv /\ view # "Chat" /\ r \in 1..RoomCount /\ rs \in Seq(RoomSet)
         /\ \A q \in 1..RoomCount : q # r =>
               /\ q \in MR!Listed(rs) <=> q \in MR!Listed(rooms)
               /\ \A x \in RoomSet : Holds(rs, x) /\ x.id = q => Holds(rooms, x)
         /\ MR!Joins(r, rs) /\ MR!RenderRooms(s) /\ Base(s, deleting)
<1>1. /\ members' = [members EXCEPT ![r] = "joined"]
      /\ target' = target /\ deleting' = deleting
      /\ MR!SyncNow(TRUE, rs, members', news \cup {r})
  BY DEF MR!Joins
<1>2. /\ members \in [1..RoomCount -> Memberships] /\ news \subseteq 1..RoomCount
      /\ target \in 0..RoomCount /\ deleting \in 0..RoomCount
  BY DEF ListInv, ListTypes
<1>3. /\ members' \in [1..RoomCount -> Memberships] /\ news \cup {r} \subseteq 1..RoomCount
      /\ \A q \in 1..RoomCount : q # r => members'[q] = members[q]
  BY <1>1, <1>2 DEF Memberships
<1>4. ASSUME batch = "fresh" PROVE Accounts(rs, members', news \cup {r}, hidden, dropped)
  <2>1. Accounts(rooms, members, news, hidden, dropped)
    BY <1>4 DEF ListInv
  <2>2. \A q \in 1..RoomCount \ ((news \cup {r}) \cup hidden \cup dropped) :
            q \in 1..RoomCount /\ q # r /\ q \notin news \cup hidden \cup dropped
    OBVIOUS
  <2>3. \A q \in 1..RoomCount \ ((news \cup {r}) \cup hidden \cup dropped) :
            /\ q \notin news \cup hidden \cup dropped /\ members'[q] = members[q]
            /\ q \in MR!Listed(rs) <=> q \in MR!Listed(rooms)
            /\ \A x \in RoomSet : Holds(rs, x) /\ x.id = q => Holds(rooms, x)
    BY <1>3, <2>2, Zenon
  <2> QED
    BY <2>1, <2>3, AccountsElsewhere, Zenon
<1>5. Synced(rs)
  BY <1>1, <1>3, <1>4, SyncKeepsList, Zenon
<1>6. open' = 0
  BY <1>5, Zenon DEF Synced, ListInv, OpenInChat
<1> QED
  BY <1>1, <1>2, <1>3, <1>5, <1>6, RenderedList, Zenon DEF Synced

\* Nothing but the screen changes.
LEMMA ListRedrawn ==
    \A s : /\ ListInv /\ view # "Chat" /\ MR!Keeps /\ MR!RenderRooms(s) /\ Base(s, deleting)
           => ListInv'
<1> TAKE s
<1> HAVE ListInv /\ view # "Chat" /\ MR!Keeps /\ MR!RenderRooms(s) /\ Base(s, deleting)
<1>1. /\ UNCHANGED <<members, news, batch, rooms, hidden, dropped>>
      /\ target' = target /\ deleting' = deleting /\ open' = open
  BY DEF MR!Keeps, MR!serverv, MR!ids, MR!lapses
<1>2. target' \in 0..RoomCount /\ deleting' \in 0..RoomCount
  BY <1>1 DEF ListInv, ListTypes
<1>3. open' = 0
  BY <1>1 DEF ListInv, OpenInChat
<1> QED
  BY <1>1, <1>2, <1>3, SameTracked, RenderedList, Zenon

\* accept_invite and the two ways to it.
LEMMA ListAccept ==
    ASSUME ListInv, MR!Top \in {"invite", "menuinv"},
           MR!Accept \/ (MR!Keeps /\ MR!RenderRooms(MR!Under))
    PROVE  ListInv'
<1>1. view # "Chat" /\ Base(MR!Under, deleting)
  BY OnTop
<1>2. rooms \in Seq(RoomSet) /\ target \in 0..RoomCount
  BY DEF ListInv, ListTypes
<1>3. CASE MR!Keeps /\ MR!RenderRooms(MR!Under)
  BY <1>1, <1>3, ListRedrawn, Zenon
<1>4. CASE MR!Accept /\ ~(MR!Keeps /\ MR!RenderRooms(MR!Under))
  <2> DEFINE rs == [n \in DOMAIN rooms |->
                      IF rooms[n].id = target THEN MR!Room(target, FALSE) ELSE rooms[n]]
  <2>1. target # 0 /\ MR!Joins(target, rs) /\ MR!RenderRooms(MR!Under)
    BY <1>4 DEF MR!Accept
  <2>2. target \in 1..RoomCount /\ MR!Room(target, FALSE) \in RoomSet
        /\ MR!Room(target, FALSE).id = target
    BY <1>2, <2>1 DEF MR!Room, RoomSet
  <2>3. /\ DOMAIN rooms = 1..Len(rooms) /\ Len(rooms) \in Nat
        /\ \A n \in 1..Len(rooms) : rooms[n] \in RoomSet
    BY <1>2
  <2>4. /\ rs \in [1..Len(rooms) -> RoomSet]
        /\ \A n \in 1..Len(rooms) :
              rs[n] = IF rooms[n].id = target THEN MR!Room(target, FALSE) ELSE rooms[n]
    BY <2>2, <2>3
  <2> HIDE DEF rs
  <2>5. rs \in Seq(RoomSet) /\ Len(rs) = Len(rooms)
    BY <2>3, <2>4
  <2>6. \A n \in 1..Len(rooms) : rs[n].id = rooms[n].id
    BY <2>2, <2>4
  <2>7. \A q : q \in MR!Listed(rs) <=> q \in MR!Listed(rooms)
    <3> TAKE q
    <3>1. q \in MR!Listed(rs) <=> \E n \in 1..Len(rs) : rs[n].id = q
      BY <2>5, ListedHolds
    <3>2. q \in MR!Listed(rooms) <=> \E n \in 1..Len(rooms) : rooms[n].id = q
      BY <1>2, ListedHolds
    <3> QED
      BY <2>5, <2>6, <3>1, <3>2
  <2>8. \A x \in RoomSet : Holds(rs, x) /\ x.id # target => Holds(rooms, x)
    BY <2>4, <2>5, <2>6 DEF Holds
  <2> QED
    BY <1>1, <2>1, <2>2, <2>5, <2>7, <2>8, ListJoined, Zenon
<1> QED
  BY <1>3, <1>4

\* The invitation is sent, or the room is joined.
LEMMA ListInvites == ASSUME ListInv, MR!InviteDone \/ MR!Accepts PROVE ListInv'
<1>1. MR!Top \in {"invite", "menuinv"}
  BY DEF MR!InviteDone, MR!Accepts
<1>2. MR!Accept \/ (MR!Keeps /\ MR!RenderRooms(MR!Under))
  BY Zenon DEF MR!InviteDone, MR!Accepts
<1> QED
  BY <1>1, <1>2, ListAccept, Zenon

\* new_room and create_room.
LEMMA ListInputDone ==
    ASSUME ListInv, NEW r \in 1..RoomCount, MR!InputDone(r)
    PROVE  ListInv'
<1>1. /\ MR!Top = "input" /\ MR!RenderRooms(MR!Under)
      /\ \/ MR!Joins(r, IF r \in MR!Listed(rooms) THEN rooms
                        ELSE Append(rooms, MR!Room(r, FALSE)))
         \/ MR!Keeps
  BY DEF MR!InputDone
<1>2. view # "Chat" /\ Base(MR!Under, deleting)
  BY <1>1, OnTop
<1>3. rooms \in Seq(RoomSet)
  BY DEF ListInv, ListTypes
<1>4. CASE MR!Keeps
  BY <1>1, <1>2, <1>4, ListRedrawn, Zenon
<1>5. CASE r \in MR!Listed(rooms) /\ ~MR!Keeps
  <2>1. MR!Joins(r, rooms)
    BY <1>1, <1>5
  <2> QED
    BY <1>1, <1>2, <1>3, <2>1, ListJoined, Zenon
<1>6. CASE r \notin MR!Listed(rooms) /\ ~MR!Keeps
  <2> DEFINE y  == MR!Room(r, FALSE)
             rs == Append(rooms, y)
  <2>1. MR!Joins(r, rs)
    BY <1>1, <1>6
  <2>2. y \in RoomSet /\ y.id = r
    BY DEF MR!Room, RoomSet
  <2> HIDE DEF y
  <2>3. /\ rs \in Seq(RoomSet) /\ Len(rooms) \in Nat /\ Len(rs) = Len(rooms) + 1
        /\ rs[Len(rooms) + 1] = y /\ \A n \in 1..Len(rooms) : rs[n] = rooms[n]
    BY <1>3, <2>2, PushedFacts
  <2> HIDE DEF rs
  <2>4. \A n \in 1..Len(rs) : n \in 1..Len(rooms) \/ n = Len(rooms) + 1
    BY <2>3
  <2>5. \A n \in 1..Len(rooms) : n \in 1..Len(rs)
    BY <2>3
  <2>6. \A x \in RoomSet : x.id # r => (Holds(rs, x) <=> Holds(rooms, x))
    BY <2>2, <2>3, <2>4, <2>5 DEF Holds
  <2>7. \A q : q # r => (q \in MR!Listed(rs) <=> q \in MR!Listed(rooms))
    <3> TAKE q
    <3>1. q \in MR!Listed(rs) <=> \E x \in RoomSet : Holds(rs, x) /\ x.id = q
      BY <2>3, ListedHolds
    <3>2. q \in MR!Listed(rooms) <=> \E x \in RoomSet : Holds(rooms, x) /\ x.id = q
      BY <1>3, ListedHolds
    <3> QED
      BY <2>6, <3>1, <3>2, Zenon
  <2> QED
    BY <1>1, <1>2, <2>1, <2>3, <2>6, <2>7, ListJoined, Zenon
<1> QED
  BY <1>1, <1>4, <1>5, <1>6

\* ROOMS forgets r, whether it could be left or not.
LEMMA LeftTracked ==
    \A r : ListInv /\ r \in 1..RoomCount /\ MR!Leaves(r)
           => /\ Tracked /\ members' \in [1..RoomCount -> Memberships]
              /\ target' = target /\ open' = open
<1> TAKE r
<1> HAVE ListInv /\ r \in 1..RoomCount /\ MR!Leaves(r)
<1>1. /\ rooms' = MR!Sift(rooms, {n \in DOMAIN rooms : rooms[n].id # r})
      /\ \/ members' = [members EXCEPT ![r] = "none"] /\ news' = news \cup {r} /\ dropped' = dropped
         \/ dropped' = dropped \cup {r} /\ members' = members /\ news' = news
      /\ hidden' = hidden \ {r} /\ batch' = batch /\ target' = target /\ open' = open
  BY DEF MR!Leaves
<1>2. /\ rooms \in Seq(RoomSet) /\ members \in [1..RoomCount -> Memberships]
      /\ news \subseteq 1..RoomCount
  BY DEF ListInv, ListTypes
<1>3. rooms' \in Seq(RoomSet) /\ \A x : Holds(rooms', x) <=> Holds(rooms, x) /\ x.id # r
  <2> DEFINE keep == {n \in DOMAIN rooms : rooms[n].id # r}
  <2>1. rooms' = MR!Sift(rooms, keep)
    BY <1>1
  <2>2. \A k \in 1..Len(rooms) : k \in keep <=> rooms[k].id # r
    BY <1>2
  <2> HIDE DEF keep
  <2>3. \A x : /\ rooms' \in Seq(RoomSet)
               /\ Holds(rooms', x) <=> Kept(rooms, keep, x)
    BY <1>2, <2>1, SiftHolds
  <2>4. \A x : Kept(rooms, keep, x) <=> Holds(rooms, x) /\ x.id # r
    BY <2>2 DEF Holds, Kept
  <2> QED
    BY <2>3, <2>4, Zenon
<1>4. /\ members' \in [1..RoomCount -> Memberships] /\ news' \subseteq 1..RoomCount
      /\ \A q \in 1..RoomCount : q # r => members'[q] = members[q]
  BY <1>1, <1>2 DEF Memberships
<1>5. \A q : q # r => (q \in MR!Listed(rooms') <=> q \in MR!Listed(rooms))
  <2> TAKE q
  <2>1. q \in MR!Listed(rooms') <=> \E x \in RoomSet : Holds(rooms', x) /\ x.id = q
    BY <1>3, ListedHolds
  <2>2. q \in MR!Listed(rooms) <=> \E x \in RoomSet : Holds(rooms, x) /\ x.id = q
    BY <1>2, ListedHolds
  <2> QED
    BY <1>3, <2>1, <2>2, Zenon
<1>6. ASSUME batch = "fresh" PROVE Accounts(rooms', members', news', hidden', dropped')
  <2>1. Accounts(rooms, members, news, hidden, dropped)
    BY <1>6 DEF ListInv
  <2>2. \A q \in 1..RoomCount \ (news' \cup hidden' \cup dropped') :
            q \in 1..RoomCount /\ q # r /\ q \notin news \cup hidden \cup dropped
    BY <1>1
  <2>3. \A q \in 1..RoomCount \ (news' \cup hidden' \cup dropped') :
            /\ q \notin news \cup hidden \cup dropped /\ members'[q] = members[q]
            /\ q \in MR!Listed(rooms') <=> q \in MR!Listed(rooms)
            /\ \A x \in RoomSet : Holds(rooms', x) /\ x.id = q => Holds(rooms, x)
    BY <1>3, <1>4, <1>5, <2>2, Zenon
  <2> QED
    BY <2>1, <2>3, AccountsElsewhere, Zenon
<1> QED
  BY <1>1, <1>3, <1>4, <1>6, Zenon DEF Tracked

\* An invitation is declined: the room leaves ROOMS and the list is drawn.
LEMMA ListReject == ASSUME ListInv, MR!Reject PROVE ListInv'
<1>1. /\ MR!Top = "menuinv" /\ target # 0 /\ MR!Leaves(target) /\ deleting' = deleting
      /\ MR!RenderRooms(MR!Under)
  BY DEF MR!Reject
<1>2. open = 0 /\ Base(MR!Under, deleting)
  BY <1>1, OnTop
<1>3. target \in 1..RoomCount /\ target \in 0..RoomCount /\ deleting \in 0..RoomCount
  BY <1>1, RoomsAssumption DEF ListInv, ListTypes
<1>4. Tracked /\ members' \in [1..RoomCount -> Memberships] /\ target' = target /\ open' = open
  BY <1>1, <1>3, LeftTracked, Zenon
<1> QED
  BY <1>1, <1>2, <1>3, <1>4, RenderedList, Zenon

\* delete_confirmed, or the dialog is declined.
LEMMA ListDeleteDone == ASSUME ListInv, NEW yes, MR!DeleteDone(yes) PROVE ListInv'
<1>1. /\ MR!Top = "delete" /\ deleting' = 0 /\ MR!RenderRooms(MR!Under)
      /\ IF yes /\ deleting # 0 THEN MR!Leaves(deleting)
         ELSE UNCHANGED <<MR!serverv, signedIn, batch, rooms, target, open, MR!lapses>>
  BY DEF MR!DeleteDone, MR!DeleteTarget
<1>2. open = 0 /\ Base(MR!Under, 0)
  BY <1>1, OnTop
<1>3. target \in 0..RoomCount /\ 0 \in 0..RoomCount /\ (deleting # 0 => deleting \in 1..RoomCount)
  BY RoomsAssumption DEF ListInv, ListTypes
<1>4. Tracked /\ members' \in [1..RoomCount -> Memberships] /\ target' = target /\ open' = open
  <2>1. CASE yes /\ deleting # 0
    <3>1. MR!Leaves(deleting) /\ deleting \in 1..RoomCount
      BY <1>1, <1>3, <2>1
    <3> QED
      BY <3>1, LeftTracked, Zenon
  <2>2. CASE ~(yes /\ deleting # 0)
    <3>1. UNCHANGED <<MR!serverv, signedIn, batch, rooms, target, open, MR!lapses>>
      BY <1>1, <2>2
    <3>2. /\ UNCHANGED <<members, news, batch, rooms, hidden, dropped>>
          /\ target' = target /\ open' = open
      BY <3>1 DEF MR!serverv, MR!lapses
    <3> QED
      BY <3>2, SameTracked
  <2> QED
    BY <2>1, <2>2
<1> QED
  BY <1>1, <1>2, <1>3, <1>4, RenderedList, Zenon

\* The module is reset: no token stands for ROOMS.
LEMMA ListResetDone == ASSUME ListInv, MR!ResetDone PROVE ListInv'
<1>1. /\ MR!Top = "reset" /\ batch' = "none" /\ rooms' = <<>>
      /\ members' = members /\ news' = news
      /\ target' = target /\ deleting' = deleting /\ open' = open
      /\ MR!RenderRooms(<<views[1]>>)
  BY DEF MR!ResetDone, MR!serverv, MR!ids
<1>2. open = 0 /\ views \in Seq(ViewSet) /\ views # <<>>
  BY <1>1, OnTop
<1>3. views[1] \in ViewSet /\ views[1].v = "rooms"
  BY <1>2 DEF ListInv, ScreenInv, Stacked
<1>4. Base(<<views[1]>>, deleting')
  BY <1>3, FirstBase
<1>5. /\ target' \in 0..RoomCount /\ deleting' \in 0..RoomCount
      /\ members' \in [1..RoomCount -> Memberships]
  BY <1>1 DEF ListInv, ListTypes
<1>6. Tracked
  <2>1. rooms' \in Seq(RoomSet) /\ batch' # "fresh" /\ news' \subseteq 1..RoomCount
    BY <1>1 DEF ListInv, ListTypes
  <2> QED
    BY <2>1 DEF Tracked
<1> QED
  BY <1>1, <1>2, <1>4, <1>5, <1>6, RenderedList, Zenon

\* Every action keeps the invariant.
LEMMA ListStep == ListInv /\ MR!Next => ListInv'
<1> SUFFICES ASSUME ListInv, MR!Next PROVE ListInv'
  OBVIOUS
<1>1. CASE \E r \in MR!Ids, m \in {"none", "invited", "joined"} : MR!Elsewhere(r, m)
  BY <1>1, ListElsewhere DEF MR!Ids, Memberships
<1>2. CASE MR!Enter \/ MR!Exit \/ MR!SyncKey \/ MR!Back \/ MR!LeaveChat
  BY <1>2, ListEnter, ListExit, ListSyncKey, ListBack, ListLeaveChat
<1>3. CASE \E chatty \in SUBSET {r \in MR!Ids : members[r] = "joined"} : MR!Poll(chatty)
  BY <1>3, ListPoll
<1>4. CASE \E p \in 1..RoomCount : MR!Select(p)
  BY <1>4, ListSelect
<1>5. CASE \E i \in 0..RoomCount : MR!RoomMenu(i)
  BY <1>5, ListRoomMenu
<1>6. CASE MR!InviteDone \/ MR!Accepts \/ MR!Reject \/ MR!Input \/ MR!Delete \/ MR!System
  BY <1>6, ListInvites, ListReject, ListPick
<1>7. CASE \E r \in MR!Ids : MR!InputDone(r)
  BY <1>7, ListInputDone DEF MR!Ids
<1>8. CASE \E yes \in BOOLEAN : MR!DeleteDone(yes)
  BY <1>8, ListDeleteDone
<1>9. CASE MR!Edit \/ MR!EditDone \/ MR!AskReset \/ MR!Login \/ MR!ResetDone \/ MR!ResetDeclined
  BY <1>9, ListSystem, ListEditDone, ListLogin, ListResetDone, ListBack
<1> QED
  BY <1>1, <1>2, <1>3, <1>4, <1>5, <1>6, <1>7, <1>8, <1>9 DEF MR!Next

\* The room list on the screen, the dialogs over it and the room they act on are
\* the account's, in every behaviour of the application.
THEOREM ListIsTheAccounts == AppSpec => []ListTrue
<1>1. AppInit => ListInv
  BY ListInitial DEF AppInit
<1>2. ListInv /\ [AppNext]_appVars => ListInv'
  <2> SUFFICES ASSUME ListInv, [AppNext]_appVars PROVE ListInv'
    OBVIOUS
  <2>1. CASE MR!Next
    BY <2>1, ListStep
  <2>2. CASE UNCHANGED mr
    <3>1. /\ members' = members /\ news' = news /\ batch' = batch /\ rooms' = rooms
          /\ target' = target /\ deleting' = deleting /\ open' = open /\ view' = view
          /\ views' = views /\ drawn' = drawn /\ hidden' = hidden /\ dropped' = dropped
      BY <2>2 DEF mr
    <3> QED
      BY <3>1, Zenon DEF ListInv, ListTypes, OpenInChat
  <2>3. MR!Next \/ UNCHANGED mr
    BY Zenon DEF AppNext, appVars
  <2> QED
    BY <2>1, <2>2, <2>3
<1>3. ListInv => ListTrue
  BY ListIsTrue DEF ListTrue
<1> QED
  BY <1>1, <1>2, <1>3, PTL DEF AppSpec
=============================================================================
