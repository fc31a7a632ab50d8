--------------------------- MODULE RoomKeysProofs ---------------------------
(***************************************************************************)
(* Proofs about RoomKeys, for any number of users, any chunk size and any  *)
(* bounds: its types, that a departed member is locked out of the live     *)
(* session, that a message is read by those it was addressed to and by     *)
(* nobody else, and that, in a quiet world, every member has the key.      *)
(***************************************************************************)
EXTENDS RoomKeys, SequenceTheorems, TLAPS

(* The inductive invariant, part by part.                                  *)

\* An outbound session lives in CRYPTO and was created this boot.
OutLives ==
    out = NoOut \/ (out.sid \in 1..sessions /\ crypto # "none")

\* A handler that blocks belongs to a plugin that has been entered; the room
\* it sends to is still there.
PhaseFits ==
    /\ ~active => phase = "idle" /\ crypto = "none" /\ ~room
    /\ phase = "members" => out # NoOut /\ room

\* Every key and every message is of a session created this boot.
SidsBound ==
    /\ \A k \in Keyed : k.sid <= sessions
    /\ \A m \in log : m.sid <= sessions

\* A last event since the token agrees with the membership.
PendingFits ==
    \A u \in Users :
        /\ pending[u] = "join" => u \in srv
        /\ pending[u] = "leave" => u \notin srv

\* What holds in every world.
StateInv ==
    /\ TypeOK
    /\ OutLives
    /\ PhaseFits
    /\ SidsBound
    /\ PendingFits
    /\ ~room => members = {}

\* A listed member who is gone is about to be reported as such.
MembersKnown ==
    \A u \in members : u \notin srv => pending[u] = "leave"

\* While the room and its session live, whoever has the key is listed, and
\* so is every recipient of a message of the session.
Listed ==
    room =>
        /\ \A k \in Keyed : k.sid = out.sid => k.user \in members
        /\ \A m \in log : m.sid = out.sid => m.to \subseteq members

\* The chain has moved past the messages sent and not behind the keys.
ChainAhead ==
    /\ \A m \in log : m.sid = out.sid => m.idx < out.idx
    /\ \A k \in Keyed : k.sid = out.sid => k.idx <= out.idx

\* The key of a session whose recipients are being fetched is nowhere yet.
Unsent ==
    phase = "members" => \A k \in Keyed : k.sid # out.sid

\* Of those with a key of its session, a message's recipients and no others
\* can read it.
ReadersAreRecipients ==
    \A m \in log : \A k \in Keyed :
        k.sid = m.sid => (k.idx <= m.idx <=> k.user \in m.to)

\* What holds as long as no full sync skips a leave.
SafeInv ==
    /\ MembersKnown
    /\ DepartedLockedOut
    /\ Listed
    /\ ChainAhead
    /\ Unsent
    /\ ReadersAreRecipients

\* A recipient of the live key has an Olm session or a claimed key for one.
Reachable ==
    out # NoOut =>
        \A i \in DOMAIN dist :
            dist[i].sid = out.sid => dist[i].todo \subseteq olm \cup dist[i].otk

\* Once its recipients are fetched, the live key is with, or queued for, every
\* member that is listed or was there at the last sync.
MembersKeyed ==
    (out # NoOut /\ phase # "members" /\ room) =>
        \A u \in srv : pending[u] = "none" \/ u \in members =>
            \E k \in Keyed : k.user = u /\ k.sid = out.sid

\* The induction: the last part for the world in which nothing goes wrong.
IInv ==
    /\ StateInv
    /\ ~FullSyncs => SafeInv
    /\ world = {} => Reachable /\ MembersKeyed

-----------------------------------------------------------------------------
(* What the helpers do to the types and to the keys.                       *)

\* The key a user has or gets.
KeyOf(u, sid, idx) == [user |-> u, sid |-> sid, idx |-> idx]

\* The recipients a job still has.
Waiting(pd) == pd.todo \cup pd.msgs

\* A key is held, or a job of the queue has it for a recipient.
LEMMA KeyedMember ==
    ASSUME NEW k
    PROVE  k \in Keyed <=>
              \/ k \in held
              \/ \E i \in DOMAIN dist : \E u \in Waiting(dist[i]) :
                    k = KeyOf(u, dist[i].sid, dist[i].idx)
BY DEF Keyed, Waiting, KeyOf

\* The same of the next state.
LEMMA KeyedMemberNext ==
    ASSUME NEW k
    PROVE  k \in Keyed' <=>
              \/ k \in held'
              \/ \E i \in DOMAIN dist' : \E u \in Waiting(dist'[i]) :
                    k = KeyOf(u, dist'[i].sid, dist'[i].idx)
BY DEF Keyed, Waiting, KeyOf

\* Keys are keys.
LEMMA KeyedType ==
    ASSUME TypeOK
    PROVE  Keyed \subseteq Key
<1> SUFFICES ASSUME NEW k \in Keyed PROVE k \in Key
    OBVIOUS
<1>1. CASE k \in held
    BY <1>1 DEF TypeOK, KeysType
<1>2. CASE k \notin held
  <2>1. PICK i \in DOMAIN dist : \E u \in Waiting(dist[i]) :
                    k = KeyOf(u, dist[i].sid, dist[i].idx)
      BY <1>2, KeyedMember
  <2>2. dist[i] \in Job
      BY <2>1 DEF TypeOK, KeysType
  <2> QED
      BY <2>1, <2>2 DEF Waiting, KeyOf, Job, Key
<1> QED
    BY <1>1, <1>2

\* The key of a session is queued for some of the users named, and no key is lost.
KeyQueued(who, sid, idx) ==
    /\ dist' \in Seq(Job)
    /\ Keyed \subseteq Keyed'
    /\ \A k \in Keyed' : k \in Keyed \/ \E u \in who : k = KeyOf(u, sid, idx)

\* Queueing a key adds it for some of the users named, and loses none.
LEMMA EnqueueFacts ==
    ASSUME TypeOK, held' = held,
           NEW who \in SUBSET Users, NEW have \in SUBSET Users,
           NEW sid \in 1..MaxSessions, NEW idx \in Nat,
           Enqueue(who, sid, idx, have)
    PROVE  KeyQueued(who, sid, idx)
<1> SUFFICES /\ dist' \in Seq(Job)
             /\ Keyed \subseteq Keyed'
             /\ \A k \in Keyed' : k \in Keyed \/ \E u \in who : k = KeyOf(u, sid, idx)
    BY Zenon DEF KeyQueued
<1>1. PICK answered \in Replies, claimed \in Outcomes(who \ have) :
        LET targets == IF answered THEN (who \cap have) \cup claimed ELSE {}
        IN  dist' = IF targets = {} THEN dist
                    ELSE Append(dist,
                           [sid |-> sid, idx |-> idx, todo |-> targets,
                            otk |-> targets \ have, msgs |-> {},
                            retries |-> 0])
    BY DEF Enqueue
<1> DEFINE targets == IF answered THEN (who \cap have) \cup claimed ELSE {}
           pd == [sid |-> sid, idx |-> idx, todo |-> targets,
                  otk |-> targets \ have, msgs |-> {}, retries |-> 0]
<1>2. targets \subseteq who
    BY <1>1 DEF Outcomes
<1>3. pd \in Job
    BY <1>2, ChunkAssumption DEF Job
<1>4. dist \in Seq(Job)
    BY DEF TypeOK, KeysType
<1>5. dist' = dist \/ dist' = Append(dist, pd)
    BY <1>1
<1>6. CASE dist' = dist
    BY <1>6, <1>4, KeyedMember, KeyedMemberNext
<1>7. CASE dist' = Append(dist, pd)
  <2> HIDE DEF pd
  <2>1. dist' \in Seq(Job)
      BY <1>7, <1>3, <1>4
  <2>2. /\ DOMAIN dist' = 1..(Len(dist) + 1)
        /\ DOMAIN dist = 1..Len(dist) /\ Len(dist) \in Nat
        /\ \A i \in DOMAIN dist : dist'[i] = dist[i]
        /\ dist'[Len(dist) + 1] = pd
      BY <1>7, <1>3, <1>4
  <2>3. Keyed \subseteq Keyed'
    <3> SUFFICES ASSUME NEW k \in Keyed PROVE k \in Keyed'
        OBVIOUS
    <3>1. CASE k \in held
        BY <3>1, KeyedMemberNext
    <3>2. CASE \E i \in DOMAIN dist : \E u \in Waiting(dist[i]) :
                   k = KeyOf(u, dist[i].sid, dist[i].idx)
      <4>1. PICK i \in DOMAIN dist : \E u \in Waiting(dist[i]) :
                k = KeyOf(u, dist[i].sid, dist[i].idx)
          BY <3>2
      <4>2. i \in DOMAIN dist' /\ dist'[i] = dist[i]
          BY <2>2
      <4> QED
          BY <4>1, <4>2, KeyedMemberNext
    <3> QED
        BY <3>1, <3>2, KeyedMember
  <2>4. ASSUME NEW k \in Keyed', k \notin Keyed
        PROVE  \E u \in who : k = KeyOf(u, sid, idx)
    <3>1. PICK i \in DOMAIN dist' : \E u \in Waiting(dist'[i]) :
                    k = KeyOf(u, dist'[i].sid, dist'[i].idx)
        BY <2>4, KeyedMember, KeyedMemberNext
    <3>2. i \notin DOMAIN dist
        BY <3>1, <2>2, <2>4, KeyedMember
    <3>3. i = Len(dist) + 1
        BY <3>2, <2>2
    <3>4. pd.sid = sid /\ pd.idx = idx /\ Waiting(pd) = targets
        BY DEF pd, Waiting
    <3> QED
        BY <3>1, <3>4, <3>3, <2>2, <1>2
  <2> QED
      BY <2>1, <2>3, <2>4
<1> QED
    BY <1>5, <1>6, <1>7

\* What merging a sync's membership does, in terms of the keys.
LEMMA MergeFacts ==
    ASSUME TypeOK, OutLives, held' = held,
           NEW joins \in SUBSET Users, NEW leaves \in SUBSET Users,
           NEW have \in SUBSET Users,
           Merge(joins, leaves, have)
    PROVE  /\ room' = TRUE
           /\ members' = (members \cup joins) \ leaves
           /\ dist' \in Seq(Job)
           /\ Keyed \subseteq Keyed'
           /\ leaves # {} => out' = NoOut
           /\ leaves = {} => out' = out
           /\ \A k \in Keyed' :
                \/ k \in Keyed
                \/ /\ out # NoOut /\ leaves = {}
                   /\ \E u \in joins \ members : k = KeyOf(u, out.sid, out.idx)
<1>1. /\ room' = TRUE
      /\ members' = (members \cup joins) \ leaves
      /\ leaves # {} => out' = NoOut
      /\ leaves = {} => out' = out
    BY DEF Merge, OutLives
<1>2. CASE dist' = dist
  <2>1. dist' \in Seq(Job) /\ Keyed' = Keyed
      BY <1>2 DEF TypeOK, KeysType, Keyed
  <2> QED
      BY <1>1, <2>1
<1>3. CASE dist' # dist
  <2>1. /\ crypto # "none" /\ leaves = {} /\ out # NoOut
        /\ Enqueue(joins \ members, out.sid, ShareIndex, have)
      BY <1>3 DEF Merge, OutLives
  <2>2. out.sid \in 1..MaxSessions /\ out.idx \in Nat
      BY <2>1 DEF OutLives, TypeOK, RamType, KeysType
  <2>3. joins \ members \in SUBSET Users
      OBVIOUS
  <2>4. Enqueue(joins \ members, out.sid, out.idx, have)
      BY <2>1 DEF ShareIndex
  <2> DEFINE who == joins \ members
             sid == out.sid
             idx == out.idx
  <2>5. who \in SUBSET Users /\ sid \in 1..MaxSessions /\ idx \in Nat
      BY <2>2, <2>3
  <2>6. Enqueue(who, sid, idx, have)
      BY <2>4
  <2> HIDE DEF who, sid, idx
  <2>7. KeyQueued(who, sid, idx)
      BY <2>5, <2>6, EnqueueFacts
  <2>8. /\ dist' \in Seq(Job)
        /\ Keyed \subseteq Keyed'
        /\ \A k \in Keyed' : k \in Keyed \/
             \E u \in joins \ members : k = KeyOf(u, out.sid, out.idx)
      BY Zenon, <2>7 DEF KeyQueued, who, sid, idx
  <2> QED
      BY <1>1, <2>1, <2>8
<1> QED
    BY <1>2, <1>3

\* Putting the front job forward, or dropping it, adds no key.
LEMMA AdvanceFacts ==
    ASSUME TypeOK, dist # <<>>,
           NEW q \in Job, q.sid = Head(dist).sid, q.idx = Head(dist).idx,
           Waiting(q) \subseteq Waiting(Head(dist)),
           dist' = Tail(dist) \/ dist' = <<q>> \o Tail(dist),
           NEW to \in SUBSET Waiting(Head(dist)),
           held' = held \cup {KeyOf(u, Head(dist).sid, Head(dist).idx) : u \in to}
    PROVE  /\ dist' \in Seq(Job)
           /\ held' \subseteq Key
           /\ Keyed' \subseteq Keyed
<1>1. /\ dist \in Seq(Job) /\ Len(dist) \in Nat \ {0} /\ DOMAIN dist = 1..Len(dist)
      /\ Head(dist) = dist[1] /\ Head(dist) \in Job
      /\ Tail(dist) \in Seq(Job) /\ Len(Tail(dist)) = Len(dist) - 1
      /\ \A i \in 1..(Len(dist) - 1) : Tail(dist)[i] = dist[i + 1]
    BY HeadTailProperties, EmptySeq, LenProperties DEF TypeOK, KeysType
<1>2. <<q>> \in Seq(Job) /\ Len(<<q>>) = 1 /\ <<q>>[1] = q
    OBVIOUS
<1>3. /\ dist' \in Seq(Job)
      /\ DOMAIN dist' = 1..Len(dist')
      /\ \A i \in DOMAIN dist' : dist'[i] = q \/ \E j \in DOMAIN dist : dist'[i] = dist[j]
  <2>1. CASE dist' = Tail(dist)
      BY <2>1, <1>1, LenProperties
  <2>2. CASE dist' = <<q>> \o Tail(dist)
    <3>1. /\ dist' \in Seq(Job) /\ Len(dist') = Len(dist)
          /\ \A i \in 1..Len(dist) : dist'[i] = IF i <= 1 THEN q ELSE Tail(dist)[i - 1]
        BY <2>2, <1>1, <1>2, ConcatProperties
    <3>2. ASSUME NEW i \in 1..Len(dist), i > 1
          PROVE  dist'[i] = dist[i]
        BY <3>1, <3>2, <1>1
    <3> QED
        BY <3>1, <3>2, <1>1, LenProperties
  <2> QED
      BY <2>1, <2>2
<1>4. ASSUME NEW u \in Waiting(Head(dist))
      PROVE  KeyOf(u, Head(dist).sid, Head(dist).idx) \in Keyed
  <2> DEFINE k == KeyOf(u, Head(dist).sid, Head(dist).idx)
  <2>1. 1 \in DOMAIN dist /\ u \in Waiting(dist[1]) /\ k = KeyOf(u, dist[1].sid, dist[1].idx)
      BY <1>1
  <2> HIDE DEF k
  <2>2. k \in Keyed
      BY <2>1, KeyedMember
  <2> QED
      BY <2>2 DEF k
<1>5. Keyed' \subseteq Keyed
  <2> SUFFICES ASSUME NEW k \in Keyed' PROVE k \in Keyed
      OBVIOUS
  <2>1. CASE k \in held'
      BY <2>1, <1>4, KeyedMember
  <2>2. CASE k \notin held'
    <3>1. PICK i \in DOMAIN dist' : \E u \in Waiting(dist'[i]) :
                    k = KeyOf(u, dist'[i].sid, dist'[i].idx)
        BY <2>2, KeyedMemberNext
    <3>2. CASE dist'[i] = q
        BY <3>1, <3>2, <1>4
    <3>3. CASE \E j \in DOMAIN dist : dist'[i] = dist[j]
        BY <3>1, <3>3, KeyedMember
    <3> QED
        BY <3>1, <3>2, <3>3, <1>3
  <2> QED
      BY <2>1, <2>2
<1>6. held' \subseteq Key
  <2>1. \A u \in to : u \in Users
      BY <1>1 DEF Job, Waiting
  <2> QED
      BY <2>1, <1>1 DEF TypeOK, KeysType, Key, Job, KeyOf
<1> QED
    BY <1>3, <1>5, <1>6

\* The front job after a chunk was wrapped is a job with the same key, and
\* nobody new waits for it.
LEMMA WrappedFacts ==
    ASSUME TypeOK, dist # <<>>,
           NEW chunk \in Chunks(Head(dist).todo),
           NEW est \in Establish(Head(dist), chunk)
    PROVE  LET pd == Wrapped(Head(dist), chunk, est)
           IN  /\ pd \in Job
               /\ pd.sid = Head(dist).sid /\ pd.idx = Head(dist).idx
               /\ pd.otk = Head(dist).otk
               /\ pd.todo = Head(dist).todo \ chunk
               /\ pd.msgs = Head(dist).msgs \cup (chunk \cap (olm \cup est))
               /\ Waiting(pd) \subseteq Waiting(Head(dist))
               /\ est \subseteq Users /\ chunk \subseteq Head(dist).todo
<1>1. Head(dist) \in Job
    BY HeadTailProperties DEF TypeOK, KeysType
<1>2. chunk \subseteq Head(dist).todo
    BY DEF Chunks
<1>3. est \subseteq Users
    BY <1>1, <1>2 DEF Establish, Outcomes, Job
<1> DEFINE pd == Wrapped(Head(dist), chunk, est)
<1>4. /\ pd \in Job
      /\ pd.sid = Head(dist).sid /\ pd.idx = Head(dist).idx
      /\ pd.otk = Head(dist).otk
      /\ pd.todo = Head(dist).todo \ chunk
      /\ pd.msgs = Head(dist).msgs \cup (chunk \cap (olm \cup est))
    BY <1>1, <1>2, <1>3 DEF Wrapped, Job
<1>5. Waiting(pd) \subseteq Waiting(Head(dist))
    BY <1>2, <1>4 DEF Waiting
<1> QED
    BY <1>2, <1>3, <1>4, <1>5

\* A tick's work on the queue keeps the types and adds no key.
LEMMA ProcessFacts ==
    ASSUME TypeOK, ProcessDistribution
    PROVE  /\ dist' \in Seq(Job)
           /\ held' \subseteq Key
           /\ Keyed' \subseteq Keyed
           /\ olm \subseteq olm' /\ olm' \subseteq Users
<1>1. dist # <<>>
    BY DEF ProcessDistribution
<1>2. PICK chunk \in Chunks(Head(dist).todo) :
        \E est \in Establish(Head(dist), chunk) :
            LET pd == Wrapped(Head(dist), chunk, est)
            IN  /\ olm' = olm \cup est
                /\ \/ SkipChunk(pd)
                   \/ Delivered(pd)
                   \/ NotDelivered(pd)
    BY DEF ProcessDistribution
<1>3. PICK est \in Establish(Head(dist), chunk) :
            LET pd == Wrapped(Head(dist), chunk, est)
            IN  /\ olm' = olm \cup est
                /\ \/ SkipChunk(pd)
                   \/ Delivered(pd)
                   \/ NotDelivered(pd)
    BY <1>2
<1> DEFINE pd == Wrapped(Head(dist), chunk, est)
<1>4. /\ pd \in Job
      /\ pd.sid = Head(dist).sid /\ pd.idx = Head(dist).idx
      /\ Waiting(pd) \subseteq Waiting(Head(dist))
      /\ est \subseteq Users
    BY <1>1, WrappedFacts
<1>5. olm \subseteq olm' /\ olm' \subseteq Users
    BY <1>3, <1>4 DEF TypeOK, KeysType
<1>6. SkipChunk(pd) \/ Delivered(pd) \/ NotDelivered(pd)
    BY <1>3
<1> HIDE DEF pd
<1>7. KeysOf(pd) = {KeyOf(u, Head(dist).sid, Head(dist).idx) : u \in pd.msgs}
    BY <1>4 DEF KeysOf, KeyOf
<1>8. pd.msgs \subseteq Waiting(Head(dist))
    BY <1>4 DEF Waiting
<1>9. held' = held \/ held' = held \cup KeysOf(pd)
    BY <1>6 DEF SkipChunk, Delivered, NotDelivered
<1>10. PICK to \in SUBSET Waiting(Head(dist)) :
        held' = held \cup {KeyOf(u, Head(dist).sid, Head(dist).idx) : u \in to}
  <2>1. CASE held' = held
    <3>1. held' = held \cup {KeyOf(u, Head(dist).sid, Head(dist).idx) : u \in {}}
        BY <2>1
    <3> QED
        BY <3>1
  <2>2. CASE held' = held \cup KeysOf(pd)
      BY <2>2, <1>7, <1>8
  <2> QED
      BY <1>9, <2>1, <2>2
<1>11. \E q \in Job : /\ q.sid = pd.sid /\ q.idx = pd.idx
                      /\ Waiting(q) \subseteq Waiting(pd)
                      /\ dist' = Tail(dist) \/ dist' = <<q>> \o Tail(dist)
  <2>1. CASE SkipChunk(pd)
      BY <2>1, <1>4 DEF SkipChunk, Advance
  <2>2. CASE Delivered(pd)
    <3> DEFINE q == [pd EXCEPT !.msgs = {}, !.retries = 0]
    <3>z. 0 \in 0..MaxRetries
        BY ChunkAssumption
    <3>1. /\ q \in Job /\ q.sid = pd.sid /\ q.idx = pd.idx
          /\ q.todo = pd.todo /\ q.msgs = {}
        BY <1>4, <3>z DEF Job
    <3>2. dist' = Tail(dist) \/ dist' = <<q>> \o Tail(dist)
        BY <2>2 DEF Delivered, Advance
    <3> HIDE DEF q
    <3> QED
        BY <3>1, <3>2 DEF Waiting
  <2>3. CASE NotDelivered(pd) /\ pd.retries < MaxRetries
    <3> DEFINE q == [pd EXCEPT !.retries = @ + 1]
    <3>1. /\ q \in Job /\ q.sid = pd.sid /\ q.idx = pd.idx
          /\ q.todo = pd.todo /\ q.msgs = pd.msgs
        BY <1>4, <2>3, ChunkAssumption DEF Job
    <3>2. dist' = <<q>> \o Tail(dist)
        BY <2>3 DEF NotDelivered
    <3> HIDE DEF q
    <3> QED
        BY <3>1, <3>2 DEF Waiting
  <2>4. CASE NotDelivered(pd) /\ ~(pd.retries < MaxRetries)
    <3> DEFINE q == [pd EXCEPT !.msgs = {}]
    <3>1. /\ q \in Job /\ q.sid = pd.sid /\ q.idx = pd.idx
          /\ q.todo = pd.todo /\ q.msgs = {}
        BY <1>4 DEF Job
    <3>2. dist' = Tail(dist) \/ dist' = <<q>> \o Tail(dist)
        BY <2>4 DEF NotDelivered, Advance
    <3> HIDE DEF q
    <3> QED
        BY <3>1, <3>2 DEF Waiting
  <2> QED
      BY <1>6, <2>1, <2>2, <2>3, <2>4
<1>12. PICK q \in Job : /\ q.sid = Head(dist).sid /\ q.idx = Head(dist).idx
                        /\ Waiting(q) \subseteq Waiting(Head(dist))
                        /\ dist' = Tail(dist) \/ dist' = <<q>> \o Tail(dist)
    BY <1>4, <1>11
<1>13. dist' \in Seq(Job) /\ held' \subseteq Key /\ Keyed' \subseteq Keyed
    BY <1>1, <1>10, <1>12, AdvanceFacts
<1> QED
    BY <1>5, <1>13

-----------------------------------------------------------------------------
(* Types and the relations that hold in every world.                       *)

\* Who is keyed depends on the keys held and on the jobs alone.
LEMMA KeyedSame ==
    ASSUME held' = held, dist' = dist
    PROVE  Keyed' = Keyed
BY DEF Keyed

\* Without jobs only the keys that were held are left.
LEMMA KeyedDropped ==
    ASSUME held' = held, dist' = <<>>
    PROVE  Keyed' \subseteq Keyed
<1>1. DOMAIN dist' = {}
    OBVIOUS
<1> QED
    BY <1>1, KeyedMember, KeyedMemberNext

\* A key added to the live session's is one of a session of this boot.
LEMMA NewKeySid ==
    ASSUME NEW u, NEW sid, NEW idx
    PROVE  /\ KeyOf(u, sid, idx).user = u
           /\ KeyOf(u, sid, idx).sid = sid
           /\ KeyOf(u, sid, idx).idx = idx
BY DEF KeyOf

\* What a full sync, answered or not, does.
LEMMA FullFacts ==
    ASSUME StateInv, held' = held, olm' \subseteq Users, SyncInFull
    PROVE  /\ room' \in BOOLEAN /\ members' \subseteq Users
           /\ members' \subseteq members \cup srv
           /\ ~room' => members' = {}
           /\ room => room'
           /\ dist' \in Seq(Job)
           /\ out' = out \/ out' = NoOut
           /\ pending' = pending \/ pending' = NoChanges
           /\ Keyed \subseteq Keyed'
           /\ \A k \in Keyed' : k \in Keyed \/ (out # NoOut /\ k.sid = out.sid)
<1>1. CASE NetFails /\ UNCHANGED <<room, members, out, dist, pending>>
  <2>1. Keyed' = Keyed
      BY <1>1, KeyedSame
  <2> QED
      BY <1>1, <2>1 DEF StateInv, TypeOK, RamType, KeysType
<1>2. ASSUME NEW joins \in SUBSET srv, NEW leaves \in SUBSET (Users \ srv),
             Merge(joins, leaves, olm'), pending' = NoChanges
      PROVE  /\ room' \in BOOLEAN /\ members' \subseteq Users
             /\ members' \subseteq members \cup srv
             /\ ~room' => members' = {}
             /\ room => room'
             /\ dist' \in Seq(Job)
             /\ out' = out \/ out' = NoOut
             /\ pending' = pending \/ pending' = NoChanges
             /\ Keyed \subseteq Keyed'
             /\ \A k \in Keyed' : k \in Keyed \/ (out # NoOut /\ k.sid = out.sid)
  <2>1. TypeOK /\ OutLives
      BY DEF StateInv
  <2>2. joins \in SUBSET Users /\ leaves \in SUBSET Users
      BY <2>1 DEF TypeOK, ServerType
  <2>3. PICK have \in SUBSET Users : have = olm'
      OBVIOUS
  <2>4. Merge(joins, leaves, have)
      BY <1>2, <2>3
  <2>5. /\ room' = TRUE
        /\ members' = (members \cup joins) \ leaves
        /\ dist' \in Seq(Job)
        /\ Keyed \subseteq Keyed'
        /\ leaves # {} => out' = NoOut
        /\ leaves = {} => out' = out
        /\ \A k \in Keyed' :
             \/ k \in Keyed
             \/ /\ out # NoOut /\ leaves = {}
                /\ \E u \in joins \ members : k = KeyOf(u, out.sid, out.idx)
      BY <2>1, <2>2, <2>4, MergeFacts
  <2> QED
      BY <1>2, <2>1, <2>2, <2>5, NewKeySid DEF TypeOK, RamType
<1> QED
    BY <1>1, <1>2 DEF SyncInFull

\* The answer without a change of membership.
LEMMA NoChangesFacts ==
    /\ NoChanges \in [Users -> {"none", "join", "leave"}]
    /\ \A u \in Users : NoChanges[u] = "none"
BY DEF NoChanges

\* The to-device part of a sync opens Olm sessions and closes none.
LEMMA ToDeviceType ==
    ASSUME TypeOK, ToDevice(olm)
    PROVE  olm' \subseteq Users /\ olm \subseteq olm'
BY DEF TypeOK, KeysType, ToDevice

\* init_crypto may keep fewer Olm sessions, or end without CRYPTO.
LEMMA InitCryptoType ==
    ASSUME TypeOK, InitCrypto
    PROVE  olm' \subseteq Users /\ crypto' \in {"none", "bare", "armed"}
BY DEF TypeOK, KeysType, InitCrypto

\* The recipients of a new session's key become members of the list.
LEMMA DistributeFacts ==
    ASSUME StateInv, Distribute
    PROVE  \E who \in SUBSET Users :
            /\ who = srv \/ who = members
            /\ members' = members \cup who
            /\ log' = {IF m.sid = out.sid THEN [m EXCEPT !.to = who] ELSE m : m \in log}
            /\ dist' \in Seq(Job)
            /\ Keyed \subseteq Keyed'
            /\ \A k \in Keyed' : k \in Keyed \/ \E u \in who : k = KeyOf(u, out.sid, 0)
<1>1. PICK fetched \in Replies :
        LET who == IF fetched THEN srv ELSE members
        IN  /\ members' = IF fetched THEN members \cup srv ELSE members
            /\ log' = {IF m.sid = out.sid THEN [m EXCEPT !.to = who] ELSE m :
                        m \in log}
            /\ Enqueue(who, out.sid, FirstIndex, olm)
    BY DEF Distribute
<1>2. out.sid \in 1..MaxSessions /\ FirstIndex = 0
  <2>1. out # NoOut
      BY DEF Distribute, StateInv, PhaseFits
  <2> QED
      BY <2>1 DEF FirstIndex, StateInv, OutLives, TypeOK, RamType, KeysType
<1>3. srv \subseteq Users /\ members \subseteq Users /\ olm \subseteq Users
    BY DEF StateInv, TypeOK, ServerType, RamType, KeysType
<1>4. PICK who \in SUBSET Users, sid \in 1..MaxSessions, idx \in Nat, have \in SUBSET Users :
        /\ who = (IF fetched THEN srv ELSE members)
        /\ sid = out.sid /\ idx = FirstIndex /\ have = olm
    BY <1>2, <1>3
<1>5. Enqueue(who, sid, idx, have)
    BY <1>1, <1>4
<1>6. TypeOK /\ held' = held
    BY DEF StateInv, Distribute
<1>7. /\ dist' \in Seq(Job)
      /\ Keyed \subseteq Keyed'
      /\ \A k \in Keyed' : k \in Keyed \/ \E u \in who : k = KeyOf(u, sid, idx)
  <2>1. KeyQueued(who, sid, idx)
      BY <1>5, <1>6, EnqueueFacts
  <2> QED
      BY <2>1, Zenon DEF KeyQueued
<1>8. members' = members \cup who
    BY <1>1, <1>4
<1>9. log' = {IF m.sid = out.sid THEN [m EXCEPT !.to = who] ELSE m : m \in log}
    BY <1>1, <1>4
<1>10. /\ who = srv \/ who = members
       /\ \A k \in Keyed' : k \in Keyed \/ \E u \in who : k = KeyOf(u, out.sid, 0)
    BY <1>2, <1>4, <1>7
<1> QED
    BY <1>7, <1>8, <1>9, <1>10

\* The state of a fresh install has its types.
LEMMA StateInit == Init => StateInv
<1> SUFFICES ASSUME Init PROVE StateInv
    OBVIOUS
<1>1. Keyed = {}
    BY KeyedMember DEF Init
<1>2. NoOut \in [sid : 0..MaxSessions, idx : Nat]
    BY BoundsAssumption DEF NoOut
<1>3. TypeOK
  <2>1. ServerType
      BY NoChangesFacts, BoundsAssumption DEF Init, ServerType
  <2>2. RamType
      BY <1>2 DEF Init, RamType
  <2>3. KeysType
      BY EmptySeq, BoundsAssumption DEF Init, KeysType
  <2> QED
      BY <2>1, <2>2, <2>3 DEF TypeOK
<1> QED
    BY <1>1, <1>3, NoChangesFacts
       DEF Init, StateInv, OutLives, PhaseFits, SidsBound, PendingFits

\* Every action keeps the types and the bookkeeping of the sessions.
LEMMA StateStep == StateInv /\ [Next]_vars => StateInv'
<1> SUFFICES ASSUME StateInv, [Next]_vars PROVE StateInv'
    OBVIOUS
<1> USE DEF StateInv, TypeOK, ServerType, RamType, KeysType, OutLives, PhaseFits,
            SidsBound, PendingFits
<1>t. TypeOK /\ OutLives
    OBVIOUS
<1>n. NoOut \in [sid : 0..MaxSessions, idx : Nat]
    BY BoundsAssumption DEF NoOut
<1>w. world' = world
    BY DEF Next, vars
<1>1. CASE Enter
  <2>1. CASE session
    <3>1. olm' \subseteq Users /\ crypto' \in {"none", "bare", "armed"}
        BY <1>1, <2>1, <1>t, InitCryptoType DEF Enter
    <3>2. /\ room' \in BOOLEAN /\ members' \subseteq Users
          /\ ~room' => members' = {}
          /\ dist' \in Seq(Job)
          /\ out' = out \/ out' = NoOut
          /\ pending' = pending \/ pending' = NoChanges
          /\ \A k \in Keyed' : k \in Keyed \/ (out # NoOut /\ k.sid = out.sid)
        BY <1>1, <2>1, <3>1, FullFacts DEF Enter
    <3>3. out = NoOut /\ phase = "idle"
        BY <1>1 DEF Enter
    <3> QED
        BY <1>1, <3>1, <3>2, <3>3, <1>w, NoChangesFacts DEF Enter
  <2>2. CASE ~session
    <3>1. Keyed' = Keyed
        BY <1>1, <2>2, KeyedSame DEF Enter
    <3> QED
        BY <1>1, <2>2, <3>1, <1>w DEF Enter
  <2> QED
      BY <2>1, <2>2
<1>2. CASE Stop
  <2>1. Keyed' = {}
      BY <1>2, KeyedMemberNext DEF Stop
  <2>2. ServerType' /\ RamType'
      BY <1>2, <1>n DEF Stop, server
  <2>3. KeysType'
      BY <1>2, <1>w, EmptySeq, BoundsAssumption DEF Stop
  <2>4. OutLives' /\ PhaseFits' /\ SidsBound' /\ PendingFits' /\ (~room => members = {})'
      BY <1>2, <2>1 DEF Stop, server
  <2> QED
      BY <2>2, <2>3, <2>4
<1>3. CASE Reset
  <2>1. Keyed' = Keyed
      BY <1>3, KeyedSame DEF Reset
  <2>2. ServerType' /\ RamType'
      BY <1>3, <1>n DEF Reset, server
  <2>3. KeysType'
      BY <1>3, <1>w, BoundsAssumption DEF Reset
  <2>4. OutLives' /\ PhaseFits' /\ SidsBound' /\ PendingFits' /\ (~room => members = {})'
      BY <1>3, <2>1 DEF Reset, server, Running
  <2> QED
      BY <2>2, <2>3, <2>4
<1>4. CASE Login
  <2>1. olm' \subseteq Users /\ crypto' \in {"none", "bare", "armed"}
      BY <1>4, <1>t, InitCryptoType, ToDeviceType DEF Login
  <2>2. /\ room' \in BOOLEAN /\ members' \subseteq Users
        /\ ~room' => members' = {}
        /\ dist' \in Seq(Job)
        /\ out' = out \/ out' = NoOut
        /\ pending' = pending \/ pending' = NoChanges
        /\ \A k \in Keyed' : k \in Keyed \/ (out # NoOut /\ k.sid = out.sid)
      BY <1>4, <2>1, FullFacts DEF Login
  <2>3. out # NoOut => crypto' # "none"
      BY <1>4 DEF Login
  <2> QED
      BY <1>4, <1>n, <1>w, <2>1, <2>2, <2>3, NoChangesFacts DEF Login, Running
<1>5. CASE EnterRecoveryKey
  <2>1. Keyed' = Keyed
      BY <1>5, KeyedSame DEF EnterRecoveryKey
  <2>2. /\ olm' \subseteq Users /\ crypto' \in {"none", "bare", "armed"}
        /\ crypto # "none" => crypto' # "none"
      BY <1>5 DEF EnterRecoveryKey
  <2> QED
      BY <1>5, <1>w, <2>1, <2>2 DEF EnterRecoveryKey, Running, server
<1>6. CASE Sync
  <2>1. olm' \subseteq Users
      BY <1>6, <1>t, ToDeviceType DEF Sync
  <2>2. PICK spoke \in SUBSET {u \in srv : pending[u] = "none"} :
            Merge({u \in Users : pending[u] = "join"} \cup spoke,
                  {u \in Users : pending[u] = "leave"}, olm')
      BY <1>6 DEF Sync
  <2>3. PICK joins \in SUBSET Users, leaves \in SUBSET Users, have \in SUBSET Users :
            Merge(joins, leaves, have)
      BY <2>1, <2>2
  <2>4. held' = held
      BY <1>6 DEF Sync
  <2>5. /\ room' = TRUE
        /\ members' = (members \cup joins) \ leaves
        /\ dist' \in Seq(Job)
        /\ leaves # {} => out' = NoOut
        /\ leaves = {} => out' = out
        /\ \A k \in Keyed' :
             \/ k \in Keyed
             \/ /\ out # NoOut /\ leaves = {}
                /\ \E u \in joins \ members : k = KeyOf(u, out.sid, out.idx)
      BY <2>3, <2>4, <1>t, MergeFacts, Zenon
  <2>6. /\ members' \subseteq Users
        /\ \A k \in Keyed' : k \in Keyed \/ (out # NoOut /\ k.sid = out.sid)
      BY <2>5, NewKeySid
  <2> QED
      BY <1>6, <1>n, <1>w, <2>1, <2>5, <2>6, NoChangesFacts DEF Sync
<1>7. CASE SyncSkipped
  <2>1. Keyed' = Keyed
      BY <1>7, KeyedSame DEF SyncSkipped, keys
  <2> QED
      BY <1>7, <1>w, <2>1 DEF SyncSkipped, server, ram, keys
<1>8. CASE FullSync
  <2>1. olm' \subseteq Users
      BY <1>8, <1>t, ToDeviceType DEF FullSync
  <2>2. /\ room' \in BOOLEAN /\ members' \subseteq Users
        /\ ~room' => members' = {}
        /\ dist' \in Seq(Job)
        /\ out' = out \/ out' = NoOut
        /\ pending' = pending \/ pending' = NoChanges
        /\ \A k \in Keyed' : k \in Keyed \/ (out # NoOut /\ k.sid = out.sid)
      BY <1>8, <2>1, FullFacts DEF FullSync
  <2> QED
      BY <1>8, <1>n, <1>w, <2>1, <2>2, NoChangesFacts DEF FullSync, Running
<1>9. CASE LeaveRoom
  <2>1. Keyed' = Keyed
      BY <1>9, KeyedSame DEF LeaveRoom, keys
  <2>2. ServerType' /\ RamType'
    <3>1. changes' \in 0..MaxChanges
        BY <1>9, BoundsAssumption DEF LeaveRoom
    <3> QED
        BY <1>9, <3>1 DEF LeaveRoom
  <2>3. KeysType'
      BY <1>9, <1>w DEF LeaveRoom, keys
  <2>4. OutLives' /\ PhaseFits' /\ SidsBound' /\ PendingFits' /\ (~room => members = {})'
      BY <1>9, <2>1 DEF LeaveRoom, Running
  <2> QED
      BY <2>2, <2>3, <2>4
<1>10. CASE Send
  <2>1. Keyed' = Keyed
      BY <1>10, KeyedSame DEF Send, keys
  <2>2. CASE out = NoOut
    <3>1. sessions' = sessions + 1 /\ sessions' \in 1..MaxSessions
        BY <1>10, <2>2, BoundsAssumption DEF Send
    <3>2. /\ out' = [sid |-> sessions', idx |-> 1]
          /\ log' = log \cup {[sid |-> sessions', idx |-> 0, to |-> {}]}
          /\ phase' = "members"
        BY <1>10, <2>2, <3>1 DEF Send
    <3>3. log' \subseteq Msg
        BY <3>1, <3>2 DEF Msg
    <3>4. out' \in [sid : 0..MaxSessions, idx : Nat] /\ out'.sid = sessions' /\ out' # NoOut
        BY <3>1, <3>2 DEF NoOut
    <3>5. /\ \A k \in Keyed' : k.sid <= sessions'
          /\ \A m \in log' : m.sid <= sessions'
      <4>1. \A k \in Keyed : k.sid \in Int
          BY <1>t, KeyedType DEF Key
      <4> QED
          BY <2>1, <3>1, <3>2, <4>1 DEF Msg
    <3> QED
        BY <1>10, <1>w, <3>1, <3>2, <3>3, <3>4, <3>5 DEF Send, server, keys, Running
  <2>3. CASE out # NoOut
    <3>1. /\ out' \in [sid : 0..MaxSessions, idx : Nat]
          /\ out'.sid = out.sid /\ out'.idx = out.idx + 1 /\ out' # NoOut
        BY <1>10, <2>3 DEF Send, NoOut
    <3>2. log' = log \cup {[sid |-> out.sid, idx |-> out.idx, to |-> members]}
        BY <1>10, <2>3 DEF Send
    <3>3. log' \subseteq Msg /\ \A m \in log' : m.sid <= sessions
        BY <2>3, <3>2 DEF Msg
    <3>4. sessions' = sessions /\ phase' = "sync"
        BY <1>10, <2>3 DEF Send
    <3> QED
        BY <1>10, <1>w, <2>1, <2>3, <3>1, <3>3, <3>4 DEF Send, server, keys, Running
  <2> QED
      BY <2>2, <2>3
<1>11. CASE Distribute
  <2>1. PICK who \in SUBSET Users :
            /\ who = srv \/ who = members
            /\ members' = members \cup who
            /\ log' = {IF m.sid = out.sid THEN [m EXCEPT !.to = who] ELSE m : m \in log}
            /\ dist' \in Seq(Job)
            /\ \A k \in Keyed' : k \in Keyed \/ \E u \in who : k = KeyOf(u, out.sid, 0)
      BY <1>11, DistributeFacts
  <2>2. out # NoOut /\ room
      BY <1>11 DEF Distribute
  <2>3. \A k \in Keyed' : k.sid <= sessions
      BY <2>1, <2>2, NewKeySid
  <2>4. log' \subseteq Msg /\ \A m \in log' : m.sid <= sessions
      BY <2>1 DEF Msg
  <2> QED
      BY <1>11, <1>w, <2>1, <2>2, <2>3, <2>4 DEF Distribute, server
<1>12. CASE ProcessDistribution
  <2>1. /\ dist' \in Seq(Job) /\ held' \subseteq Key /\ Keyed' \subseteq Keyed
        /\ olm' \subseteq Users
      BY <1>12, <1>t, ProcessFacts
  <2> QED
      BY <1>12, <1>w, <2>1 DEF ProcessDistribution, server, ram
<1>13. CASE DropDistribution
  <2>1. Keyed' \subseteq Keyed
      BY <1>13, KeyedDropped DEF DropDistribution
  <2> QED
      BY <1>13, <1>w, <2>1, EmptySeq DEF DropDistribution, server, ram
<1>14. ASSUME NEW u \in Users, ServerJoin(u) \/ ServerLeave(u)
       PROVE  StateInv'
  <2>1. Keyed' = Keyed
      BY <1>14, KeyedSame DEF ServerJoin, ServerLeave, keys
  <2>2. /\ srv' \subseteq Users /\ changes' \in 0..MaxChanges
        /\ pending' \in [Users -> {"none", "join", "leave"}]
      BY <1>14, BoundsAssumption DEF ServerJoin, ServerLeave
  <2>3. PendingFits'
      BY <1>14 DEF ServerJoin, ServerLeave
  <2> QED
      BY <1>14, <1>w, <2>1, <2>2, <2>3 DEF ServerJoin, ServerLeave, ram, keys
<1>15. CASE UNCHANGED vars
  <2>1. Keyed' = Keyed
      BY <1>15, KeyedSame DEF vars, keys
  <2> QED
      BY <1>15, <2>1 DEF vars, server, ram, keys
<1> QED
    BY <1>1, <1>2, <1>3, <1>4, <1>5, <1>6, <1>7, <1>8, <1>9, <1>10, <1>11,
       <1>12, <1>13, <1>14, <1>15 DEF Next, Step, Tick

\* Every variable keeps its type, in every world.
THEOREM TypeCorrect == Spec => []TypeOK
<1>1. Spec => []StateInv
    BY StateInit, StateStep, PTL DEF Spec
<1>2. StateInv => TypeOK
    BY DEF StateInv
<1> QED
    BY <1>1, <1>2, PTL

-----------------------------------------------------------------------------
(* Who reads what, as long as no full sync skips a leave.                  *)

\* Keys and messages are of sessions with an id from 1 on; NoOut is none.
SidsPositive ==
    /\ \A k \in Keyed : k.sid \in Nat \ {0} /\ k.idx \in Nat /\ k.user \in Users
    /\ \A m \in log : m.sid \in Nat \ {0} /\ m.idx \in Nat /\ m.to \subseteq Users

\* Session ids start at 1.
LEMMA SidsFacts == TypeOK => SidsPositive
BY KeyedType DEF TypeOK, KeysType, Key, Msg, SidsPositive

\* The same in the next state.
LEMMA SidsFactsNext == TypeOK' => SidsPositive'
BY SidsFacts, PTL

\* A step that adds no key and leaves the room as it is changes nothing.
LEMMA SafeQuiet ==
    ASSUME SafeInv, Keyed' \subseteq Keyed,
           UNCHANGED <<srv, pending, room, members, out, log>>,
           phase' = phase \/ phase' = "idle"
    PROVE  SafeInv'
BY DEF SafeInv, MembersKnown, DepartedLockedOut, Listed, ChainAhead, Unsent,
       ReadersAreRecipients

\* Neither does one that ends the session and adds no key.
LEMMA SafeEnded ==
    ASSUME SafeInv, TypeOK', Keyed' \subseteq Keyed, log' \subseteq log, out' = NoOut,
           phase' # "members", MembersKnown'
    PROVE  SafeInv'
<1>1. /\ \A k \in Keyed' : k.sid # out'.sid
      /\ \A m \in log' : m.sid # out'.sid
    BY SidsFactsNext DEF NoOut, SidsPositive
<1>2. DepartedLockedOut' /\ Listed' /\ ChainAhead' /\ Unsent'
    BY <1>1 DEF DepartedLockedOut, Listed, ChainAhead, Unsent
<1>3. ReadersAreRecipients'
    BY DEF SafeInv, ReadersAreRecipients
<1> QED
    BY <1>2, <1>3 DEF SafeInv

\* Nothing has been encrypted at the start.
LEMMA SafeInit == Init => SafeInv
<1> SUFFICES ASSUME Init PROVE SafeInv
    OBVIOUS
<1>1. Keyed = {}
    BY KeyedMember DEF Init
<1> QED
    BY <1>1 DEF Init, SafeInv, MembersKnown, DepartedLockedOut, Listed, ChainAhead,
       Unsent, ReadersAreRecipients

\* Without a full sync in between, every action keeps the facts about who can
\* read what.
LEMMA SafeStep == StateInv /\ ~FullSyncs /\ SafeInv /\ [Next]_vars => SafeInv'
<1> SUFFICES ASSUME StateInv, ~FullSyncs, SafeInv, [Next]_vars PROVE SafeInv'
    OBVIOUS
<1>t. TypeOK' /\ SidsPositive /\ SidsPositive' /\ StateInv'
    BY StateStep, SidsFacts, SidsFactsNext DEF StateInv
<1>1. CASE Enter
  <2>1. out = NoOut /\ members = {} /\ phase = "idle" /\ phase' = phase
      BY <1>1 DEF Enter, StateInv, PhaseFits, OutLives
  <2>2. CASE session
    <3>1. olm' \subseteq Users
        BY <1>1, <2>2, InitCryptoType DEF Enter, StateInv
    <3>2. /\ members' \subseteq members \cup srv
          /\ out' = out \/ out' = NoOut
          /\ \A k \in Keyed' : k \in Keyed \/ (out # NoOut /\ k.sid = out.sid)
        BY <1>1, <2>2, <3>1, FullFacts DEF Enter
    <3>3. MembersKnown'
        BY <1>1, <2>1, <3>2 DEF Enter, MembersKnown
    <3> QED
        BY <1>1, <1>t, <2>1, <3>2, <3>3, SafeEnded DEF Enter
  <2>3. CASE ~session
      BY <1>1, <2>3, KeyedSame, SafeQuiet DEF Enter
  <2> QED
      BY <2>2, <2>3
<1>2. CASE Stop
  <2>1. Keyed' = {}
      BY <1>2, KeyedMemberNext DEF Stop
  <2> QED
      BY <1>2, <1>t, <2>1, SafeEnded DEF Stop, MembersKnown
<1>3. CASE Reset
    BY <1>3, <1>t, KeyedSame, SafeEnded DEF Reset, Running, MembersKnown
<1>4. CASE Login
  <2>1. out = NoOut /\ members = {} /\ phase = "idle" /\ phase' = phase
      BY <1>4 DEF Login, Running, StateInv
  <2>2. olm' \subseteq Users
      BY <1>4, InitCryptoType, ToDeviceType DEF Login, StateInv
  <2>3. /\ members' \subseteq members \cup srv
        /\ out' = out \/ out' = NoOut
        /\ \A k \in Keyed' : k \in Keyed \/ (out # NoOut /\ k.sid = out.sid)
      BY <1>4, <2>2, FullFacts DEF Login
  <2>4. MembersKnown'
      BY <1>4, <2>1, <2>3 DEF Login, MembersKnown
  <2> QED
      BY <1>4, <1>t, <2>1, <2>3, <2>4, SafeEnded DEF Login
<1>5. CASE EnterRecoveryKey
    BY <1>5, KeyedSame, SafeQuiet DEF EnterRecoveryKey, server
<1>6. CASE Sync
  <2>1. olm' \subseteq Users
      BY <1>6, ToDeviceType DEF Sync, StateInv
  <2>2. PICK spoke \in SUBSET {u \in srv : pending[u] = "none"} :
            Merge({u \in Users : pending[u] = "join"} \cup spoke,
                  {u \in Users : pending[u] = "leave"}, olm')
      BY <1>6 DEF Sync
  <2>3. PICK joins \in SUBSET Users, leaves \in SUBSET Users, have \in SUBSET Users :
            /\ Merge(joins, leaves, have)
            /\ joins \subseteq srv
            /\ leaves = {u \in Users : pending[u] = "leave"}
    <3>1. {u \in Users : pending[u] = "join"} \cup spoke \subseteq srv
        BY DEF StateInv, PendingFits
    <3>2. srv \subseteq Users
        BY DEF StateInv, TypeOK, ServerType
    <3> QED
        BY <2>1, <2>2, <3>1, <3>2
  <2>4. TypeOK /\ OutLives /\ held' = held
      BY <1>6 DEF Sync, StateInv
  <2>5. /\ room' = TRUE
        /\ members' = (members \cup joins) \ leaves
        /\ leaves # {} => out' = NoOut
        /\ leaves = {} => out' = out
        /\ \A k \in Keyed' :
             \/ k \in Keyed
             \/ /\ out # NoOut /\ leaves = {}
                /\ \E u \in joins \ members : k = KeyOf(u, out.sid, out.idx)
      BY <2>3, <2>4, MergeFacts, Zenon
  <2>6. UNCHANGED <<srv, log>> /\ phase' = "idle" /\ pending' = NoChanges
      BY <1>6 DEF Sync
  <2>7. MembersKnown'
      BY <2>3, <2>5, <2>6 DEF SafeInv, MembersKnown, StateInv, TypeOK, RamType
  <2>8. CASE leaves # {}
      BY <1>t, <2>5, <2>6, <2>7, <2>8, SafeEnded
  <2>9. CASE leaves = {} /\ out = NoOut
      BY <1>t, <2>5, <2>6, <2>7, <2>9, SafeEnded
  <2>10. CASE leaves = {} /\ out # NoOut
    <3>1. room
        BY <1>6, <2>10 DEF Sync
    <3>2. out' = out /\ members' = members \cup joins
        BY <2>5, <2>10
    <3>3. ASSUME NEW k \in Keyed'
          PROVE  \/ k \in Keyed
                 \/ /\ k.sid = out.sid /\ k.idx = out.idx
                    /\ k.user \in joins /\ k.user \notin members
        BY <2>5, NewKeySid
    <3>4. DepartedLockedOut'
        BY <2>3, <2>6, <2>10, <3>2, <3>3, <1>t
           DEF SafeInv, DepartedLockedOut, SidsPositive
    <3>5. Listed'
        BY <2>6, <3>1, <3>2, <3>3 DEF SafeInv, Listed
    <3>6. ChainAhead'
      <4>1. out.idx \in Nat
          BY <2>4 DEF TypeOK, RamType
      <4> QED
          BY <2>6, <3>2, <3>3, <4>1 DEF SafeInv, ChainAhead
    <3>7. ReadersAreRecipients'
      <4> SUFFICES ASSUME NEW m \in log, NEW k \in Keyed', k.sid = m.sid
                   PROVE  k.idx <= m.idx <=> k.user \in m.to
          BY <2>6 DEF ReadersAreRecipients
      <4>1. CASE k \in Keyed
          BY <4>1 DEF SafeInv, ReadersAreRecipients
      <4>2. CASE k \notin Keyed
        <5>1. /\ m.sid = out.sid /\ k.idx = out.idx
              /\ k.user \in joins /\ k.user \notin members
            BY <3>3, <4>2
        <5>2. m.idx < out.idx /\ m.to \subseteq members
            BY <3>1, <5>1 DEF SafeInv, ChainAhead, Listed
        <5>3. m.idx \in Nat /\ out.idx \in Nat
            BY <1>t, <2>4 DEF SidsPositive, TypeOK, RamType
        <5> QED
            BY <5>1, <5>2, <5>3
      <4> QED
          BY <4>1, <4>2
    <3> QED
        BY <2>6, <2>7, <3>4, <3>5, <3>6, <3>7 DEF SafeInv, Unsent
  <2> QED
      BY <2>8, <2>9, <2>10
<1>7. CASE SyncSkipped
    BY <1>7, KeyedSame, SafeQuiet DEF SyncSkipped, keys, server, ram
<1>8. CASE FullSync
    BY <1>8 DEF FullSync
<1>9. CASE LeaveRoom
  <2>1. Keyed' = Keyed
      BY <1>9, KeyedSame DEF LeaveRoom, keys
  <2> QED
      BY <1>9, <2>1 DEF LeaveRoom, SafeInv, MembersKnown, DepartedLockedOut, Listed,
         ChainAhead, Unsent, ReadersAreRecipients
<1>10. CASE Send
  <2>1. Keyed' = Keyed
      BY <1>10, KeyedSame DEF Send, keys
  <2>2. UNCHANGED <<srv, pending, members, room>> /\ room
      BY <1>10 DEF Send, server
  <2>3. MembersKnown'
      BY <2>2 DEF SafeInv, MembersKnown
  <2>4. CASE out = NoOut
    <3>1. /\ out'.sid = sessions + 1 /\ out'.idx = 1
          /\ log' = log \cup {[sid |-> sessions + 1, idx |-> 0, to |-> {}]}
        BY <1>10, <2>4 DEF Send
    <3>2. /\ \A k \in Keyed : k.sid # sessions + 1
          /\ \A m \in log : m.sid # sessions + 1
      <4>1. sessions \in Nat
          BY DEF StateInv, TypeOK, KeysType
      <4> QED
          BY <4>1, <1>t DEF StateInv, SidsBound, SidsPositive
    <3>3. DepartedLockedOut' /\ Listed' /\ Unsent'
        BY <2>1, <3>1, <3>2 DEF DepartedLockedOut, Listed, Unsent
    <3>4. ChainAhead'
        BY <2>1, <3>1, <3>2 DEF ChainAhead
    <3>5. ReadersAreRecipients'
        BY <2>1, <3>1, <3>2 DEF SafeInv, ReadersAreRecipients
    <3> QED
        BY <2>3, <3>3, <3>4, <3>5 DEF SafeInv
  <2>5. CASE out # NoOut
    <3>1. out \in [sid : 0..MaxSessions, idx : Nat]
        BY DEF StateInv, TypeOK, RamType
    <3>2. /\ out'.sid = out.sid /\ out'.idx = out.idx + 1
          /\ log' = log \cup {[sid |-> out.sid, idx |-> out.idx, to |-> members]}
          /\ phase' = "sync"
        BY <1>10, <2>5, <3>1 DEF Send
    <3>3. DepartedLockedOut' /\ Listed' /\ Unsent'
        BY <2>1, <2>2, <3>2 DEF SafeInv, DepartedLockedOut, Listed, Unsent
    <3>4. ChainAhead'
        BY <1>t, <2>1, <3>1, <3>2 DEF SafeInv, ChainAhead, SidsPositive
    <3>5. ReadersAreRecipients'
        BY <2>1, <2>2, <3>2 DEF SafeInv, ReadersAreRecipients, Listed, ChainAhead
    <3> QED
        BY <2>3, <3>3, <3>4, <3>5 DEF SafeInv
  <2> QED
      BY <2>4, <2>5
<1>11. CASE Distribute
  <2>1. PICK who \in SUBSET Users :
            /\ who = srv \/ who = members
            /\ members' = members \cup who
            /\ log' = {IF m.sid = out.sid THEN [m EXCEPT !.to = who] ELSE m : m \in log}
            /\ \A k \in Keyed' : k \in Keyed \/ \E u \in who : k = KeyOf(u, out.sid, 0)
      BY <1>11, DistributeFacts
  <2>2. UNCHANGED <<srv, pending, out, room>> /\ phase' = "sync"
      BY <1>11 DEF Distribute, server
  <2>3. /\ room /\ out # NoOut
        /\ \A k \in Keyed : k.sid # out.sid
      BY <1>11 DEF Distribute, StateInv, PhaseFits, SafeInv, Unsent
  <2>4. ASSUME NEW k \in Keyed'
        PROVE  \/ k \in Keyed /\ k.sid # out.sid
               \/ k.sid = out.sid /\ k.idx = 0 /\ k.user \in who
      BY <2>1, <2>3, NewKeySid
  <2>5. ASSUME NEW m \in log'
        PROVE  \/ m \in log /\ m.sid # out.sid
               \/ /\ m.sid = out.sid /\ m.to = who
                  /\ \E n \in log : n.sid = out.sid /\ n.idx = m.idx
    <3>1. PICK n \in log : m = IF n.sid = out.sid THEN [n EXCEPT !.to = who] ELSE n
        BY <2>1
    <3>2. n \in Msg
        BY DEF StateInv, TypeOK, KeysType
    <3> QED
        BY <3>1, <3>2 DEF Msg
  <2>6. MembersKnown'
      BY <2>1, <2>2 DEF SafeInv, MembersKnown
  <2>7. DepartedLockedOut'
      BY <2>1, <2>2, <2>4 DEF SafeInv, DepartedLockedOut, MembersKnown
  <2>8. Listed' /\ Unsent'
      BY <2>1, <2>2, <2>4, <2>5 DEF Listed, Unsent
  <2>9. ChainAhead'
    <3>1. out.idx \in Nat
        BY DEF StateInv, TypeOK, RamType
    <3> QED
        BY <2>2, <2>4, <2>5, <3>1 DEF SafeInv, ChainAhead
  <2>10. ReadersAreRecipients'
    <3> SUFFICES ASSUME NEW m \in log', NEW k \in Keyed', k.sid = m.sid
                 PROVE  k.idx <= m.idx <=> k.user \in m.to
        BY DEF ReadersAreRecipients
    <3>1. CASE m.sid = out.sid
      <4>1. k.idx = 0 /\ k.user \in who /\ m.to = who
          BY <2>4, <2>5, <3>1
      <4>2. m.idx \in Nat
          BY <1>t DEF SidsPositive
      <4> QED
          BY <4>1, <4>2
    <3>2. CASE m.sid # out.sid
      <4>1. m \in log /\ k \in Keyed
          BY <2>4, <2>5, <3>2
      <4> QED
          BY <4>1 DEF SafeInv, ReadersAreRecipients
    <3> QED
        BY <3>1, <3>2
  <2> QED
      BY <2>6, <2>7, <2>8, <2>9, <2>10 DEF SafeInv
<1>12. CASE ProcessDistribution
    BY <1>12, ProcessFacts, SafeQuiet DEF ProcessDistribution, server, ram, StateInv
<1>13. CASE DropDistribution
    BY <1>13, KeyedDropped, SafeQuiet DEF DropDistribution, server, ram
<1>14. ASSUME NEW u \in Users, ServerJoin(u) \/ ServerLeave(u)
       PROVE  SafeInv'
  <2>1. Keyed' = Keyed /\ UNCHANGED <<room, members, out, log, phase>>
      BY <1>14, KeyedSame DEF ServerJoin, ServerLeave, keys, ram
  <2>2. \A v \in Users : v \notin srv' => (v \notin srv /\ pending'[v] = pending[v])
                                          \/ pending'[v] = "leave"
      BY <1>14 DEF ServerJoin, ServerLeave, StateInv, TypeOK, ServerType
  <2>3. MembersKnown'
      BY <2>1, <2>2 DEF SafeInv, MembersKnown, StateInv, TypeOK, RamType
  <2>4. DepartedLockedOut'
      BY <1>t, <2>1, <2>2 DEF SafeInv, DepartedLockedOut, SidsPositive
  <2> QED
      BY <2>1, <2>3, <2>4 DEF SafeInv, Listed, ChainAhead, Unsent, ReadersAreRecipients
<1>15. CASE UNCHANGED vars
    BY <1>15, KeyedSame, SafeQuiet DEF vars, server, ram, keys
<1> QED
    BY <1>1, <1>2, <1>3, <1>4, <1>5, <1>6, <1>7, <1>8, <1>9, <1>10, <1>11,
       <1>12, <1>13, <1>14, <1>15 DEF Next, Step, Tick

-----------------------------------------------------------------------------
(* Who is keyed, in a world where nothing goes wrong.                      *)

\* A job for which every recipient can be wrapped.
Wrappable(pd, have) == pd.todo \subseteq have \cup pd.otk

\* With requests that are answered, everyone named is queued and can be
\* wrapped.
LEMMA QuietEnqueue ==
    ASSUME TypeOK, ~NetFails, held' = held,
           NEW who \in SUBSET Users, NEW have \in SUBSET Users,
           NEW sid \in 1..MaxSessions, NEW idx \in Nat,
           Enqueue(who, sid, idx, have)
    PROVE  /\ \A u \in who : KeyOf(u, sid, idx) \in Keyed'
           /\ \A i \in DOMAIN dist' :
                \/ i \in DOMAIN dist /\ dist'[i] = dist[i]
                \/ Wrappable(dist'[i], have)
<1>1. PICK answered \in Replies, claimed \in Outcomes(who \ have) :
        LET targets == IF answered THEN (who \cap have) \cup claimed ELSE {}
        IN  dist' = IF targets = {} THEN dist
                    ELSE Append(dist,
                           [sid |-> sid, idx |-> idx, todo |-> targets,
                            otk |-> targets \ have, msgs |-> {},
                            retries |-> 0])
    BY DEF Enqueue
<1>2. answered = TRUE /\ claimed = who \ have
    BY DEF Replies, Outcomes
<1> DEFINE pd == [sid |-> sid, idx |-> idx, todo |-> who,
                  otk |-> who \ have, msgs |-> {}, retries |-> 0]
<1>3. (who \cap have) \cup claimed = who
    BY <1>2
<1>4. dist' = IF who = {} THEN dist ELSE Append(dist, pd)
    BY <1>1, <1>2, <1>3
<1>5. CASE who = {}
    BY <1>4, <1>5
<1>6. CASE who # {}
  <2>1. pd.sid = sid /\ pd.idx = idx /\ Waiting(pd) = who /\ Wrappable(pd, have)
      BY DEF Waiting, Wrappable
  <2>2. dist' = Append(dist, pd) /\ dist \in Seq(Job)
      BY <1>4, <1>6 DEF TypeOK, KeysType
  <2>3. pd \in Job
      BY ChunkAssumption DEF Job
  <2> HIDE DEF pd
  <2>4. /\ DOMAIN dist' = 1..(Len(dist) + 1)
        /\ DOMAIN dist = 1..Len(dist) /\ Len(dist) \in Nat
        /\ \A i \in DOMAIN dist : dist'[i] = dist[i]
        /\ dist'[Len(dist) + 1] = pd
      BY <2>2, <2>3
  <2>5. ASSUME NEW u \in who
        PROVE  KeyOf(u, sid, idx) \in Keyed'
    <3> DEFINE k == KeyOf(u, sid, idx)
    <3>1. /\ Len(dist) + 1 \in DOMAIN dist' /\ u \in Waiting(dist'[Len(dist) + 1])
          /\ k = KeyOf(u, dist'[Len(dist) + 1].sid, dist'[Len(dist) + 1].idx)
        BY <2>1, <2>4
    <3> HIDE DEF k
    <3>2. k \in Keyed'
        BY <3>1, KeyedMemberNext
    <3> QED
        BY <3>2 DEF k
  <2>6. ASSUME NEW i \in DOMAIN dist'
        PROVE  \/ i \in DOMAIN dist /\ dist'[i] = dist[i]
               \/ Wrappable(dist'[i], have)
    <3>1. i \in DOMAIN dist \/ i = Len(dist) + 1
        BY <2>4
    <3> QED
        BY <3>1, <2>1, <2>4
  <2> QED
      BY <2>5, <2>6
<1> QED
    BY <1>5, <1>6

\* The same of a sync that reports no leave to a live session.
LEMMA QuietMerge ==
    ASSUME TypeOK, OutLives, ~NetFails, held' = held, out # NoOut,
           NEW joins \in SUBSET Users, NEW have \in SUBSET Users,
           Merge(joins, {}, have)
    PROVE  /\ \A u \in joins \ members : KeyOf(u, out.sid, out.idx) \in Keyed'
           /\ \A i \in DOMAIN dist' :
                \/ i \in DOMAIN dist /\ dist'[i] = dist[i]
                \/ Wrappable(dist'[i], have)
<1>1. CASE joins \ members = {}
    BY <1>1 DEF Merge
<1>2. CASE joins \ members # {}
  <2>1. Enqueue(joins \ members, out.sid, out.idx, have)
      BY <1>2 DEF Merge, OutLives, ShareIndex
  <2>2. out.sid \in 1..MaxSessions /\ out.idx \in Nat
      BY DEF OutLives, TypeOK, RamType, KeysType
  <2>3. PICK who \in SUBSET Users, sid \in 1..MaxSessions, idx \in Nat :
            who = joins \ members /\ sid = out.sid /\ idx = out.idx
      BY <2>2
  <2>4. Enqueue(who, sid, idx, have)
      BY <2>1, <2>3
  <2>5. /\ \A u \in who : KeyOf(u, sid, idx) \in Keyed'
        /\ \A i \in DOMAIN dist' :
             \/ i \in DOMAIN dist /\ dist'[i] = dist[i]
             \/ Wrappable(dist'[i], have)
      BY <2>4, QuietEnqueue, Zenon
  <2> QED
      BY <2>3, <2>5
<1> QED
    BY <1>1, <1>2

\* And of the fetched members of a new session.
LEMMA QuietDistribute ==
    ASSUME StateInv, ~NetFails, Distribute
    PROVE  /\ \A u \in srv : KeyOf(u, out.sid, 0) \in Keyed'
           /\ members' = members \cup srv
           /\ \A i \in DOMAIN dist' :
                \/ i \in DOMAIN dist /\ dist'[i] = dist[i]
                \/ Wrappable(dist'[i], olm)
<1>1. /\ members' = members \cup srv
      /\ Enqueue(srv, out.sid, FirstIndex, olm)
    BY DEF Distribute, Replies
<1>2. out.sid \in 1..MaxSessions /\ FirstIndex = 0
  <2>1. out # NoOut
      BY DEF Distribute, StateInv, PhaseFits
  <2> QED
      BY <2>1 DEF FirstIndex, StateInv, OutLives, TypeOK, RamType, KeysType
<1>3. srv \subseteq Users /\ olm \subseteq Users
    BY DEF StateInv, TypeOK, ServerType, KeysType
<1>4. PICK who \in SUBSET Users, sid \in 1..MaxSessions, idx \in Nat, have \in SUBSET Users :
        who = srv /\ sid = out.sid /\ idx = FirstIndex /\ have = olm
    BY <1>2, <1>3
<1>5. Enqueue(who, sid, idx, have)
    BY <1>1, <1>4
<1>6. TypeOK /\ held' = held
    BY DEF StateInv, Distribute
<1>7. /\ \A u \in who : KeyOf(u, sid, idx) \in Keyed'
      /\ \A i \in DOMAIN dist' :
           \/ i \in DOMAIN dist /\ dist'[i] = dist[i]
           \/ Wrappable(dist'[i], have)
    BY <1>5, <1>6, QuietEnqueue, Zenon
<1> QED
    BY <1>1, <1>2, <1>4, <1>7

\* Which jobs are queued once the front one was put forward or dropped.
LEMMA QueueAfter ==
    ASSUME TypeOK, dist # <<>>, NEW q \in Job,
           dist' = Tail(dist) \/ dist' = <<q>> \o Tail(dist)
    PROVE  /\ \A j \in DOMAIN dist : j = 1 \/ \E i \in DOMAIN dist' : dist'[i] = dist[j]
           /\ \A i \in DOMAIN dist' : \/ dist'[i] = q
                                      \/ \E j \in DOMAIN dist : dist'[i] = dist[j]
           /\ dist' = <<q>> \o Tail(dist) => \E i \in DOMAIN dist' : dist'[i] = q
<1>1. /\ dist \in Seq(Job) /\ Len(dist) \in Nat \ {0} /\ DOMAIN dist = 1..Len(dist)
      /\ Tail(dist) \in Seq(Job) /\ Len(Tail(dist)) = Len(dist) - 1
      /\ \A i \in 1..(Len(dist) - 1) : Tail(dist)[i] = dist[i + 1]
    BY HeadTailProperties, EmptySeq, LenProperties DEF TypeOK, KeysType
<1>2. CASE dist' = Tail(dist)
  <2>1. DOMAIN dist' = 1..(Len(dist) - 1)
      BY <1>1, <1>2, LenProperties
  <2>2. ASSUME NEW j \in DOMAIN dist, j # 1
        PROVE  j - 1 \in DOMAIN dist' /\ dist'[j - 1] = dist[j]
      BY <1>1, <1>2, <2>1, <2>2
  <2>3. ASSUME NEW i \in DOMAIN dist'
        PROVE  i + 1 \in DOMAIN dist /\ dist'[i] = dist[i + 1]
      BY <1>1, <1>2, <2>1
  <2>4. ASSUME dist' = <<q>> \o Tail(dist)
        PROVE  FALSE
    <3>1. <<q>> \in Seq(Job) /\ Len(<<q>>) = 1
        OBVIOUS
    <3>2. Len(dist') = 1 + Len(Tail(dist))
        BY <1>1, <2>4, <3>1, ConcatProperties
    <3> QED
        BY <1>1, <1>2, <3>2
  <2> QED
      BY <2>2, <2>3, <2>4
<1>3. CASE dist' = <<q>> \o Tail(dist)
  <2>1. <<q>> \in Seq(Job) /\ Len(<<q>>) = 1 /\ <<q>>[1] = q
      OBVIOUS
  <2>2. /\ dist' \in Seq(Job) /\ Len(dist') = Len(dist)
        /\ \A i \in 1..Len(dist) : dist'[i] = IF i <= 1 THEN q ELSE Tail(dist)[i - 1]
      BY <1>1, <1>3, <2>1, ConcatProperties
  <2>3. DOMAIN dist' = 1..Len(dist)
      BY <2>2, LenProperties
  <2>4. ASSUME NEW i \in 1..Len(dist), i # 1
        PROVE  dist'[i] = dist[i]
      BY <1>1, <2>2, <2>4
  <2>5. 1 \in 1..Len(dist) /\ dist'[1] = q
      BY <1>1, <2>2
  <2> QED
      BY <1>1, <2>3, <2>4, <2>5
<1> QED
    BY <1>2, <1>3

\* A tick that is answered loses no key of the live session.
LEMMA QuietProcess ==
    ASSUME TypeOK, ~NetFails, out # NoOut, Reachable, ProcessDistribution
    PROVE  /\ \A k \in Keyed : k.sid = out.sid => k \in Keyed'
           /\ \A i \in DOMAIN dist' :
                dist'[i].sid = out.sid => Wrappable(dist'[i], olm')
<1>1. dist # <<>>
    BY DEF ProcessDistribution
<1>2. PICK chunk \in Chunks(Head(dist).todo) :
        \E est \in Establish(Head(dist), chunk) :
            LET pd == Wrapped(Head(dist), chunk, est)
            IN  /\ olm' = olm \cup est
                /\ \/ SkipChunk(pd)
                   \/ Delivered(pd)
                   \/ NotDelivered(pd)
    BY DEF ProcessDistribution
<1>3. PICK est \in Establish(Head(dist), chunk) :
            LET pd == Wrapped(Head(dist), chunk, est)
            IN  /\ olm' = olm \cup est
                /\ \/ SkipChunk(pd)
                   \/ Delivered(pd)
                   \/ NotDelivered(pd)
    BY <1>2
<1> DEFINE pd == Wrapped(Head(dist), chunk, est)
<1>4. /\ pd \in Job
      /\ pd.sid = Head(dist).sid /\ pd.idx = Head(dist).idx
      /\ pd.otk = Head(dist).otk
      /\ pd.todo = Head(dist).todo \ chunk
      /\ pd.msgs = Head(dist).msgs \cup (chunk \cap (olm \cup est))
      /\ chunk \subseteq Head(dist).todo
    BY <1>1, WrappedFacts
<1>5. SkipChunk(pd) \/ Delivered(pd)
    BY <1>3 DEF NotDelivered
<1>6. est = (chunk \cap Head(dist).otk) \ olm /\ olm' = olm \cup est
    BY <1>3 DEF Establish, Outcomes
<1> HIDE DEF pd
<1>7. /\ Head(dist) = dist[1] /\ 1 \in DOMAIN dist
    BY <1>1, HeadTailProperties, EmptySeq, LenProperties DEF TypeOK, KeysType
<1>8. pd.sid = out.sid => /\ Waiting(pd) = Waiting(dist[1])
                          /\ Wrappable(pd, olm)
    BY <1>4, <1>6, <1>7 DEF Reachable, Waiting, Wrappable
<1>9. PICK q \in Job :
        /\ q.sid = pd.sid /\ q.idx = pd.idx /\ q.todo = pd.todo /\ q.otk = pd.otk
        /\ dist' = Tail(dist) \/ dist' = <<q>> \o Tail(dist)
        /\ q.todo # {} => dist' = <<q>> \o Tail(dist)
        /\ \A u \in pd.msgs : KeyOf(u, pd.sid, pd.idx) \in held'
        /\ held \subseteq held'
  <2>1. CASE SkipChunk(pd)
      BY <2>1, <1>4 DEF SkipChunk, Advance
  <2>2. CASE Delivered(pd)
    <3> DEFINE q == [pd EXCEPT !.msgs = {}, !.retries = 0]
    <3>1. 0 \in 0..MaxRetries
        BY ChunkAssumption
    <3>2. /\ q \in Job /\ q.sid = pd.sid /\ q.idx = pd.idx
          /\ q.todo = pd.todo /\ q.otk = pd.otk
        BY <1>4, <3>1 DEF Job
    <3>3. dist' = IF q.todo = {} THEN Tail(dist) ELSE <<q>> \o Tail(dist)
        BY <2>2 DEF Delivered, Advance
    <3>4. held' = held \cup {KeyOf(u, pd.sid, pd.idx) : u \in pd.msgs}
        BY <2>2 DEF Delivered, KeysOf, KeyOf
    <3> HIDE DEF q
    <3> QED
        BY <3>2, <3>3, <3>4
  <2> QED
      BY <1>5, <2>1, <2>2
<1>10. /\ \A j \in DOMAIN dist : j = 1 \/ \E i \in DOMAIN dist' : dist'[i] = dist[j]
       /\ \A i \in DOMAIN dist' : \/ dist'[i] = q
                                  \/ \E j \in DOMAIN dist : dist'[i] = dist[j]
       /\ dist' = <<q>> \o Tail(dist) => \E i \in DOMAIN dist' : dist'[i] = q
    BY <1>1, <1>9, QueueAfter
<1>11. ASSUME NEW k \in Keyed, k.sid = out.sid
       PROVE  k \in Keyed'
  <2>1. CASE k \in held
      BY <2>1, <1>9, KeyedMemberNext
  <2>2. CASE k \notin held
    <3>1. PICK j \in DOMAIN dist : \E u \in Waiting(dist[j]) :
                    k = KeyOf(u, dist[j].sid, dist[j].idx)
        BY <2>2, KeyedMember
    <3>2. PICK u \in Waiting(dist[j]) : k = KeyOf(u, dist[j].sid, dist[j].idx)
        BY <3>1
    <3>3. CASE j # 1
        BY <3>2, <3>3, <1>10, KeyedMemberNext
    <3>4. CASE j = 1
      <4>1. pd.sid = out.sid /\ k = KeyOf(u, pd.sid, pd.idx)
          BY <3>2, <3>4, <1>4, <1>7, <1>11, NewKeySid
      <4>2. u \in Waiting(pd)
          BY <3>2, <3>4, <4>1, <1>8
      <4>3. CASE u \in pd.msgs
          BY <4>1, <4>3, <1>9, KeyedMemberNext
      <4>4. CASE u \in pd.todo
        <5>1. PICK i \in DOMAIN dist' : dist'[i] = q
            BY <4>4, <1>9, <1>10
        <5>2. u \in Waiting(q) /\ k = KeyOf(u, q.sid, q.idx)
            BY <4>1, <4>4, <1>9 DEF Waiting
        <5> QED
            BY <5>1, <5>2, KeyedMemberNext
      <4> QED
          BY <4>2, <4>3, <4>4 DEF Waiting
    <3> QED
        BY <3>3, <3>4
  <2> QED
      BY <2>1, <2>2
<1>12. ASSUME NEW i \in DOMAIN dist', dist'[i].sid = out.sid
       PROVE  Wrappable(dist'[i], olm')
  <2>1. CASE dist'[i] = q
      BY <2>1, <1>6, <1>8, <1>9, <1>12 DEF Wrappable
  <2>2. CASE \E j \in DOMAIN dist : dist'[i] = dist[j]
      BY <2>2, <1>6, <1>12 DEF Wrappable, Reachable
  <2> QED
      BY <2>1, <2>2, <1>10
<1> QED
    BY <1>11, <1>12

\* The part of the invariant for the quiet world.
QuietInv == Reachable /\ MembersKeyed

\* In the world where nothing goes wrong, every action keeps the members keyed.
LEMMA QuietStep ==
    StateInv /\ world = {} /\ SafeInv /\ QuietInv /\ [Next]_vars => QuietInv'
<1> SUFFICES ASSUME StateInv, world = {}, SafeInv, QuietInv, [Next]_vars PROVE QuietInv'
    OBVIOUS
<1>w. ~NetFails /\ ~FullSyncs /\ ~QuickRejoin
    BY DEF NetFails, FullSyncs, QuickRejoin
<1>n. ASSUME out' = NoOut PROVE QuietInv'
    BY <1>n DEF QuietInv, Reachable, MembersKeyed
<1>1. CASE Enter
  <2>1. out = NoOut
      BY <1>1 DEF Enter, StateInv, PhaseFits, OutLives
  <2>2. CASE session
    <3>1. olm' \subseteq Users
        BY <1>1, <2>2, InitCryptoType DEF Enter, StateInv
    <3>2. out' = NoOut
        BY <1>1, <2>1, <2>2, <3>1, FullFacts DEF Enter
    <3> QED
        BY <3>2, <1>n
  <2>3. CASE ~session
      BY <1>1, <1>n, <2>1, <2>3 DEF Enter
  <2> QED
      BY <2>2, <2>3
<1>2. CASE Stop
    BY <1>2, <1>n DEF Stop
<1>3. CASE Reset
    BY <1>3, <1>n DEF Reset
<1>4. CASE Login
  <2>1. olm' \subseteq Users
      BY <1>4, InitCryptoType, ToDeviceType DEF Login, StateInv
  <2>2. out' = NoOut
      BY <1>4, <1>w, <2>1, FullFacts DEF Login
  <2> QED
      BY <2>2, <1>n
<1>5. CASE EnterRecoveryKey
  <2>1. CASE out = NoOut
      BY <1>5, <1>n, <2>1 DEF EnterRecoveryKey
  <2>2. CASE out # NoOut
    <3>1. crypto # "none"
        BY <2>2 DEF StateInv, OutLives
    <3>2. Keyed' = Keyed /\ olm' = olm
        BY <1>5, <3>1, KeyedSame DEF EnterRecoveryKey
    <3> QED
        BY <1>5, <3>2 DEF EnterRecoveryKey, QuietInv, Reachable, MembersKeyed, server
  <2> QED
      BY <2>1, <2>2
<1>6. CASE Sync
  <2>1. olm' \subseteq Users /\ olm \subseteq olm'
      BY <1>6, ToDeviceType DEF Sync, StateInv
  <2>2. PICK spoke \in SUBSET {u \in srv : pending[u] = "none"} :
            Merge({u \in Users : pending[u] = "join"} \cup spoke,
                  {u \in Users : pending[u] = "leave"}, olm')
      BY <1>6 DEF Sync
  <2>3. PICK joins \in SUBSET Users, leaves \in SUBSET Users, have \in SUBSET Users :
            /\ Merge(joins, leaves, have)
            /\ {u \in Users : pending[u] = "join"} \subseteq joins
            /\ leaves = {u \in Users : pending[u] = "leave"}
            /\ have = olm'
    <3>1. srv \subseteq Users
        BY DEF StateInv, TypeOK, ServerType
    <3> QED
        BY <2>1, <2>2, <3>1
  <2>4. TypeOK /\ OutLives /\ held' = held
      BY <1>6 DEF Sync, StateInv
  <2>5. /\ leaves # {} => out' = NoOut
        /\ leaves = {} => out' = out
        /\ Keyed \subseteq Keyed'
      BY <2>3, <2>4, MergeFacts, Zenon
  <2>6. CASE leaves # {} \/ out = NoOut
      BY <2>5, <2>6, <1>n
  <2>7. CASE leaves = {} /\ out # NoOut
    <3>1. Merge(joins, {}, have)
        BY <2>3, <2>7
    <3>2. /\ \A u \in joins \ members : KeyOf(u, out.sid, out.idx) \in Keyed'
          /\ \A i \in DOMAIN dist' :
               \/ i \in DOMAIN dist /\ dist'[i] = dist[i]
               \/ Wrappable(dist'[i], have)
        BY <1>w, <2>4, <2>7, <3>1, QuietMerge, Zenon
    <3>3. out' = out
        BY <2>5, <2>7
    <3>4. Reachable'
        BY <2>1, <2>3, <2>7, <3>2, <3>3 DEF QuietInv, Reachable, Wrappable
    <3>5. room /\ phase # "members" /\ srv' = srv
        BY <1>6, <1>w, <2>7 DEF Sync
    <3>6. ASSUME NEW u \in srv
          PROVE  \E k \in Keyed' : k.user = u /\ k.sid = out.sid
      <4>1. u \in Users /\ pending[u] \in {"none", "join"}
          BY <2>3, <2>7 DEF StateInv, TypeOK, ServerType
      <4>2. CASE pending[u] = "none" \/ u \in members
          BY <2>5, <2>7, <3>5, <4>2 DEF QuietInv, MembersKeyed
      <4>3. CASE pending[u] = "join" /\ u \notin members
        <5>1. KeyOf(u, out.sid, out.idx) \in Keyed'
            BY <2>3, <3>2, <4>1, <4>3
        <5> QED
            BY <5>1, NewKeySid
      <4> QED
          BY <4>1, <4>2, <4>3
    <3> QED
        BY <3>3, <3>4, <3>5, <3>6 DEF QuietInv, MembersKeyed
  <2> QED
      BY <2>6, <2>7
<1>7. CASE SyncSkipped
    BY <1>7, <1>w DEF SyncSkipped
<1>8. CASE FullSync
    BY <1>8, <1>w DEF FullSync
<1>9. CASE LeaveRoom
    BY <1>9 DEF LeaveRoom, keys, QuietInv, Reachable, MembersKeyed
<1>10. CASE Send
  <2>1. Keyed' = Keyed /\ UNCHANGED <<dist, olm, srv, pending, members, room>>
      BY <1>10, KeyedSame DEF Send, keys, server
  <2>2. CASE out = NoOut
    <3>1. out'.sid = sessions + 1 /\ phase' = "members"
        BY <1>10, <2>2 DEF Send
    <3>2. ASSUME NEW i \in DOMAIN dist, dist[i].sid = sessions + 1, NEW u \in dist[i].todo
          PROVE  FALSE
      <4> DEFINE k == KeyOf(u, dist[i].sid, dist[i].idx)
      <4>1. u \in Waiting(dist[i])
          BY <3>2 DEF Waiting
      <4>2. k.sid = sessions + 1
          BY <3>2, NewKeySid
      <4>3. k = KeyOf(u, dist[i].sid, dist[i].idx)
          OBVIOUS
      <4> HIDE DEF k
      <4>4. k \in Keyed
          BY <4>1, <4>3, KeyedMember
      <4>5. sessions \in Nat
          BY DEF StateInv, TypeOK, KeysType
      <4> QED
          BY <4>2, <4>4, <4>5 DEF StateInv, SidsBound
    <3> QED
        BY <2>1, <3>1, <3>2 DEF QuietInv, Reachable, MembersKeyed
  <2>3. CASE out # NoOut
    <3>1. out \in [sid : 0..MaxSessions, idx : Nat]
        BY DEF StateInv, TypeOK, RamType
    <3>2. out'.sid = out.sid /\ phase # "members"
        BY <1>10, <2>3, <3>1 DEF Send, Running
    <3> QED
        BY <2>1, <2>3, <3>2 DEF QuietInv, Reachable, MembersKeyed
  <2> QED
      BY <2>2, <2>3
<1>11. CASE Distribute
  <2>1. /\ \A u \in srv : KeyOf(u, out.sid, 0) \in Keyed'
        /\ \A i \in DOMAIN dist' :
             \/ i \in DOMAIN dist /\ dist'[i] = dist[i]
             \/ Wrappable(dist'[i], olm)
      BY <1>11, <1>w, QuietDistribute
  <2>2. UNCHANGED <<srv, out, olm>>
      BY <1>11 DEF Distribute, server
  <2>3. Reachable'
      BY <2>1, <2>2 DEF QuietInv, Reachable, Wrappable
  <2>4. MembersKeyed'
      BY <2>1, <2>2, NewKeySid DEF MembersKeyed
  <2> QED
      BY <2>3, <2>4 DEF QuietInv
<1>12. CASE ProcessDistribution
  <2>1. CASE out = NoOut
      BY <1>12, <1>n, <2>1 DEF ProcessDistribution, ram
  <2>2. CASE out # NoOut
    <3>1. TypeOK /\ Reachable
        BY DEF StateInv, QuietInv
    <3>2. /\ \A k \in Keyed : k.sid = out.sid => k \in Keyed'
          /\ \A i \in DOMAIN dist' :
               dist'[i].sid = out.sid => Wrappable(dist'[i], olm')
        BY <1>12, <1>w, <2>2, <3>1, QuietProcess
    <3>3. UNCHANGED <<srv, pending, out, members, room, phase>>
        BY <1>12 DEF ProcessDistribution, server, ram
    <3>4. Reachable'
        BY <3>2, <3>3 DEF Reachable, Wrappable
    <3>5. MembersKeyed'
        BY <3>2, <3>3 DEF QuietInv, MembersKeyed
    <3> QED
        BY <3>4, <3>5 DEF QuietInv
  <2> QED
      BY <2>1, <2>2
<1>13. CASE DropDistribution
    BY <1>13, <1>n DEF DropDistribution, ram, StateInv, OutLives
<1>14. ASSUME NEW u \in Users, ServerJoin(u) \/ ServerLeave(u)
       PROVE  QuietInv'
  <2>1. Keyed' = Keyed /\ UNCHANGED <<room, members, out, dist, olm, phase>>
      BY <1>14, KeyedSame DEF ServerJoin, ServerLeave, keys, ram
  <2>2. Reachable'
      BY <2>1 DEF QuietInv, Reachable
  <2>3. CASE ServerLeave(u)
    <3>1. srv' = srv \ {u} /\ \A v \in srv' : pending'[v] = pending[v]
        BY <2>3 DEF ServerLeave, StateInv, TypeOK, ServerType
    <3> QED
        BY <2>1, <2>2, <3>1 DEF QuietInv, MembersKeyed
  <2>4. CASE ServerJoin(u)
    <3>1. u \notin srv /\ pending[u] # "leave" /\ u \notin members
        BY <1>w, <2>4 DEF ServerJoin, SafeInv, MembersKnown
    <3>2. /\ srv' = srv \cup {u} /\ pending'[u] = "join"
          /\ \A v \in srv : pending'[v] = pending[v]
        BY <2>4, <3>1 DEF ServerJoin, StateInv, TypeOK, ServerType
    <3> QED
        BY <2>1, <2>2, <3>1, <3>2 DEF QuietInv, MembersKeyed
  <2> QED
      BY <1>14, <2>3, <2>4
<1>15. CASE UNCHANGED vars
  <2>1. Keyed' = Keyed
      BY <1>15, KeyedSame DEF vars, keys
  <2> QED
      BY <1>15, <2>1 DEF vars, server, ram, keys, QuietInv, Reachable, MembersKeyed
<1> QED
    BY <1>1, <1>2, <1>3, <1>4, <1>5, <1>6, <1>7, <1>8, <1>9, <1>10, <1>11,
       <1>12, <1>13, <1>14, <1>15 DEF Next, Step, Tick

-----------------------------------------------------------------------------
(* The theorems.                                                           *)

\* The inductive invariant holds throughout.
LEMMA Induction == Spec => []IInv
<1>1. Init => IInv
  <2> SUFFICES ASSUME Init PROVE IInv
      OBVIOUS
  <2>1. Reachable /\ MembersKeyed
      BY DEF Init, Reachable, MembersKeyed
  <2> QED
      BY <2>1, StateInit, SafeInit DEF IInv
<1>2. IInv /\ [Next]_vars => IInv'
  <2> SUFFICES ASSUME IInv, [Next]_vars PROVE IInv'
      OBVIOUS
  <2>1. StateInv'
      BY StateStep DEF IInv
  <2>2. world' = world
      BY DEF Next, vars
  <2>3. FullSyncs' <=> FullSyncs
      BY <2>2 DEF FullSyncs
  <2>4. ~FullSyncs => SafeInv'
      BY SafeStep DEF IInv
  <2>5. world = {} => ~FullSyncs
      BY DEF FullSyncs
  <2>6. world = {} => QuietInv'
      BY <2>5, QuietStep DEF IInv, QuietInv
  <2> QED
      BY <2>1, <2>2, <2>3, <2>4, <2>6 DEF IInv, QuietInv
<1> QED
    BY <1>1, <1>2, PTL DEF Spec

\* A user whose leave the badge has synced has no key of the live session,
\* held or queued (sync_now rotates): for any number of users, chunk size,
\* retries and failing requests, as long as no full sync skips the leave.
THEOREM DepartedAreLockedOut == Spec => []Rotated
<1>1. IInv => Rotated
    BY DEF IInv, SafeInv, Rotated
<1> QED
    BY <1>1, Induction, PTL

\* Whoever can or will read a message was one of its recipients: a later
\* joiner gets the key at its current index (share_outbound_key).
THEOREM AudienceIsRecipients == Spec => []AudienceOnly
<1>1. IInv => AudienceOnly
    BY DEF IInv, SafeInv, ReadersAreRecipients, AudienceOnly
<1> QED
    BY <1>1, Induction, PTL

\* A recipient with a key of the session reads every message addressed to it,
\* the first one included, which leaves before its key does (e2ee_send).
THEOREM RecipientsCanRead == Spec => []RecipientCanRead
<1>1. IInv => RecipientCanRead
    BY DEF IInv, SafeInv, ReadersAreRecipients, RecipientCanRead
<1> QED
    BY <1>1, Induction, PTL

\* With requests that are answered and no unseen rejoin, everyone in the room
\* has the live key or is queued for it: skipping a recipient without an Olm
\* session (process_distribution) never skips a member.
THEOREM MembersAreKeyed == Spec => []EveryMemberKeyed
<1>1. IInv => EveryMemberKeyed
    BY DEF IInv, MembersKeyed, EveryMemberKeyed
<1> QED
    BY <1>1, Induction, PTL
=============================================================================
