------------------------- MODULE PrintDriverProofs -------------------------
(***************************************************************************)
(* Proofs about PrintDriver, for every value of its constants.             *)
(*                                                                         *)
(* Type correctness and the refinement of FeatureJob need nothing of the   *)
(* host.  The invariants on the queue, the transfer and the job need one   *)
(* assumption: the host delivers no completion of a link the driver has    *)
(* dropped (~LateEvents).                                                  *)
(***************************************************************************)
EXTENDS PrintDriver, TLAPS

TypeInv ==
    /\ TypeOK
    /\ after = "NextPage" <=> lines # NoLines

\* The send cursor at rest.
LEMMA NoSendType ==
    NoSend \in [ras : Raster \cup {NoRas}, row : Nat, finished : BOOLEAN,
                buf : 0..MaxChunks, out : Nat, gated : BOOLEAN,
                sinceGate : Nat, paused : 0..PauseMax]
  BY SizesAssumption, BoundsAssumption
     DEF SizesAssumption, BoundsAssumption, NoSend

\* A change of the driver's state that ends a send.
LEMMA BecomeType ==
    ASSUME NEW v \in {"Idle", "Scanning", "Connecting", "Discovering"},
           NEW t \in Nat, Become(v, t)
    PROVE  DriveType'
  BY NoSendType DEF Become, DriveType

\* clear_queue drops what is queued and reports a failed job.
LEMMA ClearQueueType ==
    ASSUME NEW ja \in BOOLEAN, TypeOK, ClearQueue(ja), NoReply
    PROVE  QueueType' /\ FeatureType' /\ (after = "NextPage" <=> lines # NoLines)'
<1>1. QueueType'
  BY SizesAssumption DEF SizesAssumption, ClearQueue, QueueType
<1>2. FeatureType'
  BY DEF ClearQueue, FinishJob, NoReply, TypeOK, FeatureType
<1>3. (after = "NextPage" <=> lines # NoLines)'
  BY DEF ClearQueue
<1> QED
  BY <1>1, <1>2, <1>3

\* reset_link forgets the peer and its handles.
LEMMA ResetLinkType ==
    ASSUME NEW c \in Peers \cup {NoPeer}, NEW d \in Nat, NEW a \in Nat, 
           TypeOK, ResetLink(c, d, a)
    PROVE  LinkType' /\ RadioType'
  BY DEF ResetLink, TypeOK, LinkType, RadioType

\* A print that fails takes the driver back to idle.
LEMMA FailPrintType ==
    ASSUME NEW c \in Peers \cup {NoPeer}, NEW d \in Nat, NEW a \in Nat,
           TypeOK, FailPrint(c, d, a), NoReply, rescanIn' \in 0..RescanInterval
    PROVE  TypeInv'
<1>1. jobActive \in BOOLEAN
  BY DEF TypeOK, FeatureType
<1>2. DriveType'
  BY BecomeType DEF FailPrint
<1>3. LinkType' /\ RadioType'
  BY ResetLinkType DEF FailPrint
<1>4. QueueType' /\ FeatureType' /\ (after = "NextPage" <=> lines # NoLines)'
  BY <1>1, ClearQueueType DEF FailPrint
<1>5. MenuType' /\ prints' \in 0..MaxPrints /\ fulls' \in 0..MaxFull
  BY DEF FailPrint, TypeOK, MenuType, list
<1> QED
  BY <1>2, <1>3, <1>4, <1>5 DEF TypeInv, TypeOK

\* A countdown stops at zero.
LEMMA DownType ==
    ASSUME NEW n \in Nat
    PROVE  Down(n) \in Nat /\ Down(n) <= n
  BY DEF Down

\* The rescan countdown stays within its interval.
LEMMA RescanType ==
    TypeOK => Down(rescanIn) \in 0..RescanInterval
  BY BoundsAssumption DEF BoundsAssumption, TypeOK, MenuType, Down

\* A call that reports nothing leaves the job's slot as it is.
LEMMA QuietType ==
    ASSUME TypeOK, Quiet, NoReply
    PROVE  FeatureType'
  BY DEF Quiet, NoReply, TypeOK, FeatureType

\* begin_send puts the setup frames in the buffer and takes the queued raster.
LEMMA BeginSendType ==
    ASSUME NEW ras \in Raster, BeginSend(ras)
    PROVE  DriveType' /\ pending' = NoRas
<1>1. PICK n \in 1..MaxChunks : snd' = [NoSend EXCEPT !.ras = ras, !.buf = n]
  BY DEF BeginSend
<1>2. n \in 0..MaxChunks
  BY SizesAssumption DEF SizesAssumption
<1>3. snd' \in [ras : Raster \cup {NoRas}, row : Nat, finished : BOOLEAN,
                buf : 0..MaxChunks, out : Nat, gated : BOOLEAN,
                sinceGate : Nat, paused : 0..PauseMax]
  BY <1>1, <1>2, NoSendType DEF NoSend
<1> QED
  BY <1>3 DEF BeginSend, DriveType

\* Text is left over exactly when a next page is due.
LEMMA RemainingType ==
    ASSUME NEW text \in Lines \cup {NoLines}, Remaining(text)
    PROVE  /\ lines' \in Lines \cup {NoLines}
           /\ after' \in {"Nothing", "NextPage"}
           /\ (after = "NextPage" <=> lines # NoLines)'
  BY DEF Remaining

\* Starting a print from an idle driver, on each of its four ways.
LEMMA StartPrintType ==
    ASSUME NEW ja \in BOOLEAN, NEW ras \in Raster,
           NEW text \in Lines \cup {NoLines}, text.n < MaxPages,
           TypeInv, reply' \in {"none", "OK"}, StartPrint(ja, ras, text)
    PROVE  TypeInv'
<1>1. /\ LinkType' /\ rescanIn' = rescanIn /\ saved' = saved
      /\ fulls' \in 0..MaxFull /\ prints' \in 0..MaxPrints
  BY BoundsAssumption
     DEF BoundsAssumption, TypeInv, TypeOK, StartPrint, LinkType, link, Raster
<1>2. 1 + text.n \in 0..MaxPages
  BY SizesAssumption DEF SizesAssumption, Lines, NoLines
<1>3. ConnectTimeout \in Nat
  BY BoundsAssumption DEF BoundsAssumption
<1>4. KeepJob(ja) => FeatureType'
  BY DEF TypeInv, TypeOK, FeatureType, KeepJob
<1>5. CASE StartDropped(ja)
  <2>1. DriveType' /\ RadioType' /\ MenuType'
    BY <1>1, <1>5 DEF StartDropped, TypeInv, TypeOK, DriveType, RadioType,
       MenuType, drv, list, radio
  <2>2. QueueType' /\ (after = "NextPage" <=> lines # NoLines)'
    BY <1>5, SizesAssumption DEF SizesAssumption, StartDropped, ClearQueue, QueueType
  <2>3. FeatureType'
    BY <1>5 DEF StartDropped, ClearQueue, FinishJob, TypeInv, TypeOK, FeatureType
  <2> QED
    BY <1>1, <2>1, <2>2, <2>3 DEF TypeInv, TypeOK
<1>6. CASE StartOnLink(ja, ras, text)
  <2>1. DriveType' /\ pending' = NoRas
    BY <1>6, BeginSendType DEF StartOnLink
  <2>2. QueueType' /\ (after = "NextPage" <=> lines # NoLines)'
    BY <1>6, <1>2, <2>1, RemainingType DEF StartOnLink, QueueType
  <2>3. RadioType' /\ MenuType'
    BY <1>1, <1>6 DEF StartOnLink, TypeInv, TypeOK, RadioType, MenuType, list, radio
  <2> QED
    BY <1>1, <1>4, <1>6, <2>1, <2>2, <2>3 DEF TypeInv, TypeOK, StartOnLink
<1>7. CASE StartConnect(ja, ras, text)
  <2>1. DriveType'
    BY <1>3, <1>7, BecomeType DEF StartConnect
  <2>2. QueueType' /\ (after = "NextPage" <=> lines # NoLines)'
    BY <1>7, <1>2, RemainingType DEF StartConnect, QueueType
  <2>3. RadioType' /\ MenuType'
    BY <1>1, <1>7 DEF StartConnect, TypeInv, TypeOK, RadioType, MenuType, list
  <2> QED
    BY <1>1, <1>4, <1>7, <2>1, <2>2, <2>3 DEF TypeInv, TypeOK, StartConnect
<1>8. CASE StartScan(ja, ras, text)
  <2>1. DriveType'
    BY <1>8, BecomeType DEF StartScan
  <2>2. QueueType' /\ (after = "NextPage" <=> lines # NoLines)'
    BY <1>8, <1>2, RemainingType DEF StartScan, QueueType
  <2>3. RadioType' /\ MenuType'
    BY <1>1, <1>8 DEF StartScan, TypeInv, TypeOK, RadioType, MenuType
  <2> QED
    BY <1>1, <1>4, <1>8, <2>1, <2>2, <2>3 DEF TypeInv, TypeOK, StartScan
<1> QED
  BY <1>5, <1>6, <1>7, <1>8 DEF StartPrint

\* Every way a print starts from idle.
LEMMA NewPrintType ==
    ASSUME NEW ja \in BOOLEAN, TypeInv, reply' \in {"none", "OK"}, NewPrint(ja)
    PROVE  TypeInv'
<1>1. PICK h \in Heights, n \in 0..(MaxPages - 1) :
          StartPrint(ja, [id |-> prints + 1, page |-> 1, h |-> h],
                     IF n = 0 THEN NoLines
                              ELSE [id |-> prints + 1, n |-> n])
  BY DEF NewPrint
<1> DEFINE ras == [id |-> prints + 1, page |-> 1, h |-> h]
           text == IF n = 0 THEN NoLines ELSE [id |-> prints + 1, n |-> n]
<1>2. prints + 1 \in 1..MaxPrints
  BY BoundsAssumption DEF BoundsAssumption, NewPrint, TypeInv, TypeOK
<1>3. ras \in Raster
  BY <1>2 DEF Raster
<1>4. text \in Lines \cup {NoLines} /\ text.n < MaxPages
  BY <1>2, SizesAssumption DEF SizesAssumption, Lines, NoLines
<1> HIDE DEF ras, text
<1>5. StartPrint(ja, ras, text)
  BY <1>1 DEF ras, text
<1> QED
  BY <1>3, <1>4, <1>5, StartPrintType

\* Which records the Sending payload can be after a write.
LEMMA WrittenType ==
    ASSUME TypeOK, NEW n \in 1..MaxChunks, snd.ras # NoRas, ~Consumed(snd)
    PROVE  LET s == Refill([snd EXCEPT !.paused = Down(@)], n)
           IN  Written(s) \in
                 [ras : Raster \cup {NoRas}, row : Nat, finished : BOOLEAN,
                  buf : 0..MaxChunks, out : Nat, gated : BOOLEAN,
                  sinceGate : Nat, paused : 0..PauseMax]
<1> DEFINE R == [ras : Raster \cup {NoRas}, row : Nat, finished : BOOLEAN,
                  buf : 0..MaxChunks, out : Nat, gated : BOOLEAN,
                  sinceGate : Nat, paused : 0..PauseMax]
           p == [snd EXCEPT !.paused = Down(@)]
           s == Refill(p, n)
<1>1. p \in R
  BY BoundsAssumption DEF BoundsAssumption, TypeOK, DriveType, Down
<1>2. n \in 0..MaxChunks /\ n >= 1
  BY SizesAssumption DEF SizesAssumption
<1>3. p.ras.h \in Nat
  BY <1>1, SizesAssumption DEF SizesAssumption, Raster, NoRas
<1>4. s \in R /\ s.buf >= 1
  <2>1. CASE p.buf > 0
    BY <1>1, <2>1 DEF Refill
  <2>2. CASE ~(p.buf > 0) /\ p.row < p.ras.h
    <3>1. Least(p.row + RowsPerRefill, p.ras.h) \in Nat
      BY <1>1, <1>3, SizesAssumption DEF SizesAssumption, Least
    <3> QED
      BY <1>1, <1>2, <2>2, <3>1 DEF Refill
  <2>3. CASE ~(p.buf > 0) /\ ~(p.row < p.ras.h)
    BY <1>1, <1>2, <2>3 DEF Refill
  <2> QED
    BY <2>1, <2>2, <2>3
<1> HIDE DEF s
<1>5. WithResponse(s) \in BOOLEAN
  BY DEF WithResponse
<1>6. /\ 0 \in 0..PauseMax
      /\ s.buf - 1 \in 0..MaxChunks
      /\ (IF s.buf = 1 THEN s.row ELSE s.out) \in Nat
      /\ (IF WithResponse(s) THEN 0 ELSE s.sinceGate + 1) \in Nat
  BY <1>4, SizesAssumption, BoundsAssumption DEF SizesAssumption, BoundsAssumption
<1>7. Written(s) \in R
  BY <1>4, <1>5, <1>6 DEF Written
<1> QED
  BY <1>7 DEF s

\* on_send_complete with lines left composes a page of the same text.
LEMMA LinesLeftType ==
    ASSUME TypeInv, after = "NextPage"
    PROVE  LinesLeft \in Lines \cup {NoLines} /\ lines.id \in 1..MaxPrints
<1>1. lines \in Lines
  BY DEF TypeInv, TypeOK, QueueType
<1>2. lines.n \in 1..MaxPages /\ lines.id \in 1..MaxPrints
  BY <1>1 DEF Lines
<1>3. CASE lines.n = 1
  BY <1>2, <1>3 DEF LinesLeft
<1>4. CASE lines.n # 1
  <2>1. lines.n - 1 \in 1..MaxPages
    BY <1>2, <1>4, SizesAssumption DEF SizesAssumption
  <2>2. [lines EXCEPT !.n = @ - 1] \in Lines
    BY <1>1, <2>1 DEF Lines
  <2> QED
    BY <1>2, <1>4, <2>2 DEF LinesLeft
<1> QED
  BY <1>3, <1>4

\* A tick of the send pump.
LEMMA TickSendingType ==
    TypeInv /\ Buffered /\ TickSending => TypeInv'
<1> SUFFICES ASSUME TypeInv, Buffered, TickSending PROVE TypeInv'
  OBVIOUS
<1> DEFINE p == [snd EXCEPT !.paused = Down(@)]
<1>0. /\ rescanIn' \in 0..RescanInterval /\ NoReply
      /\ conn \in Peers \cup {NoPeer} /\ discs \in Nat /\ acks \in Nat
      /\ drive = "Sending" /\ snd.ras # NoRas /\ snd.ras \in Raster
  BY RescanType DEF TickSending, TypeInv, TypeOK, LinkType, RadioType, Peers,
     Buffered, DriveType
<1>f. FailPrint(conn, discs, acks) => TypeInv'
  BY <1>0, FailPrintType DEF TypeInv
<1>1. CASE /\ snd' = p /\ Quiet
           /\ UNCHANGED <<drive, timer, queue, link, list, saved, radio,
                          prints, fulls>>
  <2>1. DriveType'
    BY <1>1, BoundsAssumption
       DEF BoundsAssumption, TypeInv, TypeOK, DriveType, Down
  <2>2. QueueType' /\ LinkType' /\ RadioType' /\ MenuType'
    BY <1>0, <1>1 DEF TypeInv, TypeOK, QueueType, LinkType, RadioType, MenuType,
       queue, link, radio, list
  <2>3. FeatureType'
    BY <1>0, <1>1, QuietType DEF TypeInv
  <2> QED
    BY <1>1, <2>1, <2>2, <2>3 DEF TypeInv, TypeOK, queue
<1>2. CASE \E n \in 1..MaxChunks : ~Consumed(p) /\ WriteChunk(Refill(p, n))
  <2>1. PICK n \in 1..MaxChunks : ~Consumed(p) /\ WriteChunk(Refill(p, n))
    BY <1>2
  <2> DEFINE s == Refill(p, n)
  <2>2. CASE /\ snd' = Written(s)
             /\ acks' = IF WithResponse(s) THEN acks + 1 ELSE acks
             /\ Quiet
             /\ UNCHANGED <<drive, timer, queue, link, list, saved, bleOn,
                            hostLink, hostReq, scan, discs, prints, fulls>>
    <3>1. ~Consumed(snd)
      BY <2>1 DEF Consumed, TypeInv, TypeOK, DriveType
    <3>2. DriveType'
      BY <1>0, <2>2, <3>1, WrittenType DEF TypeInv, TypeOK, DriveType
    <3>3. acks' \in Nat
      BY <1>0, <2>2
    <3>4. QueueType' /\ LinkType' /\ RadioType' /\ MenuType'
      BY <1>0, <2>2, <3>3 DEF TypeInv, TypeOK, QueueType, LinkType, RadioType,
         MenuType, queue, link, list
    <3>5. FeatureType'
      BY <1>0, <2>2, QuietType DEF TypeInv
    <3> QED
      BY <2>2, <3>2, <3>4, <3>5 DEF TypeInv, TypeOK, queue
  <2> QED
    BY <1>f, <2>1, <2>2 DEF WriteChunk
<1>3. CASE NextPage
  <2>1. PICK h \in Heights :
            BeginSend([id |-> lines.id, page |-> snd.ras.page + 1, h |-> h])
    BY <1>3 DEF NextPage
  <2>2. LinesLeft \in Lines \cup {NoLines} /\ lines.id \in 1..MaxPrints
    BY <1>3, LinesLeftType DEF NextPage
  <2>3. [id |-> lines.id, page |-> snd.ras.page + 1, h |-> h] \in Raster
    BY <1>0, <2>2 DEF Raster
  <2>4. DriveType' /\ pending' = NoRas
    BY <2>1, <2>3, BeginSendType
  <2>5. todo' \in 0..MaxPages
    BY <1>3, SizesAssumption
       DEF SizesAssumption, NextPage, Todo, Down, TypeInv, TypeOK, QueueType
  <2>6. QueueType' /\ (after = "NextPage" <=> lines # NoLines)'
    BY <1>3, <2>2, <2>4, <2>5, RemainingType DEF NextPage, QueueType
  <2>7. LinkType' /\ RadioType' /\ MenuType'
    BY <1>0, <1>3 DEF NextPage, TypeInv, TypeOK, LinkType, RadioType, MenuType,
       link, radio, list
  <2>8. FeatureType'
    BY <1>0, <1>3, QuietType DEF NextPage, TypeInv
  <2> QED
    BY <1>3, <2>4, <2>6, <2>7, <2>8 DEF NextPage, TypeInv, TypeOK
<1>4. CASE Printed
  <2>1. DriveType'
    BY <1>4, BecomeType DEF Printed
  <2>2. todo' \in 0..MaxPages
    BY <1>4, SizesAssumption
       DEF SizesAssumption, Printed, Todo, Down, TypeInv, TypeOK, QueueType
  <2>3. QueueType' /\ (after = "NextPage" <=> lines # NoLines)'
    BY <1>4, <2>2, RemainingType DEF Printed, TypeInv, TypeOK, QueueType
  <2>4. LinkType' /\ RadioType' /\ MenuType'
    BY <1>0, <1>4 DEF Printed, TypeInv, TypeOK, LinkType, RadioType, MenuType,
       link, radio, list
  <2>5. FeatureType'
    BY <1>0, <1>4 DEF Printed, FinishJob, NoReply, TypeInv, TypeOK, FeatureType
  <2> QED
    BY <1>4, <2>1, <2>3, <2>4, <2>5 DEF Printed, TypeInv, TypeOK
<1> QED
  BY <1>1, <1>2, <1>3, <1>4, <1>f DEF TickSending, OnSendComplete

\* A tick that only counts down.
LEMMA WaitType ==
    ASSUME TypeInv, Wait, NoReply, rescanIn' \in 0..RescanInterval
    PROVE  TypeInv'
<1>1. DriveType'
  BY DownType DEF Wait, TypeInv, TypeOK, DriveType
<1>2. QueueType' /\ LinkType' /\ RadioType' /\ MenuType'
  BY DEF Wait, TypeInv, TypeOK, QueueType, LinkType, RadioType, MenuType,
     queue, link, radio, list
<1>3. FeatureType'
  BY QuietType DEF Wait, TypeInv
<1> QED
  BY <1>1, <1>2, <1>3 DEF Wait, TypeInv, TypeOK, queue

\* A tick while connecting or discovering.
LEMMA TickLinkType ==
    TypeInv /\ (TickConnecting \/ TickDiscovering) => TypeInv'
<1> SUFFICES ASSUME TypeInv, TickConnecting \/ TickDiscovering PROVE TypeInv'
  OBVIOUS
<1>0. /\ rescanIn' \in 0..RescanInterval /\ NoReply
      /\ conn \in Peers \cup {NoPeer} /\ discs \in Nat /\ acks \in Nat
      /\ hostLink \in Peers \cup {NoPeer}
  BY RescanType DEF TickConnecting, TickDiscovering, TypeInv, TypeOK, LinkType,
     RadioType, Peers
<1>1. ASSUME NEW c \in Peers \cup {NoPeer}, FailPrint(c, discs, acks)
      PROVE  TypeInv'
  BY <1>0, <1>1, FailPrintType DEF TypeInv
<1>2. Wait => TypeInv'
  BY <1>0, WaitType
<1>3. CASE hostLink # NoPeer /\ hostLink = saved /\ OnConnected
  <2>1. CASE /\ conn' = NoPeer
             /\ hostLink' = NoPeer
             /\ timer' = Down(timer)
             /\ Quiet
             /\ UNCHANGED <<drive, snd, queue, tx, rx, list, saved, bleOn,
                            hostReq, scan, discs, acks, prints, fulls>>
    <3>1. DriveType'
      BY <2>1, DownType DEF TypeInv, TypeOK, DriveType
    <3>2. QueueType' /\ LinkType' /\ RadioType' /\ MenuType'
      BY <1>0, <2>1 DEF TypeInv, TypeOK, QueueType, LinkType, RadioType,
         MenuType, queue, list
    <3>3. FeatureType'
      BY <1>0, <2>1, QuietType DEF TypeInv
    <3> QED
      BY <2>1, <3>1, <3>2, <3>3 DEF TypeInv, TypeOK, queue
  <2>2. CASE /\ conn' = hostLink
             /\ Become("Discovering", DiscoverTimeout)
             /\ discs' = discs + 1
             /\ Quiet
             /\ UNCHANGED <<queue, tx, rx, list, saved, bleOn, hostLink,
                            hostReq, scan, acks, prints, fulls>>
    <3>1. DriveType'
      BY <2>2, BecomeType, BoundsAssumption DEF BoundsAssumption
    <3>2. conn' \in Printers /\ discs' \in Nat
      BY <1>0, <1>3, <2>2 DEF TypeInv, TypeOK, MenuType
    <3>3. QueueType' /\ LinkType' /\ RadioType' /\ MenuType'
      BY <1>0, <2>2, <3>2 DEF TypeInv, TypeOK, QueueType, LinkType, RadioType,
         MenuType, queue, list
    <3>4. FeatureType'
      BY <1>0, <2>2, QuietType DEF TypeInv
    <3> QED
      BY <2>2, <3>1, <3>3, <3>4 DEF TypeInv, TypeOK, queue
  <2> QED
    BY <1>0, <1>1, <1>3, <2>1, <2>2 DEF OnConnected
<1> QED
  BY <1>0, <1>1, <1>2, <1>3 DEF TickConnecting, TickDiscovering

\* A tick while scanning or idle.
LEMMA TickScanType ==
    TypeInv /\ (TickScanning \/ TickIdle) => TypeInv'
<1> SUFFICES ASSUME TypeInv, TickScanning \/ TickIdle PROVE TypeInv'
  OBVIOUS
<1>0. rescanIn' \in 0..RescanInterval /\ NoReply
  BY RescanType, BoundsAssumption
     DEF BoundsAssumption, TickScanning, TickIdle, TypeInv
<1>1. Wait => TypeInv'
  BY <1>0, WaitType
<1>2. CASE PickPrinter
  <2>1. CASE \E p \in Printers :
                /\ saved' \in {saved, p}
                /\ hostReq' = p
                /\ Become("Connecting", ConnectTimeout)
                /\ Quiet
                /\ UNCHANGED <<queue, link, list, bleOn, hostLink, scan, discs,
                               acks, prints, fulls>>
    <3>1. DriveType'
      BY <2>1, BecomeType, BoundsAssumption DEF BoundsAssumption
    <3>2. QueueType' /\ LinkType' /\ RadioType' /\ MenuType'
      BY <1>0, <2>1 DEF TypeInv, TypeOK, QueueType, LinkType, RadioType,
         MenuType, queue, list, link
    <3>3. FeatureType'
      BY <1>0, <2>1, QuietType DEF TypeInv
    <3> QED
      BY <2>1, <3>1, <3>2, <3>3 DEF TypeInv, TypeOK, queue
  <2>2. CASE /\ saved' \in Printers \cup {saved}
             /\ Become("Idle", 0)
             /\ ClearQueue(jobActive)
             /\ UNCHANGED <<link, list, radio, prints, fulls>>
    <3>1. DriveType'
      BY <2>2, BecomeType
    <3>2. QueueType' /\ FeatureType' /\ (after = "NextPage" <=> lines # NoLines)'
      BY <1>0, <2>2, ClearQueueType DEF TypeInv, TypeOK, FeatureType
    <3>3. LinkType' /\ RadioType' /\ MenuType'
      BY <1>0, <2>2 DEF TypeInv, TypeOK, LinkType, RadioType, MenuType, link,
         list, radio
    <3> QED
      BY <2>2, <3>1, <3>2, <3>3 DEF TypeInv, TypeOK
  <2> QED
    BY <1>2, <2>1, <2>2 DEF PickPrinter
<1>3. CASE MergeFound
  <2>1. DriveType'
    BY <1>3, BecomeType DEF MergeFound
  <2>2. found' \in SUBSET Printers
    BY <1>3 DEF MergeFound, TypeInv, TypeOK, MenuType
  <2>3. QueueType' /\ LinkType' /\ RadioType' /\ MenuType'
    BY <1>0, <1>3, <2>2 DEF MergeFound, TypeInv, TypeOK, QueueType, LinkType,
       RadioType, MenuType, queue, radio, link
  <2>4. FeatureType'
    BY <1>0, <1>3, QuietType DEF MergeFound, TypeInv
  <2> QED
    BY <1>3, <2>1, <2>3, <2>4 DEF MergeFound, TypeInv, TypeOK, queue
<1>4. CASE /\ scan' = "running"
           /\ Become("Scanning", 0)
           /\ Quiet
           /\ UNCHANGED <<queue, link, list, saved, bleOn, hostLink, hostReq,
                          discs, acks, prints, fulls>>
  <2>1. DriveType'
    BY <1>4, BecomeType
  <2>2. QueueType' /\ LinkType' /\ RadioType' /\ MenuType'
    BY <1>0, <1>4 DEF TypeInv, TypeOK, QueueType, LinkType, RadioType,
       MenuType, queue, list, link
  <2>3. FeatureType'
    BY <1>0, <1>4, QuietType DEF TypeInv
  <2> QED
    BY <1>4, <2>1, <2>2, <2>3 DEF TypeInv, TypeOK, queue
<1> QED
  BY <1>1, <1>2, <1>3, <1>4 DEF TickScanning, TickIdle

\* Discovery ends.
LEMMA OnDiscoveredType ==
    TypeInv /\ OnDiscovered => TypeInv'
<1> SUFFICES ASSUME TypeInv, OnDiscovered PROVE TypeInv'
  OBVIOUS
<1>0. /\ rescanIn' \in 0..RescanInterval /\ NoReply
      /\ conn \in Peers \cup {NoPeer} /\ discs - 1 \in Nat /\ acks \in Nat
  BY DEF OnDiscovered, TypeInv, TypeOK, LinkType, RadioType, MenuType, Peers
<1>1. CASE FailPrint(conn, discs - 1, acks)
  BY <1>0, <1>1, FailPrintType DEF TypeInv
<1>2. CASE /\ tx' \in TxKinds
           /\ rx' \in BOOLEAN
           /\ \/ pending # NoRas /\ BeginSend(pending)
              \/ pending = NoRas /\ Become("Idle", 0) /\ UNCHANGED pending
           /\ discs' = discs - 1
           /\ Quiet
           /\ UNCHANGED <<lines, after, todo, conn, list, saved, bleOn,
                          hostLink, hostReq, scan, acks, prints, fulls>>
  <2>1. DriveType' /\ pending' = NoRas
    <3>1. CASE pending # NoRas /\ BeginSend(pending)
      <4>1. pending \in Raster
        BY <3>1 DEF TypeInv, TypeOK, QueueType
      <4> QED
        BY <3>1, <4>1, BeginSendType
    <3>2. CASE pending = NoRas /\ Become("Idle", 0) /\ UNCHANGED pending
      BY <3>2, BecomeType
    <3> QED
      BY <1>2, <3>1, <3>2
  <2>2. QueueType' /\ LinkType' /\ RadioType' /\ MenuType'
    BY <1>0, <1>2, <2>1 DEF TypeInv, TypeOK, QueueType, LinkType, RadioType,
       MenuType, list
  <2>3. FeatureType'
    BY <1>0, <1>2, QuietType DEF TypeInv
  <2> QED
    BY <1>2, <2>1, <2>2, <2>3 DEF TypeInv, TypeOK
<1> QED
  BY <1>1, <1>2 DEF OnDiscovered

\* A write completes.
LEMMA WriteDoneType ==
    TypeInv /\ WriteDone => TypeInv'
<1> SUFFICES ASSUME TypeInv, WriteDone PROVE TypeInv'
  OBVIOUS
<1>0. /\ rescanIn' \in 0..RescanInterval /\ NoReply
      /\ conn \in Peers \cup {NoPeer} /\ discs \in Nat /\ acks - 1 \in Nat
  BY DEF WriteDone, TypeInv, TypeOK, LinkType, RadioType, MenuType, Peers
<1>1. CASE FailPrint(conn, discs, acks - 1)
  BY <1>0, <1>1, FailPrintType DEF TypeInv
<1>2. CASE /\ acks' = acks - 1
           /\ snd' = snd \/ snd' = [snd EXCEPT !.gated = FALSE]
           /\ Quiet
           /\ UNCHANGED <<drive, timer, queue, link, list, saved, bleOn,
                          hostLink, hostReq, scan, discs, prints, fulls>>
  <2>1. DriveType'
    BY <1>2 DEF TypeInv, TypeOK, DriveType
  <2>2. QueueType' /\ LinkType' /\ RadioType' /\ MenuType'
    BY <1>0, <1>2 DEF TypeInv, TypeOK, QueueType, LinkType, RadioType,
       MenuType, queue, list, link
  <2>3. FeatureType'
    BY <1>0, <1>2, QuietType DEF TypeInv
  <2> QED
    BY <1>2, <2>1, <2>2, <2>3 DEF TypeInv, TypeOK, queue
<1> QED
  BY <1>1, <1>2 DEF WriteDone

\* The calls that submit a print.
LEMMA SubmitType ==
    TypeInv /\ (UiPrint \/ NetJob \/ ExtUse \/ ExtJob) => TypeInv'
<1> SUFFICES ASSUME TypeInv, UiPrint \/ NetJob \/ ExtUse \/ ExtJob PROVE TypeInv'
  OBVIOUS
<1>0. jobActive \in BOOLEAN
  BY DEF TypeInv, TypeOK, FeatureType
<1>1. CASE UiPrint
  BY <1>0, <1>1, NewPrintType DEF UiPrint, NoReply
<1>2. CASE DriveIdle /\ NewPrint(jobActive) /\ reply' = "OK"
  BY <1>0, <1>2, NewPrintType
<1>3. CASE NoReply /\ DriveIdle /\ NewPrint(TRUE)
  BY <1>3, NewPrintType DEF NoReply
<1>4. CASE /\ slot' \in {"free", "offered", slot}
           /\ status' \in {"none", "ERROR"} /\ reply' \in {"none", "ERR"}
           /\ UNCHANGED <<drv, queue, link, list, rescanIn, saved, radio,
                          jobActive, prints, fulls>>
  <2>1. DriveType' /\ QueueType' /\ LinkType'
    BY <1>4 DEF TypeInv, TypeOK, DriveType, QueueType, LinkType, drv, queue, link
  <2>2. RadioType' /\ MenuType'
    BY <1>4 DEF TypeInv, TypeOK, RadioType, MenuType, radio, list
  <2>3. FeatureType'
    BY <1>4 DEF TypeInv, TypeOK, FeatureType
  <2> QED
    BY <1>4, <2>1, <2>2, <2>3 DEF TypeInv, TypeOK, queue
<1> QED
  BY <1>1, <1>2, <1>3, <1>4 DEF NetJob, ExtUse, ExtJob, NoReply, Quiet

\* The printer notifies.
LEMMA NotifyType ==
    TypeInv /\ Notify => TypeInv'
<1> SUFFICES ASSUME TypeInv, Notify PROVE TypeInv'
  OBVIOUS
<1>1. DriveType' /\ fulls' \in 0..MaxFull
  <2>1. PauseMax \in 0..PauseMax /\ 0 \in 0..PauseMax
    BY BoundsAssumption DEF BoundsAssumption
  <2>2. DriveType'
    BY <2>1 DEF Notify, TypeInv, TypeOK, DriveType
  <2>3. fulls' \in 0..MaxFull
    BY BoundsAssumption DEF BoundsAssumption, Notify, TypeInv, TypeOK
  <2> QED
    BY <2>2, <2>3
<1>2. QueueType' /\ LinkType' /\ RadioType' /\ MenuType'
  BY DEF Notify, TypeInv, TypeOK, QueueType, LinkType, RadioType, MenuType,
     queue, link, radio, list
<1>3. FeatureType'
  BY QuietType DEF Notify, TypeInv
<1> QED
  BY <1>1, <1>2, <1>3 DEF Notify, TypeInv, TypeOK, queue

\* plugin_on_exit.
LEMMA OnExitType ==
    TypeInv /\ OnExit => TypeInv'
<1> SUFFICES ASSUME TypeInv, OnExit PROVE TypeInv'
  OBVIOUS
<1>0. MenuType' /\ prints' \in 0..MaxPrints /\ fulls' \in 0..MaxFull
  BY DEF OnExit, TypeInv, TypeOK, MenuType
<1>1. CASE Quiet /\ UNCHANGED <<drv, queue, link, radio>>
  <2>1. DriveType' /\ QueueType' /\ LinkType' /\ RadioType'
    BY <1>1 DEF TypeInv, TypeOK, DriveType, QueueType, LinkType, RadioType,
       drv, queue, link, radio
  <2>2. FeatureType'
    BY <1>1, QuietType DEF OnExit, TypeInv
  <2> QED
    BY <1>0, <1>1, <2>1, <2>2 DEF TypeInv, TypeOK, queue
<1>2. CASE /\ ResetLink(conn, discs, acks)
           /\ Become("Idle", 0)
           /\ ClearQueue(jobActive)
  <2>1. DriveType'
    BY <1>2, BecomeType
  <2>2. LinkType' /\ RadioType'
    <3>1. conn \in Peers \cup {NoPeer} /\ discs \in Nat /\ acks \in Nat
      BY DEF TypeInv, TypeOK, LinkType, RadioType, Peers
    <3> QED
      BY <1>2, <3>1, ResetLinkType DEF TypeInv
  <2>3. QueueType' /\ FeatureType' /\ (after = "NextPage" <=> lines # NoLines)'
    BY <1>2, ClearQueueType DEF OnExit, TypeInv, TypeOK, FeatureType
  <2> QED
    BY <1>0, <2>1, <2>2, <2>3 DEF TypeInv, TypeOK
<1> QED
  BY <1>1, <1>2 DEF OnExit

\* The list of printers is opened.
LEMMA ScanListType ==
    TypeInv /\ OpenScanList => TypeInv'
<1> SUFFICES ASSUME TypeInv, OpenScanList PROVE TypeInv'
  OBVIOUS
<1>0. LinkType' /\ prints' \in 0..MaxPrints /\ fulls' \in 0..MaxFull
  BY DEF OpenScanList, TypeInv, TypeOK, LinkType, link
<1>m. MenuType'
  BY DEF OpenScanList, TypeInv, TypeOK, MenuType
<1>1. CASE /\ scan' = "running" /\ Become("Scanning", 0) /\ Quiet
           /\ UNCHANGED <<queue, bleOn, hostLink, hostReq, discs, acks>>
  <2>1. DriveType'
    BY <1>1, BecomeType
  <2>2. QueueType' /\ RadioType'
    BY <1>1 DEF TypeInv, TypeOK, QueueType, RadioType, queue
  <2>3. FeatureType'
    BY <1>1, QuietType DEF OpenScanList, TypeInv
  <2> QED
    BY <1>0, <1>m, <1>1, <2>1, <2>2, <2>3 DEF TypeInv, TypeOK, queue
<1>2. CASE ClearQueue(jobActive) /\ UNCHANGED <<drv, radio>>
  <2>1. DriveType' /\ RadioType'
    BY <1>2 DEF TypeInv, TypeOK, DriveType, RadioType, drv, radio
  <2>2. QueueType' /\ FeatureType' /\ (after = "NextPage" <=> lines # NoLines)'
    BY <1>2, ClearQueueType DEF OpenScanList, TypeInv, TypeOK, FeatureType
  <2> QED
    BY <1>0, <1>m, <2>1, <2>2 DEF TypeInv, TypeOK
<1> QED
  BY <1>1, <1>2 DEF OpenScanList

\* The menu entries that leave the drive and the queue alone.
LEMMA MenuTypeStep ==
    ASSUME TypeInv,
           HideScanList \/ ShowScanList \/ SelectPrinter \/ ForgetPrinter
    PROVE  TypeInv'
<1>0. /\ Quiet /\ NoReply
      /\ UNCHANGED <<drv, queue, link, radio, found, prints, fulls>>
  BY DEF HideScanList, ShowScanList, SelectPrinter, ForgetPrinter, list
<1>1. MenuType'
  BY BoundsAssumption
     DEF BoundsAssumption, HideScanList, ShowScanList, SelectPrinter,
         ForgetPrinter, TypeInv, TypeOK, MenuType, list
<1>2. DriveType' /\ QueueType' /\ LinkType' /\ RadioType'
  BY <1>0 DEF TypeInv, TypeOK, DriveType, QueueType, LinkType, RadioType,
     drv, queue, link, radio
<1>3. FeatureType'
  BY <1>0, QuietType DEF TypeInv
<1> QED
  BY <1>0, <1>1, <1>2, <1>3 DEF TypeInv, TypeOK, queue

\* The host and the radio.
LEMMA HostType ==
    TypeInv /\ Host => TypeInv'
<1> SUFFICES ASSUME TypeInv, Host PROVE TypeInv'
  OBVIOUS
<1>0. Outside
  BY DEF Host, HostConnect, HostForeign, HostDrop, HostScanDone, HostSwitchBle
<1>1. RadioType'
  BY DEF Host, HostConnect, HostForeign, HostDrop, HostScanDone, HostSwitchBle,
     TypeInv, TypeOK, RadioType, Peers
<1>2. DriveType' /\ QueueType' /\ LinkType' /\ MenuType'
  BY <1>0 DEF Outside, TypeInv, TypeOK, DriveType, QueueType, LinkType,
     MenuType, drv, queue, link, list
<1>3. FeatureType'
  BY <1>0, QuietType DEF Outside, TypeInv
<1> QED
  BY <1>0, <1>1, <1>2, <1>3 DEF Outside, TypeInv, TypeOK, queue

\* Every action keeps the types.
LEMMA TypeStep ==
    TypeInv /\ Buffered /\ [Next]_vars => TypeInv'
<1> SUFFICES ASSUME TypeInv, Buffered, [Next]_vars PROVE TypeInv'
  OBVIOUS
<1>1. CASE UNCHANGED vars
  <2>1. DriveType' /\ QueueType' /\ LinkType'
    BY <1>1 DEF vars, TypeInv, TypeOK, DriveType, QueueType, LinkType, drv,
       queue, link
  <2>2. RadioType' /\ MenuType' /\ FeatureType'
    BY <1>1 DEF vars, TypeInv, TypeOK, RadioType, MenuType, FeatureType,
       radio, list, feature
  <2> QED
    BY <1>1, <2>1, <2>2 DEF vars, TypeInv, TypeOK, queue
<1> QED
  BY <1>1, TickSendingType, TickLinkType, TickScanType, SubmitType, OnExitType,
     ScanListType, MenuTypeStep, OnDiscoveredType, WriteDoneType, NotifyType,
     HostType
     DEF Next, Tick, Menus

----------------------------------------------------------------------------
(***************************************************************************)
(* The send buffer.                                                        *)
(***************************************************************************)

\* Nothing is buffered while the driver is not sending.
LEMMA BecomeBuffered ==
    ASSUME NEW v, NEW t, v # "Sending", Become(v, t)
    PROVE  Buffered'
  BY DEF Become, Buffered

\* Neither the driver nor its cursor changes.
LEMMA SameBuffered ==
    ASSUME Buffered, UNCHANGED <<drive, snd>>
    PROVE  Buffered'
  BY DEF Buffered

\* begin_send starts before the first row, with the setup frames in the buffer.
LEMMA BeginSendBuffered ==
    ASSUME NEW ras \in Raster, BeginSend(ras)
    PROVE  Buffered'
<1>1. PICK n \in 1..MaxChunks : snd' = [NoSend EXCEPT !.ras = ras, !.buf = n]
  BY DEF BeginSend
<1>2. ras # NoRas /\ ras.h \in Nat
  <2>1. ras.id \in 1..MaxPrints /\ ras.h \in Heights
    BY DEF Raster
  <2>2. ras.id # NoRas.id
    BY <2>1, BoundsAssumption DEF BoundsAssumption, NoRas
  <2>3. ras.h \in Nat
    BY <2>1, SizesAssumption DEF SizesAssumption
  <2> QED
    BY <2>2, <2>3
<1>3. n # 0
  BY SizesAssumption DEF SizesAssumption
<1>4. snd'.ras = ras /\ snd'.row = 0 /\ snd'.buf = n
  BY <1>1 DEF NoSend
<1> QED
  BY <1>2, <1>3, <1>4 DEF BeginSend, Buffered

\* A raster queued by a new print is a proper one.
LEMMA NewPrintBuffered ==
    ASSUME TypeInv, Buffered, NEW ja \in BOOLEAN, NewPrint(ja)
    PROVE  Buffered'
<1>1. PICK h \in Heights, n \in 0..(MaxPages - 1) :
          StartPrint(ja, [id |-> prints + 1, page |-> 1, h |-> h],
                     IF n = 0 THEN NoLines
                              ELSE [id |-> prints + 1, n |-> n])
  BY DEF NewPrint
<1> DEFINE ras == [id |-> prints + 1, page |-> 1, h |-> h]
           text == IF n = 0 THEN NoLines ELSE [id |-> prints + 1, n |-> n]
<1>2. prints + 1 \in 1..MaxPrints
  BY BoundsAssumption DEF BoundsAssumption, NewPrint, TypeInv, TypeOK
<1>3. ras \in Raster
  BY <1>2 DEF Raster
<1> HIDE DEF ras, text
<1>4. StartPrint(ja, ras, text)
  BY <1>1 DEF ras, text
<1> QED
  BY <1>3, <1>4, BeginSendBuffered, BecomeBuffered, SameBuffered
     DEF StartPrint, StartDropped, StartOnLink, StartConnect, StartScan, drv

\* A tick of the pump refills an empty buffer, or writes from a full one.
LEMMA TickSendingBuffered ==
    ASSUME TypeInv, Buffered, TickSending
    PROVE  Buffered'
<1> DEFINE p == [snd EXCEPT !.paused = Down(@)]
<1>0. /\ drive = "Sending" /\ snd.ras # NoRas /\ snd.ras \in Raster
      /\ snd.row \in Nat /\ snd.buf \in 0..MaxChunks /\ snd.out \in Nat
      /\ snd.row <= snd.ras.h /\ snd.ras.h \in Nat
  BY SizesAssumption DEF SizesAssumption, TickSending, TypeInv, TypeOK, Buffered,
     DriveType, Raster
<1>p. /\ p.ras = snd.ras /\ p.row = snd.row /\ p.buf = snd.buf /\ p.out = snd.out
  BY DEF TypeInv, TypeOK, DriveType
<1>f. FailPrint(conn, discs, acks) => Buffered'
  BY BecomeBuffered DEF FailPrint
<1>1. CASE snd' = p /\ UNCHANGED drive
  BY <1>0, <1>p, <1>1 DEF Buffered
<1>2. CASE \E n \in 1..MaxChunks : ~Consumed(p) /\ WriteChunk(Refill(p, n))
  <2>1. PICK n \in 1..MaxChunks : ~Consumed(p) /\ WriteChunk(Refill(p, n))
    BY <1>2
  <2> DEFINE s == Refill(p, n)
  <2>2. /\ s.ras = snd.ras /\ s.row \in Nat /\ s.row <= snd.ras.h
    BY <1>0, <1>p, SizesAssumption
       DEF SizesAssumption, Refill, Least, TypeInv, TypeOK, DriveType
  <2>3. s.buf >= 1 /\ s.buf \in Nat
    BY <1>0, <1>p, SizesAssumption
       DEF SizesAssumption, Refill, TypeInv, TypeOK, DriveType
  <2>4. s \in [ras : Raster \cup {NoRas}, row : Nat, finished : BOOLEAN,
               buf : Nat, out : Nat, gated : BOOLEAN,
               sinceGate : Nat, paused : Nat]
    <3>1. p \in [ras : Raster \cup {NoRas}, row : Nat, finished : BOOLEAN,
               buf : Nat, out : Nat, gated : BOOLEAN,
               sinceGate : Nat, paused : Nat]
      BY DownType, SizesAssumption, BoundsAssumption
         DEF SizesAssumption, BoundsAssumption, TypeInv, TypeOK, DriveType
    <3> QED
      BY <2>2, <2>3, <3>1 DEF Refill
  <2> HIDE DEF s
  <2>5. CASE snd' = Written(s) /\ UNCHANGED drive
    <3>1. /\ Written(s).ras = s.ras /\ Written(s).row = s.row
          /\ Written(s).buf = s.buf - 1
          /\ s.buf = 1 => Written(s).out = s.row
      BY <2>4 DEF Written
    <3> QED
      BY <1>0, <2>2, <2>3, <2>5, <3>1 DEF Buffered
  <2> QED
    BY <1>f, <2>1, <2>5 DEF WriteChunk, s
<1>3. CASE NextPage
  <2>1. PICK h \in Heights :
            BeginSend([id |-> lines.id, page |-> snd.ras.page + 1, h |-> h])
    BY <1>3 DEF NextPage
  <2>2. lines.id \in 1..MaxPrints
    BY <1>3, LinesLeftType DEF NextPage
  <2>3. [id |-> lines.id, page |-> snd.ras.page + 1, h |-> h] \in Raster
    BY <1>0, <2>2 DEF Raster
  <2> QED
    BY <2>1, <2>3, BeginSendBuffered
<1>4. CASE Printed
  BY <1>4, BecomeBuffered DEF Printed
<1> QED
  BY <1>f, <1>1, <1>2, <1>3, <1>4 DEF TickSending, OnSendComplete

\* Completions and notifications leave the buffer as it is.
LEMMA EventBuffered ==
    ASSUME TypeInv, Buffered, OnDiscovered \/ WriteDone \/ Notify
    PROVE  Buffered'
<1>1. CASE OnDiscovered
  <2>1. CASE pending # NoRas /\ BeginSend(pending)
    <3>1. pending \in Raster
      BY <2>1 DEF TypeInv, TypeOK, QueueType
    <3> QED
      BY <2>1, <3>1, BeginSendBuffered
  <2> QED
    BY <1>1, <2>1, BecomeBuffered DEF OnDiscovered, FailPrint
<1>2. CASE WriteDone \/ Notify
  <2>1. CASE \E c, d, a : FailPrint(c, d, a)
    BY <2>1, BecomeBuffered DEF FailPrint
  <2>2. CASE UNCHANGED <<drive, snd>>
    BY <2>2, SameBuffered
  <2>3. CASE /\ UNCHANGED drive
             /\ \E x : snd' = [snd EXCEPT !.gated = x] \/ snd' = [snd EXCEPT !.paused = x]
    <3>1. /\ snd'.ras = snd.ras /\ snd'.row = snd.row
          /\ snd'.buf = snd.buf /\ snd'.out = snd.out
      BY <2>3 DEF TypeInv, TypeOK, DriveType
    <3>2. drive = "Sending" => Buffered'
      BY <2>3, <3>1 DEF Buffered
    <3> QED
      BY <1>2, <2>1, <2>2, <2>3, <3>2 DEF WriteDone, Notify
  <2> QED
    BY <1>2, <2>1, <2>2, <2>3 DEF WriteDone, Notify
<1> QED
  BY <1>1, <1>2

\* Every action keeps the buffer in account of the rows framed.
LEMMA BufferedStep ==
    TypeInv /\ Buffered /\ [Next]_vars => Buffered'
<1> SUFFICES ASSUME TypeInv, Buffered, [Next]_vars PROVE Buffered'
  OBVIOUS
<1>1. CASE UNCHANGED vars \/ UNCHANGED <<drive, snd>>
  BY <1>1, SameBuffered DEF vars, drv
<1>2. CASE TickIdle \/ TickScanning \/ TickConnecting \/ TickDiscovering
  BY <1>2, SameBuffered, BecomeBuffered
     DEF TickIdle, TickScanning, TickConnecting, TickDiscovering, Wait,
         PickPrinter, MergeFound, OnConnected, FailPrint
<1>3. CASE UiPrint \/ NetJob \/ ExtUse \/ ExtJob
  <2>1. jobActive \in BOOLEAN
    BY DEF TypeInv, TypeOK, FeatureType
  <2> QED
    BY <1>3, <2>1, NewPrintBuffered, SameBuffered
       DEF UiPrint, NetJob, ExtUse, ExtJob, drv
<1>4. CASE OnExit \/ OpenScanList \/ HideScanList \/ ShowScanList
           \/ SelectPrinter \/ ForgetPrinter
  BY <1>4, SameBuffered, BecomeBuffered
     DEF OnExit, OpenScanList, HideScanList, ShowScanList, SelectPrinter,
         ForgetPrinter, drv
<1>5. CASE Host
  BY <1>5, SameBuffered DEF Host, HostConnect, HostForeign, HostDrop,
     HostScanDone, HostSwitchBle, Outside, drv
<1> QED
  BY <1>1, <1>2, <1>3, <1>4, <1>5, TickSendingBuffered, EventBuffered
     DEF Next, Tick, Menus

\* The driver starts idle.
LEMMA TypeInit == Init => TypeInv /\ Buffered
<1> SUFFICES ASSUME Init PROVE TypeInv /\ Buffered
  OBVIOUS
<1>1. DriveType /\ Buffered
  BY NoSendType DEF Init, DriveType, Buffered
<1>2. QueueType /\ LinkType /\ (after = "NextPage" <=> lines # NoLines)
  <2>1. QueueType
    BY SizesAssumption DEF SizesAssumption, Init, QueueType
  <2>2. LinkType
    BY DEF Init, LinkType
  <2>3. after = "NextPage" <=> lines # NoLines
    BY DEF Init
  <2> QED
    BY <2>1, <2>2, <2>3
<1>3. RadioType /\ MenuType /\ prints \in 0..MaxPrints /\ fulls \in 0..MaxFull
  BY BoundsAssumption
     DEF BoundsAssumption, Init, RadioType, MenuType
<1>4. FeatureType
  BY DEF Init, FeatureType
<1> QED
  BY <1>1, <1>2, <1>3, <1>4 DEF TypeInv, TypeOK

\* Every variable has its type in every reachable state of the driver,
\* whatever the host delivers and when, late completions included: pump_send
\* never writes from an empty send buffer, a text is never laid out from an
\* empty queue of lines, and conn is only ever a printer's handle.
THEOREM TypeCorrect == Spec => []TypeOK
<1>1. Init => TypeInv /\ Buffered
  BY TypeInit
<1>2. TypeInv /\ Buffered /\ [Next]_vars => (TypeInv /\ Buffered)'
  BY TypeStep, BufferedStep
<1>3. TypeInv => TypeOK
  BY DEF TypeInv
<1> QED
  BY <1>1, <1>2, <1>3, PTL DEF Spec


----------------------------------------------------------------------------
(***************************************************************************)
(* The ext-feature job.                                                    *)
(***************************************************************************)

\* job_active mirrors the host's slot.
JobSlot == jobActive \in BOOLEAN /\ (jobActive <=> slot = "taken")

\* A call that runs finish_job, goes on with a job, or does neither.
LEMMA QuietJob ==
    ASSUME JobSlot, Quiet
    PROVE  JobSlot' /\ FJ!Next
  BY DEF JobSlot, Quiet, FJ!Next, FJ!Other

\* A job that ends is one report to the caller.
LEMMA FinishJobStep ==
    ASSUME JobSlot, NEW code \in {"DONE", "ERROR"}, FinishJob(jobActive, code)
    PROVE  JobSlot' /\ FJ!Next
  BY DEF JobSlot, FinishJob, FJ!Next, FJ!Report, FJ!Other

\* A print that starts takes the job offered to it, or leaves the slot alone.
LEMMA NewPrintJob ==
    ASSUME JobSlot, NEW ja \in BOOLEAN, ja = jobActive \/ slot = "offered",
           NewPrint(ja)
    PROVE  JobSlot' /\ FJ!Next
<1>1. KeepJob(ja) \/ FinishJob(ja, "ERROR")
  BY DEF NewPrint, StartPrint, StartDropped, StartOnLink, StartConnect,
     StartScan, ClearQueue
<1>2. CASE KeepJob(ja)
  BY <1>2 DEF JobSlot, KeepJob, FJ!Next, FJ!Take, FJ!Other
<1>3. CASE FinishJob(ja, "ERROR")
  BY <1>3 DEF JobSlot, FinishJob, FJ!Next, FJ!Report, FJ!Refuse, FJ!Other
<1> QED
  BY <1>1, <1>2, <1>3

\* Every action of the driver is a step of the job, or none of it.
LEMMA JobStep ==
    ASSUME JobSlot, Next
    PROVE  JobSlot' /\ FJ!Next
<1>0. \A c, d, a : FailPrint(c, d, a) => FinishJob(jobActive, "ERROR")
  BY DEF FailPrint, ClearQueue
<1>j. jobActive \in BOOLEAN
  BY DEF JobSlot
<1>1. CASE Quiet
  BY <1>1, QuietJob
<1>2. CASE FinishJob(jobActive, "DONE") \/ FinishJob(jobActive, "ERROR")
  BY <1>2, FinishJobStep
<1>3. CASE NewPrint(jobActive)
  BY <1>3, <1>j, NewPrintJob
<1>4. CASE ExtUse
  BY <1>4 DEF ExtUse, JobSlot, FJ!Next, FJ!Use
<1>5. CASE ExtJob
  <2>1. CASE NewPrint(TRUE)
    BY <1>5, <2>1, NewPrintJob DEF ExtJob
  <2>2. CASE slot = "offered" /\ slot' = "free" /\ status' = "ERROR" /\ UNCHANGED jobActive
    BY <2>2 DEF JobSlot, FJ!Next, FJ!Refuse
  <2> QED
    BY <1>5, <2>1, <2>2 DEF ExtJob
<1>6. CASE Tick
  BY <1>6, <1>0, <1>1, <1>2
     DEF Tick, TickIdle, TickScanning, TickConnecting, TickDiscovering,
         TickSending, Wait, PickPrinter, MergeFound, OnConnected, WriteChunk,
         OnSendComplete, NextPage, Printed, ClearQueue
<1>7. CASE Menus
  BY <1>7, <1>1, <1>2, <1>3
     DEF Menus, UiPrint, OnExit, OpenScanList, HideScanList, ShowScanList,
         SelectPrinter, ForgetPrinter, ClearQueue
<1>8. CASE NetJob
  BY <1>8, <1>1, <1>3 DEF NetJob
<1>9. CASE OnDiscovered \/ WriteDone \/ Notify
  BY <1>9, <1>0, <1>1, <1>2 DEF OnDiscovered, WriteDone, Notify
<1>10. CASE Host
  BY <1>10, <1>1 DEF Host, HostConnect, HostForeign, HostDrop, HostScanDone,
     HostSwitchBle, Outside
<1> QED
  BY <1>4, <1>5, <1>6, <1>7, <1>8, <1>9, <1>10 DEF Next

\* The print driver implements FeatureJob: on every path through start_print,
\* the link set-up, pump_send, on_exit and the menus, finish_job reports the
\* job it took once and reports nothing without a job, even when the host
\* delivers completions of a link that is gone.
THEOREM DriverIsProvider == Spec => ImplementsFeatureJob
<1>1. Init => JobSlot /\ FJ!Init
  BY DEF Init, JobSlot, FJ!Init
<1>2. JobSlot /\ [Next]_vars => JobSlot' /\ [FJ!Next]_<<slot, status>>
  <2>1. JobSlot /\ Next => JobSlot' /\ FJ!Next
    BY JobStep
  <2>2. JobSlot /\ UNCHANGED vars => JobSlot' /\ UNCHANGED <<slot, status>>
    BY DEF JobSlot, vars, feature
  <2> QED
    BY <2>1, <2>2
<1> QED
  BY <1>1, <1>2, PTL DEF Spec, ImplementsFeatureJob, FJ!Spec

----------------------------------------------------------------------------
(***************************************************************************)
(* The queue, the transfer and the job.  IInv without its type part: the   *)
(* conjuncts lean on one another, so they are carried through together.    *)
(***************************************************************************)
Safe ==
    /\ JobAccounting /\ QueueMatchesDrive /\ OnePrint /\ FlowControl
    /\ Completions /\ MenuScan

\* What a call may leave behind, by the state it leaves the driver in.
NothingLeft ==
    /\ pending' = NoRas /\ lines' = NoLines /\ after' = "Nothing"
    /\ jobActive' = FALSE /\ slot' # "taken"
    /\ snd' = NoSend /\ acks' = 0 /\ discs' = 0

LinesOfThisPrint ==
    /\ lines' = NoLines \/ lines'.id = prints'
    /\ after' = "NextPage" <=> lines' # NoLines

JobKept == jobActive' \in BOOLEAN /\ (jobActive' <=> slot' = "taken")

\* A driver that ends up idle or scanning with nothing left.
LEMMA IdleSafe ==
    ASSUME drive' \in {"Idle", "Scanning"}, NothingLeft
    PROVE  Safe'
<1>1. snd'.ras = NoRas
  BY DEF NothingLeft, NoSend
<1>2. JobAccounting' /\ MenuScan' /\ Completions' /\ FlowControl'
  BY DEF NothingLeft, JobAccounting, MenuScan, Completions, FlowControl
<1>3. QueueMatchesDrive' /\ OnePrint'
  BY <1>1 DEF NothingLeft, QueueMatchesDrive, OnePrint
<1> QED
  BY <1>2, <1>3 DEF Safe

\* A driver that starts to send the print asked for last.
LEMMA SendSafe ==
    ASSUME NEW ras \in Raster, BeginSend(ras), ras.id = prints',
           LinesOfThisPrint, JobKept, acks' = 0, discs' = 0
    PROVE  Safe'
<1>1. PICK n \in 1..MaxChunks : snd' = [NoSend EXCEPT !.ras = ras, !.buf = n]
  BY DEF BeginSend
<1>2. snd'.ras = ras /\ snd'.sinceGate = 0 /\ pending' = NoRas /\ drive' = "Sending"
  BY <1>1 DEF NoSend, BeginSend
<1>3. JobAccounting' /\ MenuScan' /\ Completions'
  BY <1>2 DEF JobKept, JobAccounting, MenuScan, Completions
<1>4. FlowControl'
  BY <1>2, SizesAssumption DEF SizesAssumption, FlowControl
<1>5. QueueMatchesDrive' /\ OnePrint'
  BY <1>2 DEF LinesOfThisPrint, QueueMatchesDrive, OnePrint
<1> QED
  BY <1>3, <1>4, <1>5 DEF Safe

\* A driver that waits for the link with the print asked for last.
LEMMA WaitingSafe ==
    ASSUME drive' \in {"Scanning", "Connecting", "Discovering"},
           snd' = NoSend, pending' # NoRas, pending'.id = prints',
           LinesOfThisPrint, JobKept, acks' = 0,
           discs' = 0 \/ (discs' = 1 /\ drive' = "Discovering"),
           drive' = "Discovering" => conn' # NoPeer
    PROVE  Safe'
<1>1. snd'.ras = NoRas
  BY DEF NoSend
<1>2. JobAccounting' /\ MenuScan'
  BY DEF JobKept, JobAccounting, MenuScan
<1>3. Completions' /\ FlowControl'
  BY DEF Completions, FlowControl
<1>4. QueueMatchesDrive' /\ OnePrint'
  BY <1>1 DEF LinesOfThisPrint, QueueMatchesDrive, OnePrint
<1> QED
  BY <1>2, <1>3, <1>4 DEF Safe

\* The driver is not touched; the job slot may move while no job is taken.
LEMMA SameSafe ==
    ASSUME Safe, JobKept,
           UNCHANGED <<drive, snd, pending, lines, after, jobActive, conn, tx,
                       acks, discs, prints>>
    PROVE  Safe'
<1>1. JobAccounting' /\ MenuScan'
  BY DEF Safe, JobKept, JobAccounting, MenuScan
<1>2. QueueMatchesDrive' /\ OnePrint'
  BY DEF Safe, QueueMatchesDrive, OnePrint
<1>3. Completions' /\ FlowControl'
  BY DEF Safe, Completions, FlowControl
<1> QED
  BY <1>1, <1>2, <1>3 DEF Safe

\* What the invariant says of a driver that is not sending.
LEMMA NotSending ==
    ASSUME IInv, drive # "Sending"
    PROVE  /\ snd = NoSend /\ acks = 0 /\ discs \in {0, 1}
           /\ drive # "Discovering" => discs = 0
  BY DEF IInv, Buffered, Completions, TypeOK, RadioType

\* An idle driver has no print, no text, no job and no send.
LEMMA IdleHoldsNothing ==
    ASSUME IInv, drive = "Idle"
    PROVE  /\ pending = NoRas /\ lines = NoLines /\ after = "Nothing"
           /\ ~jobActive /\ slot # "taken"
           /\ snd = NoSend /\ acks = 0 /\ discs = 0
  BY NotSending DEF IInv, QueueMatchesDrive, JobAccounting

\* clear_queue leaves no job behind.
LEMMA ClearQueueJob ==
    ASSUME IInv, NEW ja \in BOOLEAN, ja = jobActive \/ slot = "offered",
           ClearQueue(ja)
    PROVE  /\ pending' = NoRas /\ lines' = NoLines /\ after' = "Nothing"
           /\ jobActive' = FALSE /\ slot' # "taken"
<1>1. jobActive \in BOOLEAN /\ (jobActive <=> slot = "taken")
  BY DEF IInv, TypeOK, FeatureType, JobAccounting
<1> QED
  BY <1>1 DEF ClearQueue, FinishJob

\* fail_print, wherever it is called from: no discovery stays under way.
LEMMA FailPrintSafe ==
    ASSUME ~LateEvents, IInv, NEW c, NEW d, NEW a, c # NoPeer \/ d = 0,
           FailPrint(c, d, a)
    PROVE  Safe'
<1>1. ClearQueue(jobActive)
  BY DEF FailPrint
<1>2. NothingLeft /\ drive' = "Idle"
  <2>1. jobActive \in BOOLEAN
    BY DEF IInv, TypeOK, FeatureType
  <2> QED
    BY <1>1, <2>1, ClearQueueJob DEF FailPrint, ResetLink, Become, NothingLeft
<1> QED
  BY <1>2, IdleSafe

\* A call that reports nothing keeps the job in account.
LEMMA QuietKeepsJob ==
    ASSUME IInv, Quiet
    PROVE  JobKept
  BY DEF IInv, TypeOK, FeatureType, JobAccounting, Quiet, JobKept

\* A print started by an idle driver, on each of its four ways.
LEMMA NewPrintSafe ==
    ASSUME IInv, drive = "Idle", NEW ja \in BOOLEAN,
           ja = jobActive \/ slot = "offered", NewPrint(ja)
    PROVE  Safe'
<1>1. PICK h \in Heights, n \in 0..(MaxPages - 1) :
          StartPrint(ja, [id |-> prints + 1, page |-> 1, h |-> h],
                     IF n = 0 THEN NoLines
                              ELSE [id |-> prints + 1, n |-> n])
  BY DEF NewPrint
<1> DEFINE ras == [id |-> prints + 1, page |-> 1, h |-> h]
           text == IF n = 0 THEN NoLines ELSE [id |-> prints + 1, n |-> n]
<1>2. prints + 1 \in 1..MaxPrints /\ prints + 1 # 0
  BY BoundsAssumption DEF BoundsAssumption, NewPrint, IInv, TypeOK
<1>3. ras \in Raster /\ ras.id = prints + 1
  BY <1>2 DEF Raster
<1>4. ras # NoRas
  <2>1. ras.id # NoRas.id
    BY <1>2, <1>3 DEF NoRas
  <2> QED
    BY <2>1
<1>5. text = NoLines \/ text.id = prints + 1
  OBVIOUS
<1> HIDE DEF ras, text
<1>6. StartPrint(ja, ras, text)
  BY <1>1 DEF ras, text
<1>7. prints' = prints + 1 /\ UNCHANGED conn
  BY <1>3, <1>6 DEF StartPrint, link
<1>8. Remaining(text) => LinesOfThisPrint
  BY <1>5, <1>7 DEF Remaining, LinesOfThisPrint
<1>9. KeepJob(ja) => JobKept
  BY IdleHoldsNothing DEF KeepJob, JobKept
<1>10. snd = NoSend /\ acks = 0 /\ discs = 0
  BY IdleHoldsNothing
<1>11. CASE StartDropped(ja)
  <2>1. NothingLeft /\ drive' = "Idle"
    BY <1>10, <1>11, ClearQueueJob, IdleHoldsNothing
       DEF StartDropped, NothingLeft, drv, radio
  <2> QED
    BY <2>1, IdleSafe
<1>12. CASE StartOnLink(ja, ras, text)
  BY <1>3, <1>7, <1>8, <1>9, <1>10, <1>12, SendSafe DEF StartOnLink, radio
<1>13. CASE StartConnect(ja, ras, text)
  BY <1>3, <1>4, <1>7, <1>8, <1>9, <1>10, <1>13, WaitingSafe
     DEF StartConnect, Become
<1>14. CASE StartScan(ja, ras, text)
  BY <1>3, <1>4, <1>7, <1>8, <1>9, <1>10, <1>14, WaitingSafe
     DEF StartScan, Become
<1> QED
  BY <1>6, <1>11, <1>12, <1>13, <1>14 DEF StartPrint

\* A print is submitted, on each of the four ways.
LEMMA SubmitSafe ==
    ASSUME IInv, UiPrint \/ NetJob \/ ExtUse \/ ExtJob
    PROVE  Safe'
<1>0. Safe /\ jobActive \in BOOLEAN /\ (jobActive <=> slot = "taken")
  BY DEF IInv, Safe, TypeOK, FeatureType, JobAccounting
<1>1. CASE DriveIdle /\ NewPrint(jobActive)
  BY <1>0, <1>1, NewPrintSafe DEF DriveIdle
<1>2. CASE slot = "offered" /\ DriveIdle /\ NewPrint(TRUE)
  BY <1>2, NewPrintSafe DEF DriveIdle
<1>3. CASE /\ JobKept
           /\ UNCHANGED <<drv, queue, link, list, rescanIn, saved, radio,
                          jobActive, prints, fulls>>
  BY <1>0, <1>3, SameSafe DEF drv, queue, link, radio
<1>4. CASE UiPrint
  BY <1>1, <1>4 DEF UiPrint
<1>5. CASE NetJob
  <2>1. CASE Quiet /\ UNCHANGED <<drv, queue, link, list, rescanIn, saved,
                                  radio, prints, fulls>>
    BY <1>3, <2>1, QuietKeepsJob DEF Quiet
  <2> QED
    BY <1>1, <1>5, <2>1 DEF NetJob
<1>6. CASE ExtUse
  <2>1. JobKept
    BY <1>0, <1>6 DEF ExtUse, JobKept
  <2> QED
    BY <1>3, <1>6, <2>1 DEF ExtUse
<1>7. CASE ExtJob
  <2>1. CASE /\ slot = "offered" /\ slot' = "free"
             /\ UNCHANGED <<drv, queue, link, list, rescanIn, saved, radio,
                            jobActive, prints, fulls>>
    <3>1. JobKept
      BY <1>0, <2>1 DEF JobKept
    <3> QED
      BY <1>3, <2>1, <3>1
  <2> QED
    BY <1>2, <1>7, <2>1 DEF ExtJob
<1> QED
  BY <1>4, <1>5, <1>6, <1>7

\* A tick that only counts down.
LEMMA WaitSafe ==
    ASSUME IInv, Wait
    PROVE  Safe'
<1>1. JobKept
  BY QuietKeepsJob DEF Wait
<1>2. Safe
  BY DEF IInv, Safe
<1>3. UNCHANGED <<drive, snd, pending, lines, after, jobActive, conn, tx,
                  acks, discs, prints>>
  BY DEF Wait, Quiet, queue, link, radio
<1> QED
  BY <1>1, <1>2, <1>3, SameSafe

\* A tick while connecting or discovering.
LEMMA TickLinkSafe ==
    ASSUME ~LateEvents, IInv, TickConnecting \/ TickDiscovering
    PROVE  Safe'
<1>0. /\ snd = NoSend /\ acks = 0 /\ pending # NoRas /\ pending.id = prints
      /\ lines = NoLines \/ lines.id = prints
      /\ after = "NextPage" <=> lines # NoLines
  BY NotSending DEF TickConnecting, TickDiscovering, IInv, QueueMatchesDrive,
     OnePrint
<1>1. CASE TickDiscovering
  BY <1>1, WaitSafe, FailPrintSafe DEF TickDiscovering, IInv, Completions
<1>2. CASE TickConnecting
  <2>0. drive = "Connecting" /\ discs = 0
    BY <1>2, NotSending DEF TickConnecting
  <2>1. \A c : FailPrint(c, discs, acks) => Safe'
    BY <2>0, FailPrintSafe
  <2>2. CASE hostLink # NoPeer /\ OnConnected
    <3>1. CASE Quiet /\ conn' = NoPeer
               /\ UNCHANGED <<drive, snd, queue, tx, rx, list, saved, bleOn,
                              hostReq, scan, discs, acks, prints, fulls>>
      BY <1>0, <2>0, <3>1, QuietKeepsJob, WaitingSafe DEF queue, LinesOfThisPrint
    <3>2. CASE /\ conn' = hostLink
               /\ Become("Discovering", DiscoverTimeout)
               /\ discs' = discs + 1
               /\ Quiet
               /\ UNCHANGED <<queue, tx, rx, list, saved, bleOn, hostLink,
                              hostReq, scan, acks, prints, fulls>>
      BY <1>0, <2>0, <2>2, <3>2, QuietKeepsJob, WaitingSafe
         DEF queue, LinesOfThisPrint, Become
    <3> QED
      BY <2>1, <2>2, <3>1, <3>2 DEF OnConnected
  <2> QED
    BY <1>2, <2>1, <2>2, WaitSafe DEF TickConnecting
<1> QED
  BY <1>1, <1>2

\* A tick while scanning or idle.
LEMMA TickScanSafe ==
    ASSUME IInv, TickScanning \/ TickIdle
    PROVE  Safe'
<1>0. snd = NoSend /\ acks = 0 /\ discs = 0
  BY NotSending DEF TickScanning, TickIdle
<1>1. CASE drive = "Scanning" /\ pending # NoRas /\ PickPrinter
  <2>1. /\ pending.id = prints
        /\ lines = NoLines \/ lines.id = prints
        /\ after = "NextPage" <=> lines # NoLines
    BY <1>1 DEF IInv, QueueMatchesDrive, OnePrint
  <2>2. CASE /\ Become("Connecting", ConnectTimeout) /\ Quiet
             /\ UNCHANGED <<queue, link, list, bleOn, hostLink, scan, discs,
                            acks, prints, fulls>>
    BY <1>0, <1>1, <2>1, <2>2, QuietKeepsJob, WaitingSafe
       DEF queue, Become, LinesOfThisPrint
  <2>3. CASE /\ Become("Idle", 0) /\ ClearQueue(jobActive)
             /\ UNCHANGED <<link, list, radio, prints, fulls>>
    <3>1. NothingLeft /\ drive' = "Idle"
      <4>1. jobActive \in BOOLEAN
        BY DEF IInv, TypeOK, FeatureType
      <4> QED
        BY <1>0, <2>3, <4>1, ClearQueueJob DEF Become, radio, NothingLeft
    <3> QED
      BY <3>1, IdleSafe
  <2> QED
    BY <1>1, <2>2, <2>3 DEF PickPrinter
<1>2. CASE drive = "Scanning" /\ pending = NoRas /\ MergeFound
  <2>1. /\ lines = NoLines /\ after = "Nothing"
        /\ jobActive = FALSE /\ slot # "taken"
    BY <1>2 DEF IInv, QueueMatchesDrive, MenuScan, JobAccounting, TypeOK,
       FeatureType
  <2>2. NothingLeft /\ drive' = "Idle"
    BY <1>0, <1>2, <2>1 DEF MergeFound, Become, Quiet, queue, radio, NothingLeft
  <2> QED
    BY <2>2, IdleSafe
<1>3. CASE /\ drive = "Idle" /\ Become("Scanning", 0) /\ Quiet
           /\ UNCHANGED <<queue, link, list, saved, bleOn, hostLink, hostReq,
                          discs, acks, prints, fulls>>
  <2>1. jobActive = FALSE
    BY <1>3, IdleHoldsNothing DEF IInv, TypeOK, FeatureType
  <2>2. NothingLeft /\ drive' = "Scanning"
    BY <1>3, <2>1, IdleHoldsNothing DEF Become, Quiet, queue, NothingLeft
  <2> QED
    BY <2>2, IdleSafe
<1> QED
  BY <1>1, <1>2, <1>3, WaitSafe DEF TickScanning, TickIdle

\* Discovery ends: the print goes out or fails.
LEMMA OnDiscoveredSafe ==
    ASSUME ~LateEvents, IInv, OnDiscovered
    PROVE  Safe'
<1>1. /\ discs = 1 /\ drive = "Discovering"
  BY DEF OnDiscovered, IInv, TypeOK, RadioType, Completions
<1>2. /\ acks = 0 /\ pending # NoRas /\ pending \in Raster
      /\ pending.id = prints
      /\ lines = NoLines \/ lines.id = prints
      /\ after = "NextPage" <=> lines # NoLines
  BY <1>1 DEF IInv, TypeOK, QueueType, QueueMatchesDrive, OnePrint, Completions
<1>3. CASE FailPrint(conn, discs - 1, acks)
  BY <1>1, <1>3, FailPrintSafe
<1>4. CASE /\ BeginSend(pending) /\ discs' = discs - 1 /\ Quiet
           /\ UNCHANGED <<lines, after, todo, conn, list, saved, bleOn,
                          hostLink, hostReq, scan, acks, prints, fulls>>
  BY <1>1, <1>2, <1>4, SendSafe, QuietKeepsJob DEF LinesOfThisPrint
<1> QED
  BY <1>2, <1>3, <1>4 DEF OnDiscovered

\* A transfer goes on with the same raster.
LEMMA StaySafe ==
    ASSUME IInv, drive = "Sending", snd'.ras = snd.ras, FlowControl', Quiet,
           UNCHANGED <<drive, pending, lines, after, prints, discs, conn>>
    PROVE  Safe'
<1>1. JobAccounting' /\ MenuScan'
  BY QuietKeepsJob DEF JobKept, JobAccounting, MenuScan
<1>2. QueueMatchesDrive' /\ OnePrint'
  BY DEF IInv, QueueMatchesDrive, OnePrint
<1>3. Completions'
  BY DEF IInv, Completions
<1> QED
  BY <1>1, <1>2, <1>3 DEF Safe

\* The write step keeps flow control: it is taken only while the stream is
\* not gated, so no acknowledgement is outstanding.
LEMMA WriteChunkSafe ==
    ASSUME ~LateEvents, IInv, drive = "Sending", ~snd.gated,
           NEW s, s.ras = snd.ras, s.sinceGate = snd.sinceGate,
           s \in [ras : Raster \cup {NoRas}, row : Nat, finished : BOOLEAN,
                  buf : Nat, out : Nat, gated : BOOLEAN,
                  sinceGate : Nat, paused : Nat],
           WriteChunk(s)
    PROVE  Safe'
<1>0. acks = 0 /\ discs = 0
  BY DEF IInv, FlowControl, Completions, TypeOK, RadioType
<1>1. CASE FailPrint(conn, discs, acks)
  BY <1>0, <1>1, FailPrintSafe
<1>2. CASE /\ snd' = Written(s)
           /\ acks' = IF WithResponse(s) THEN acks + 1 ELSE acks
           /\ Quiet
           /\ UNCHANGED <<drive, timer, queue, link, list, saved, bleOn,
                          hostLink, hostReq, scan, discs, prints, fulls>>
  <2>1. /\ snd'.ras = snd.ras /\ snd'.gated = WithResponse(s)
        /\ snd'.sinceGate = IF WithResponse(s) THEN 0 ELSE s.sinceGate + 1
    BY <1>2 DEF Written
  <2>2. CASE WithResponse(s)
    <3>1. FlowControl'
      BY <1>0, <1>2, <2>1, <2>2, SizesAssumption DEF SizesAssumption, FlowControl
    <3> QED
      BY <1>2, <2>1, <3>1, StaySafe DEF queue, link
  <2>3. CASE ~WithResponse(s)
    <3>1. tx = "both" => s.sinceGate + 1 < GateEvery
      BY <2>3, SizesAssumption DEF SizesAssumption, WithResponse
    <3>2. FlowControl'
      BY <1>0, <1>2, <2>1, <2>3, <3>1 DEF FlowControl, link
    <3> QED
      BY <1>2, <2>1, <3>2, StaySafe DEF queue, link
  <2> QED
    BY <2>2, <2>3
<1> QED
  BY <1>1, <1>2 DEF WriteChunk

\* A tick of the send pump.
LEMMA TickSendingSafe ==
    ASSUME ~LateEvents, IInv, TickSending
    PROVE  Safe'
<1> DEFINE p == [snd EXCEPT !.paused = Down(@)]
<1>0. /\ drive = "Sending" /\ discs = 0 /\ snd.ras \in Raster
      /\ pending = NoRas /\ snd.ras.id = prints
  BY DEF TickSending, IInv, TypeOK, RadioType, DriveType, Completions, Buffered,
     QueueMatchesDrive, OnePrint
<1>p. /\ p.ras = snd.ras /\ p.gated = snd.gated
      /\ p.sinceGate = snd.sinceGate
      /\ p \in [ras : Raster \cup {NoRas}, row : Nat, finished : BOOLEAN,
                 buf : Nat, out : Nat, gated : BOOLEAN,
                 sinceGate : Nat, paused : Nat]
  <2>1. /\ p.ras = snd.ras /\ p.gated = snd.gated
        /\ p.sinceGate = snd.sinceGate
    BY DEF IInv, TypeOK, DriveType
  <2>2. p \in [ras : Raster \cup {NoRas}, row : Nat, finished : BOOLEAN,
               buf : Nat, out : Nat, gated : BOOLEAN,
               sinceGate : Nat, paused : Nat]
    BY DownType, SizesAssumption, BoundsAssumption
       DEF SizesAssumption, BoundsAssumption, IInv, TypeOK, DriveType
  <2> QED
    BY <2>1, <2>2
<1>1. CASE /\ snd' = p /\ Quiet
           /\ UNCHANGED <<drive, timer, queue, link, list, saved, radio,
                          prints, fulls>>
  <2>1. FlowControl'
    BY <1>p, <1>1 DEF IInv, FlowControl, link, radio
  <2> QED
    BY <1>0, <1>p, <1>1, <2>1, StaySafe DEF queue, radio, link
<1>a. ~p.gated => acks = 0
  BY <1>p DEF IInv, FlowControl, TypeOK, RadioType
<1>2. CASE ~p.gated /\ \E n \in 1..MaxChunks : WriteChunk(Refill(p, n))
  <2>1. PICK n \in 1..MaxChunks : WriteChunk(Refill(p, n))
    BY <1>2
  <2> DEFINE s == Refill(p, n)
  <2>2. n \in Nat /\ RowsPerRefill \in Nat /\ snd.ras.h \in Nat
    <3>1. snd.ras.h \in Heights
      BY <1>0 DEF Raster
    <3>2. Heights \subseteq Nat /\ RowsPerRefill \in Nat /\ MaxChunks \in Nat
      BY SizesAssumption DEF SizesAssumption
    <3>3. n \in Nat
      BY <3>2
    <3>4. snd.ras.h \in Nat
      BY <3>1, <3>2
    <3> QED
      BY <3>2, <3>3, <3>4
  <2>3. /\ s.ras = snd.ras /\ s.sinceGate = snd.sinceGate
        /\ s \in [ras : Raster \cup {NoRas}, row : Nat, finished : BOOLEAN,
                   buf : Nat, out : Nat, gated : BOOLEAN,
                   sinceGate : Nat, paused : Nat]
    <3>1. Least(p.row + RowsPerRefill, p.ras.h) \in Nat
      BY <1>p, <2>2 DEF Least
    <3> QED
      BY <1>p, <2>2, <3>1 DEF Refill
  <2> HIDE DEF s
  <2>4. WriteChunk(s)
    BY <2>1 DEF s
  <2> QED
    BY <1>0, <1>p, <1>2, <2>3, <2>4, WriteChunkSafe
<1>3. CASE ~p.gated /\ NextPage
  <2>1. PICK h \in Heights :
            BeginSend([id |-> lines.id, page |-> snd.ras.page + 1, h |-> h])
    BY <1>3 DEF NextPage
  <2> DEFINE ras == [id |-> lines.id, page |-> snd.ras.page + 1, h |-> h]
  <2>2. lines # NoLines /\ lines.id = prints /\ lines \in Lines
    BY <1>3 DEF NextPage, IInv, QueueMatchesDrive, OnePrint, TypeOK, QueueType
  <2>3. ras \in Raster /\ ras.id = prints
    BY <1>0, <2>2 DEF Raster, Lines
  <2>4. LinesLeft = NoLines \/ LinesLeft.id = prints
    <3>1. [lines EXCEPT !.n = @ - 1].id = lines.id
      BY <2>2 DEF Lines
    <3> QED
      BY <2>2, <3>1 DEF LinesLeft
  <2>5. LinesOfThisPrint /\ JobKept /\ prints' = prints
    BY <1>3, <2>4, QuietKeepsJob DEF NextPage, Remaining, LinesOfThisPrint
  <2>6. acks' = 0 /\ discs' = 0
    BY <1>0, <1>a, <1>3 DEF NextPage, radio
  <2> HIDE DEF ras
  <2>7. BeginSend(ras)
    BY <2>1 DEF ras
  <2> QED
    BY <2>3, <2>5, <2>6, <2>7, SendSafe
<1>4. CASE ~p.gated /\ Printed
  <2>1. jobActive' = FALSE /\ slot' # "taken"
    BY <1>4 DEF Printed, FinishJob, IInv, JobAccounting, TypeOK, FeatureType
  <2>2. NothingLeft /\ drive' = "Idle"
    BY <1>0, <1>a, <1>4, <2>1
       DEF Printed, Become, Remaining, NothingLeft, radio
  <2> QED
    BY <2>2, IdleSafe
<1>5. CASE ~p.gated /\ FailPrint(conn, discs, acks)
  BY <1>0, <1>5, FailPrintSafe
<1> QED
  BY <1>1, <1>2, <1>3, <1>4, <1>5 DEF TickSending, OnSendComplete

\* Completions and notifications.
LEMMA EventSafe ==
    ASSUME ~LateEvents, IInv, WriteDone \/ Notify
    PROVE  Safe'
<1>0. Safe
  BY DEF IInv, Safe
<1>1. CASE WriteDone
  <2>0. acks = 1 /\ drive = "Sending" /\ discs = 0
    BY <1>1 DEF WriteDone, IInv, FlowControl, Completions, TypeOK, RadioType
  <2>1. CASE FailPrint(conn, discs, acks - 1)
    BY <2>0, <2>1, FailPrintSafe
  <2>2. CASE /\ acks' = acks - 1 /\ Quiet
             /\ snd' = snd \/ snd' = [snd EXCEPT !.gated = FALSE]
             /\ UNCHANGED <<drive, timer, queue, link, list, saved, bleOn,
                            hostLink, hostReq, scan, discs, prints, fulls>>
    <3>1. snd'.ras = snd.ras /\ snd'.sinceGate = snd.sinceGate
      BY <2>2 DEF IInv, TypeOK, DriveType
    <3>2. FlowControl'
      BY <2>0, <2>2, <3>1 DEF IInv, FlowControl, link
    <3> QED
      BY <2>0, <2>2, <3>1, <3>2, StaySafe DEF queue, link
  <2> QED
    BY <1>1, <2>1, <2>2 DEF WriteDone
<1>2. CASE Notify
  <2>1. /\ snd'.ras = snd.ras /\ snd'.sinceGate = snd.sinceGate
        /\ snd'.gated = snd.gated
    BY <1>2 DEF Notify, IInv, TypeOK, DriveType
  <2>2. FlowControl'
    BY <1>2, <2>1 DEF Notify, IInv, FlowControl, link, radio
  <2> QED
    BY <1>2, <2>1, <2>2, StaySafe DEF Notify, queue, link, radio
<1> QED
  BY <1>1, <1>2

\* The menus, which may end the print or change the printer.
LEMMA MenusSafe ==
    ASSUME ~LateEvents, IInv,
           OnExit \/ OpenScanList \/ HideScanList \/ ShowScanList
             \/ SelectPrinter \/ ForgetPrinter
    PROVE  Safe'
<1>0. Safe /\ jobActive \in BOOLEAN
  BY DEF IInv, Safe, TypeOK, FeatureType
<1>1. CASE Quiet /\ UNCHANGED <<drv, queue, link, radio, prints>>
  <2>1. JobKept
    BY <1>1, QuietKeepsJob
  <2>2. UNCHANGED <<drive, snd, pending, lines, after, jobActive, conn, tx,
                    acks, discs, prints>>
    BY <1>1 DEF Quiet, drv, queue, link, radio
  <2> QED
    BY <1>0, <2>1, <2>2, SameSafe
<1>2. CASE OnExit /\ drive # "Sending"
  <2>1. conn # NoPeer \/ discs = 0
    BY <1>2, NotSending DEF IInv, Completions
  <2>2. ResetLink(conn, discs, acks) /\ Become("Idle", 0) /\ ClearQueue(jobActive)
    BY <1>2 DEF OnExit
  <2>3. NothingLeft /\ drive' = "Idle"
    BY <1>0, <2>1, <2>2, ClearQueueJob DEF ResetLink, Become, NothingLeft
  <2> QED
    BY <2>3, IdleSafe
<1>3. CASE OpenScanList
  <2>0. /\ drive = "Idle" /\ jobActive = FALSE
    BY <1>0, <1>3, IdleHoldsNothing DEF OpenScanList, DriveIdle
  <2>1. NothingLeft /\ drive' \in {"Idle", "Scanning"}
    BY <1>0, <1>3, <2>0, IdleHoldsNothing, ClearQueueJob
       DEF OpenScanList, Become, Quiet, NothingLeft, queue, drv, radio
  <2> QED
    BY <2>1, IdleSafe
<1> QED
  BY <1>1, <1>2, <1>3
     DEF OnExit, HideScanList, ShowScanList, SelectPrinter, ForgetPrinter

\* The host and the radio, behind the driver's back.
LEMMA HostSafe ==
    ASSUME IInv, Host
    PROVE  Safe'
<1>1. Quiet /\ UNCHANGED <<drv, queue, link, prints, discs, acks>>
  BY DEF Host, HostConnect, HostForeign, HostDrop, HostScanDone, HostSwitchBle,
     Outside
<1>2. JobKept
  BY <1>1, QuietKeepsJob
<1>3. UNCHANGED <<drive, snd, pending, lines, after, jobActive, conn, tx,
                  acks, discs, prints>>
  BY <1>1 DEF Quiet, drv, queue, link
<1> QED
  BY <1>2, <1>3, SameSafe DEF IInv, Safe

\* The driver starts with nothing to print.
LEMMA InvInit == Init => IInv
<1> SUFFICES ASSUME Init PROVE IInv
  OBVIOUS
<1>1. TypeInv /\ Buffered
  BY TypeInit
<1>2. snd.ras = NoRas
  BY DEF Init, NoSend
<1>3. JobAccounting /\ MenuScan
  BY DEF Init, JobAccounting, MenuScan
<1>4. FlowControl /\ Completions
  BY DEF Init, FlowControl, Completions
<1>5. QueueMatchesDrive /\ OnePrint
  BY <1>2 DEF Init, QueueMatchesDrive, OnePrint
<1> QED
  BY <1>1, <1>3, <1>4, <1>5 DEF TypeInv, IInv

\* Without late events, every action keeps the invariant.
LEMMA InvStep ==
    ASSUME ~LateEvents
    PROVE  IInv /\ [Next]_vars => IInv'
<1> SUFFICES ASSUME IInv, [Next]_vars PROVE IInv'
  OBVIOUS
<1>1. TypeInv
  BY DEF IInv, TypeInv, QueueMatchesDrive
<1>2. TypeInv' /\ Buffered'
  BY <1>1, TypeStep, BufferedStep DEF IInv
<1>3. Safe'
  <2>1. CASE UNCHANGED vars
    <3>1. JobKept
      BY <2>1 DEF vars, feature, JobKept, IInv, JobAccounting, TypeOK,
         FeatureType
    <3>2. UNCHANGED <<drive, snd, pending, lines, after, jobActive, conn, tx,
                      acks, discs, prints>>
      BY <2>1 DEF vars, feature, drv, queue, link, radio
    <3> QED
      BY <3>1, <3>2, SameSafe DEF IInv, Safe
  <2>2. CASE Tick
    BY <2>2, TickScanSafe, TickLinkSafe, TickSendingSafe DEF Tick
  <2>3. CASE Menus
    BY <2>3, MenusSafe, SubmitSafe DEF Menus
  <2>4. CASE NetJob \/ ExtUse \/ ExtJob
    BY <2>4, SubmitSafe
  <2>5. CASE OnDiscovered \/ WriteDone \/ Notify
    BY <2>5, OnDiscoveredSafe, EventSafe
  <2>6. CASE Host
    BY <2>6, HostSafe
  <2> QED
    BY <2>1, <2>2, <2>3, <2>4, <2>5, <2>6 DEF Next
<1> QED
  BY <1>2, <1>3 DEF TypeInv, IInv, Safe

\* The inductive invariant holds throughout.
LEMMA Invariant ==
    ASSUME ~LateEvents
    PROVE  Spec => []IInv
  BY InvInit, InvStep, PTL DEF Spec

\* Whoever submits a print and however it ends, the ext-feature job the driver
\* took is reported by the time the driver is idle again: no path through
\* drop, timeout, failure, on_exit or completion forgets finish_job.
THEOREM JobsAccounted ==
    ASSUME ~LateEvents
    PROVE  Spec => []JobAccounting
<1>1. IInv => JobAccounting
  BY DEF IInv
<1> QED
  BY <1>1, Invariant, PTL

\* pending, pending_lines and after always fit the drive state, so that
\* start_print on an idle driver overwrites nothing.
THEOREM QueueFitsDrive ==
    ASSUME ~LateEvents
    PROVE  Spec => []QueueMatchesDrive
<1>1. IInv => QueueMatchesDrive
  BY DEF IInv
<1> QED
  BY <1>1, Invariant, PTL

\* The raster that pump_send streams, the raster that waits for the link and
\* the lines that on_send_complete lays out next are of one print.
THEOREM PrintsNeverMix ==
    ASSUME ~LateEvents
    PROVE  Spec => []OnePrint
<1>1. IInv => OnePrint
  BY DEF IInv
<1> QED
  BY <1>1, Invariant, PTL

\* pump_send never has two writes with response outstanding, never writes
\* while one is, and asks for one at least every GATE_EVERY writes.
THEOREM FlowControlled ==
    ASSUME ~LateEvents
    PROVE  Spec => []FlowControl
<1>1. IInv => FlowControl
  BY DEF IInv
<1> QED
  BY <1>1, Invariant, PTL

\* A transfer that leaves Sending, or moves to another raster, has either
\* written every row and frame of its page or dropped the link without DONE.
LEMMA LeaveStep ==
    ASSUME IInv, Next, drive = "Sending",
           ~(drive' = "Sending" /\ snd'.ras = snd.ras)
    PROVE  PageComplete \/ (conn' = NoPeer /\ status' # "DONE")
<1>f. ASSUME NEW c, NEW d, NEW a, FailPrint(c, d, a)
      PROVE  conn' = NoPeer /\ status' # "DONE"
  BY <1>f DEF FailPrint, ResetLink, ClearQueue, FinishJob
<1>s. snd \in [ras : Raster \cup {NoRas}, row : Nat, finished : BOOLEAN,
               buf : 0..MaxChunks, out : Nat, gated : BOOLEAN,
               sinceGate : Nat, paused : 0..PauseMax]
  BY DEF IInv, TypeOK, DriveType
<1>1. CASE TickSending
  <2> DEFINE p == [snd EXCEPT !.paused = Down(@)]
  <2>1. CASE snd' = p /\ UNCHANGED drive
    BY <1>s, <2>1
  <2>2. CASE ~p.gated /\ Consumed(p)
    <3>1. /\ snd.buf = 0 /\ snd.row >= snd.ras.h /\ snd.finished /\ ~snd.gated
      BY <1>s, <2>2 DEF Consumed
    <3>2. snd.out = snd.ras.h
      <4>1. snd.ras \in Raster /\ snd.row <= snd.ras.h /\ snd.out = snd.row
        BY <1>s, <3>1 DEF IInv, Buffered
      <4>2. snd.ras.h \in Nat /\ snd.row \in Nat
        BY <1>s, <4>1, SizesAssumption DEF SizesAssumption, Raster
      <4> QED
        BY <3>1, <4>1, <4>2
    <3>3. acks = 0
      BY <3>1 DEF IInv, FlowControl, TypeOK, RadioType
    <3> QED
      BY <3>1, <3>2, <3>3 DEF PageComplete
  <2>3. CASE \E n \in 1..MaxChunks : WriteChunk(Refill(p, n))
    <3>1. PICK n \in 1..MaxChunks : WriteChunk(Refill(p, n))
      BY <2>3
    <3> DEFINE s == Refill(p, n)
    <3>2. s.ras = snd.ras /\ Written(s).ras = s.ras
      BY <1>s DEF Refill, Written
    <3> QED
      BY <1>f, <3>1, <3>2 DEF WriteChunk
  <2> QED
    BY <1>1, <2>1, <2>2, <2>3 DEF TickSending
<1>2. CASE WriteDone \/ Notify
  <2>1. (\E c, d, a : FailPrint(c, d, a)) \/ (UNCHANGED drive /\ snd'.ras = snd.ras)
    BY <1>s, <1>2 DEF WriteDone, Notify
  <2> QED
    BY <1>f, <2>1
<1>3. ~OnDiscovered
  BY DEF OnDiscovered, IInv, Completions, TypeOK, RadioType
<1>4. CASE Menus \/ NetJob \/ ExtUse \/ ExtJob
  <2>1. UNCHANGED <<drive, snd>>
    BY <1>4 DEF Menus, NetJob, ExtUse, ExtJob, UiPrint, DriveIdle, OnExit,
       OpenScanList, HideScanList, ShowScanList, SelectPrinter, ForgetPrinter,
       drv
  <2> QED
    BY <2>1
<1>5. CASE Host
  BY <1>5 DEF Host, HostConnect, HostForeign, HostDrop, HostScanDone,
     HostSwitchBle, Outside, drv
<1> QED
  BY <1>1, <1>2, <1>3, <1>4, <1>5
     DEF Next, Tick, TickIdle, TickScanning, TickConnecting, TickDiscovering

\* pump_send and on_send_complete give a page up only when all of it is
\* written and the last acknowledged write has completed, or by failing the
\* print; DONE is never reported over a page that was cut short.
THEOREM TransfersComplete ==
    ASSUME ~LateEvents
    PROVE  Spec => LeavesComplete
<1>1. IInv /\ [Next]_vars =>
        [drive = "Sending" /\ ~(drive' = "Sending" /\ snd'.ras = snd.ras)
           => PageComplete \/ (conn' = NoPeer /\ status' # "DONE")]_vars
  BY LeaveStep
<1> QED
  BY <1>1, Invariant, PTL DEF Spec, LeavesComplete
=============================================================================
