--------------------------- MODULE LiveAppsProofs ---------------------------
(***************************************************************************)
(* Proofs about the plugins of LiveApps, for any value of their constants: *)
(* the safety properties of snake, grove_led, name_badge and the print     *)
(* counter.  What their ticks must bring about is left to TLC.             *)
(***************************************************************************)
EXTENDS LiveApps, Recursion, TLAPS

\* A step of the composition is a step of each plugin, or leaves it alone.
LEMMA StepOfEach ==
    ASSUME [Next]_vars
    PROVE  /\ SG!Next \/ UNCHANGED sg
           /\ SA!Next \/ UNCHANGED sa
           /\ GL!Next \/ UNCHANGED gl
           /\ NB!Next \/ UNCHANGED nb
           /\ PC!Next \/ UNCHANGED pc
BY Zenon DEF Next, vars

-----------------------------------------------------------------------------
(* print_counter.                                                          *)

Waiting == IF job_pending THEN 1 ELSE 0
InSlot  == IF job = "free" THEN 0 ELSE 1

\* Jobs in the slot and statuses on their way that nobody waits for any more.
Astray == mail["DONE"] + mail["ERROR"] + InSlot - Waiting

\* The prints whose status has arrived or was lost.
Settled == Len(printed) - mail["DONE"]

PrintData ==
    /\ num \in Nat /\ nvsNum \in Nat /\ jobNum \in Nat /\ losses \in Nat
    /\ printed \in Seq(Nat)
    /\ mail \in [{"DONE", "ERROR"} -> Nat]

\* WiFi and residency are held for a pending job.
PrintHold ==
    /\ job_pending \in BOOLEAN /\ kept \in BOOLEAN
    /\ wifi = Waiting
    /\ job_pending => kept /\ view # "unloaded"

\* A number is never ahead of the prints that are settled, and it is behind
\* by what the failures have cost; a status that is astray may still come.
Lag(n) == n <= Settled /\ Settled + Astray - n <= losses

NumbersLag ==
    /\ Astray >= 0 /\ Lag(num) /\ Lag(nvsNum)
    /\ job # "free" => jobNum <= Len(printed) /\ Len(printed) <= jobNum + losses

PrintInv == PrintData /\ PrintHold /\ NumbersLag /\ PC!NumbersInOrder

\* The invariant is what the property asks for.
LEMMA PrintAccounted == PrintInv => PC!JobAccounted
<1> SUFFICES ASSUME PrintInv PROVE PC!HeldWhilePending
  BY DEF PrintInv, PC!JobAccounted
<1>1. mail["DONE"] \in Nat /\ mail["ERROR"] \in Nat /\ DOMAIN mail = {"DONE", "ERROR"}
  BY DEF PrintInv, PrintData, PrintHold
<1>2. wifi = (IF job_pending THEN 1 ELSE 0) /\ (job_pending => kept)
  BY DEF PrintInv, PrintData, PrintHold, Waiting
<1>3. ASSUME job_pending, job = "free" PROVE mail["DONE"] > 0 \/ mail["ERROR"] > 0
  BY <1>1, <1>3 DEF PrintInv, NumbersLag, Astray, InSlot, Waiting
<1> QED
  BY <1>1, <1>2, <1>3 DEF PC!HeldWhilePending

\* Nothing is printed at the start.
LEMMA PrintInit == PC!Init => PrintInv
<1> SUFFICES ASSUME PC!Init PROVE PrintInv
  OBVIOUS
<1>1. /\ printed = <<>> /\ printed \in Seq(Nat) /\ Len(printed) = 0
      /\ mail = [DONE |-> 0, ERROR |-> 0]
      /\ mail["DONE"] = 0 /\ mail["ERROR"] = 0
  BY DEF PC!Init
<1>2. mail \in [{"DONE", "ERROR"} -> Nat]
  BY <1>1
<1>3. PC!NumbersInOrder
  BY <1>1 DEF PC!NumbersInOrder
<1>4. PrintData /\ PrintHold
  BY <1>1, <1>2 DEF PC!Init, PrintData, PrintHold, Waiting
<1>5. NumbersLag
  BY <1>1 DEF PC!Init, NumbersLag, Lag, Settled, Astray, InSlot, Waiting
<1> QED
  BY <1>3, <1>4, <1>5 DEF PrintInv

\* More failures excuse more.
LEMMA OrderKept ==
    ASSUME PrintData, PC!NumbersInOrder, printed' = printed,
           losses' \in Nat, losses' >= losses
    PROVE  PC!NumbersInOrder'
<1> SUFFICES ASSUME NEW i \in 1..Len(printed)
             PROVE  printed[i] <= i - 1 /\ i - 1 <= printed[i] + losses'
  BY DEF PC!NumbersInOrder
<1>1. printed[i] <= i - 1 /\ i - 1 <= printed[i] + losses
  BY DEF PC!NumbersInOrder
<1>2. printed[i] \in Nat /\ i \in Nat /\ losses \in Nat
  BY DEF PrintData
<1> QED
  BY <1>1, <1>2

\* Each action of the print counter keeps the invariant.
LEMMA PrintStep ==
    ASSUME PrintInv, PC!Next
    PROVE  PrintInv'
<1>1. /\ num \in Nat /\ nvsNum \in Nat /\ jobNum \in Nat /\ losses \in Nat
      /\ Len(printed) \in Nat /\ mail["DONE"] \in Nat /\ mail["ERROR"] \in Nat
  BY DEF PrintInv, PrintData
<1>2. printed \in Seq(Nat) /\ mail \in [{"DONE", "ERROR"} -> Nat]
  BY DEF PrintInv, PrintData
<1>3. /\ job_pending \in BOOLEAN /\ kept \in BOOLEAN
      /\ wifi = Waiting /\ (job_pending => kept /\ view # "unloaded")
  BY DEF PrintInv, PrintHold
<1>4. NumbersLag /\ PC!NumbersInOrder /\ PrintData
  BY DEF PrintInv
<1>5. PC!Release(0) = 0 /\ PC!Release(1) = 0 /\ PC!Release(0 + 1) = 0
  BY DEF PC!Release
<1>6. /\ (job_pending => Waiting = 1) /\ (~job_pending => Waiting = 0)
      /\ (job = "free" => InSlot = 0) /\ (job # "free" => InSlot = 1)
      /\ (job_pending' => Waiting' = 1) /\ (~job_pending' => Waiting' = 0)
      /\ (job' = "free" => InSlot' = 0) /\ (job' # "free" => InSlot' = 1)
  BY DEF Waiting, InSlot
<1>7. PICK n \in Nat, k \in Nat, d \in Nat, e \in Nat, w \in Nat, z \in Nat :
        /\ n = Len(printed) /\ k = jobNum /\ d = mail["DONE"] /\ e = mail["ERROR"]
        /\ w = Waiting /\ z = InSlot
  BY <1>1 DEF Waiting, InSlot
<1>8. PICK a \in Int, s \in Int : a = d + e + z - w /\ s = n - d
  OBVIOUS
<1>9. a = Astray /\ s = Settled
  BY <1>7, <1>8, Zenon DEF Astray, Settled
<1>10. /\ a >= 0 /\ num <= s /\ s + a - num <= losses
       /\ nvsNum <= s /\ s + a - nvsNum <= losses
       /\ (job # "free" => k <= n /\ n <= k + losses)
  BY <1>4, <1>7, <1>9, Zenon DEF NumbersLag, Lag
<1>11. /\ Astray' = mail'["DONE"] + mail'["ERROR"] + InSlot' - Waiting'
       /\ Settled' = Len(printed') - mail'["DONE"]
  BY DEF Astray, Settled
<1> USE DEF PC!hold, PC!slot
<1>12. CASE PC!Enter \/ PC!SetUrl
  <2>1. /\ UNCHANGED <<nvsNum, job_pending, wifi, kept, job, jobNum, mail, printed, losses>>
        /\ (num' = num \/ num' = nvsNum) /\ view' = "front"
    BY <1>12 DEF PC!Enter, PC!SetUrl
  <2>2. PrintData'
    BY <1>1, <1>2, <2>1 DEF PrintData
  <2>3. PrintHold'
    BY <1>3, <2>1 DEF PrintHold, Waiting
  <2>4. NumbersLag'
    BY <1>4, <2>1 DEF NumbersLag, Lag, Settled, Astray, InSlot, Waiting
  <2> QED
    BY <1>1, <1>4, <2>1, <2>2, <2>3, <2>4, OrderKept DEF PrintInv
<1>13. CASE PC!PrintFails
  <2>1. /\ UNCHANGED <<num, nvsNum, job_pending, view, job, jobNum, mail, printed, losses>>
        /\ wifi' = PC!Release(wifi + 1) /\ kept' \in BOOLEAN /\ ~job_pending
    BY <1>13 DEF PC!PrintFails
  <2>2. wifi' = 0 /\ Waiting' = 0
    BY <1>3, <1>5, <1>6, <2>1
  <2>3. PrintData'
    BY <1>1, <1>2, <2>1 DEF PrintData
  <2>4. PrintHold'
    BY <1>3, <2>1, <2>2 DEF PrintHold
  <2>5. NumbersLag'
    BY <1>4, <2>1 DEF NumbersLag, Lag, Settled, Astray, InSlot, Waiting
  <2> QED
    BY <1>1, <1>4, <2>1, <2>3, <2>4, <2>5, OrderKept DEF PrintInv
<1>14. CASE PC!Leave \/ PC!Stop
  <2>1. UNCHANGED <<num, nvsNum, job, jobNum, mail, printed>>
    BY <1>14 DEF PC!Leave, PC!Stop
  <2>2. CASE UNCHANGED <<job_pending, wifi, kept, losses>> /\ view' = "background"
    <3>1. PrintData'
      BY <1>1, <1>2, <2>1, <2>2 DEF PrintData
    <3>2. PrintHold'
      BY <1>3, <2>2 DEF PrintHold, Waiting
    <3>3. NumbersLag'
      BY <1>4, <2>1, <2>2 DEF NumbersLag, Lag, Settled, Astray, InSlot, Waiting
    <3> QED
      BY <1>1, <1>4, <2>1, <2>2, <3>1, <3>2, <3>3, OrderKept DEF PrintInv
  <2>3. CASE PC!Teardown /\ losses' = losses + w
    <3>1. job_pending' = FALSE /\ wifi' = 0 /\ kept' = FALSE /\ view' = "unloaded"
      BY <2>3 DEF PC!Teardown
    <3>2. losses' \in Nat /\ losses' >= losses
      BY <1>1, <2>3
    <3>3. /\ Waiting' = 0 /\ InSlot' = z
          /\ mail'["DONE"] = d /\ mail'["ERROR"] = e /\ Len(printed') = n
      BY <1>6, <1>7, <2>1, <3>1 DEF InSlot
    <3>4. PrintData'
      BY <1>1, <1>2, <2>1, <3>2 DEF PrintData
    <3>5. PrintHold'
      BY <3>1, <3>3 DEF PrintHold
    <3>6. Astray' = a + w /\ Settled' = s
      BY <1>8, <1>11, <3>3
    <3>7. NumbersLag'
      BY <1>1, <1>7, <1>10, <2>1, <2>3, <3>6 DEF NumbersLag, Lag
    <3> QED
      BY <1>4, <2>1, <3>2, <3>4, <3>5, <3>7, OrderKept DEF PrintInv
  <2>4. \/ UNCHANGED <<job_pending, wifi, kept, losses>> /\ view' = "background"
        \/ PC!Teardown /\ losses' = losses + w
    <3>1. CASE PC!Leave
      BY <1>1, <1>3, <1>6, <1>7, <3>1 DEF PC!Leave
    <3>2. CASE PC!Stop
      BY <1>1, <1>3, <1>6, <1>7, <3>2 DEF PC!Stop, PC!Lose
    <3> QED
      BY <1>14, <3>1, <3>2
  <2> QED
    BY <2>2, <2>3, <2>4
<1>15. CASE PC!PrintAccepted
  <2>1. /\ UNCHANGED <<num, nvsNum, mail, printed>>
        /\ ~job_pending /\ job = "free" /\ job' = "offered" /\ jobNum' = num
    BY <1>15 DEF PC!PrintAccepted
  <2>2. /\ InSlot' = 1 /\ z = 0 /\ w = 0
        /\ mail'["DONE"] = d /\ mail'["ERROR"] = e /\ Len(printed') = n
    BY <1>6, <1>7, <2>1
  <2>3. num <= n /\ n <= num + losses
    BY <1>1, <1>8, <1>10, <2>2
  <2>4. CASE /\ kept' = TRUE /\ wifi' = wifi + 1 /\ job_pending' = TRUE
             /\ view' = "background" /\ losses' = losses
    <3>1. Waiting' = 1 /\ wifi' = 1
      BY <1>3, <1>6, <2>1, <2>4
    <3>2. PrintData'
      BY <1>1, <1>2, <2>1, <2>4 DEF PrintData
    <3>3. PrintHold'
      BY <2>4, <3>1 DEF PrintHold
    <3>4. Astray' = a /\ Settled' = s
      BY <1>8, <1>11, <2>2, <3>1
    <3>5. NumbersLag'
      BY <1>1, <1>7, <1>10, <2>1, <2>3, <2>4, <3>4 DEF NumbersLag, Lag
    <3> QED
      BY <1>1, <1>4, <2>1, <2>4, <3>2, <3>3, <3>5, OrderKept DEF PrintInv
  <2>5. CASE PC!Teardown /\ losses' = losses + 1
    <3>1. job_pending' = FALSE /\ wifi' = 0 /\ kept' = FALSE /\ view' = "unloaded"
      BY <2>5 DEF PC!Teardown
    <3>2. losses' \in Nat /\ losses' >= losses /\ Waiting' = 0
      BY <1>1, <1>6, <2>5, <3>1
    <3>3. PrintData'
      BY <1>1, <1>2, <2>1, <3>2 DEF PrintData
    <3>4. PrintHold'
      BY <3>1, <3>2 DEF PrintHold
    <3>5. Astray' = a + 1 /\ Settled' = s
      BY <1>8, <1>11, <2>2, <3>2
    <3>6. NumbersLag'
      BY <1>1, <1>7, <1>10, <2>1, <2>3, <2>5, <3>5 DEF NumbersLag, Lag
    <3> QED
      BY <1>4, <2>1, <3>2, <3>3, <3>4, <3>6, OrderKept DEF PrintInv
  <2> QED
    BY <1>15, <2>4, <2>5 DEF PC!PrintAccepted, PC!Lose
<1>16. CASE PC!ProviderTakes
  <2>1. /\ UNCHANGED <<num, nvsNum, job_pending, wifi, kept, view, jobNum, printed, losses>>
        /\ job = "offered"
        /\ \/ job' = "taken" /\ mail' = mail
           \/ job' = "free" /\ mail' = [mail EXCEPT !["ERROR"] = @ + 1]
    BY <1>16 DEF PC!ProviderTakes, PC!Report
  <2>2. Waiting' = w /\ z = 1 /\ Len(printed') = n
    BY <1>6, <1>7, <2>1 DEF Waiting
  <2>3. /\ mail' \in [{"DONE", "ERROR"} -> Nat]
        /\ Astray' = a /\ Settled' = s
    <3>1. CASE job' = "taken" /\ mail' = mail
      <4>1. InSlot' = 1 /\ mail'["DONE"] = d /\ mail'["ERROR"] = e
        BY <1>6, <1>7, <3>1
      <4> QED
        BY <1>2, <1>8, <1>11, <2>2, <3>1, <4>1
    <3>2. CASE job' = "free" /\ mail' = [mail EXCEPT !["ERROR"] = @ + 1]
      <4>1. /\ mail' \in [{"DONE", "ERROR"} -> Nat]
            /\ mail'["DONE"] = d /\ mail'["ERROR"] = e + 1
        BY <1>2, <1>7, <3>2
      <4>2. InSlot' = 0
        BY <1>6, <3>2
      <4> QED
        BY <1>8, <1>11, <2>2, <4>1, <4>2
    <3> QED
      BY <2>1, <3>1, <3>2
  <2>4. PrintData'
    BY <1>1, <1>2, <2>1, <2>3 DEF PrintData
  <2>5. PrintHold'
    BY <1>3, <2>1 DEF PrintHold, Waiting
  <2>6. NumbersLag'
    BY <1>1, <1>7, <1>10, <2>1, <2>3 DEF NumbersLag, Lag
  <2> QED
    BY <1>1, <1>4, <2>1, <2>4, <2>5, <2>6, OrderKept DEF PrintInv
<1>17. CASE PC!ProviderReports
  <2>1. /\ UNCHANGED <<num, nvsNum, job_pending, wifi, kept, view, jobNum, losses>>
        /\ job = "taken" /\ job' = "free"
    BY <1>17 DEF PC!ProviderReports
  <2>2. Waiting' = w /\ z = 1 /\ InSlot' = 0
    BY <1>6, <1>7, <2>1 DEF Waiting
  <2>3. PrintHold'
    BY <1>3, <2>1 DEF PrintHold, Waiting
  <2>4. CASE mail' = [mail EXCEPT !["ERROR"] = @ + 1] /\ printed' = printed
    <3>1. /\ mail' \in [{"DONE", "ERROR"} -> Nat]
          /\ mail'["DONE"] = d /\ mail'["ERROR"] = e + 1 /\ Len(printed') = n
      BY <1>2, <1>7, <2>4
    <3>2. PrintData'
      BY <1>1, <1>2, <2>1, <2>4, <3>1 DEF PrintData
    <3>3. Astray' = a /\ Settled' = s
      BY <1>8, <1>11, <2>2, <3>1
    <3>4. NumbersLag'
      BY <1>1, <1>7, <1>10, <2>1, <3>3 DEF NumbersLag, Lag
    <3> QED
      BY <1>1, <1>4, <2>1, <2>3, <2>4, <3>2, <3>4, OrderKept DEF PrintInv
  <2>5. CASE /\ mail' = [mail EXCEPT !["DONE"] = @ + 1]
             /\ printed' = Append(printed, jobNum)
    <3>1. /\ mail' \in [{"DONE", "ERROR"} -> Nat]
          /\ mail'["DONE"] = d + 1 /\ mail'["ERROR"] = e
      BY <1>2, <1>7, <2>5
    <3>2. /\ printed' \in Seq(Nat) /\ Len(printed') = n + 1 /\ printed'[n + 1] = k
          /\ \A i \in 1..n : printed'[i] = printed[i]
      BY <1>1, <1>2, <1>7, <2>5
    <3>3. PrintData'
      BY <1>1, <2>1, <3>1, <3>2 DEF PrintData
    <3>4. Astray' = a /\ Settled' = s
      BY <1>8, <1>11, <2>2, <3>1, <3>2
    <3>5. NumbersLag'
      BY <1>1, <1>7, <1>10, <2>1, <3>4 DEF NumbersLag, Lag
    <3>6. ASSUME NEW i \in 1..Len(printed')
          PROVE  printed'[i] <= i - 1 /\ i - 1 <= printed'[i] + losses'
      <4>1. CASE i \in 1..n
        <5>1. printed[i] <= i - 1 /\ i - 1 <= printed[i] + losses
          BY <1>4, <1>7, <4>1 DEF PC!NumbersInOrder
        <5> QED
          BY <2>1, <3>2, <4>1, <5>1
      <4>2. CASE i = n + 1
        <5>1. k <= n /\ n <= k + losses
          BY <1>10, <2>1
        <5>2. printed'[i] = k /\ i - 1 = n /\ losses' = losses
          BY <1>7, <2>1, <3>2, <4>2
        <5> QED
          BY <5>1, <5>2, Zenon
      <4> QED
        BY <3>2, <3>6, <4>1, <4>2
    <3> QED
      BY <2>3, <3>3, <3>5, <3>6 DEF PrintInv, PC!NumbersInOrder
  <2> QED
    BY <1>17, <2>4, <2>5 DEF PC!ProviderReports, PC!Report
<1>18. ASSUME NEW status \in {"DONE", "ERROR"}, PC!Status(status) PROVE PrintInv'
  <2>1. /\ UNCHANGED <<view, job, jobNum, printed>>
        /\ mail[status] > 0 /\ mail' = [mail EXCEPT ![status] = @ - 1]
    BY <1>18 DEF PC!Status
  <2>2. PICK one \in Nat : one = IF status = "DONE" THEN 1 ELSE 0
    OBVIOUS
  <2>3. /\ mail' \in [{"DONE", "ERROR"} -> Nat] /\ (one = 0 \/ one = 1)
        /\ mail'["DONE"] = d - one /\ mail'["ERROR"] = e + one - 1
        /\ d - one >= 0 /\ e + one - 1 >= 0
    <3>1. CASE status = "DONE"
      BY <1>2, <1>7, <2>1, <2>2, <3>1
    <3>2. CASE status = "ERROR"
      BY <1>2, <1>7, <2>1, <2>2, <3>2
    <3> QED
      BY <3>1, <3>2
  <2>4. InSlot' = z /\ Len(printed') = n
    BY <1>7, <2>1 DEF InSlot
  <2>5. CASE ~(view # "unloaded" /\ job_pending)
    <3>1. UNCHANGED <<num, nvsNum, losses, job_pending, wifi, kept>> /\ ~job_pending
      BY <1>3, <1>18, <2>5 DEF PC!Status
    <3>2. Waiting' = 0 /\ w = 0
      BY <1>6, <1>7, <3>1
    <3>3. PrintData'
      BY <1>1, <1>2, <2>1, <2>3, <3>1 DEF PrintData
    <3>4. PrintHold'
      BY <1>3, <2>1, <3>1 DEF PrintHold, Waiting
    <3>5. Astray' = a - 1 /\ Settled' = s + one /\ a - 1 >= 0
      BY <1>8, <1>11, <2>3, <2>4, <3>2
    <3>6. NumbersLag'
      BY <1>1, <1>7, <1>10, <2>1, <2>3, <3>1, <3>5 DEF NumbersLag, Lag
    <3> QED
      BY <1>1, <1>4, <2>1, <3>1, <3>3, <3>4, <3>6, OrderKept DEF PrintInv
  <2>6. CASE view # "unloaded" /\ job_pending
    <3>1. /\ job_pending' = FALSE /\ wifi' = PC!Release(wifi) /\ kept' \in {kept, FALSE}
          /\ IF status = "DONE" THEN PC!Advance ELSE UNCHANGED <<num, nvsNum, losses>>
      BY <1>18, <2>6 DEF PC!Status, PC!JobFinished
    <3>2. wifi' = 0 /\ w = 1 /\ Waiting' = 0 /\ kept' \in BOOLEAN
      BY <1>3, <1>5, <1>6, <1>7, <2>6, <3>1
    <3>3. PICK c \in Nat :
            /\ num' = num + one /\ losses' = losses + c
            /\ \/ nvsNum' = nvsNum /\ c = one
               \/ nvsNum' = num + one /\ c = 0
      <4>1. CASE status = "DONE"
        BY <1>1, <2>2, <3>1, <4>1 DEF PC!Advance, PC!Lose
      <4>2. CASE status # "DONE"
        BY <1>1, <2>2, <3>1, <4>2
      <4> QED
        BY <4>1, <4>2
    <3>4. num' \in Nat /\ nvsNum' \in Nat /\ losses' \in Nat /\ losses' >= losses
      BY <1>1, <3>3
    <3>5. PrintData'
      BY <1>1, <1>2, <2>1, <2>3, <3>4 DEF PrintData
    <3>6. PrintHold'
      BY <2>1, <3>1, <3>2 DEF PrintHold
    <3>7. Astray' = a /\ Settled' = s + one
      BY <1>8, <1>11, <2>3, <2>4, <3>2
    <3>8. Lag(num)' /\ Lag(nvsNum)'
      BY <1>1, <1>10, <2>3, <3>3, <3>7 DEF Lag
    <3>9. job' # "free" => jobNum' <= Len(printed') /\ Len(printed') <= jobNum' + losses'
      BY <1>1, <1>7, <1>10, <2>1, <3>3
    <3>10. NumbersLag'
      BY <1>10, <3>7, <3>8, <3>9 DEF NumbersLag
    <3> QED
      BY <1>4, <2>1, <3>4, <3>5, <3>6, <3>10, OrderKept DEF PrintInv
  <2> QED
    BY <2>5, <2>6
<1>19. CASE PC!PowerLoss
  <2>1. /\ UNCHANGED <<num, nvsNum, jobNum, printed>>
        /\ job_pending' = FALSE /\ wifi' = 0 /\ kept' = FALSE /\ view' = "unloaded"
        /\ job' = "free" /\ mail' = [DONE |-> 0, ERROR |-> 0]
        /\ IF job_pending THEN losses' = losses + 1 ELSE losses' = losses
    BY <1>19 DEF PC!PowerLoss, PC!Lose, PC!Teardown
  <2>2. /\ mail' \in [{"DONE", "ERROR"} -> Nat]
        /\ mail'["DONE"] = 0 /\ mail'["ERROR"] = 0 /\ Len(printed') = n
    BY <1>7, <2>1
  <2>3. Waiting' = 0 /\ InSlot' = 0 /\ (w = 0 \/ w = 1) /\ (z = 0 \/ z = 1)
    BY <1>6, <1>7, <2>1
  <2>4. losses' = losses + w /\ losses' \in Nat /\ losses' >= losses
    BY <1>1, <1>6, <1>7, <2>1
  <2>5. PrintData'
    BY <1>1, <1>2, <2>1, <2>2, <2>4 DEF PrintData
  <2>6. PrintHold'
    BY <2>1, <2>3 DEF PrintHold
  <2>7. Astray' = 0 /\ Settled' = n /\ s <= n /\ n <= s + a + w
    BY <1>8, <1>11, <2>2, <2>3
  <2>8. NumbersLag'
    BY <1>1, <1>7, <1>10, <2>1, <2>4, <2>7 DEF NumbersLag, Lag
  <2> QED
    BY <1>4, <2>1, <2>4, <2>5, <2>6, <2>8, OrderKept DEF PrintInv
<1> QED
  BY <1>12, <1>13, <1>14, <1>15, <1>16, <1>17, <1>18, <1>19 DEF PC!Next, PC!Deliver

\* The i-th print carries the number i - 1, less one at most for each failure
\* that lost a status or a number, whatever writes fail and whoever is torn
\* down, and WiFi and residency are held while a job is pending (do_print,
\* job_finished, ACT_STATUS).
THEOREM PrintsAreAccounted == Spec => []JobAccounted
<1>1. Init => PrintInv
  BY PrintInit DEF Init
<1>2. PrintInv /\ [Next]_vars => PrintInv'
  <2> SUFFICES ASSUME PrintInv, [Next]_vars PROVE PrintInv'
    OBVIOUS
  <2>1. CASE PC!Next
    BY <2>1, PrintStep
  <2>2. CASE UNCHANGED pc
    <3>1. PrintData' /\ PC!NumbersInOrder'
      BY <2>2 DEF pc, PrintInv, PrintData, PC!NumbersInOrder
    <3>2. PrintHold' /\ NumbersLag'
      BY <2>2 DEF pc, PrintInv, PrintHold, NumbersLag, Lag, Settled, Astray,
                  InSlot, Waiting
    <3> QED
      BY <3>1, <3>2 DEF PrintInv
  <2> QED
    BY <2>1, <2>2, StepOfEach
<1>3. PrintInv => JobAccounted
  BY PrintAccounted DEF JobAccounted
<1> QED
  BY <1>1, <1>2, <1>3, PTL DEF Spec

-----------------------------------------------------------------------------
(* grove_led.                                                              *)

StripInv ==
    /\ set \in GL!Settings /\ stored \in GL!Settings
    /\ running \in BOOLEAN /\ sleeping \in BOOLEAN /\ inhibit \in BOOLEAN
    /\ lit \in BOOLEAN
    /\ acc \in Nat /\ acc < Base /\ owed = acc
    /\ GL!StripAsSet

\* A brightness is its whole steps and a fraction of one.
LEMMA Fractions ==
    ASSUME NEW t \in Nat
    PROVE  \E q \in Nat, r \in Nat :
              q = t \div Base /\ r = t % Base /\ t = Base * q + r /\ r < Base
BY LedAssumption

\* dim_dither: what a frame owes it carries on.
LEMMA BreatheCarries ==
    ASSUME StripInv, GL!Breathe
    PROVE  acc' \in Nat /\ acc' < Base /\ owed' = acc' /\ lit' \in BOOLEAN
<1>1. PICK t \in Targets :
        LET sum  == acc + (t % Base)
            show == (t \div Base) + (IF sum >= Base THEN 1 ELSE 0)
        IN  /\ acc' = GL!Carry(sum)
            /\ owed' = owed + t - Base * show
            /\ lit' = (show > 0)
  BY DEF GL!Breathe
<1>2. PICK q \in Nat, r \in Nat :
        q = t \div Base /\ r = t % Base /\ t = Base * q + r /\ r < Base
  BY LedAssumption, Fractions
<1>3. lit' \in BOOLEAN
  BY <1>1
<1>3a. /\ acc' = GL!Carry(acc + r)
       /\ owed' = owed + t - Base * (q + (IF acc + r >= Base THEN 1 ELSE 0))
  BY <1>1, <1>2, Zenon
<1>4. acc \in Nat /\ acc < Base /\ owed = acc /\ Base \in Nat
  BY LedAssumption DEF StripInv
<1>5. CASE acc + r >= Base
  <2>1. acc' = acc + r - Base /\ owed' = owed + t - Base * (q + 1)
    <3>1. (IF acc + r >= Base THEN 1 ELSE 0) = 1
      BY <1>5
    <3>2. GL!Carry(acc + r) = acc + r - Base
      BY <1>2, <1>4, <1>5 DEF GL!Carry
    <3> QED
      BY <1>3a, <3>1, <3>2, Zenon
  <2>2. Base * (q + 1) = Base * q + Base
    BY <1>4
  <2>3. Base * q \in Nat
    BY <1>4
  <2> QED
    BY <1>2, <1>3, <1>4, <1>5, <2>1, <2>2, <2>3
<1>6. CASE ~(acc + r >= Base)
  <2>1. acc' = acc + r /\ owed' = owed + t - Base * (q + 0)
    BY <1>3a, <1>6 DEF GL!Carry
  <2>2. Base * (q + 0) = Base * q /\ Base * q \in Nat
    BY <1>4
  <2> QED
    BY <1>2, <1>3, <1>4, <1>6, <2>1, <2>2
<1> QED
  BY <1>5, <1>6

\* The strip is dark at the start.
LEMMA StripInit == GL!Init => StripInv
<1> SUFFICES ASSUME GL!Init PROVE StripInv
  OBVIOUS
<1>1. set \in GL!Settings /\ stored \in GL!Settings
  BY DEF GL!Init
<1>2. acc = 0 /\ owed = 0 /\ 0 < Base
  BY LedAssumption DEF GL!Init
<1>3. running = FALSE /\ sleeping = FALSE /\ inhibit = FALSE /\ lit = FALSE
  BY DEF GL!Init
<1>4. GL!StripAsSet
  BY <1>3 DEF GL!StripAsSet, GL!AwakeIffAnimated, GL!DarkWhenOff,
              GL!SettingsKept, GL!NoLightLost
<1> QED
  BY <1>1, <1>2, <1>3, <1>4 DEF StripInv

\* A setting that is changed moves the inhibitor, and darkens at most.
LEMMA StripSet ==
    ASSUME StripInv, running' = running, sleeping' = sleeping, running,
           acc' = acc, owed' = owed,
           set' \in GL!Settings, stored' \in GL!Settings, GL!SettingsKept',
           GL!Caffeinate(set'),
           lit' \in BOOLEAN, lit' => lit /\ set'.enabled
    PROVE  StripInv'
<1>1. inhibit' \in BOOLEAN /\ GL!AwakeIffAnimated'
  BY DEF GL!Caffeinate, GL!AwakeIffAnimated, StripInv
<1>2. GL!DarkWhenOff'
  BY DEF GL!DarkWhenOff, StripInv, GL!StripAsSet
<1>3. GL!NoLightLost'
  BY DEF GL!NoLightLost, StripInv
<1> QED
  BY <1>1, <1>2, <1>3 DEF StripInv, GL!StripAsSet

\* A handler that touches some settings leaves the others, in memory and in NVS.
LEMMA SaveKeeps ==
    ASSUME running, GL!SettingsKept, NEW touched \in SUBSET GL!Keys, GL!Save(touched),
           running' = running, stored \in GL!Settings, set' \in GL!Settings,
           \A k \in GL!Keys \ touched : set'[k] = set[k]
    PROVE  stored' \in GL!Settings /\ GL!SettingsKept'
<1>1. PICK failed \in SUBSET touched, mixed \in Colors :
        /\ stored' = [k \in GL!Keys |-> CASE k \in touched \ failed -> set'[k]
                                        [] k \in failed /\ k = "color" -> mixed
                                        [] OTHER -> stored[k]]
        /\ unsaved' = (unsaved \ touched) \cup failed
  BY DEF GL!Save
<1>2. \A k \in GL!Keys : stored'[k] = CASE k \in touched \ failed -> set'[k]
                                       [] k \in failed /\ k = "color" -> mixed
                                       [] OTHER -> stored[k]
  BY <1>1
<1>3. ASSUME NEW k \in GL!Keys \ unsaved' PROVE stored'[k] = set'[k]
  <2>1. k \notin failed
    BY <1>1, <1>3
  <2>2. CASE k \in touched
    BY <1>2, <2>1, <2>2
  <2>3. CASE k \notin touched
    <3>1. k \notin unsaved /\ stored'[k] = stored[k] /\ set'[k] = set[k]
      BY <1>1, <1>2, <1>3, <2>1, <2>3
    <3> QED
      BY <3>1 DEF GL!SettingsKept
  <2> QED
    BY <2>2, <2>3
<1>4. stored' \in GL!Settings
  <2>1. /\ "enabled" \in GL!Keys /\ "effect" \in GL!Keys /\ "color" \in GL!Keys
        /\ set'["enabled"] \in BOOLEAN /\ set'["effect"] \in GL!Effects
        /\ set'["color"] \in Colors /\ stored["enabled"] \in BOOLEAN
        /\ stored["effect"] \in GL!Effects /\ stored["color"] \in Colors
    BY DEF GL!Keys, GL!Settings
  <2>2. stored'["enabled"] \in {set'["enabled"], stored["enabled"]}
    BY <1>2, <2>1
  <2>3. stored'["effect"] \in {set'["effect"], stored["effect"]}
    BY <1>2, <2>1
  <2>4. stored'["color"] \in {set'["color"], stored["color"], mixed}
    BY <1>2, <2>1
  <2>5. stored' = [enabled |-> stored'["enabled"], effect |-> stored'["effect"],
                   color |-> stored'["color"]]
    BY <1>1 DEF GL!Keys
  <2>6. /\ stored'["enabled"] \in BOOLEAN /\ stored'["effect"] \in GL!Effects
        /\ stored'["color"] \in Colors
    BY <2>1, <2>2, <2>3, <2>4
  <2> QED
    BY <2>5, <2>6 DEF GL!Settings
<1> QED
  BY <1>3, <1>4 DEF GL!SettingsKept

\* Each action of the strip keeps the invariant.
LEMMA StripStep ==
    ASSUME StripInv, GL!Next
    PROVE  StripInv'
<1>1. /\ set \in GL!Settings /\ stored \in GL!Settings
      /\ running \in BOOLEAN /\ sleeping \in BOOLEAN /\ inhibit \in BOOLEAN
      /\ lit \in BOOLEAN /\ acc \in Nat /\ acc < Base /\ owed = acc
      /\ 0 < Base
  BY LedAssumption DEF StripInv
<1>2. GL!AwakeIffAnimated /\ GL!DarkWhenOff /\ GL!SettingsKept
  BY DEF StripInv, GL!StripAsSet
<1> USE DEF StripInv, GL!StripAsSet, GL!AwakeIffAnimated, GL!DarkWhenOff,
            GL!SettingsKept, GL!NoLightLost, GL!Caffeinate, GL!dither
<1>3. CASE GL!Load
  BY <1>1, <1>2, <1>3 DEF GL!Load
<1>4. CASE GL!Unload
  BY <1>1, <1>2, <1>4 DEF GL!Unload
<1>5. CASE GL!Toggle
  <2>1. /\ running /\ UNCHANGED <<running, sleeping, acc, owed>>
        /\ set' = [set EXCEPT !.enabled = ~@] /\ GL!Save({"enabled"})
        /\ lit' = (lit /\ set'.enabled) /\ GL!Caffeinate(set')
    BY <1>5 DEF GL!Toggle
  <2>2. /\ set' \in GL!Settings /\ {"enabled"} \in SUBSET GL!Keys
        /\ \A k \in GL!Keys \ {"enabled"} : set'[k] = set[k]
    BY <1>1, <2>1 DEF GL!Settings, GL!Keys
  <2>3. stored' \in GL!Settings /\ GL!SettingsKept'
    BY <1>1, <1>2, <2>1, <2>2, SaveKeeps
  <2> QED
    BY <1>1, <1>2, <2>1, <2>2, <2>3, StripSet
<1>6. CASE GL!Sleep \/ GL!Wake \/ GL!SetSize
  <2>1. /\ UNCHANGED <<running, set, stored, unsaved, inhibit, acc, owed>> /\ running
    BY <1>6, Zenon DEF GL!Sleep, GL!Wake, GL!SetSize
  <2>2. \/ sleeping' = TRUE /\ lit' = FALSE
        \/ sleeping' = FALSE /\ lit' = lit
        \/ sleeping' = sleeping /\ lit' = lit
        \/ sleeping' = sleeping /\ lit' = FALSE
    BY <1>6, Zenon DEF GL!Sleep, GL!Wake, GL!SetSize
  <2>3. lit' \in BOOLEAN /\ sleeping' \in BOOLEAN /\ (lit' => lit /\ ~sleeping')
    <3>1. lit => ~sleeping
      BY <1>2, Zenon
    <3>2. CASE lit' = FALSE /\ (sleeping' = TRUE \/ sleeping' = sleeping)
      BY <1>1, <3>2, Zenon
    <3>3. CASE lit' = lit /\ sleeping' = FALSE
      BY <1>1, <3>3, Zenon
    <3>4. CASE lit' = lit /\ sleeping' = sleeping
      BY <1>1, <3>1, <3>4, Zenon
    <3> QED
      BY <2>2, <3>2, <3>3, <3>4, Zenon
  <2>4. /\ set' = set /\ stored' = stored /\ unsaved' = unsaved /\ running' = running
        /\ inhibit' = inhibit /\ acc' = acc /\ owed' = owed
    BY <2>1
  <2>5. (lit' => running' /\ set'.enabled /\ ~sleeping')
    BY <1>2, <2>3, <2>4, Zenon
  <2> HIDE DEF GL!DarkWhenOff
  <2>6. GL!DarkWhenOff'
    BY <2>5, Zenon DEF GL!DarkWhenOff
  <2> QED
    BY <1>1, <1>2, <2>3, <2>4, <2>6
<1>7. CASE GL!Tick
  <2>1. /\ running /\ ~sleeping
        /\ UNCHANGED <<running, set, stored, unsaved, sleeping, inhibit>>
    BY <1>7 DEF GL!Tick
  <2>2. CASE ~set.enabled
    <3>1. lit' = FALSE /\ UNCHANGED <<acc, owed>>
      BY <1>7, <2>2 DEF GL!Tick
    <3> QED
      BY <1>1, <1>2, <2>1, <3>1
  <2>3. CASE set.enabled /\ GL!Breathe
    BY <1>1, <1>2, <2>1, <2>3, BreatheCarries
  <2>4. CASE set.enabled /\ lit' \in BOOLEAN /\ UNCHANGED <<acc, owed>>
    BY <1>1, <1>2, <2>1, <2>4
  <2>5. \/ ~set.enabled \/ GL!Breathe
        \/ lit' \in BOOLEAN /\ UNCHANGED <<acc, owed>>
    BY <1>7 DEF GL!Tick
  <2> QED
    BY <2>2, <2>3, <2>4, <2>5
<1>8. ASSUME NEW e \in GL!Effects, GL!SetEffect(e) PROVE StripInv'
  <2>1. /\ running /\ UNCHANGED <<running, sleeping, lit, acc, owed>>
        /\ set' = [set EXCEPT !.effect = e] /\ GL!Save({"effect"})
        /\ GL!Caffeinate(set')
    BY <1>8 DEF GL!SetEffect
  <2>2. /\ set' \in GL!Settings /\ {"effect"} \in SUBSET GL!Keys
        /\ \A k \in GL!Keys \ {"effect"} : set'[k] = set[k]
        /\ set'.enabled = set.enabled
    BY <1>1, <2>1 DEF GL!Settings, GL!Keys
  <2>3. stored' \in GL!Settings /\ GL!SettingsKept'
    BY <1>1, <1>2, <2>1, <2>2, SaveKeeps
  <2> QED
    BY <1>1, <1>2, <2>1, <2>2, <2>3, StripSet
<1>9. ASSUME NEW c \in Colors, GL!SetColor(c) PROVE StripInv'
  <2>1. /\ running /\ UNCHANGED <<running, sleeping, lit, acc, owed>>
        /\ set' = [set EXCEPT !.color = c, !.effect = "Static"]
        /\ GL!Save({"color", "effect"}) /\ GL!Caffeinate(set')
    BY <1>9 DEF GL!SetColor, GL!Painted
  <2>2. /\ set' \in GL!Settings /\ {"color", "effect"} \in SUBSET GL!Keys
        /\ \A k \in GL!Keys \ {"color", "effect"} : set'[k] = set[k]
        /\ set'.enabled = set.enabled
    BY <1>1, <2>1 DEF GL!Settings, GL!Keys, GL!Effects
  <2>3. stored' \in GL!Settings /\ GL!SettingsKept'
    BY <1>1, <1>2, <2>1, <2>2, SaveKeeps
  <2> QED
    BY <1>1, <1>2, <2>1, <2>2, <2>3, StripSet
<1> QED
  BY <1>3, <1>4, <1>5, <1>6, <1>7, <1>8, <1>9 DEF GL!Next

\* The strip is dark when it is off or asleep, the badge is kept awake exactly
\* for an animation, every setting is in NVS but those whose last write was
\* refused, and dim_dither loses no light, for any base and any brightness.
THEOREM StripFollowsSettings == Spec => []StripAsSet
<1>1. Init => StripInv
  BY StripInit DEF Init
<1>2. StripInv /\ [Next]_vars => StripInv'
  <2> SUFFICES ASSUME StripInv, [Next]_vars PROVE StripInv'
    OBVIOUS
  <2>1. CASE GL!Next
    BY <2>1, StripStep
  <2>2. CASE UNCHANGED gl
    BY <2>2 DEF gl, StripInv, GL!StripAsSet, GL!AwakeIffAnimated,
                GL!DarkWhenOff, GL!SettingsKept, GL!NoLightLost
  <2> QED
    BY <2>1, <2>2, StepOfEach
<1>3. StripInv => StripAsSet
  BY DEF StripInv, StripAsSet
<1> QED
  BY <1>1, <1>2, <1>3, PTL DEF Spec

-----------------------------------------------------------------------------
(* snake: the high scores.                                                 *)

Screens == {"off", "Title", "Playing", "Paused", "Crashing", "GameOver"}

ScoresInv ==
    /\ screen \in Screens
    /\ level \in Levels /\ speed \in Levels
    /\ hs \in [Levels -> Nat] /\ best \in Nat /\ missed \in Nat
    /\ score \in Nat \cup {-1}
    /\ screen \in {"Playing", "Paused"} => score \in Nat
    /\ SA!CrashCounts

\* Each action of the screens keeps the invariant.
LEMMA ScoresStep ==
    ASSUME ScoresInv, SA!Next
    PROVE  ScoresInv'
<1> USE DEF ScoresInv, SA!CrashCounts, Screens, SA!clocks
<1>1. CASE SA!Enter \/ SA!Exit
  BY <1>1 DEF SA!Enter, SA!Exit
<1>2. CASE SA!StartRound \/ SA!BackToTitle \/ SA!Pause \/ SA!Resume
           \/ SA!ShowGameOver
  <2>1. CASE SA!StartRound
    BY <2>1 DEF SA!StartRound
  <2>2. CASE SA!BackToTitle
    BY <2>2 DEF SA!BackToTitle
  <2>3. CASE SA!Pause
    BY <2>3 DEF SA!Pause
  <2>4. CASE SA!Resume
    <3>1. /\ screen = "Paused" /\ screen' = "Playing"
          /\ UNCHANGED <<score, level, best, hs, speed, missed>>
      BY <2>4 DEF SA!Resume
    <3> QED
      BY <3>1
  <2>5. CASE SA!ShowGameOver
    BY <2>5 DEF SA!ShowGameOver
  <2> QED
    BY <1>2, <2>1, <2>2, <2>3, <2>4, <2>5
<1>3. ASSUME NEW l \in Levels, SA!PickLevel(l) PROVE ScoresInv'
  BY <1>3 DEF SA!PickLevel
<1>4. CASE SA!TickPlaying
  <2>1. CASE UNCHANGED <<screen, score, best, hs, missed>>
    BY <1>4, <2>1 DEF SA!TickPlaying
  <2>2. CASE SA!StepGame
    <3>1. /\ screen = "Playing" /\ UNCHANGED <<level, speed>>
          /\ score \in Nat /\ best \in Nat /\ level \in Levels
          /\ best = hs[level] \/ (best = missed /\ best > hs[level])
      BY <1>4 DEF SA!TickPlaying
    <3>2. CASE UNCHANGED <<screen, score, best, hs, missed>>
      BY <3>1, <3>2
    <3>3. CASE score' = score + 1 /\ UNCHANGED <<screen, best, hs, missed>>
      <4>1. score' \in Nat /\ screen' = "Playing"
        BY <3>1, <3>3
      <4>2. /\ level' = level /\ speed' = speed /\ best' = best /\ hs' = hs
            /\ missed' = missed
        BY <3>1, <3>3
      <4>3. /\ screen' \notin {"Crashing", "GameOver"}
            /\ best' = hs'[level'] \/ (best' = missed' /\ best' > hs'[level'])
        BY <3>1, <4>1, <4>2
      <4>4. screen' \in Screens /\ score' \in Nat \cup {-1}
        BY <4>1
      <4>5. /\ level' \in Levels /\ speed' \in Levels
            /\ hs' \in [Levels -> Nat] /\ best' \in Nat /\ missed' \in Nat
        BY <4>2
      <4> QED
        BY <4>1, <4>3, <4>4, <4>5
    <3>4. CASE screen' = "Crashing" /\ score' = score /\ SA!SaveBest
      <4>1. CASE score > best /\ best' = score /\ hs' = [hs EXCEPT ![level] = score]
                 /\ missed' = 0
        BY <3>1, <3>4, <4>1
      <4>2. CASE score > best /\ best' = score /\ missed' = score /\ hs' = hs
        BY <3>1, <3>4, <4>2
      <4>3. CASE ~(score > best) /\ UNCHANGED <<best, hs, missed>>
        BY <3>1, <3>4, <4>3
      <4> QED
        BY <3>4, <4>1, <4>2, <4>3 DEF SA!SaveBest
    <3> QED
      BY <2>2, <3>2, <3>3, <3>4 DEF SA!StepGame
  <2> QED
    BY <1>4, <2>1, <2>2 DEF SA!TickPlaying
<1>5. CASE SA!TickCrashing \/ SA!TickIdle
  BY <1>5 DEF SA!TickCrashing, SA!TickIdle
<1>6. CASE SA!RefreshBegin \/ SA!RefreshEnd
  BY <1>6 DEF SA!RefreshBegin, SA!RefreshEnd
<1> QED
  BY <1>1, <1>2, <1>3, <1>4, <1>5, <1>6 DEF SA!Next, SA!Keys, SA!Tick

\* The badge starts without scores.
LEMMA ScoresInit == SA!Init => ScoresInv
BY DEF SA!Init, ScoresInv, SA!CrashCounts, Screens

-----------------------------------------------------------------------------
(* name_badge.                                                             *)

Drops    == [falling : BOOLEAN, puff : BOOLEAN, playing : BOOLEAN]
Glitches == [phase : {"calm", "burst", "flash"}, left : Nat, bursts : Int,
             noise : BOOLEAN, flash : BOOLEAN]

\* The landing, with the puff gone once its completion has been heard.
DropInv ==
    fx = 2 => scene \in Drops /\ (scene.puff => scene.playing \/ late > 0)

\* The glitch: the flash is on in its own phase only, noise is off when calm.
GlitchInv ==
    fx = 6 => /\ scene \in Glitches
              /\ scene.phase = "calm" => ~scene.noise
              /\ scene.phase # "flash" => ~scene.flash

BadgeInv ==
    /\ fx \in 0..7 /\ nvsFx \in 0..7 /\ late \in Nat
    /\ DropInv /\ GlitchInv

\* An effect starts clean.
LEMMA FreshIsClean ==
    \A f \in 0..7 :
        /\ f = 2 => NB!Fresh(f) \in Drops /\ ~NB!Fresh(f).puff
        /\ f = 6 => /\ NB!Fresh(f) \in Glitches /\ NB!Fresh(f).phase = "calm"
                    /\ ~NB!Fresh(f).noise /\ ~NB!Fresh(f).flash
<1>1. NB!Fresh(2) = [falling |-> TRUE, puff |-> FALSE, playing |-> FALSE]
  BY DEF NB!Fresh
<1>2. NB!Fresh(6) = [phase |-> "calm", left |-> 1, bursts |-> 0,
                     noise |-> FALSE, flash |-> FALSE]
  BY DEF NB!Fresh
<1>3. NB!Fresh(2) \in Drops
  <2>1. [falling |-> TRUE, puff |-> FALSE, playing |-> FALSE] \in Drops
    BY Zenon DEF Drops
  <2> QED
    BY <1>1, <2>1
<1>4. NB!Fresh(2).puff = FALSE
  BY <1>1
<1>5. NB!Fresh(6) \in Glitches
  <2>1. 1 \in Nat /\ 0 \in Int
    OBVIOUS
  <2>2. [phase |-> "calm", left |-> 1, bursts |-> 0,
         noise |-> FALSE, flash |-> FALSE] \in Glitches
    BY <2>1, Zenon DEF Glitches
  <2> QED
    BY <1>2, <2>2
<1>6. /\ NB!Fresh(6).phase = "calm"
      /\ NB!Fresh(6).noise = FALSE /\ NB!Fresh(6).flash = FALSE
  BY <1>2
<1> QED
  BY <1>3, <1>4, <1>5, <1>6, Zenon

\* switch_effect keeps the invariant, wherever it leads.
LEMMA SwitchIsClean ==
    ASSUME BadgeInv, NEW f \in Nat, NB!SwitchTo(f), late' \in Nat,
           nvsFx' \in {nvsFx, fx'}
    PROVE  BadgeInv'
<1>1. fx' \in 0..7 /\ scene' = NB!Fresh(fx')
  BY DEF NB!SwitchTo, NB!FX_COUNT
<1>2. nvsFx' \in 0..7
  BY <1>1 DEF BadgeInv
<1>3. DropInv' /\ GlitchInv'
  BY <1>1, FreshIsClean DEF DropInv, GlitchInv
<1> QED
  BY <1>1, <1>2, <1>3 DEF BadgeInv

\* A step of noise stays a glitch.
LEMMA NoisyGlitch ==
    \A s \in Glitches, m \in Nat :
        [s EXCEPT !.left = m, !.noise = TRUE] \in Glitches
<1> TAKE s \in Glitches, m \in Nat
<1> QED
  BY Zenon DEF Glitches

\* A tick of the glitch ends its noise before it is calm, its flash before it
\* goes on.
LEMMA GlitchStep ==
    ASSUME NEW s \in Glitches, NEW t \in NB!GlitchSteps(s),
           s.phase = "calm" => ~s.noise, s.phase # "flash" => ~s.flash
    PROVE  /\ t \in Glitches
           /\ t.phase = "calm" => ~t.noise
           /\ t.phase # "flash" => ~t.flash
<1> DEFINE b == (s.bursts + 1) % FlashEvery
<1>1. b \in Int
  BY BadgeAssumption DEF Glitches
<1>2. s.phase \in {"calm", "burst", "flash"}
  BY DEF Glitches
<1>3. s.left \in Nat
  BY DEF Glitches
<1>4. CASE s.phase = "calm"
  <2>1. CASE s.left > 0
    <3>1. t = [s EXCEPT !.left = @ - 1]
      BY <1>4, <2>1 DEF NB!GlitchSteps
    <3>2. t \in Glitches
      BY <1>3, <2>1, <3>1 DEF Glitches
    <3>3. t.phase = "calm" /\ t.noise = s.noise /\ t.flash = s.flash
      BY <1>4, <3>1 DEF Glitches
    <3> QED
      BY <1>4, <3>2, <3>3
  <2>2. CASE s.left = 0
    <3>1. PICK n \in 1..2 : t = [s EXCEPT !.phase = "burst", !.left = n]
      BY <1>4, <2>2 DEF NB!GlitchSteps
    <3>2. t \in Glitches
      <4>1. n \in Nat
        OBVIOUS
      <4> QED
        BY <3>1, <4>1, Zenon DEF Glitches
    <3>3. t.phase = "burst" /\ t.flash = s.flash
      BY <3>1 DEF Glitches
    <3> QED
      BY <1>4, <3>2, <3>3
  <2> QED
    BY <1>3, <2>1, <2>2
<1>5. CASE s.phase = "burst"
  <2>1. CASE s.left > 0
    <3>1. t = [s EXCEPT !.left = @ - 1, !.noise = TRUE]
      BY <1>5, <2>1 DEF NB!GlitchSteps
    <3>2. t \in Glitches
      <4>1. PICK m \in Nat : m = s.left - 1
        BY <1>3, <2>1
      <4>2. t = [s EXCEPT !.left = m, !.noise = TRUE]
        BY <3>1, <4>1, Zenon
      <4> QED
        BY <4>2, NoisyGlitch
    <3>3. t.phase = "burst" /\ t.flash = s.flash
      BY <1>5, <3>1 DEF Glitches
    <3> QED
      BY <1>5, <3>2, <3>3
  <2>2. CASE s.left = 0 /\ b = 0
    <3>1. t = [s EXCEPT !.phase = "flash", !.bursts = b, !.flash = TRUE]
      BY <1>5, <2>2 DEF NB!GlitchSteps
    <3>2. t \in Glitches
      BY <1>1, <3>1, Zenon DEF Glitches
    <3>3. t.phase = "flash"
      BY <3>1 DEF Glitches
    <3> QED
      BY <3>2, <3>3
  <2>3. CASE s.left = 0 /\ b # 0
    <3>1. PICK n \in 0..1 : t = [NB!Settled(s, n) EXCEPT !.bursts = b]
      BY <1>5, <2>3 DEF NB!GlitchSteps
    <3> HIDE DEF b
    <3>2. t = [s EXCEPT !.phase = "calm", !.left = n, !.noise = FALSE, !.bursts = b]
      BY <3>1 DEF NB!Settled, Glitches
    <3>3. t \in Glitches
      <4>1. n \in Nat
        OBVIOUS
      <4> QED
        BY <1>1, <3>2, <4>1, Zenon DEF Glitches
    <3>4. t.noise = FALSE /\ t.flash = s.flash
      BY <3>2 DEF Glitches
    <3> QED
      BY <1>5, <3>3, <3>4
  <2> QED
    BY <1>3, <2>1, <2>2, <2>3
<1>6. CASE s.phase = "flash"
  <2>1. PICK n \in 0..1 : t = [NB!Settled(s, n) EXCEPT !.flash = FALSE]
    BY <1>6 DEF NB!GlitchSteps
  <2>2. t = [s EXCEPT !.phase = "calm", !.left = n, !.noise = FALSE, !.flash = FALSE]
    BY <2>1 DEF NB!Settled, Glitches
  <2>3. t \in Glitches
    <3>1. n \in Nat
      OBVIOUS
    <3> QED
      BY <2>2, <3>1, Zenon DEF Glitches
  <2>4. t.noise = FALSE /\ t.flash = FALSE
    BY <2>2 DEF Glitches
  <2> QED
    BY <2>3, <2>4
<1> QED
  BY <1>2, <1>4, <1>5, <1>6

\* The badge starts with the intro of the first effect.
LEMMA BadgeInit == NB!Init => BadgeInv
BY DEF NB!Init, BadgeInv, DropInv, GlitchInv, NB!FX_COUNT

\* Each action of the badge keeps the invariant.
LEMMA BadgeStep ==
    ASSUME BadgeInv, NB!Next
    PROVE  BadgeInv'
<1>1. fx \in 0..7 /\ nvsFx \in 0..7 /\ late \in Nat
  BY DEF BadgeInv
<1>2. CASE NB!Enter
  <2>1. NB!SwitchTo(nvsFx) /\ nvsFx' = nvsFx /\ late' = late
    BY <1>2 DEF NB!Enter
  <2>2. nvsFx \in Nat
    BY <1>1
  <2> QED
    BY <1>1, <2>1, <2>2, SwitchIsClean
<1>3. CASE NB!Leave \/ NB!ToggleAuto
  BY <1>3 DEF NB!Leave, NB!ToggleAuto, BadgeInv, DropInv, GlitchInv
<1>4. CASE NB!NameInput
  <2>1. NB!SwitchTo(fx) /\ nvsFx' = nvsFx /\ late' = late
    BY <1>4 DEF NB!NameInput
  <2>2. fx \in Nat
    BY <1>1
  <2> QED
    BY <1>1, <2>1, <2>2, SwitchIsClean
<1>5. ASSUME NEW by \in {1, NB!FX_COUNT - 1}, NB!Step(by) PROVE BadgeInv'
  <2>1. NB!SwitchTo(fx + by) /\ nvsFx' \in {nvsFx, fx'} /\ late' = late
    BY <1>5 DEF NB!Step
  <2>2. fx + by \in Nat
    BY <1>1 DEF NB!FX_COUNT
  <2> QED
    BY <1>1, <2>1, <2>2, SwitchIsClean
<1>6. CASE NB!Tick
  <2>1. nvsFx' = nvsFx /\ late' = late
    BY <1>6 DEF NB!Tick
  <2>2. CASE NB!SwitchTo(fx + 1)
    <3>1. fx + 1 \in Nat
      BY <1>1
    <3> QED
      BY <1>1, <2>1, <2>2, <3>1, SwitchIsClean
  <2>3. CASE NB!EffectTick /\ UNCHANGED fx
    <3>1. DropInv'
      BY <2>1, <2>3 DEF NB!EffectTick, DropInv, BadgeInv
    <3>2. GlitchInv'
      <4>1. CASE fx = 6
        <5>1. scene' \in NB!GlitchSteps(scene)
          BY <2>3, <4>1 DEF NB!EffectTick
        <5> QED
          BY <4>1, <5>1, GlitchStep DEF GlitchInv, BadgeInv
      <4> QED
        BY <2>3, <4>1 DEF GlitchInv
    <3> QED
      BY <1>1, <2>1, <2>3, <3>1, <3>2 DEF BadgeInv
  <2> QED
    BY <1>6, <2>2, <2>3 DEF NB!Tick
<1>7. CASE NB!TweenDone
  <2>1. UNCHANGED <<fx, nvsFx, late>>
    BY <1>7 DEF NB!TweenDone
  <2>2. DropInv'
    <3>1. CASE fx = 2
      <4>1. scene' = [falling |-> FALSE, puff |-> TRUE, playing |-> TRUE]
        BY <1>7, <3>1 DEF NB!TweenDone
      <4> QED
        BY <4>1 DEF DropInv, Drops
    <3> QED
      BY <2>1, <3>1 DEF DropInv
  <2>3. GlitchInv'
    BY <1>7, <2>1 DEF GlitchInv, NB!TweenDone
  <2> QED
    BY <1>1, <2>1, <2>2, <2>3 DEF BadgeInv
<1>8. CASE NB!PuffEnds \/ NB!PuffDone
  <2>1. UNCHANGED <<fx, nvsFx>> /\ late' \in Nat
    BY <1>1, <1>8 DEF NB!PuffEnds, NB!PuffDone
  <2>2. GlitchInv'
    BY <1>8, <2>1 DEF GlitchInv, NB!PuffEnds, NB!PuffDone, BadgeInv
  <2>3. DropInv'
    <3> SUFFICES ASSUME fx = 2 PROVE DropInv'
      BY <2>1 DEF DropInv
    <3>1. scene \in Drops
      BY DEF BadgeInv, DropInv
    <3>2. CASE NB!PuffEnds
      <4>1. scene' = [scene EXCEPT !.playing = FALSE] /\ late' > 0
        BY <1>1, <3>2 DEF NB!PuffEnds
      <4> QED
        BY <3>1, <4>1 DEF DropInv, Drops
    <3>3. CASE NB!PuffDone
      <4>1. scene' = [scene EXCEPT !.puff = FALSE]
        BY <3>3 DEF NB!PuffDone
      <4>2. scene' \in Drops /\ scene'.puff = FALSE
        BY <3>1, <4>1 DEF Drops
      <4> QED
        BY <4>2 DEF DropInv
    <3> QED
      BY <1>8, <3>2, <3>3
  <2> QED
    BY <1>1, <2>1, <2>2, <2>3 DEF BadgeInv
<1> QED
  BY <1>2, <1>3, <1>4, <1>5, <1>6, <1>7, <1>8 DEF NB!Next

\* An effect of the badge that rests leaves neither noise, flash nor puff
\* behind, whatever completions of earlier effects arrive.
THEOREM EffectsCleanUp == Spec => []NothingLeftOver
<1>1. Init => BadgeInv
  BY BadgeInit DEF Init
<1>2. BadgeInv /\ [Next]_vars => BadgeInv'
  <2> SUFFICES ASSUME BadgeInv, [Next]_vars PROVE BadgeInv'
    OBVIOUS
  <2>1. CASE NB!Next
    BY <2>1, BadgeStep
  <2>2. CASE UNCHANGED nb
    BY <2>2 DEF nb, BadgeInv, DropInv, GlitchInv
  <2> QED
    BY <2>1, <2>2, StepOfEach
<1>3. BadgeInv => NothingLeftOver
  BY DEF BadgeInv, DropInv, GlitchInv, NothingLeftOver, NB!NothingLeftOver
<1> QED
  BY <1>1, <1>2, <1>3, PTL DEF Spec

-----------------------------------------------------------------------------
(* snake: the round.                                                       *)

Ahead(cell, d) == <<cell[1] + SG!Delta[d][1], cell[2] + SG!Delta[d][2]>>

\* A path of distinct, adjacent cells of the grid.
Path(s) ==
    /\ s \in Seq(SG!Cells) /\ Len(s) >= 2
    /\ \A i, j \in 1..Len(s) : s[i] = s[j] => i = j
    /\ \A i \in 1..Len(s) - 1 : \E d \in SG!Dirs : s[i + 1] = Ahead(s[i], d)

\* The snake moves the way it lies: its neck is behind its head.
NeckBehind == alive => snake[1] = Ahead(snake[2], dir)

\* The food is off the body, and gone only when the body covers the grid.
FoodFree ==
    food \notin SG!ToSet(snake) /\ (food = SG!NoFood => SG!ToSet(snake) = SG!Cells)

SnakeInv ==
    /\ dir \in SG!Dirs /\ turns \in Seq(SG!Dirs)
    /\ Path(snake) /\ NeckBehind /\ FoodFree

\* Where a cell lies a step ahead, it lies a step back from there.
LEMMA StepBack ==
    \A c \in SG!Cells, d \in SG!Dirs :
        /\ SG!Opposite[d] \in SG!Dirs /\ SG!Opposite[d] # d
        /\ Ahead(Ahead(c, d), SG!Opposite[d]) = c
        /\ \A e \in SG!Dirs : Ahead(Ahead(c, d), e) = c => e = SG!Opposite[d]
BY SnakeAssumption DEF SG!Cells, SG!Dirs, SG!Opposite, SG!Delta, Ahead

\* A body that loses its tail.
LEMMA FrontFacts ==
    \A S, s : s \in Seq(S) /\ Len(s) >= 2 =>
        /\ SG!Front(s) \in Seq(S) /\ Len(SG!Front(s)) = Len(s) - 1
        /\ \A i \in 1..Len(s) - 1 : SG!Front(s)[i] = s[i]
BY DEF SG!Front

\* A cell put in front of a body.
LEMMA ConsFacts ==
    \A S, c, s : c \in S /\ s \in Seq(S) =>
        /\ <<c>> \o s \in Seq(S) /\ Len(<<c>> \o s) = Len(s) + 1
        /\ (<<c>> \o s)[1] = c
        /\ \A i \in 1..Len(s) : (<<c>> \o s)[i + 1] = s[i]
OBVIOUS

\* The food is put on a free cell, or the body covers the grid.
LEMMA FoodIsFree ==
    \A s, f : s \in Seq(SG!Cells) /\ f \in SG!FoodFor(s) =>
        f \notin SG!ToSet(s) /\ (f = SG!NoFood => SG!ToSet(s) = SG!Cells)
<1> TAKE s, f
<1> HAVE s \in Seq(SG!Cells) /\ f \in SG!FoodFor(s)
<1>1. SG!ToSet(s) \subseteq SG!Cells
  BY DEF SG!ToSet
<1>2. SG!NoFood \notin SG!Cells
  BY SnakeAssumption DEF SG!NoFood, SG!Cells
<1> QED
  BY <1>1, <1>2 DEF SG!FoodFor

\* A new round starts with a straight snake.
LEMMA StartFacts == Path(SG!Start) /\ SG!Start[1] = Ahead(SG!Start[2], "E")
<1> DEFINE x == W \div 2
           y == H \div 2
<1>1. /\ x \in Nat /\ x < W /\ StartLength <= x + 1
      /\ y \in Nat /\ y < H
  BY SnakeAssumption
<1> HIDE DEF x, y
<1>2. SG!Start = [i \in 1..StartLength |-> <<x - (i - 1), y>>]
  BY DEF SG!Start, x, y
<1>3. ASSUME NEW i \in 1..StartLength
      PROVE  SG!Start[i] = <<x - (i - 1), y>> /\ SG!Start[i] \in SG!Cells
  <2>1. SG!Start[i] = <<x - (i - 1), y>>
    BY <1>2
  <2>2. x - (i - 1) \in 0..W-1 /\ y \in 0..H-1
    BY <1>1, SnakeAssumption
  <2> QED
    BY <2>1, <2>2 DEF SG!Cells
<1>4. SG!Start \in Seq(SG!Cells) /\ Len(SG!Start) = StartLength
  BY <1>2, <1>3, SnakeAssumption
<1>5. SG!Start[1] = Ahead(SG!Start[2], "E")
  BY <1>1, <1>3, SnakeAssumption DEF Ahead, SG!Delta
<1>6. \A i, j \in 1..StartLength : SG!Start[i] = SG!Start[j] => i = j
  BY <1>1, <1>2, <1>3, SnakeAssumption
<1>7. ASSUME NEW i \in 1..StartLength - 1
      PROVE  SG!Start[i + 1] = Ahead(SG!Start[i], "W")
  <2>1. i \in 1..StartLength /\ i + 1 \in 1..StartLength /\ i \in Int
    BY SnakeAssumption
  <2>2. SG!Start[i] = <<x - (i - 1), y>> /\ SG!Start[i + 1] = <<x - ((i + 1) - 1), y>>
    BY <1>3, <2>1
  <2> QED
    BY <1>1, <2>1, <2>2 DEF Ahead, SG!Delta
<1>8. "W" \in SG!Dirs
  BY DEF SG!Dirs
<1> QED
  BY <1>4, <1>5, <1>6, <1>7, <1>8, SnakeAssumption DEF Path

\* The path s may enter cell h, taking its cells b along.
MayMove(s, b, d, h) ==
    /\ Path(s) /\ d \in SG!Dirs /\ h = Ahead(s[1], d) /\ h \in SG!Cells
    /\ b \in {s, SG!Front(s)} /\ h \notin SG!ToSet(b)

\* A path that moves on, with its tail or without, is a path of the cells it
\* kept and the one it entered, its neck where its head was.
LEMMA PathMoves ==
    \A s, b, d, h :
      MayMove(s, b, d, h) =>
        /\ Path(<<h>> \o b)
        /\ b \in Seq(SG!Cells) /\ Len(b) >= 1 /\ b[1] = s[1]
        /\ SG!ToSet(<<h>> \o b) = SG!ToSet(b) \cup {h}
<1> TAKE s, b, d, h
<1> HAVE MayMove(s, b, d, h)
<1> USE DEF MayMove
<1> DEFINE t == <<h>> \o b
<1>1. s \in Seq(SG!Cells) /\ Len(s) >= 2 /\ Len(s) \in Nat
  BY DEF Path
<1>2. /\ b \in Seq(SG!Cells) /\ Len(b) \in Nat
      /\ Len(b) >= 1 /\ Len(b) <= Len(s) /\ Len(b) >= Len(s) - 1
      /\ \A i \in 1..Len(b) : b[i] = s[i]
  BY <1>1, FrontFacts
<1>3. /\ t \in Seq(SG!Cells) /\ Len(t) = Len(b) + 1
      /\ t[1] = h /\ \A i \in 1..Len(b) : t[i + 1] = b[i]
  BY <1>2, ConsFacts
<1> HIDE DEF t
<1>4. \A i \in 1..Len(b) : h # b[i]
  BY <1>2 DEF SG!ToSet
<1>5. ASSUME NEW i \in 2..Len(t) PROVE t[i] = s[i - 1] /\ t[i] = b[i - 1]
  <2>1. i - 1 \in 1..Len(b) /\ (i - 1) + 1 = i
    BY <1>2, <1>3
  <2> QED
    BY <1>2, <1>3, <2>1
<1>6. ASSUME NEW i \in 1..Len(t), NEW j \in 1..Len(t), t[i] = t[j]
      PROVE  i = j
  <2>1. CASE i = 1 /\ j = 1
    BY <2>1
  <2>2. CASE i = 1 /\ j # 1
    <3>1. j \in 2..Len(t) /\ j - 1 \in 1..Len(b)
      BY <1>2, <1>3, <2>2
    <3> QED
      BY <1>3, <1>4, <1>5, <1>6, <2>2, <3>1
  <2>3. CASE i # 1 /\ j = 1
    <3>1. i \in 2..Len(t) /\ i - 1 \in 1..Len(b)
      BY <1>2, <1>3, <2>3
    <3> QED
      BY <1>3, <1>4, <1>5, <1>6, <2>3, <3>1
  <2>4. CASE i # 1 /\ j # 1
    <3>1. i \in 2..Len(t) /\ j \in 2..Len(t)
      BY <1>2, <1>3, <2>4
    <3>2. i - 1 \in 1..Len(s) /\ j - 1 \in 1..Len(s)
      BY <1>2, <1>3, <3>1
    <3>3. s[i - 1] = s[j - 1]
      BY <1>5, <1>6, <3>1
    <3>4. i - 1 = j - 1
      BY <3>2, <3>3 DEF Path
    <3> QED
      BY <3>4
  <2> QED
    BY <2>1, <2>2, <2>3, <2>4
<1>7. 1 \in 1..Len(s) /\ s[1] \in SG!Cells
  BY <1>1
<1>8. t[2] = s[1]
  BY <1>2, <1>3
<1>9. ASSUME NEW i \in 1..Len(t) - 1
      PROVE  \E e \in SG!Dirs : t[i + 1] = Ahead(t[i], e)
  <2>1. CASE i = 1
    BY <1>3, <1>7, <1>8, <2>1, StepBack
  <2>2. CASE i # 1
    <3>1. /\ i \in 2..Len(t) /\ i + 1 \in 2..Len(t) /\ i - 1 \in 1..Len(s) - 1
          /\ (i + 1) - 1 = (i - 1) + 1
      BY <1>2, <1>3, <2>2
    <3>2. t[i] = s[i - 1] /\ t[i + 1] = s[(i - 1) + 1]
      BY <1>5, <3>1
    <3> QED
      BY <3>1, <3>2 DEF Path
  <2> QED
    BY <2>1, <2>2
<1>10. Len(t) >= 2 /\ Path(t)
  BY <1>2, <1>3, <1>6, <1>9 DEF Path
<1>11. SG!ToSet(t) = SG!ToSet(b) \cup {h}
  <2>1. DOMAIN t = 1..Len(t) /\ DOMAIN b = 1..Len(b)
    BY <1>2, <1>3
  <2>2. ASSUME NEW i \in 1..Len(t) PROVE t[i] \in SG!ToSet(b) \cup {h}
    <3>1. CASE i = 1
      BY <1>3, <3>1
    <3>2. CASE i # 1
      <4>1. i \in 2..Len(t) /\ i - 1 \in 1..Len(b)
        BY <1>2, <1>3, <3>2
      <4> QED
        BY <1>5, <2>1, <4>1 DEF SG!ToSet
    <3> QED
      BY <3>1, <3>2
  <2>3. ASSUME NEW i \in 1..Len(b) PROVE b[i] \in SG!ToSet(t)
    <3>1. i + 1 \in 1..Len(t) /\ t[i + 1] = b[i]
      BY <1>2, <1>3
    <3> QED
      BY <2>1, <3>1 DEF SG!ToSet
  <2>4. h \in SG!ToSet(t)
    <3>1. 1 \in 1..Len(t)
      BY <1>2, <1>3
    <3> QED
      BY <1>3, <2>1, <3>1 DEF SG!ToSet
  <2> QED
    BY <2>1, <2>2, <2>3, <2>4 DEF SG!ToSet
<1> QED
  BY <1>2, <1>10, <1>11 DEF t

\* What a body gives up with its tail.
LEMMA TailFacts ==
    \A s : Path(s) =>
        /\ SG!ToSet(s) = SG!ToSet(SG!Front(s)) \cup {SG!Last(s)}
        /\ SG!Last(s) \notin SG!ToSet(SG!Front(s))
        /\ SG!ToSet(s) \subseteq SG!Cells
        /\ s[1] \in SG!ToSet(s) /\ s[2] \in SG!ToSet(s)
        /\ s[1] \in SG!Cells /\ s[2] \in SG!Cells
<1> TAKE s
<1> HAVE Path(s)
<1>1. s \in Seq(SG!Cells) /\ Len(s) >= 2 /\ Len(s) \in Nat
  BY DEF Path
<1> DEFINE b == SG!Front(s)
<1>2. /\ b \in Seq(SG!Cells) /\ Len(b) = Len(s) - 1
      /\ \A i \in 1..Len(s) - 1 : b[i] = s[i]
  BY <1>1, FrontFacts
<1> HIDE DEF b
<1>3. DOMAIN s = 1..Len(s) /\ DOMAIN b = 1..Len(s) - 1
  BY <1>1, <1>2
<1>4. SG!Last(s) = s[Len(s)] /\ Len(s) \in 1..Len(s)
  BY <1>1 DEF SG!Last
<1>5. \A i \in 1..Len(s) : i = Len(s) \/ i \in 1..Len(s) - 1
  BY <1>1
<1>6. \A i \in 1..Len(s) - 1 : i \in 1..Len(s) /\ i # Len(s)
  BY <1>1
<1>7. SG!ToSet(s) = SG!ToSet(b) \cup {SG!Last(s)}
  BY <1>2, <1>3, <1>4, <1>5, <1>6 DEF SG!ToSet
<1>8. SG!Last(s) \notin SG!ToSet(b)
  BY <1>2, <1>3, <1>4, <1>6 DEF SG!ToSet, Path
<1>9. 1 \in 1..Len(s) /\ 2 \in 1..Len(s)
  BY <1>1
<1>10. /\ s[1] \in SG!ToSet(s) /\ s[2] \in SG!ToSet(s)
       /\ SG!ToSet(s) \subseteq SG!Cells
  BY <1>1, <1>3, <1>9 DEF SG!ToSet
<1> QED
  BY <1>7, <1>8, <1>10 DEF b

\* The invariant says what the property says.
LEMMA PathIsBody == Path(snake) /\ FoodFree => SG!BodyIsPath
<1> SUFFICES ASSUME Path(snake), FoodFree PROVE SG!BodyIsPath
  OBVIOUS
<1>1. DOMAIN snake = 1..Len(snake)
  BY DEF Path
<1>2. SG!IsInjective(snake)
  BY <1>1 DEF Path, SG!IsInjective
<1>3. SG!ToSet(snake) \subseteq SG!Cells
  BY TailFacts
<1> QED
  BY <1>2, <1>3 DEF Path, FoodFree, SG!BodyIsPath, Ahead

\* Steps of the game.
LEMMA SnakeInit == SG!Init => SnakeInv
<1> SUFFICES ASSUME SG!Init PROVE SnakeInv
  OBVIOUS
<1>1. Path(snake) /\ NeckBehind
  BY StartFacts DEF SG!Init, NeckBehind
<1>2. FoodFree
  BY <1>1, FoodIsFree DEF SG!Init, FoodFree, Path
<1>3. dir \in SG!Dirs /\ turns \in Seq(SG!Dirs)
  BY DEF SG!Init, SG!Dirs
<1> QED
  BY <1>1, <1>2, <1>3 DEF SnakeInv

\* The heading a step takes is the old one or a turn to the side.
LEMMA TurnsAside ==
    ASSUME SnakeInv, SG!Step
    PROVE  /\ dir' \in SG!Dirs /\ turns' \in Seq(SG!Dirs)
           /\ dir' # SG!Opposite[dir]
<1>1. dir \in SG!Dirs /\ turns \in Seq(SG!Dirs)
  BY DEF SnakeInv
<1>2. CASE SG!LegalAt = {}
  BY <1>1, <1>2 DEF SG!Step, SG!Dirs, SG!Opposite
<1>3. CASE SG!LegalAt # {}
  <2>1. SG!LegalAt \subseteq 1..Len(turns)
    BY <1>1 DEF SG!LegalAt
  <2>2. SG!FirstLegal \in SG!LegalAt
    <3>1. \E i \in SG!LegalAt : \A j \in SG!LegalAt : i <= j
      <4>1. SG!LegalAt \subseteq Nat
        BY <2>1
      <4> QED
        BY <1>3, <4>1, LeastOf
    <3> QED
      BY <3>1 DEF SG!FirstLegal
  <2>3. /\ dir' = turns[SG!FirstLegal]
        /\ turns' = SubSeq(turns, SG!FirstLegal + 1, Len(turns))
    BY <1>3 DEF SG!Step
  <2>4. SG!FirstLegal \in 1..Len(turns) /\ Len(turns) \in Nat
    BY <1>1, <2>1, <2>2
  <2>5. dir' \in SG!Dirs /\ dir' # SG!Opposite[dir]
    BY <1>1, <2>2, <2>3, <2>4 DEF SG!LegalAt, SG!Legal
  <2>6. turns' \in Seq(SG!Dirs)
    BY <1>1, <2>3, <2>4
  <2> QED
    BY <2>5, <2>6
<1> QED
  BY <1>2, <1>3

\* What a step does to the body.
LEMMA StepOutcome ==
    ASSUME SnakeInv, SG!Step
    PROVE  LET h == Ahead(snake[1], dir')
               b == IF h = food THEN snake ELSE SG!Front(snake)
           IN  \/ /\ h \in SG!Cells /\ h \notin SG!ToSet(b)
                  /\ snake' = <<h>> \o b /\ alive' = alive
                  /\ IF h = food THEN food' \in SG!FoodFor(snake')
                     ELSE food' = food
               \/ /\ ~alive' /\ snake' = snake /\ food' = food
                  /\ h \notin SG!Cells \/ h \in SG!ToSet(b)
BY DEF SG!Step, SG!Advance, SG!Blocked, Ahead

\* Each action of the game keeps the invariant.
LEMMA SnakeStep ==
    ASSUME SnakeInv, SG!Next
    PROVE  SnakeInv'
<1>1. /\ dir \in SG!Dirs /\ turns \in Seq(SG!Dirs)
      /\ Path(snake) /\ FoodFree
  BY DEF SnakeInv
<1>2. CASE SG!Step
  <2> DEFINE h == Ahead(snake[1], dir')
             b == IF h = food THEN snake ELSE SG!Front(snake)
  <2>1. dir' \in SG!Dirs /\ turns' \in Seq(SG!Dirs)
    BY <1>2, TurnsAside
  <2>2. CASE ~alive' /\ snake' = snake /\ food' = food
    BY <1>1, <2>1, <2>2 DEF SnakeInv, NeckBehind, FoodFree
  <2>3. CASE /\ h \in SG!Cells /\ h \notin SG!ToSet(b) /\ snake' = <<h>> \o b
             /\ IF h = food THEN food' \in SG!FoodFor(snake') ELSE food' = food
    <3>1. b \in {snake, SG!Front(snake)}
      OBVIOUS
    <3> DEFINE c == b
    <3>2. /\ c \in {snake, SG!Front(snake)} /\ h \notin SG!ToSet(c)
          /\ snake' = <<h>> \o c /\ (h # food => c = SG!Front(snake))
      BY <2>3, <3>1
    <3> HIDE DEF c
    <3>3. /\ Path(snake') /\ snake'[1] = h /\ snake'[2] = snake[1]
          /\ SG!ToSet(snake') = SG!ToSet(c) \cup {h}
      <4>1. MayMove(snake, c, dir', h)
        BY <1>1, <2>1, <2>3, <3>2 DEF MayMove
      <4> HIDE DEF h
      <4>2. /\ Path(<<h>> \o c)
            /\ c \in Seq(SG!Cells) /\ Len(c) >= 1 /\ c[1] = snake[1]
            /\ SG!ToSet(<<h>> \o c) = SG!ToSet(c) \cup {h}
        BY <4>1, PathMoves
      <4>3. (<<h>> \o c)[1] = h /\ (<<h>> \o c)[2] = c[1]
        BY <4>2
      <4> QED
        BY <3>2, <4>2, <4>3, Zenon
    <3>4. NeckBehind'
      BY <3>3 DEF NeckBehind
    <3>5. FoodFree'
      <4>1. CASE h = food
        <5>1. food' \in SG!FoodFor(snake') /\ snake' \in Seq(SG!Cells)
          BY <2>3, <3>3, <4>1 DEF Path
        <5>2. /\ food' \notin SG!ToSet(snake')
              /\ food' = SG!NoFood => SG!ToSet(snake') = SG!Cells
          BY <5>1, FoodIsFree
        <5> QED
          BY <5>2 DEF FoodFree
      <4>2. CASE h # food
        <5>1. food' = food /\ c = SG!Front(snake)
          BY <2>3, <3>2, <4>2
        <5>2. /\ SG!ToSet(snake) = SG!ToSet(c) \cup {SG!Last(snake)}
              /\ h \notin SG!ToSet(c)
          BY <1>1, <3>2, <5>1, TailFacts
        <5>3. food \notin SG!ToSet(snake')
          BY <1>1, <3>3, <4>2, <5>2 DEF FoodFree
        <5>4. ASSUME food = SG!NoFood PROVE SG!ToSet(snake') = SG!Cells
          <6>1. SG!ToSet(snake) = SG!Cells
            BY <1>1, <5>4 DEF FoodFree
          <6>2. h = SG!Last(snake)
            BY <2>3, <5>2, <6>1
          <6> QED
            BY <3>3, <5>2, <6>1, <6>2
        <5> QED
          BY <5>1, <5>3, <5>4 DEF FoodFree
      <4> QED
        BY <4>1, <4>2
    <3> QED
      BY <2>1, <3>3, <3>4, <3>5 DEF SnakeInv
  <2> QED
    BY <1>2, <2>2, <2>3, StepOutcome
<1>3. CASE SG!NewGame
  <2>1. /\ snake' = SG!Start /\ dir' = "E" /\ turns' = <<>>
        /\ food' \in SG!FoodFor(snake')
    BY <1>3 DEF SG!NewGame
  <2>2. Path(snake') /\ NeckBehind'
    BY <2>1, StartFacts DEF NeckBehind
  <2>3. snake' \in Seq(SG!Cells)
    BY <2>2 DEF Path
  <2>4. /\ food' \notin SG!ToSet(snake')
        /\ food' = SG!NoFood => SG!ToSet(snake') = SG!Cells
    BY <2>1, <2>3, FoodIsFree
  <2>5. dir' \in SG!Dirs /\ turns' \in Seq(SG!Dirs)
    BY <2>1 DEF SG!Dirs
  <2> QED
    BY <2>2, <2>4, <2>5 DEF SnakeInv, FoodFree
<1>4. ASSUME NEW d \in SG!Dirs, SG!Steer(d) PROVE SnakeInv'
  <2>1. UNCHANGED <<snake, dir, food, alive>>
    BY <1>4 DEF SG!Steer
  <2>2. turns' \in {Append(turns, d), Tail(Append(turns, d))}
    BY <1>4 DEF SG!Steer
  <2>3. Append(turns, d) \in Seq(SG!Dirs) /\ Append(turns, d) # <<>>
    <3>1. /\ Append(turns, d) \in Seq(SG!Dirs)
          /\ Len(Append(turns, d)) = Len(turns) + 1 /\ Len(turns) \in Nat
      BY <1>1
    <3>2. Len(Append(turns, d)) # 0
      BY <3>1
    <3> QED
      BY <3>1, <3>2
  <2>4. turns' \in Seq(SG!Dirs)
    BY <2>2, <2>3
  <2> QED
    BY <2>1, <2>4 DEF SnakeInv, NeckBehind, FoodFree
<1> QED
  BY <1>2, <1>3, <1>4 DEF SG!Next

\* Invariants of the two halves of snake.
LEMMA RoundInvariant == Spec => [](SnakeInv /\ ScoresInv)
<1>1. Init => SnakeInv /\ ScoresInv
  BY SnakeInit, ScoresInit DEF Init
<1>2. SnakeInv /\ [Next]_vars => SnakeInv'
  <2> SUFFICES ASSUME SnakeInv, [Next]_vars PROVE SnakeInv'
    OBVIOUS
  <2>1. CASE SG!Next
    BY <2>1, SnakeStep
  <2>2. CASE UNCHANGED sg
    BY <2>2 DEF sg, SnakeInv, NeckBehind, FoodFree
  <2> QED
    BY <2>1, <2>2, StepOfEach
<1>3. ScoresInv /\ [Next]_vars => ScoresInv'
  <2> SUFFICES ASSUME ScoresInv, [Next]_vars PROVE ScoresInv'
    OBVIOUS
  <2>1. CASE SA!Next
    BY <2>1, ScoresStep
  <2>2. CASE UNCHANGED sa
    BY <2>2 DEF sa, ScoresInv, SA!CrashCounts
  <2> QED
    BY <2>1, <2>2, StepOfEach
<1> QED
  BY <1>1, <1>2, <1>3, PTL DEF Spec

\* On a grid of any size, with a window of any length, the body is a path of
\* distinct, adjacent cells with the food off it; a crash counts for the level
\* that was played, in NVS too unless a score at least as high was refused.
THEOREM RoundsCount == Spec => []RoundCounts
<1>1. SnakeInv /\ ScoresInv => RoundCounts
  BY PathIsBody DEF SnakeInv, ScoresInv, RoundCounts
<1> QED
  BY <1>1, RoundInvariant, PTL

\* The snake never turns into its neck, whatever turns the window evicted, and
\* never dies at the cell that its tail leaves.
THEOREM NoUnfairCrash == Spec => FairCrash
<1> DEFINE Fair ==
        /\ alive => dir' # SG!Opposite[dir]
        /\ (alive /\ ~alive') =>
              <<snake[1][1] + SG!Delta[dir'][1], snake[1][2] + SG!Delta[dir'][2]>>
                  \notin {snake[2], SG!Last(snake)}
<1>1. SnakeInv /\ [Next]_vars => Fair \/ UNCHANGED SG!vars
  <2> SUFFICES ASSUME SnakeInv, SG!Next PROVE Fair
    BY StepOfEach DEF sg, SG!vars
  <2>1. dir \in SG!Dirs /\ Path(snake) /\ FoodFree /\ NeckBehind
    BY DEF SnakeInv
  <2>2. CASE SG!Step
    <3>1. dir' \in SG!Dirs /\ dir' # SG!Opposite[dir] /\ alive
      BY <2>2, TurnsAside DEF SG!Step
    <3> DEFINE h == Ahead(snake[1], dir')
               b == IF h = food THEN snake ELSE SG!Front(snake)
    <3>2. ASSUME ~alive' PROVE h \notin {snake[2], SG!Last(snake)}
      <4>1. snake[2] \in SG!Cells /\ snake[1] = Ahead(snake[2], dir)
        BY <2>1, <3>1, TailFacts DEF NeckBehind
      <4>2. h # snake[2]
        BY <2>1, <3>1, <4>1, StepBack
      <4>3. h \notin SG!Cells \/ h \in SG!ToSet(b)
        BY <2>2, <3>1, <3>2, StepOutcome
      <4>4. h # SG!Last(snake)
        <5>1. SG!Last(snake) \in SG!ToSet(snake)
          BY <2>1, TailFacts
        <5>2. SG!Last(snake) \in SG!Cells
          BY <2>1, <5>1, TailFacts
        <5>3. CASE h = food
          BY <2>1, <5>1, <5>3 DEF FoodFree
        <5>4. CASE h # food
          BY <2>1, <4>3, <5>2, <5>4, TailFacts
        <5> QED
          BY <5>3, <5>4
      <4> QED
        BY <4>2, <4>4
    <3> QED
      BY <3>1, <3>2 DEF Ahead
  <2>3. CASE SG!NewGame
    BY <2>3 DEF SG!NewGame
  <2>4. ASSUME NEW d \in SG!Dirs, SG!Steer(d) PROVE Fair
    <3>1. dir' = dir /\ alive' = alive /\ alive
      BY <2>4 DEF SG!Steer
    <3> QED
      BY <2>1, <3>1, StepBack DEF SG!Dirs, SG!Opposite
  <2> QED
    BY <2>2, <2>3, <2>4 DEF SG!Next
<1>2. FairCrash <=> [][Fair]_(SG!vars)
  BY DEF FairCrash, SG!FairCrash
<1> HIDE DEF Fair
<1> QED
  BY <1>1, <1>2, RoundInvariant, PTL DEF Spec
=============================================================================
