---------------------------- MODULE PrintCounter ----------------------------
(***************************************************************************)
(* examples/print_counter, the caller of the thermo_print feature: it      *)
(* fetches a text, hands it to the provider and advances its number when   *)
(* the provider reports DONE.  The host's single job slot and the provider *)
(* are the ones of FeatureJob; the status reaches the caller as an action  *)
(* of its own, later, and only while the caller is loaded.  The writes to  *)
(* NVS and lifecycle::set_resident may fail, and the plugin ignores it.    *)
(***************************************************************************)
EXTENDS Integers, Sequences

CONSTANTS
    MaxPrints,  \* bound: jobs reported as printed
    MaxLosses   \* bound: failures that can lose a status or a number

VARIABLES
    num,        \* the next number
    nvsNum,     \* NVS_NUM
    url,        \* a URL is configured
    nvsUrl,     \* NVS_URL holds one
    job_pending,
    wifi,       \* WiFi reservations held
    kept,       \* the host keeps the plugin in the background
    view,       \* "unloaded", "background" or "front"
    job,        \* the host's slot: "free", "offered" or "taken"
    jobNum,     \* the number in the job of the slot
    mail,       \* statuses on their way to the caller, in any order
    printed,    \* numbers of the jobs reported as printed, in order (history)
    losses      \* failures so far that lost a status or a number (history)

vars == <<num, nvsNum, url, nvsUrl, job_pending, wifi, kept, view, job, jobNum, mail,
          printed, losses>>

Init ==
    /\ num = 0 /\ nvsNum = 0 /\ url = FALSE /\ nvsUrl = FALSE
    /\ job_pending = FALSE /\ wifi = 0 /\ kept = FALSE /\ view = "unloaded"
    /\ job = "free" /\ jobNum = 0 /\ mail = [DONE |-> 0, ERROR |-> 0]
    /\ printed = <<>> /\ losses = 0

slot == <<job, jobNum, mail, printed>>
hold == <<job_pending, wifi, kept>>

\* A failure that loses the status of a job, or the number it advanced.
Lose == losses < MaxLosses /\ losses' = losses + 1

\* plugin_on_enter reads NVS.
Enter ==
    /\ view # "front" /\ view' = "front"
    /\ num' = nvsNum /\ url' = nvsUrl
    /\ UNCHANGED <<nvsNum, nvsUrl, hold, slot, losses>>

\* The host tears a plugin down: its memory is gone, its reservation is given
\* back, and it is not told of its job any more.
Teardown ==
    /\ view' = "unloaded" /\ job_pending' = FALSE /\ wifi' = 0 /\ kept' = FALSE

\* The user leaves; without residency the plugin is torn down.
Leave ==
    /\ view = "front"
    /\ \/ kept /\ view' = "background" /\ UNCHANGED hold
       \/ ~kept /\ Teardown
    /\ UNCHANGED <<num, nvsNum, url, nvsUrl, slot, losses>>

\* "Stop background", from the plugin list.
Stop ==
    /\ view = "background" /\ Teardown
    /\ IF job_pending THEN Lose ELSE UNCHANGED losses
    /\ UNCHANGED <<num, nvsNum, url, nvsUrl, slot>>

\* ACT_URL_DONE.
SetUrl ==
    /\ view = "front" /\ url' \in BOOLEAN /\ nvsUrl' \in {url', nvsUrl}
    /\ UNCHANGED <<num, nvsNum, hold, view, slot, losses>>

Release(n) == IF n > 0 THEN n - 1 ELSE 0

\* do_print without WiFi, without an answer, or refused by the host (no
\* provider, or its slot is in use): what was taken is given back.
PrintFails ==
    /\ view = "front" /\ ~job_pending /\ url
    /\ wifi' = Release(wifi + 1) /\ kept' \in BOOLEAN
    /\ UNCHANGED <<num, nvsNum, url, nvsUrl, job_pending, view, slot, losses>>

\* Mutation: only residency is given back.
JobFinishedOnline == job_pending' = FALSE /\ kept' \in {kept, FALSE} /\ UNCHANGED wifi

\* job_finished.
JobFinished == job_pending' = FALSE /\ wifi' = Release(wifi) /\ kept' \in {kept, FALSE}

\* do_print, the job is accepted: the printer comes to the front, and a caller
\* that the host does not keep goes at once.
PrintAccepted ==
    /\ view = "front" /\ ~job_pending /\ url
    /\ job = "free" /\ Len(printed) < MaxPrints
    /\ job' = "offered" /\ jobNum' = num
    /\ \/ /\ kept' = TRUE /\ wifi' = wifi + 1 /\ job_pending' = TRUE
          /\ view' = "background" /\ UNCHANGED losses
       \/ ~kept /\ Teardown /\ Lose
    /\ UNCHANGED <<num, nvsNum, url, nvsUrl, mail, printed>>

\* feature::report_result, towards the caller.
Report(status) == mail' = [mail EXCEPT ![status] = @ + 1]

\* The provider pulls the job, and refuses it at once or works on it.
ProviderTakes ==
    /\ job = "offered"
    /\ \/ job' = "taken" /\ UNCHANGED mail
       \/ job' = "free" /\ Report("ERROR")
    /\ UNCHANGED <<num, nvsNum, url, nvsUrl, hold, view, jobNum, printed, losses>>

ProviderReports ==
    /\ job = "taken" /\ job' = "free"
    /\ \/ Report("DONE") /\ printed' = Append(printed, jobNum)
       \/ Report("ERROR") /\ UNCHANGED printed
    /\ UNCHANGED <<num, nvsNum, url, nvsUrl, hold, view, jobNum, losses>>

\* Mutation: the new number is not saved.
AdvanceUnsaved == num' = num + 1 /\ UNCHANGED <<nvsNum, losses>>

\* The number moves on, in NVS too if the write succeeds.
Advance ==
    /\ num' = num + 1
    /\ \/ nvsNum' = num' /\ UNCHANGED losses
       \/ Lose /\ UNCHANGED nvsNum

\* Mutation: the status is handled once the user comes back.
StatusInFront(status) ==
    /\ mail[status] > 0 /\ mail' = [mail EXCEPT ![status] = @ - 1]
    /\ view = "front"
    /\ IF job_pending
       THEN /\ JobFinished
            /\ IF status = "DONE" THEN Advance ELSE UNCHANGED <<num, nvsNum, losses>>
       ELSE UNCHANGED <<num, nvsNum, losses, hold>>
    /\ UNCHANGED <<url, nvsUrl, view, job, jobNum, printed>>

\* ACT_STATUS; the host drops the status of a caller that is not loaded.
Status(status) ==
    /\ mail[status] > 0 /\ mail' = [mail EXCEPT ![status] = @ - 1]
    /\ IF view # "unloaded" /\ job_pending
       THEN /\ JobFinished
            /\ IF status = "DONE" THEN Advance ELSE UNCHANGED <<num, nvsNum, losses>>
       ELSE UNCHANGED <<num, nvsNum, losses, hold>>
    /\ UNCHANGED <<url, nvsUrl, view, job, jobNum, printed>>

\* Power loss: the job and its status are gone, NVS stays.
PowerLoss ==
    /\ Teardown /\ IF job_pending THEN Lose ELSE UNCHANGED losses
    /\ job' = "free" /\ mail' = [DONE |-> 0, ERROR |-> 0]
    /\ UNCHANGED <<num, nvsNum, url, nvsUrl, jobNum, printed>>

Deliver == \E status \in {"DONE", "ERROR"} : Status(status)

Next ==
    \/ Enter \/ Leave \/ Stop \/ SetUrl \/ PrintFails \/ PrintAccepted
    \/ ProviderTakes \/ ProviderReports \/ Deliver \/ PowerLoss

Spec == Init /\ [][Next]_vars

-----------------------------------------------------------------------------
(* Properties.                                                             *)

\* The i-th job that is printed carries the number i - 1, less one at most for
\* each failure that lost a status or a number: a refused write of the number, a
\* power loss or a stop while a job was pending, a caller that was not kept.  A
\* status of an earlier job that arrives late costs nothing more.
NumbersInOrder ==
    \A i \in 1..Len(printed) : printed[i] <= i - 1 /\ i - 1 <= printed[i] + losses

\* WiFi is reserved exactly while a job is pending (do_print, job_finished); a
\* caller with a pending job is kept in memory, and its job is in the host's
\* slot or a status is on its way.
HeldWhilePending ==
    /\ wifi = (IF job_pending THEN 1 ELSE 0)
    /\ job_pending => kept
    /\ job_pending => job # "free" \/ \E status \in DOMAIN mail : mail[status] > 0

\* A print's number, its reservation and its residency move together, over any
\* order of the user, the provider, the power and the writes that fail.
JobAccounted == NumbersInOrder /\ HeldWhilePending

\* The reservation ends, whether the print succeeds or not (ACT_STATUS).
PendingEnds == job_pending ~> ~job_pending
=============================================================================
