----------------------------- MODULE FeatureJob -----------------------------
(***************************************************************************)
(* What a provider of an external feature promises (sdk feature.rs and     *)
(* docs/capabilities.md): the host hands it one job at a time, the provider *)
(* pulls the job and reports its outcome exactly once.  The slot is the     *)
(* host's; `status` is what the provider reported in the current call.      *)
(***************************************************************************)
VARIABLES slot, status

Init == slot = "free" /\ status = "none"

\* use_ext_feature is accepted: the single slot was free.
Use == slot = "free" /\ slot' = "offered" /\ status' = "none"

\* The handler action pulls the job and refuses it with an error.
Refuse == slot = "offered" /\ slot' = "free" /\ status' = "ERROR"

\* The handler action pulls the job and works on it.
Take == slot = "offered" /\ slot' = "taken" /\ status' = "none"

\* report_result, once per job taken.
Report ==
    /\ slot = "taken"
    /\ slot' = "free"
    /\ status' \in {"DONE", "ERROR"}

\* Any other call of the provider reports nothing.
Other == slot' = slot /\ status' = "none"

Next == Use \/ Refuse \/ Take \/ Report \/ Other

Spec == Init /\ [][Next]_<<slot, status>>
=============================================================================
