---------------------------- MODULE MCLiveApps -----------------------------
(* LiveApps for TLC; the constants are in LiveApps.cfg.                    *)
EXTENDS LiveApps
=============================================================================
