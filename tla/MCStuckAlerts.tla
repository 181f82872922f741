---------------------------- MODULE MCStuckAlerts ----------------------------
(* Small instances of StuckAlerts for TLC. *)
EXTENDS StuckAlerts, TLC

CONSTANTS issue, wf     \* an issue-shaped and a workflow-shaped alert

MCPrefix == (issue :> "review-stuck") @@ (wf :> "dead-scheduler")
==============================================================================
