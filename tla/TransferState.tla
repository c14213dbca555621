---------------------------- MODULE TransferState ----------------------------
(***************************************************************************)
(* The state machine of one transfer job                                   *)
(* (crates/televault-transfer/src/state.rs): the states and the            *)
(* transitions it permits.                                                 *)
(***************************************************************************)

State == {"Pending", "Preparing", "Transferring", "Verifying",
          "Completed", "Failed", "Retrying", "Cancelled"}

IsTerminal(s) == s \in {"Completed", "Failed", "Cancelled"}

CanTransitionTo(s, t) ==
  \/ s = t
  \/ s = "Pending"      /\ t \in {"Preparing", "Cancelled", "Failed"}
  \/ s = "Preparing"    /\ t \in {"Transferring", "Failed", "Cancelled"}
  \/ s = "Transferring" /\ t \in {"Verifying", "Completed", "Retrying",
                                  "Failed", "Cancelled"}
  \/ s = "Verifying"    /\ t \in {"Completed", "Retrying", "Failed", "Cancelled"}
  \/ s = "Retrying"     /\ t \in {"Preparing", "Transferring", "Failed", "Cancelled"}

(* transition_to whose error the caller discards: `let _ = job.transition(t)`. *)
TransitionTo(s, t) == IF CanTransitionTo(s, t) THEN t ELSE s
==============================================================================
