--------------------------- MODULE OrderLifecycle ---------------------------
(***************************************************************************)
(* The order state machine of order_management/state_machine.py as data:   *)
(* the lifecycle states, the table of permitted moves and the test that    *)
(* transition_to makes before it changes the state.  The callback that     *)
(* transition_to runs on entering UNKNOWN belongs to the OMS and is part   *)
(* of the action of Execution that enters UNKNOWN.                         *)
(***************************************************************************)

(* NONE is the absence of a state machine: the OMS has no order of that id.*)
NONE == "NONE"

Terminal == {"FILLED", "REJECTED", "CANCELLED", "EXPIRED", "FAILED"}

LifecycleState ==
  {"CREATED", "RISK_CHECKED", "SUBMITTED", "ACKED", "PARTIALLY_FILLED", "UNKNOWN"}
    \cup Terminal

(* LEGAL_TRANSITIONS: the states permitted after s.                        *)
Successors(s) ==
  CASE s = "CREATED"          -> {"RISK_CHECKED", "REJECTED", "FAILED"}
    [] s = "RISK_CHECKED"     -> {"SUBMITTED", "REJECTED", "CANCELLED", "FAILED"}
    [] s = "SUBMITTED"        -> {"ACKED", "PARTIALLY_FILLED", "FILLED", "REJECTED",
                                  "FAILED", "UNKNOWN"}
    [] s = "ACKED"            -> {"PARTIALLY_FILLED", "FILLED", "CANCELLED", "EXPIRED",
                                  "FAILED", "UNKNOWN"}
    [] s = "PARTIALLY_FILLED" -> {"PARTIALLY_FILLED", "FILLED", "CANCELLED", "EXPIRED",
                                  "UNKNOWN"}
    [] s = "UNKNOWN"          -> {"FILLED", "CANCELLED", "FAILED"}
    [] OTHER                  -> {}

(* transition_to re-affirms the current state silently, moves along the    *)
(* table, and raises IllegalStateTransitionError otherwise.                *)
Accepts(s, target) == target = s \/ target \in Successors(s)
=============================================================================
