----------------------------- MODULE RootStates -----------------------------
(***************************************************************************)
(* The root agent's operating modes and the table of allowed changes        *)
(* (ROOT_STATES, TRANSITIONS and TASK_STATUSES in store.py).                *)
(***************************************************************************)

ROOT_STATES ==
    {"BOOTSTRAP", "DISCOVERY", "RESEARCH", "EXPERIMENT", "BUILD", "VALIDATE",
     "DEPLOY", "OBSERVE", "REFLECT", "INCIDENT", "SUSPENDED", "PARKED",
     "REJECTED"}

TASK_STATUSES == {"ready", "in_progress", "completed", "blocked", "rejected"}

\* TRANSITIONS[s]: the states transition() may move to from s.
Successors(s) ==
    CASE s = "BOOTSTRAP"  -> {"DISCOVERY", "INCIDENT", "SUSPENDED"}
      [] s = "DISCOVERY"  -> {"RESEARCH", "INCIDENT", "SUSPENDED", "PARKED"}
      [] s = "RESEARCH"   -> {"EXPERIMENT", "REJECTED", "PARKED", "INCIDENT",
                              "SUSPENDED"}
      [] s = "EXPERIMENT" -> {"BUILD", "EXPERIMENT", "REJECTED", "PARKED",
                              "INCIDENT", "SUSPENDED"}
      [] s = "BUILD"      -> {"VALIDATE", "INCIDENT", "SUSPENDED", "REJECTED"}
      [] s = "VALIDATE"   -> {"DEPLOY", "BUILD", "REJECTED", "SUSPENDED",
                              "INCIDENT"}
      [] s = "DEPLOY"     -> {"OBSERVE", "INCIDENT", "SUSPENDED"}
      [] s = "OBSERVE"    -> {"REFLECT", "INCIDENT", "SUSPENDED"}
      [] s = "REFLECT"    -> {"DISCOVERY", "RESEARCH", "EXPERIMENT", "BUILD",
                              "OBSERVE", "SUSPENDED", "REJECTED"}
      [] s = "INCIDENT"   -> {"BUILD", "VALIDATE", "OBSERVE", "SUSPENDED"}
      [] s = "SUSPENDED"  -> {"DISCOVERY", "RESEARCH", "BUILD", "VALIDATE",
                              "OBSERVE", "REJECTED"}
      [] s = "PARKED"     -> {"DISCOVERY", "RESEARCH", "REJECTED"}
      [] s = "REJECTED"   -> {"DISCOVERY", "RESEARCH"}
      [] OTHER            -> {}

TRANSITIONS == [s \in ROOT_STATES |-> Successors(s)]
=============================================================================
