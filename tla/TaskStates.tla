----------------------------- MODULE TaskStates -----------------------------
(* The statuses of a task and the table of its transitions (amp_sdk.py).   *)

TASK_STATUSES ==
  {"CREATED", "ASSIGNED", "IN_PROGRESS", "COMPLETED", "FAILED", "CANCELLED"}

VALID_TRANSITIONS ==
  [s \in TASK_STATUSES |->
     CASE s = "CREATED"     -> {"ASSIGNED", "CANCELLED"}
       [] s = "ASSIGNED"    -> {"IN_PROGRESS", "CANCELLED"}
       [] s = "IN_PROGRESS" -> {"COMPLETED", "FAILED", "CANCELLED"}
       [] s = "FAILED"      -> {"ASSIGNED"}  \* retry
       [] OTHER             -> {}]
=============================================================================
