--------------------------- MODULE MCWorkflowRuns ---------------------------
(* Deployments of WorkflowRuns for TLC.                                    *)
EXTENDS WorkflowRuns, TLC

CONSTANTS r1, r2, primary, worker

(* One that a request starts, one that the scheduler starts.              *)
Unattended ==
  (r1 :> <<"Directive", "WaitUntil", "Action", "WaitNextTick">>)
    @@ (r2 :> <<"WaitNextTick", "Action", "WaitUntil">>)

(* A dialogue with a user, with a directive for the browser in between.    *)
Dialogue ==
  r1 :> <<"Directive", "UserForm", "Action", "Background", "Output">>

(* Two forms in a row.                                                     *)
Forms == r1 :> <<"UserForm", "UserForm", "Action">>

(* A form, then a date to wait for.                                        *)
FormUntil == r1 :> <<"UserForm", "WaitUntil", "Action">>

NextTick == r1 :> <<"WaitNextTick", "Action">>

=============================================================================
