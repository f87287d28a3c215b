-------------------------- MODULE MCWorkflowEngine --------------------------
(* All workflows of up to MaxSteps steps for WorkflowEngine, the body of a *)
(* loop numbered before what comes after it, and some larger ones.         *)
EXTENDS WorkflowEngine, TLC

CONSTANTS MaxSteps, MaxLen,
          LoopEndsBody   \* whether a loop may be the last step in a body

Plain == {"Action", "SetErrorHandler", "Throws", "Pause", "Directive", "Stop"}
Plainly(k, n) == [kind |-> k, next |-> n, body |-> 0, len |-> 0]

RECURSIVE Chains(_, _, _)

(* The chains of the steps lo..hi, in the body of a loop or not.           *)
Chains(lo, hi, inner) ==
  IF lo > hi THEN {<<>>}
  ELSE {(lo :> Plainly(k, IF lo < hi THEN lo + 1 ELSE 0)) @@ rest :
           k \in Plain, rest \in Chains(lo + 1, hi, inner)}
       \cup UNION {
         {(lo :> [kind |-> "ForLoop", next |-> IF m < hi THEN m + 1 ELSE 0, body |-> lo + 1, len |-> n])
             @@ body @@ rest :
            n \in 0..MaxLen, body \in Chains(lo + 1, m, TRUE), rest \in Chains(m + 1, hi, inner)}
         : m \in {m \in (lo + 1)..hi : inner => m < hi \/ LoopEndsBody}}

(* A loop in a loop after SetErrorHandler, with a step after each.         *)
TwoLoops == {<<Plainly("SetErrorHandler", 2),
             [kind |-> "ForLoop", next |-> 6, body |-> 3, len |-> m],
             [kind |-> "ForLoop", next |-> 5, body |-> 4, len |-> n],
             Plainly(j, 0), Plainly(k, 0), Plainly("Action", 0)>> :
           j, k \in Plain, m, n \in 1..MaxLen}

AllPrograms == TwoLoops \cup UNION {Chains(1, n, FALSE) : n \in 1..MaxSteps}

(* The loops around a step: the body of a loop goes up to its next step.   *)
Around(p) == [s \in DOMAIN p |->
  {f \in DOMAIN p : p[f].kind = "ForLoop" /\ f < s /\ (p[f].next = 0 \/ s < p[f].next)}]

ASSUME LoopEndsBody \/ \A p \in AllPrograms : Nests(p, Around(p)) /\ Forward(p, Around(p))

=============================================================================
