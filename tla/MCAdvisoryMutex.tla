-------------------------- MODULE MCAdvisoryMutex --------------------------
(* Deployments of AdvisoryMutex for TLC.                                   *)
EXTENDS AdvisoryMutex, TLC

CONSTANTS t1, t2, t3, a, b, x, y, i1, i2, i3

(* Independent runs, each with its own mutex.                              *)
OwnInstances == [t \in Tasks |-> CASE t = t1 -> i1 [] t = t2 -> i2 [] OTHER -> i3]
NoContinuation == [t \in Tasks |-> NoTask]

(* The two names have different hashes.                                    *)
Distinct == a :> x @@ b :> y

(* t2 continues in the background the run that t1 paused, on the same      *)
(* object; t3 is another run.                                              *)
SharedInstance == t1 :> i1 @@ t2 :> i1 @@ t3 :> i2
Continuation == t1 :> NoTask @@ t2 :> t1 @@ t3 :> NoTask

(* Idle connections whose sessions have the same locks are alike: the pool *)
(* may as well hand out one of them that is fixed.                         *)
Locks(c) == {k \in Keys : lock[k] = c}
FirstOut ==
  \A c \in free \ free' : c = CHOOSE d \in free : Locks(d) = Locks(c)

SpecFirstOut == Init /\ [][Next /\ FirstOut]_vars /\ Fairness
=============================================================================
