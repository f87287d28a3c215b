------------------------------ MODULE RouteOwner ------------------------------
(***************************************************************************)
(* What the cutover of a route from Node to Go promises: for one tenant    *)
(* and one capability there is a single writer.  The registry names it;    *)
(* work of the Go side starts only while the registry says "go", and the   *)
(* registry is written only when no work of the Go side is going on.       *)
(***************************************************************************)
EXTENDS FiniteSets

CONSTANT Units          \* units of work: requests and jobs

VARIABLES owner,        \* the writer that the registry names
          working       \* units of the Go side that have not ended

vars == <<owner, working>>

Owners == {"legacy", "go"}

Init == owner \in Owners /\ working = {}

Start(u) == owner = "go" /\ u \notin working /\ working' = working \cup {u}
            /\ UNCHANGED owner
Finish(u) == u \in working /\ working' = working \ {u} /\ UNCHANGED owner
Abort == working' = {} /\ UNCHANGED owner
HandOver == working = {} /\ owner' \in Owners /\ UNCHANGED working

Next == (\E u \in Units : Start(u) \/ Finish(u)) \/ Abort \/ HandOver

Spec == Init /\ [][Next]_vars
===============================================================================
