-------------------------------- MODULE Cutover --------------------------------
(***************************************************************************)
(* The Guard of one Go process for one tenant and capability, and          *)
(* SwitchOwner, which hands the capability to the other side              *)
(* (migracao/backend/internal/platform/cutover).  Keys of the Guard share  *)
(* nothing but its mutex, so one is modelled.  Every critical section of   *)
(* Guard.mu is one action.  The registry is a row of the database.         *)
(***************************************************************************)
EXTENDS Naturals, FiniteSets

CONSTANTS Units,        \* requests and jobs of the process
          Switchers     \* callers of SwitchOwner

ASSUME UnitsFinite == IsFiniteSet(Units)

VARIABLES registry,     \* owner in _sc_capability_ownership
          guard,        \* keyState of the key
          working,      \* units that Begin admitted and that have not ended
          sw            \* where each caller of SwitchOwner is

vars == <<registry, guard, working, sw>>

Owners == {"legacy", "go"}

\* A key that nobody has loaded has no owner, which is never "go".
Cached == Owners \cup {"none"}

\* "stranded": waits for the done channel of a keyState that another
\* SwitchOwner has replaced; only the timeout of the drain ends that.
PCs == {"idle", "waiting", "stranded", "drained", "persisted"}

NewKey(o) == [n |-> 0, draining |-> FALSE, owner |-> o]

Init ==
  /\ registry \in Owners
  /\ guard \in {NewKey(o) : o \in {registry, "none"}}
  /\ working = {}
  /\ sw = [s \in Switchers |-> [pc |-> "idle", to |-> "legacy"]]

-------------------------------------------------------------------------------
\* Mutant of Begin: admission does not look at the drain.
BeginWhileDraining(u) ==
  /\ u \notin working
  /\ guard.owner = "go"
  /\ guard' = [guard EXCEPT !.n = @ + 1]
  /\ working' = working \cup {u}
  /\ UNCHANGED <<registry, sw>>

\* A request or a job asks for admission; the two refusals change nothing.
Begin(u) ==
  /\ u \notin working
  /\ ~guard.draining
  /\ guard.owner = "go"
  /\ guard' = [guard EXCEPT !.n = @ + 1]
  /\ working' = working \cup {u}
  /\ UNCHANGED <<registry, sw>>

\* Mutant of End: the last unit of a drain is taken for the last but one.
EndUnheard(u) ==
  /\ u \in working
  /\ working' = working \ {u}
  /\ guard' = [guard EXCEPT !.n = @ - 1]
  /\ UNCHANGED <<registry, sw>>

\* A unit ends.  It is counted off whatever keyState the map holds by now,
\* never below zero, and the last one of a drain closes the done channel.
End(u) ==
  LET left == IF guard.n = 0 THEN 0 ELSE guard.n - 1
      woken(s) == guard.draining /\ left = 0 /\ sw[s].pc = "waiting" IN
  /\ u \in working
  /\ working' = working \ {u}
  /\ guard' = [guard EXCEPT !.n = left]
  /\ sw' = [s \in Switchers |->
              IF woken(s) THEN [sw[s] EXCEPT !.pc = "drained"] ELSE sw[s]]
  /\ UNCHANGED registry

\* Mutant of Drain: the registry is written without waiting.
DrainNoWait(s, o) ==
  /\ sw[s].pc = "idle"
  /\ guard' = [guard EXCEPT !.draining = TRUE]
  /\ sw' = [sw EXCEPT ![s] = [pc |-> "drained", to |-> o]]
  /\ UNCHANGED <<registry, working>>

\* SwitchOwner(o) closes admission and looks whether there is work to wait for.
Drain(s, o) ==
  /\ sw[s].pc = "idle"
  /\ guard' = [guard EXCEPT !.draining = TRUE]
  /\ sw' = [sw EXCEPT ![s] =
              [pc |-> IF guard.n = 0 THEN "drained" ELSE "waiting", to |-> o]]
  /\ UNCHANGED <<registry, working>>

\* The drain takes longer than drainTimeout: the key stays closed.
DrainTimeout(s) ==
  /\ sw[s].pc \in {"waiting", "stranded"}
  /\ sw' = [sw EXCEPT ![s].pc = "idle"]
  /\ UNCHANGED <<registry, guard, working>>

\* The transaction around SetOwner commits; the answer may be lost.
Persist(s) ==
  /\ sw[s].pc = "drained"
  /\ registry' = sw[s].to
  /\ \E answer \in {"persisted", "idle"} : sw' = [sw EXCEPT ![s].pc = answer]
  /\ UNCHANGED <<guard, working>>

\* Mutant of PersistFails: admission is opened again for the old owner.
PersistFailsOpen(s) ==
  /\ sw[s].pc = "drained"
  /\ sw' = [sw EXCEPT ![s].pc = "idle"]
  /\ guard' = [guard EXCEPT !.draining = FALSE]
  /\ UNCHANGED <<registry, working>>

\* The transaction fails: again the key stays closed.
PersistFails(s) ==
  /\ sw[s].pc = "drained"
  /\ sw' = [sw EXCEPT ![s].pc = "idle"]
  /\ UNCHANGED <<registry, guard, working>>

\* resumeWithOwner puts a new keyState in the place of the drained one.
Resume(s) ==
  /\ sw[s].pc = "persisted"
  /\ guard' = NewKey(sw[s].to)
  /\ sw' = [t \in Switchers |->
              IF t = s THEN [sw[t] EXCEPT !.pc = "idle"]
              ELSE IF sw[t].pc = "waiting" THEN [sw[t] EXCEPT !.pc = "stranded"]
              ELSE sw[t]]
  /\ UNCHANGED <<registry, working>>

\* The process ends with all its work and starts again; LoadFromRegistry
\* may fail, which leaves the Guard empty.
Restart ==
  /\ guard' \in {NewKey(o) : o \in {registry, "none"}}
  /\ working' = {}
  /\ sw' = [s \in Switchers |-> [sw[s] EXCEPT !.pc = "idle"]]
  /\ UNCHANGED registry

Next ==
  \/ \E u \in Units : Begin(u) \/ End(u)
  \/ \E s \in Switchers :
       \/ \E o \in Owners : Drain(s, o)
       \/ DrainTimeout(s) \/ Persist(s) \/ PersistFails(s) \/ Resume(s)
  \/ Restart

\* Requests and jobs end, and so does SwitchOwner.
Fairness ==
  /\ \A u \in Units : WF_vars(End(u))
  /\ \A s \in Switchers : WF_vars(Persist(s) \/ PersistFails(s)) /\ WF_vars(Resume(s))

Spec == Init /\ [][Next]_vars /\ Fairness

-------------------------------------------------------------------------------
\* Values stay within their types and the counter is the number of units.
TypeOK ==
  /\ registry \in Owners
  /\ guard \in [n : Nat, draining : BOOLEAN, owner : Cached]
  /\ working \subseteq Units
  /\ sw \in [Switchers -> [pc : PCs, to : Owners]]

\* While the registry names the legacy system no unit of the Go process is
\* at work: admission that was decided on the cached owner never outlives the
\* owner (the single writer of guard.go and switch.go).
SingleWriter == registry = "legacy" => working = {}

\* The cache of an open key agrees with the registry, so a switch that failed
\* half-way, with the registry written or not, admits nobody.
OpenAgrees == ~guard.draining => guard.owner \in {registry, "none"}

\* A drain that is waited for will be signalled: there is a unit left to end,
\* and the one that ends last finds the count at zero.
NoLostDrain ==
  \A s \in Switchers :
    sw[s].pc = "waiting" => guard.draining /\ guard.n = Cardinality(working) /\ working # {}

\* SwitchOwner returns, if only because all the work it waits for ends
\* (the timeout of the drain is not needed for it).
SwitchReturns == \A s \in Switchers : sw[s].pc # "idle" ~> sw[s].pc = "idle"

\* The Guard and SwitchOwner implement the handing over of a capability.
RO == INSTANCE RouteOwner WITH owner <- registry
ImplementsRouteOwner == RO!Spec
===============================================================================
