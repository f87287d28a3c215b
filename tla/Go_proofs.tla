------------------------------ MODULE Go_proofs ------------------------------
(***************************************************************************)
(* Proofs about two parts of the Go side: Cutover for every finite set of  *)
(* units, with calls of SwitchOwner that do not overlap (OneSwitcher; type *)
(* correctness does without it), and GoScheduler for every set of workers  *)
(* and triggers, every lease time and period, and any number of faults.    *)
(***************************************************************************)
EXTENDS Cutover, GoScheduler, FiniteSetTheorems, TLAPS

-------------------------------------------------------------------------------
(* Cutover: the Guard and SwitchOwner.                                     *)

OneSwitcher == \A s, t \in Switchers : s = t

\* The counter of the keyState is the number of units at work.
Counted == guard.n = Cardinality(working)

\* What a caller of SwitchOwner knows at each point.
SwitchKnows ==
  \A s \in Switchers :
    /\ sw[s].pc # "idle" => guard.draining
    /\ sw[s].pc \in {"drained", "persisted"} => working = {}
    /\ sw[s].pc = "persisted" => registry = sw[s].to

IInv ==
  /\ TypeOK
  /\ Counted
  /\ SingleWriter
  /\ OpenAgrees
  /\ NoLostDrain
  /\ SwitchKnows

LEMMA InitInv == Init => IInv
  <1> SUFFICES ASSUME Init PROVE IInv
    OBVIOUS
  <1>1. TypeOK
    <2>1. PICK o \in {registry, "none"} : guard = NewKey(o)
      BY DEF Init
    <2> QED
      BY <2>1 DEF Init, TypeOK, NewKey, Owners, Cached, PCs
  <1>2. Counted
    BY FS_EmptySet DEF Init, Counted, NewKey
  <1>3. SingleWriter /\ OpenAgrees /\ NoLostDrain /\ SwitchKnows
    BY DEF Init, SingleWriter, OpenAgrees, NoLostDrain, SwitchKnows, NewKey
  <1> QED
    BY <1>1, <1>2, <1>3 DEF IInv

\* How the counter and the units at work hang together.
LEMMA Counting ==
  ASSUME TypeOK, Counted
  PROVE  /\ guard.n = 0 <=> working = {}
         /\ \A u \in Units \ working : Cardinality(working \cup {u}) = guard.n + 1
         /\ \A u \in working : /\ Cardinality(working \ {u}) = guard.n - 1
                               /\ guard.n # 0
  <1>1. IsFiniteSet(working)
    BY UnitsFinite, FS_Subset DEF TypeOK
  <1>2. guard.n = 0 <=> working = {}
    BY <1>1, FS_EmptySet DEF Counted
  <1>3. ASSUME NEW u \in Units \ working
        PROVE  Cardinality(working \cup {u}) = guard.n + 1
    BY <1>1, FS_AddElement DEF Counted
  <1>4. ASSUME NEW u \in working
        PROVE  Cardinality(working \ {u}) = guard.n - 1 /\ guard.n # 0
    BY <1>1, <1>2, FS_RemoveElement DEF Counted
  <1> QED
    BY <1>2, <1>3, <1>4

LEMMA BeginInv ==
  ASSUME IInv, NEW u \in Units, Begin(u) PROVE IInv'
  <1> USE DEF IInv, Begin
  <1>1. TypeOK'
    BY DEF TypeOK
  <1>2. Counted'
    BY Counting DEF Counted, TypeOK
  <1>3. SingleWriter' /\ OpenAgrees' 
    BY DEF SingleWriter, OpenAgrees, TypeOK, Owners
  <1>4. NoLostDrain' /\ SwitchKnows'
    BY DEF NoLostDrain, SwitchKnows, TypeOK
  <1> QED
    BY <1>1, <1>2, <1>3, <1>4

\* The last unit of a drain wakes everybody who waits for it.
LEMMA EndInv ==
  ASSUME IInv, NEW u \in Units, End(u) PROVE IInv'
  <1> USE DEF IInv
  <1> DEFINE left == guard.n - 1
             woken(s) == guard.draining /\ left = 0 /\ sw[s].pc = "waiting"
  <1>0. /\ guard.n \in Nat /\ guard.n # 0 /\ left \in Nat
        /\ Cardinality(working \ {u}) = left
    BY Counting DEF End, TypeOK
  <1>1. /\ u \in working /\ working' = working \ {u}
        /\ guard' = [guard EXCEPT !.n = left]
        /\ sw' = [s \in Switchers |->
                    IF woken(s) THEN [sw[s] EXCEPT !.pc = "drained"] ELSE sw[s]]
        /\ registry' = registry
    BY <1>0 DEF End
  <1>2. /\ guard'.n = left /\ guard'.draining = guard.draining
        /\ guard'.owner = guard.owner
    BY <1>1 DEF TypeOK
  <1>3. TypeOK'
    <2>1. guard' \in [n : Nat, draining : BOOLEAN, owner : Cached]
      BY <1>0, <1>1 DEF TypeOK
    <2>2. sw' \in [Switchers -> [pc : PCs, to : Owners]]
      BY <1>1 DEF TypeOK, PCs
    <2> QED
      BY <2>1, <2>2, <1>1 DEF TypeOK
  <1>4. Counted'
    BY <1>0, <1>1, <1>2 DEF Counted
  <1>5. left = 0 <=> working' = {}
    BY <1>3, <1>4, <1>2, UnitsFinite, FS_Subset, FS_EmptySet DEF TypeOK, Counted
  <1>6. SingleWriter' /\ OpenAgrees'
    BY <1>1, <1>2 DEF SingleWriter, OpenAgrees
  <1>7. NoLostDrain'
    <2> SUFFICES ASSUME NEW s \in Switchers, sw'[s].pc = "waiting"
                 PROVE  /\ guard'.draining /\ working' # {}
                        /\ guard'.n = Cardinality(working')
      BY DEF NoLostDrain
    <2>1. sw[s].pc = "waiting" /\ ~woken(s)
      BY <1>1 DEF TypeOK
    <2>2. guard.draining /\ left # 0
      BY <2>1 DEF NoLostDrain
    <2> QED
      BY <2>2, <1>2, <1>4, <1>5 DEF Counted
  <1>8. SwitchKnows'
    <2> SUFFICES ASSUME NEW s \in Switchers
                 PROVE  /\ sw'[s].pc # "idle" => guard'.draining
                        /\ sw'[s].pc \in {"drained", "persisted"} => working' = {}
                        /\ sw'[s].pc = "persisted" => registry' = sw'[s].to
      BY DEF SwitchKnows
    <2>1. CASE woken(s)
      <3>1. sw'[s].pc = "drained"
        BY <2>1, <1>1 DEF TypeOK
      <3> QED
        BY <3>1, <2>1, <1>2, <1>5
    <2>2. CASE ~woken(s)
      <3>1. sw'[s] = sw[s]
        BY <2>2, <1>1
      <3>2. working = {} => working' = {}
        BY <1>1
      <3> QED
        BY <3>1, <3>2, <1>1, <1>2 DEF SwitchKnows
    <2> QED
      BY <2>1, <2>2
  <1> QED
    BY <1>3, <1>4, <1>6, <1>7, <1>8

LEMMA DrainInv ==
  ASSUME IInv, NEW s \in Switchers, NEW o \in Owners, Drain(s, o) PROVE IInv'
  <1> USE DEF IInv, Drain
  <1>1. TypeOK'
    BY DEF TypeOK, PCs
  <1>2. Counted' /\ SingleWriter' /\ OpenAgrees'
    BY DEF Counted, SingleWriter, OpenAgrees, TypeOK
  <1>3. NoLostDrain'
    BY Counting DEF NoLostDrain, TypeOK, Counted
  <1>4. SwitchKnows'
    BY Counting DEF SwitchKnows, TypeOK
  <1> QED
    BY <1>1, <1>2, <1>3, <1>4

LEMMA DrainTimeoutInv ==
  ASSUME IInv, NEW s \in Switchers, DrainTimeout(s) PROVE IInv'
  <1> USE DEF IInv, DrainTimeout
  <1>1. TypeOK'
    BY DEF TypeOK, PCs
  <1>2. Counted' /\ SingleWriter' /\ OpenAgrees'
    BY DEF Counted, SingleWriter, OpenAgrees
  <1>3. NoLostDrain' /\ SwitchKnows'
    BY DEF NoLostDrain, SwitchKnows, TypeOK
  <1> QED
    BY <1>1, <1>2, <1>3

\* The registry is written while nothing is at work and the key is closed.
LEMMA PersistInv ==
  ASSUME IInv, OneSwitcher, NEW s \in Switchers, Persist(s) PROVE IInv'
  <1> USE DEF IInv, Persist
  <1>1. TypeOK'
    BY DEF TypeOK, PCs
  <1>2. Counted' /\ SingleWriter' /\ OpenAgrees'
    BY DEF Counted, SingleWriter, OpenAgrees, SwitchKnows
  <1>3. NoLostDrain' /\ SwitchKnows'
    BY DEF NoLostDrain, SwitchKnows, TypeOK, OneSwitcher
  <1> QED
    BY <1>1, <1>2, <1>3

LEMMA PersistFailsInv ==
  ASSUME IInv, NEW s \in Switchers, PersistFails(s) PROVE IInv'
  <1> USE DEF IInv, PersistFails
  <1>1. TypeOK'
    BY DEF TypeOK, PCs
  <1>2. Counted' /\ SingleWriter' /\ OpenAgrees'
    BY DEF Counted, SingleWriter, OpenAgrees
  <1>3. NoLostDrain' /\ SwitchKnows'
    BY DEF NoLostDrain, SwitchKnows, TypeOK
  <1> QED
    BY <1>1, <1>2, <1>3

LEMMA ResumeInv ==
  ASSUME IInv, OneSwitcher, NEW s \in Switchers, Resume(s) PROVE IInv'
  <1> USE DEF IInv, Resume
  <1>1. sw' = [sw EXCEPT ![s].pc = "idle"]
    <2>1. sw' = [t \in Switchers |-> [sw[t] EXCEPT !.pc = "idle"]]
      BY DEF OneSwitcher
    <2>2. sw = [t \in Switchers |-> sw[t]]
      BY DEF TypeOK
    <2> QED
      BY <2>1, <2>2 DEF OneSwitcher
  <1>2. working = {} /\ registry = sw[s].to /\ guard.n = 0
    BY Counting DEF SwitchKnows
  <1>3. TypeOK'
    BY <1>1 DEF TypeOK, PCs, NewKey, Cached
  <1>4. Counted' /\ SingleWriter' /\ OpenAgrees'
    BY <1>2, FS_EmptySet DEF Counted, SingleWriter, OpenAgrees, NewKey
  <1>5. NoLostDrain' /\ SwitchKnows'
    BY <1>1 DEF NoLostDrain, SwitchKnows, TypeOK, OneSwitcher
  <1> QED
    BY <1>3, <1>4, <1>5

LEMMA RestartInv ==
  ASSUME IInv, Restart PROVE IInv'
  <1> USE DEF IInv, Restart
  <1>1. TypeOK'
    <2>1. PICK o \in {registry, "none"} : guard' = NewKey(o)
      OBVIOUS
    <2>2. guard' \in [n : Nat, draining : BOOLEAN, owner : Cached]
      BY <2>1 DEF TypeOK, NewKey, Cached
    <2>3. sw' \in [Switchers -> [pc : PCs, to : Owners]]
      BY DEF TypeOK, PCs
    <2> QED
      BY <2>2, <2>3 DEF TypeOK
  <1>2. Counted' /\ SingleWriter' /\ OpenAgrees'
    BY FS_EmptySet DEF Counted, SingleWriter, OpenAgrees, NewKey
  <1>3. NoLostDrain' /\ SwitchKnows'
    BY DEF NoLostDrain, SwitchKnows, TypeOK
  <1> QED
    BY <1>1, <1>2, <1>3

LEMMA NextInv ==
  ASSUME OneSwitcher, IInv, [Next]_vars PROVE IInv'
  <1>1. CASE UNCHANGED vars
    BY <1>1 DEF vars, IInv, TypeOK, Counted, SingleWriter, OpenAgrees,
                NoLostDrain, SwitchKnows
  <1>2. CASE \E u \in Units : Begin(u) \/ End(u)
    BY <1>2, BeginInv, EndInv
  <1>3. CASE \E s \in Switchers :
               \/ \E o \in Owners : Drain(s, o)
               \/ DrainTimeout(s) \/ Persist(s) \/ PersistFails(s) \/ Resume(s)
    BY <1>3, DrainInv, DrainTimeoutInv, PersistInv, PersistFailsInv, ResumeInv
  <1>4. CASE Restart
    BY <1>4, RestartInv
  <1> QED
    BY <1>1, <1>2, <1>3, <1>4 DEF Next

LEMMA Inductive == ASSUME OneSwitcher PROVE Spec => []IInv
  <1>1. Init => IInv
    BY InitInv
  <1>2. IInv /\ [Next]_vars => IInv'
    BY NextInv
  <1> QED
    BY <1>1, <1>2, PTL DEF Spec

\* Type correctness, also when calls of SwitchOwner overlap and units are
\* counted off a keyState that never counted them: the Guard's counter never
\* leaves the naturals.
THEOREM CutoverTypeCorrect == Spec => []TypeOK
  <1>1. Init => TypeOK
    <2> SUFFICES ASSUME Init PROVE TypeOK
      OBVIOUS
    <2>1. PICK o \in {registry, "none"} : guard = NewKey(o)
      BY DEF Init
    <2> QED
      BY <2>1 DEF Init, TypeOK, NewKey, Owners, Cached, PCs
  <1>2. TypeOK /\ [Next]_vars => TypeOK'
    <2> SUFFICES ASSUME TypeOK, [Next]_vars PROVE TypeOK'
      OBVIOUS
    <2> USE DEF TypeOK, Owners, Cached, PCs
    <2>1. ASSUME NEW u \in Units, Begin(u) PROVE TypeOK'
      BY <2>1 DEF Begin
    <2>2. ASSUME NEW u \in Units, End(u) PROVE TypeOK'
      <3>1. guard' \in [n : Nat, draining : BOOLEAN, owner : Cached]
        BY <2>2 DEF End
      <3>2. sw' \in [Switchers -> [pc : PCs, to : Owners]]
        BY <2>2 DEF End
      <3> QED
        BY <3>1, <3>2, <2>2 DEF End
    <2>3. ASSUME NEW s \in Switchers, NEW o \in Owners, Drain(s, o) PROVE TypeOK'
      BY <2>3 DEF Drain
    <2>4. ASSUME NEW s \in Switchers, DrainTimeout(s) \/ PersistFails(s) PROVE TypeOK'
      BY <2>4 DEF DrainTimeout, PersistFails
    <2>5. ASSUME NEW s \in Switchers, Persist(s) PROVE TypeOK'
      BY <2>5 DEF Persist
    <2>6. ASSUME NEW s \in Switchers, Resume(s) PROVE TypeOK'
      <3>1. sw' \in [Switchers -> [pc : PCs, to : Owners]]
        BY <2>6 DEF Resume
      <3> QED
        BY <3>1, <2>6 DEF Resume, NewKey
    <2>7. CASE Restart
      <3>1. PICK o \in {registry, "none"} : guard' = NewKey(o)
        BY <2>7 DEF Restart
      <3>2. sw' \in [Switchers -> [pc : PCs, to : Owners]]
        BY <2>7 DEF Restart
      <3> QED
        BY <3>1, <3>2, <2>7 DEF Restart, NewKey
    <2>8. CASE UNCHANGED vars
      BY <2>8 DEF vars
    <2> QED
      BY <2>1, <2>2, <2>3, <2>4, <2>5, <2>6, <2>7, <2>8 DEF Next
  <1> QED
    BY <1>1, <1>2, PTL DEF Spec

\* The single writer of guard.go and switch.go: while the registry names the
\* legacy system no unit of the Go process is at work.
THEOREM CutoverSingleWriter == ASSUME OneSwitcher PROVE Spec => []SingleWriter
  <1>1. IInv => SingleWriter
    BY DEF IInv
  <1> QED
    BY Inductive, <1>1, PTL

\* An open key is open for the owner that the registry names, also after
\* switches that failed half-way.
THEOREM CutoverOpenAgrees == ASSUME OneSwitcher PROVE Spec => []OpenAgrees
  <1>1. IInv => OpenAgrees
    BY DEF IInv
  <1> QED
    BY Inductive, <1>1, PTL

LEMMA InitRefines == Init => RO!Init
  BY DEF Init, RO!Init, Owners, RO!Owners

\* Every step of the Guard is a step of the single writer or changes nothing
\* that it speaks of.
LEMMA NextRefines ==
  ASSUME IInv, [Next]_vars PROVE [RO!Next]_(RO!vars)
  <1> USE DEF RO!Next, RO!vars
  <1>1. ASSUME NEW u \in Units, Begin(u) PROVE RO!Start(u)
    BY <1>1 DEF Begin, RO!Start, IInv, OpenAgrees
  <1>2. ASSUME NEW u \in Units, End(u) PROVE RO!Finish(u)
    BY <1>2 DEF End, RO!Finish
  <1>3. ASSUME NEW s \in Switchers, Persist(s) PROVE RO!HandOver
    BY <1>3 DEF Persist, RO!HandOver, IInv, SwitchKnows, TypeOK, Owners, RO!Owners
  <1>4. ASSUME NEW s \in Switchers,
               \/ \E o \in Owners : Drain(s, o)
               \/ DrainTimeout(s) \/ PersistFails(s) \/ Resume(s)
        PROVE  UNCHANGED <<registry, working>>
    BY <1>4 DEF Drain, DrainTimeout, PersistFails, Resume
  <1>5. ASSUME Restart PROVE RO!Abort
    BY <1>5 DEF Restart, RO!Abort
  <1>6. CASE UNCHANGED vars
    BY <1>6 DEF vars
  <1> QED
    BY <1>1, <1>2, <1>3, <1>4, <1>5, <1>6 DEF Next

\* The Guard with SwitchOwner implements the handing over of a capability
\* with a single writer.
THEOREM CutoverImplementsRouteOwner ==
  ASSUME OneSwitcher PROVE Spec => ImplementsRouteOwner
  <1>1. Init => RO!Init
    BY InitRefines
  <1>2. IInv /\ [Next]_vars => [RO!Next]_(RO!vars)
    BY NextRefines
  <1> QED
    BY Inductive, <1>1, <1>2, PTL DEF Spec, ImplementsRouteOwner, RO!Spec

-------------------------------------------------------------------------------
(* GoScheduler: the lease and the due triggers.                            *)

\* A job that may still believe in its lease is right, to the tick.
LeaseOwned ==
  \A w \in Workers :
    Believes(w) => lease.owner = w /\ lease.left = job[w].left

\* What a batch has locked is due and has not been served, and nobody else
\* has locked it.
BatchDue ==
  /\ \A w \in Workers : \A t \in job[w].due : wait[t] = 0
  /\ \A v, w \in Workers : v # w => job[v].due \cap job[w].due = {}

\* An occurrence that is due has not been served, or no other was found.
DueUnserved == \A t \in Triggers : wait[t] = 0 => served[t] = 0 \/ t \in kept

JobsInv ==
  /\ GSTypeOK
  /\ LeaseOwned
  /\ BatchDue
  /\ DueUnserved
  /\ OccurrenceOnce

\* Counting down stays within the bounds and commutes with equality.
LEMMA DownType ==
  ASSUME NEW lo \in Int, NEW hi \in Int, NEW n \in lo..hi
  PROVE  Down(n, lo) \in lo..hi /\ Down(n, lo) <= n
  BY DEF Down

LEMMA Bounds == Floor \in Int /\ TTL \in Int /\ Period \in Int /\ Floor <= 0
  BY TimesAssumption DEF Floor

LEMMA IdleType == Idle \in Jobs
  BY TimesAssumption DEF Idle, Jobs, JobPCs, Floor

\* A job that gives up: the others keep what they have.
LEMMA ToIdle ==
  ASSUME JobsInv, NEW w \in Workers, job' = [job EXCEPT ![w] = Idle],
         UNCHANGED <<wait, served, kept>>
  PROVE  /\ job' \in [Workers -> Jobs]
         /\ BatchDue' /\ DueUnserved' /\ OccurrenceOnce'
         /\ \A v \in Workers : Believes(v)' => v # w /\ job'[v] = job[v] /\ Believes(v)
  <1>1. job' \in [Workers -> Jobs]
    BY IdleType DEF JobsInv, GSTypeOK
  <1>2. /\ job'[w] = Idle
        /\ \A v \in Workers : v # w => job'[v] = job[v]
    BY DEF JobsInv, GSTypeOK
  <1>3. Idle.due = {} /\ Idle.pc = "idle"
    BY DEF Idle
  <1>4. BatchDue' /\ DueUnserved' /\ OccurrenceOnce'
    BY <1>2, <1>3 DEF JobsInv, BatchDue, DueUnserved, OccurrenceOnce
  <1>5. \A v \in Workers : Believes(v)' => v # w /\ job'[v] = job[v] /\ Believes(v)
    BY <1>2, <1>3 DEF Believes
  <1> QED
    BY <1>1, <1>4, <1>5

LEMMA JobsInit ==
  ASSUME GSInit PROVE JobsInv
  <1>1. GSTypeOK
    BY TimesAssumption, IdleType DEF GSInit, GSTypeOK, Floor
  <1>2. \A w \in Workers : job[w].due = {} /\ job[w].pc = "idle"
    BY DEF GSInit, Idle
  <1>3. LeaseOwned /\ BatchDue
    BY <1>2 DEF LeaseOwned, BatchDue, Believes
  <1>4. DueUnserved /\ OccurrenceOnce
    BY DEF GSInit, DueUnserved, OccurrenceOnce
  <1> QED
    BY <1>1, <1>3, <1>4 DEF JobsInv

LEMMA AskInv ==
  ASSUME JobsInv, NEW w \in Workers, Ask(w) PROVE JobsInv'
  <1>0. job' = [job EXCEPT ![w] = [Idle EXCEPT !.pc = "asking"]]
    BY DEF Ask
  <1>1. [Idle EXCEPT !.pc = "asking"] \in Jobs
    BY IdleType DEF Jobs, JobPCs
  <1>2. GSTypeOK'
    BY <1>0, <1>1 DEF Ask, JobsInv, GSTypeOK
  <1>3. /\ job'[w].pc = "asking" /\ job'[w].due = {}
        /\ \A v \in Workers : v # w => job'[v] = job[v]
    BY <1>0 DEF JobsInv, GSTypeOK, Idle
  <1>4. LeaseOwned'
    BY <1>3 DEF Ask, JobsInv, LeaseOwned, Believes
  <1>5. BatchDue' /\ DueUnserved' /\ OccurrenceOnce'
    BY <1>3 DEF Ask, JobsInv, BatchDue, DueUnserved, OccurrenceOnce
  <1> QED
    BY <1>2, <1>4, <1>5 DEF JobsInv

\* The row that the UPSERT takes belongs to nobody who still believes in it.
LEMMA FreeUnbelieved ==
  ASSUME JobsInv, NEW w \in Workers, Free(w), NEW v \in Workers, v # w
  PROVE  ~Believes(v)
  BY TimesAssumption
  DEF JobsInv, GSTypeOK, Jobs, LeaseOwned, Believes, Free, Floor

LEMMA AcquireInv ==
  ASSUME JobsInv, NEW w \in Workers, Acquire(w) PROVE JobsInv'
  <1> DEFINE new == [Idle EXCEPT !.pc = "leased", !.left = Granted(w)]
  <1>0. job' = [job EXCEPT ![w] = new] /\ lease' = [owner |-> w, left |-> Granted(w)]
    BY DEF Acquire
  <1>1. Granted(w) \in 0..TTL
    BY TimesAssumption DEF JobsInv, GSTypeOK, Jobs, Granted
  <1>2. new \in Jobs /\ new.due = {} /\ new.left = Granted(w)
    <2>1. Granted(w) \in Floor..TTL
      BY <1>1, Bounds
    <2>2. [Idle EXCEPT !.pc = "leased"] \in Jobs
      BY IdleType DEF Jobs, JobPCs
    <2>3. new = [[Idle EXCEPT !.pc = "leased"] EXCEPT !.left = Granted(w)]
      BY Zenon
    <2>4. new \in Jobs /\ new.left = Granted(w)
      BY <2>1, <2>2, <2>3 DEF Jobs
    <2>5. new.due = {}
      BY DEF Idle
    <2> QED
      BY <2>4, <2>5
  <1>3. GSTypeOK'
    BY <1>0, <1>1, <1>2, TimesAssumption DEF Acquire, JobsInv, GSTypeOK, Floor
  <1>4. /\ job'[w] = new
        /\ \A v \in Workers : v # w => job'[v] = job[v]
    BY <1>0 DEF JobsInv, GSTypeOK
  <1>5. LeaseOwned'
    <2>1. \A v \in Workers : v # w => ~Believes(v)'
      BY <1>4, FreeUnbelieved DEF Acquire, Believes
    <2> QED
      BY <2>1, <1>0, <1>2, <1>4 DEF LeaseOwned
  <1>6. BatchDue' /\ DueUnserved' /\ OccurrenceOnce'
    BY <1>2, <1>4 DEF Acquire, JobsInv, BatchDue, DueUnserved, OccurrenceOnce
  <1> QED
    BY <1>3, <1>5, <1>6 DEF JobsInv

LEMMA RefusedInv ==
  ASSUME JobsInv, NEW w \in Workers, Refused(w) PROVE JobsInv'
  <1>1. /\ BatchDue' /\ DueUnserved' /\ OccurrenceOnce'
        /\ job' \in [Workers -> Jobs]
        /\ \A v \in Workers : Believes(v)' => job'[v] = job[v] /\ Believes(v)
    BY ToIdle DEF Refused
  <1>2. GSTypeOK' /\ LeaseOwned'
    BY <1>1 DEF Refused, JobsInv, GSTypeOK, LeaseOwned
  <1> QED
    BY <1>1, <1>2 DEF JobsInv

LEMMA AcquireFailsInv ==
  ASSUME JobsInv, NEW w \in Workers, AcquireFails(w) PROVE JobsInv'
  <1>1. /\ BatchDue' /\ DueUnserved' /\ OccurrenceOnce'
        /\ job' \in [Workers -> Jobs]
        /\ \A v \in Workers :
             Believes(v)' => v # w /\ job'[v] = job[v] /\ Believes(v)
    BY ToIdle DEF AcquireFails
  <1>2. faults' \in 0..MaxFaults
    BY TimesAssumption DEF AcquireFails, Fault, JobsInv, GSTypeOK
  <1>3. CASE UNCHANGED lease
    BY <1>1, <1>2, <1>3 DEF AcquireFails, JobsInv, GSTypeOK, LeaseOwned
  <1>4. CASE Free(w) /\ lease' = [owner |-> w, left |-> Granted(w)]
    <2>1. Granted(w) \in Floor..TTL
      BY TimesAssumption DEF JobsInv, GSTypeOK, Jobs, Granted, Floor
    <2>2. GSTypeOK'
      BY <2>1, <1>1, <1>2, <1>4 DEF AcquireFails, JobsInv, GSTypeOK
    <2>3. LeaseOwned'
      BY <1>1, <1>4, FreeUnbelieved DEF LeaseOwned
    <2> QED
      BY <1>1, <2>2, <2>3 DEF JobsInv
  <1> QED
    BY <1>3, <1>4 DEF AcquireFails

LEMMA RunDueInv ==
  ASSUME JobsInv, NEW w \in Workers, RunDue(w) PROVE JobsInv'
  <1> DEFINE new == [job[w] EXCEPT !.pc = "running", !.due = Due, !.next = Period - phase]
  <1>0. job' = [job EXCEPT ![w] = new]
    BY DEF RunDue, JobsInv, GSTypeOK
  <1>1. new \in Jobs /\ new.due = Due /\ new.left = job[w].left
    <2>1. job[w] \in Jobs
      BY DEF JobsInv, GSTypeOK
    <2>2. Period - phase \in 0..Period
      BY TimesAssumption DEF JobsInv, GSTypeOK
    <2>3. Due \in SUBSET Triggers
      BY DEF Due
    <2> QED
      BY <2>1, <2>2, <2>3 DEF Jobs, JobPCs
  <1>2. /\ job'[w] = new
        /\ \A v \in Workers : v # w => job'[v] = job[v]
    BY <1>0 DEF JobsInv, GSTypeOK
  <1>3. GSTypeOK'
    BY <1>0, <1>1 DEF RunDue, JobsInv, GSTypeOK
  <1>4. LeaseOwned'
    <2>1. ASSUME NEW v \in Workers, Believes(v)'
          PROVE  Believes(v) /\ job'[v].left = job[v].left
      <3>1. job'[v].left = job[v].left
        BY <1>1, <1>2
      <3>2. job[v].pc \in {"leased", "running"}
        BY <2>1, <1>2 DEF RunDue, Believes
      <3> QED
        BY <2>1, <3>1, <3>2 DEF Believes
    <2> QED
      BY <2>1 DEF RunDue, JobsInv, LeaseOwned
  <1>5. /\ \A t \in Due : wait[t] = 0
        /\ \A v \in Workers : job[v].due \cap Due = {}
    BY DEF Due, Locked
  <1>6. BatchDue'
    BY <1>1, <1>2, <1>5 DEF RunDue, JobsInv, BatchDue
  <1>7. DueUnserved' /\ OccurrenceOnce'
    BY DEF RunDue, JobsInv, DueUnserved, OccurrenceOnce
  <1> QED
    BY <1>3, <1>4, <1>6, <1>7 DEF JobsInv

LEMMA CommitInv ==
  ASSUME JobsInv, NEW w \in Workers, Commit(w) PROVE JobsInv'
  <1>0. PICK keep \in SUBSET (job[w].due \cap Rare) :
          LET moved == job[w].due \ keep
              next == job[w].next
              late == IF next = 0 THEN moved ELSE {} IN
          /\ wait' = [t \in Triggers |-> IF t \in moved THEN next ELSE wait[t]]
          /\ served' = [t \in Triggers |-> IF t \in late THEN 0
                                           ELSE IF t \in job[w].due THEN Again(served[t])
                                           ELSE served[t]]
          /\ kept' = (kept \cup keep) \ late
          /\ job' = [job EXCEPT ![w] = Idle]
          /\ UNCHANGED <<lease, phase, faults>>
    BY DEF Commit
  <1> DEFINE due == job[w].due
             next == job[w].next
             moved == due \ keep
             late == IF next = 0 THEN moved ELSE {}
  <1>1. next \in 0..Period /\ due \subseteq Triggers
    BY DEF JobsInv, GSTypeOK, Jobs
  <1>2. /\ job'[w] = Idle
        /\ \A v \in Workers : v # w => job'[v] = job[v]
    BY <1>0 DEF JobsInv, GSTypeOK
  <1>3. Idle.due = {} /\ Idle.pc = "idle"
    BY DEF Idle
  <1>t. \A t \in Triggers :
          /\ t \in moved => wait'[t] = next
          /\ t \notin moved => wait'[t] = wait[t]
          /\ t \in late => served'[t] = 0
          /\ t \in due \ late => served'[t] = Again(served[t]) /\ (t \in kept \cup keep => t \in kept')
          /\ t \notin due => served'[t] = served[t] /\ (t \in kept => t \in kept')
    BY <1>0
  <1>4. GSTypeOK'
    <2>1. wait' \in [Triggers -> 0..Period]
      BY <1>0, <1>1 DEF JobsInv, GSTypeOK
    <2>2. \A t \in Triggers : Again(served[t]) \in 0..2 /\ served[t] \in 0..2
      BY DEF Again, JobsInv, GSTypeOK
    <2>3. served' \in [Triggers -> 0..2]
      BY <1>0, <2>2
    <2>4. kept' \subseteq Triggers
      BY <1>0, <1>1 DEF JobsInv, GSTypeOK
    <2> QED
      BY <2>1, <2>3, <2>4, <1>0, IdleType DEF JobsInv, GSTypeOK
  <1>5. LeaseOwned'
    BY <1>0, <1>2, <1>3 DEF JobsInv, LeaseOwned, Believes
  <1>6. BatchDue'
    <2>1. ASSUME NEW v \in Workers, NEW t \in job'[v].due PROVE wait'[t] = 0
      <3>1. v # w /\ t \in job[v].due
        BY <2>1, <1>2, <1>3
      <3>2. t \notin due /\ t \in Triggers
        BY <3>1 DEF JobsInv, BatchDue, GSTypeOK, Jobs
      <3> QED
        BY <3>1, <3>2, <1>t DEF JobsInv, BatchDue
    <2> QED
      BY <2>1, <1>2, <1>3 DEF JobsInv, BatchDue
  <1>7. DueUnserved' /\ OccurrenceOnce'
    <2> SUFFICES ASSUME NEW t \in Triggers
                 PROVE /\ wait'[t] = 0 => served'[t] = 0 \/ t \in kept'
                       /\ served'[t] <= 1 \/ t \in kept'
      BY DEF DueUnserved, OccurrenceOnce
    <2>1. CASE t \in late
      BY <2>1, <1>t
    <2>2. CASE t \in due \ late
      <3>1. served[t] = 0 \/ t \in kept
        BY <2>2 DEF JobsInv, BatchDue, DueUnserved
      <3>2. t \in keep \/ (t \in moved /\ next # 0)
        BY <2>2
      <3> QED
        BY <3>1, <3>2, <2>2, <1>t DEF Again
    <2>3. CASE t \notin due
      BY <2>3, <1>t DEF JobsInv, DueUnserved, OccurrenceOnce
    <2> QED
      BY <2>1, <2>2, <2>3
  <1> QED
    BY <1>4, <1>5, <1>6, <1>7 DEF JobsInv

LEMMA RollbackInv ==
  ASSUME JobsInv, NEW w \in Workers, Rollback(w) PROVE JobsInv'
  <1>1. /\ BatchDue' /\ DueUnserved' /\ OccurrenceOnce'
        /\ job' \in [Workers -> Jobs]
        /\ \A v \in Workers : Believes(v)' => job'[v] = job[v] /\ Believes(v)
    BY ToIdle DEF Rollback
  <1>2. faults' \in 0..MaxFaults
    BY TimesAssumption DEF Rollback, Fault, JobsInv, GSTypeOK
  <1>3. GSTypeOK' /\ LeaseOwned'
    BY <1>1, <1>2 DEF Rollback, JobsInv, GSTypeOK, LeaseOwned
  <1> QED
    BY <1>1, <1>3 DEF JobsInv

LEMMA CrashInv ==
  ASSUME JobsInv, NEW w \in Workers, Crash(w) PROVE JobsInv'
  <1>1. /\ BatchDue' /\ DueUnserved' /\ OccurrenceOnce'
        /\ job' \in [Workers -> Jobs]
        /\ \A v \in Workers :
             Believes(v)' => v # w /\ job'[v] = job[v] /\ Believes(v)
    BY ToIdle DEF Crash
  <1>2. faults' \in 0..MaxFaults
    BY TimesAssumption DEF Crash, Fault, JobsInv, GSTypeOK
  <1>3. /\ lease'.left = lease.left
        /\ lease.owner # w => lease'.owner = lease.owner
        /\ lease' \in [owner : Workers \cup {"none", "gone"}, left : Floor..TTL]
    BY DEF Crash, JobsInv, GSTypeOK
  <1>4. GSTypeOK' /\ LeaseOwned'
    BY <1>1, <1>2, <1>3 DEF Crash, JobsInv, GSTypeOK, LeaseOwned
  <1> QED
    BY <1>1, <1>4 DEF JobsInv

LEMMA TickInv ==
  ASSUME JobsInv, Tick PROVE JobsInv'
  <1>0. /\ phase' = (phase + 1) % Period
        /\ lease' = [lease EXCEPT !.left = Down(@, Floor)]
        /\ wait' = [t \in Triggers |-> Down(wait[t], 0)]
        /\ served' = [t \in Triggers |-> IF wait[t] = 1 THEN 0 ELSE served[t]]
        /\ kept' = {t \in kept : wait[t] # 1}
        /\ UNCHANGED faults
    BY DEF Tick
  <1>1. ASSUME NEW w \in Workers
        PROVE  /\ job'[w].pc = job[w].pc
               /\ job'[w].due = job[w].due
               /\ job'[w].left = Down(job[w].left, Floor)
               /\ job'[w] \in Jobs
    <2> DEFINE age == IF job[w].pc = "asking" THEN job[w].age + 1 ELSE job[w].age
    <2>1. job'[w] = [job[w] EXCEPT !.age = age, !.left = Down(job[w].left, Floor),
                                   !.next = Down(job[w].next, 0)]
      BY DEF Tick
    <2>2. /\ job[w] \in Jobs /\ job[w].age \in 0..MaxAge
          /\ job[w].left \in Floor..TTL /\ job[w].next \in 0..Period
      BY DEF JobsInv, GSTypeOK, Jobs
    <2>3. age \in 0..MaxAge
      <3>1. job[w].age < MaxAge \/ job[w].pc # "asking"
        BY DEF Tick
      <3> QED
        BY <3>1, <2>2, TimesAssumption
    <2>4. Down(job[w].left, Floor) \in Floor..TTL
      BY <2>2, DownType, Bounds
    <2>5. Down(job[w].next, 0) \in 0..Period
      BY <2>2, Bounds DEF Down
    <2> HIDE DEF age
    <2> QED
      BY <2>1, <2>2, <2>3, <2>4, <2>5 DEF Jobs
  <1>2. job' = [w \in Workers |-> job'[w]]
    BY DEF Tick
  <1>3. GSTypeOK'
    <2>1. lease'.left \in Floor..TTL /\ lease' \in [owner : Workers \cup {"none", "gone"}, left : Floor..TTL]
      <3>1. lease.left \in Floor..TTL
        BY DEF JobsInv, GSTypeOK
      <3>2. Down(lease.left, Floor) \in Floor..TTL
        BY <3>1, DownType, Bounds
      <3> QED
        BY <3>2, <1>0 DEF JobsInv, GSTypeOK
    <2>2. wait' \in [Triggers -> 0..Period]
      BY <1>0, DownType, TimesAssumption, SMTT(30) DEF JobsInv, GSTypeOK
    <2>3. phase' \in 0..(Period - 1)
      BY <1>0, TimesAssumption DEF JobsInv, GSTypeOK
    <2>4. job' \in [Workers -> Jobs]
      BY <1>1, <1>2
    <2>5. served' \in [Triggers -> 0..2] /\ kept' \subseteq Triggers /\ faults' \in 0..MaxFaults
      BY <1>0 DEF JobsInv, GSTypeOK
    <2> QED
      BY <2>1, <2>2, <2>3, <2>4, <2>5 DEF GSTypeOK
  <1>4. LeaseOwned'
    <2> SUFFICES ASSUME NEW w \in Workers, Believes(w)'
                 PROVE  lease'.owner = w /\ lease'.left = job'[w].left
      BY DEF LeaseOwned
    <2>1. job[w].left \in Floor..TTL
      BY DEF JobsInv, GSTypeOK, Jobs
    <2>2. job'[w].left <= job[w].left /\ job'[w].left \in Int /\ job[w].left \in Int
      BY <2>1, <1>1, DownType, TimesAssumption DEF Floor, Down
    <2>3. Believes(w)
      BY <2>2, <1>1 DEF Believes
    <2> QED
      BY <2>3, <1>0, <1>1 DEF JobsInv, LeaseOwned, GSTypeOK
  <1>5. BatchDue'
    <2>1. \A t \in Triggers : wait[t] = 0 => wait'[t] = 0
      BY <1>0 DEF Down
    <2>2. \A w \in Workers : job[w].due \subseteq Triggers
      BY DEF JobsInv, GSTypeOK, Jobs
    <2> QED
      BY <1>1, <2>1, <2>2 DEF JobsInv, BatchDue
  <1>6. DueUnserved' /\ OccurrenceOnce'
    <2> SUFFICES ASSUME NEW t \in Triggers
                 PROVE /\ wait'[t] = 0 => served'[t] = 0 \/ t \in kept'
                       /\ served'[t] <= 1 \/ t \in kept'
      BY DEF DueUnserved, OccurrenceOnce
    <2>1. wait[t] \in Nat /\ served[t] \in Nat
      BY TimesAssumption DEF JobsInv, GSTypeOK
    <2> QED
      BY <2>1, <1>0 DEF JobsInv, DueUnserved, OccurrenceOnce, Down
  <1> QED
    BY <1>3, <1>4, <1>5, <1>6 DEF JobsInv

LEMMA JobsNext ==
  ASSUME JobsInv, [GSNext]_gsVars PROVE JobsInv'
  <1>1. CASE UNCHANGED gsVars
    BY <1>1 DEF gsVars, JobsInv, GSTypeOK, LeaseOwned, Believes, BatchDue, DueUnserved,
                OccurrenceOnce
  <1>2. CASE \E w \in Workers : Step(w)
    BY <1>2, AskInv, AcquireInv, RefusedInv, RunDueInv, CommitInv DEF Step
  <1>3. CASE \E w \in Workers : AcquireFails(w) \/ Rollback(w) \/ Crash(w)
    BY <1>3, AcquireFailsInv, RollbackInv, CrashInv
  <1>4. CASE Tick
    BY <1>4, TickInv
  <1> QED
    BY <1>1, <1>2, <1>3, <1>4 DEF GSNext

LEMMA JobsInductive == GSSpec => []JobsInv
  <1>1. GSInit => JobsInv
    BY JobsInit
  <1>2. JobsInv /\ [GSNext]_gsVars => JobsInv'
    BY JobsNext
  <1> QED
    BY <1>1, <1>2, PTL DEF GSSpec

\* What a worker believes of its lease and of the due times stays within the
\* lease time and the period.
THEOREM SchedulerTypeCorrect == GSSpec => []GSTypeOK
  <1>1. JobsInv => GSTypeOK
    BY DEF JobsInv
  <1> QED
    BY JobsInductive, <1>1, PTL

\* Two jobs never both believe in their lease, whatever the lease time, lost
\* answers, slow transactions and dead processes.
THEOREM SchedulerLeaseExclusive == GSSpec => []LeaseExclusive
  <1>1. JobsInv => LeaseExclusive
    BY DEF JobsInv, LeaseOwned, LeaseExclusive
  <1> QED
    BY JobsInductive, <1>1, PTL

\* No occurrence is served twice, also by jobs that overlap, unless the search
\* for the next one has failed (RunDueTx, DueTriggersTx).
THEOREM SchedulerOccurrenceOnce == GSSpec => []OccurrenceOnce
  <1>1. JobsInv => OccurrenceOnce
    BY DEF JobsInv
  <1> QED
    BY JobsInductive, <1>1, PTL

===============================================================================
