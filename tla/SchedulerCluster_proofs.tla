---------------------- MODULE SchedulerCluster_proofs ----------------------
(***************************************************************************)
(* Proofs about SchedulerCluster: at most one node with a live session     *)
(* runs the scheduler, and the monitor never stops one, for any set of     *)
(* nodes, any period and any number of crashes and lost sessions.          *)
(*                                                                         *)
(* The invariant says how the loop, the flag `lead', the session and the   *)
(* lock of a node hang together: a loop runs only on a node that believes  *)
(* to lead and is up, and one that believes so and whose session lives has *)
(* the lock.  Only Crash and SessionLost take the lock away, and both end  *)
(* the session.                                                            *)
(*                                                                         *)
(* A due time is served once as long as neither happens and no answer is   *)
(* overtaken by a write of its node (CalmInv): then the node that has the  *)
(* lock keeps it, so no other node writes the due time, the answers that   *)
(* it waits for say what the database says, and its cache agrees with the  *)
(* database whenever the loop looks at it, because an answer read between  *)
(* Store and Signal changes the cache only to what Signal writes too.      *)
(***************************************************************************)
EXTENDS SchedulerCluster, TLAPS

LoopsLead == \A n \in Nodes : loop[n] # "off" => lead[n]
LeadersLock == \A n \in Nodes : lead[n] /\ sess[n] => owner = n
DownIsOff == \A n \in Nodes : pc[n] # "up" => loop[n] = "off"

IInv == TypeOK /\ LoopsLead /\ LeadersLock /\ DownIsOff /\ NeverStopped

(* Everything is in its initial type, no node leads.                       *)
LEMMA InitIInv == ClusterAssumption /\ Init => IInv
  <1> SUFFICES ASSUME ClusterAssumption, Init PROVE IInv
    OBVIOUS
  <1>1. Unset \in Times /\ 1 \in 1..MaxTime
    BY DEF ClusterAssumption, Unset, Times
  <1>2. /\ reads \in [Nodes -> SUBSET Times] /\ cache \in [Nodes -> Times]
        /\ claim \in [Nodes -> Times] /\ next \in [Nodes -> Times]
        /\ ran \in [Times -> 0..2]
    BY <1>1 DEF Init
  <1>3. /\ pc \in [Nodes -> PCs] /\ sess \in [Nodes -> BOOLEAN]
        /\ owner \in Nodes \union {NoNode} /\ lead \in [Nodes -> BOOLEAN]
        /\ loop \in [Nodes -> Loops] /\ stop \in [Nodes -> BOOLEAN]
        /\ db \in Times /\ mail \subseteq Nodes
        /\ now \in 1..MaxTime /\ crashes \in 0..MaxFaults /\ lost \in 0..MaxFaults
    BY <1>1 DEF Init, PCs, Loops, ClusterAssumption
  <1>4. overlap \in BOOLEAN
    BY DEF Init
  <1>5. TypeOK
    BY <1>2, <1>3, <1>4 DEF TypeOK
  <1> QED
    BY <1>5 DEF Init, IInv, LoopsLead, DownIsOff, LeadersLock, NeverStopped

(* The times that the scheduler computes are within their bound.           *)
LEMMA TimesOK ==
  ASSUME ClusterAssumption, TypeOK, NEW n \in Nodes
  PROVE  /\ Unset \in Times
         /\ \A d \in 0..(Period - 1) : now + d \in Times
         /\ now + Period \in Times
         /\ cache[n] <= now => cache[n] + Period \in Times
  <1>1. /\ Period \in Nat \ {0} /\ MaxTime \in Nat \ {0}
        /\ now \in 1..MaxTime /\ cache[n] \in 0..(MaxTime + Period)
    BY DEF ClusterAssumption, TypeOK, Times
  <1> QED
    BY <1>1 DEF Times, Unset

(* The counters of crashes and lost sessions stay within their bound.      *)
LEMMA FaultOK ==
  ASSUME ClusterAssumption, TypeOK, Fault
  PROVE  lost + 1 \in 0..MaxFaults /\ crashes + 1 \in 0..MaxFaults
  <1>1. MaxFaults \in Nat /\ lost \in Nat /\ crashes \in Nat
    BY DEF ClusterAssumption, TypeOK
  <1> QED
    BY <1>1 DEF Fault

(* Every step of the election keeps the invariant.                         *)
LEMMA ElectionIInv ==
  ASSUME ClusterAssumption, IInv, NEW n \in Nodes,
         Starting(n) \/ Poll(n) \/ SessionLost(n) \/ Crash(n)
  PROVE  IInv'
  <1> USE DEF IInv
  <1>0. NoNode \notin Nodes /\ Unset \in Times
    BY TimesOK DEF ClusterAssumption
  <1>1. CASE Elect(n)
    <2>1. TypeOK'
      BY <1>1 DEF Elect, Locked, Leads, TypeOK, event, PCs
    <2>2. LoopsLead' /\ LeadersLock' /\ DownIsOff' /\ NeverStopped'
      BY <1>0, <1>1 DEF Elect, Locked, Leads, TypeOK, LoopsLead, DownIsOff,
                        LeadersLock,
                        NeverStopped
    <2> QED BY <2>1, <2>2
  <1>2. CASE Load(n)
    BY <1>2 DEF Load, TypeOK, PCs, LoopsLead, DownIsOff, LeadersLock,
                NeverStopped
  <1>3. CASE Listen(n)
    BY <1>3 DEF Listen, TypeOK, event, PCs, Loops, LoopsLead, DownIsOff,
                LeadersLock,
                NeverStopped
  <1>4. CASE Poll(n)
    <2>1. lead[n] = FALSE /\ Leads(n)
      BY <1>0, <1>4 DEF Poll, Leads, LeadersLock, TypeOK
    <2>2. TypeOK'
      BY <1>4, <2>1 DEF Poll, Locked, TypeOK, event, Loops
    <2>3. LoopsLead' /\ LeadersLock' /\ DownIsOff' /\ NeverStopped'
      BY <1>0, <1>4, <2>1 DEF Poll, Locked, Leads, TypeOK, LoopsLead,
                              DownIsOff, LeadersLock, NeverStopped
    <2> QED BY <2>2, <2>3
  <1>5. CASE SessionLost(n)
    <2>1. TypeOK'
      BY <1>5, FaultOK DEF SessionLost, TypeOK, event
    <2>2. LoopsLead' /\ LeadersLock' /\ DownIsOff' /\ NeverStopped'
      BY <1>0, <1>5 DEF SessionLost, TypeOK, LoopsLead, DownIsOff,
                        LeadersLock, NeverStopped
    <2> QED BY <2>1, <2>2
  <1>6. CASE Crash(n)
    <2>1. TypeOK'
      BY <1>0, <1>6, FaultOK DEF Crash, Forget, TypeOK, PCs, Loops
    <2>2. LoopsLead' /\ LeadersLock' /\ DownIsOff' /\ NeverStopped'
      BY <1>0, <1>6 DEF Crash, TypeOK, LoopsLead, DownIsOff, LeadersLock,
                        NeverStopped
    <2> QED BY <2>1, <2>2
  <1> QED
    BY <1>1, <1>2, <1>3, <1>4, <1>5, <1>6 DEF Starting

(* Every step of the loop, of a cache and of the clock keeps it: the loop  *)
(* goes on only where it runs.                                             *)
LEMMA EventIInv ==
  ASSUME ClusterAssumption, IInv,
         SaveSetting \/ TimePasses
         \/ \E n \in Nodes : Scheduling(n) \/ RefreshRead(n) \/ RefreshAssign(n)
  PROVE  IInv'
  <1> USE DEF IInv
  <1>1. ASSUME NEW n \in Nodes, Scheduling(n) PROVE IInv'
    <2>1. Scheduling(n) => UNCHANGED <<node, now, crashes, lost>>
      BY DEF Scheduling, FirstDue, Claim, Store, Signal, Run
    <2>2. /\ loop[n] # "off" /\ loop'[n] \in Loops
          /\ loop' = [loop EXCEPT ![n] = loop'[n]]
      BY <1>1 DEF Scheduling, FirstDue, Claim, Store, Signal, Run, TypeOK,
                  Loops
    <2>3. LoopsLead' /\ LeadersLock' /\ DownIsOff' /\ NeverStopped'
      BY <1>1, <2>1, <2>2 DEF node, LoopsLead, DownIsOff, LeadersLock,
                              NeverStopped, TypeOK
    <2>4. /\ cache' \in [Nodes -> Times] /\ db' \in Times
          /\ claim' \in [Nodes -> Times] /\ next' \in [Nodes -> Times]
          /\ mail' \subseteq Nodes /\ ran' \in [Times -> 0..2]
          /\ reads' \in [Nodes -> SUBSET Times] /\ overlap' \in BOOLEAN
      <3>1. CASE FirstDue(n)
        BY <3>1, TimesOK DEF FirstDue, TypeOK
      <3>2. CASE Claim(n)
        BY <3>2, TimesOK DEF Claim, TypeOK
      <3>3. CASE Store(n)
        BY <3>3 DEF Store, TypeOK
      <3>4. CASE Signal(n)
        BY <3>4 DEF Signal, TypeOK
      <3>5. CASE Run(n)
        BY <3>5, TimesOK DEF Run, TypeOK
      <3> QED
        BY <1>1, <3>1, <3>2, <3>3, <3>4, <3>5 DEF Scheduling
    <2>5. TypeOK'
      BY <1>1, <2>1, <2>2, <2>4 DEF node, TypeOK
    <2> QED BY <2>3, <2>5
  <1>2. ASSUME NEW n \in Nodes, RefreshRead(n) \/ RefreshAssign(n) PROVE IInv'
    <2>1. LoopsLead' /\ LeadersLock' /\ DownIsOff' /\ NeverStopped'
      BY <1>2 DEF RefreshRead, RefreshAssign, node, LoopsLead, DownIsOff,
                  LeadersLock, NeverStopped
    <2>2. reads[n] \subseteq Times /\ db \in Times
      BY DEF TypeOK
    <2>3. /\ reads' \in [Nodes -> SUBSET Times] /\ cache' \in [Nodes -> Times]
          /\ mail' \subseteq Nodes
      <3>1. CASE RefreshRead(n)
        <4>1. reads[n] \union {db} \in SUBSET Times
          BY <2>2
        <4> QED BY <3>1, <4>1 DEF RefreshRead, TypeOK
      <3>2. CASE RefreshAssign(n)
        <4>1. \A v \in reads[n] : v \in Times /\ reads[n] \ {v} \in SUBSET Times
          BY <2>2
        <4> QED BY <3>2, <4>1 DEF RefreshAssign, TypeOK
      <3> QED BY <1>2, <3>1, <3>2
    <2>4. UNCHANGED <<node, loop, db, claim, next, overlap, ran, now, crashes, lost>>
      BY <1>2 DEF RefreshRead, RefreshAssign
    <2>5. TypeOK'
      BY <2>3, <2>4 DEF node, TypeOK
    <2> QED BY <2>1, <2>5
  <1>3. CASE TimePasses
    <2>1. now' \in 1..MaxTime
      BY <1>3 DEF TimePasses, TypeOK, ClusterAssumption
    <2> QED
      BY <1>3, <2>1 DEF TimePasses, node, event, TypeOK, LoopsLead,
                        DownIsOff, LeadersLock,
                        NeverStopped
  <1>4. CASE SaveSetting
    BY <1>4 DEF SaveSetting, node, TypeOK, LoopsLead, DownIsOff, LeadersLock,
                NeverStopped
  <1> QED
    BY <1>1, <1>2, <1>3, <1>4

LEMMA IInvHolds == ASSUME ClusterAssumption PROVE Spec => []IInv
  <1>1. Init => IInv
    BY InitIInv
  <1>2. IInv /\ [Next]_vars => IInv'
    <2> SUFFICES ASSUME IInv, [Next]_vars PROVE IInv'
      OBVIOUS
    <2>1. CASE Next
      BY <2>1, ElectionIInv, EventIInv DEF Next
    <2>2. CASE UNCHANGED vars
      BY <2>2 DEF vars, node, event, IInv, TypeOK, LoopsLead, DownIsOff,
                  LeadersLock,
                  NeverStopped
    <2> QED BY <2>1, <2>2
  <1> QED
    BY <1>1, <1>2, PTL DEF Spec

(* The due times that the scheduler computes from stale caches, and what   *)
(* it counts, stay within their bounds.                                    *)
THEOREM ClusterTypeCorrect ==
  ASSUME ClusterAssumption PROVE Spec => []TypeOK
  <1>1. IInv => TypeOK
    BY DEF IInv
  <1> QED
    BY <1>1, IInvHolds, PTL

(* Of the nodes whose session the database server knows, at most one runs  *)
(* the scheduler (getIsLeaderFn, startLeadershipMonitor).                  *)
THEOREM SingleScheduler ==
  ASSUME ClusterAssumption PROVE Spec => []OneScheduler
  <1>1. IInv => OneScheduler
    BY DEF IInv, LoopsLead, LeadersLock, OneScheduler
  <1> QED
    BY <1>1, IInvHolds, PTL

(* The branch of the monitor that stops the scheduler is never taken, so   *)
(* no loop survives a stop and a start (scheduleHelper).                   *)
THEOREM SchedulerNeverStopped ==
  ASSUME ClusterAssumption PROVE Spec => []NeverStopped
  <1>1. IInv => NeverStopped
    BY DEF IInv
  <1> QED
    BY <1>1, IInvHolds, PTL

-----------------------------------------------------------------------------
(* As long as no node has crashed, no session was lost and no answer was   *)
(* overtaken: the node that has the lock has it for good, its cache and    *)
(* the answers that it waits for say what the database says; the due times *)
(* that were served are past.                                              *)
Calm == crashes = 0 /\ lost = 0 /\ ~overlap

CalmLead ==
  /\ \A n \in Nodes : pc[n] # "down" => sess[n] /\ owner # NoNode
  /\ \A n \in Nodes : owner = n => lead[n]

CalmLoop ==
  \A n \in Nodes :
    /\ claim[n] # Unset => loop[n] \in {"store", "signal", "run"}
    /\ lead[n] /\ (pc[n] = "listen" \/ loop[n] \in {"ready", "run"}) => cache[n] = db
    /\ loop[n] = "store" => /\ db <= next[n]
                            /\ claim[n] # Unset => claim[n] < next[n]
    /\ loop[n] = "signal" => next[n] = db
    /\ pc[n] # "up" => n \notin mail /\ reads[n] = {}
    /\ lead[n] /\ pc[n] = "up" => reads[n] \subseteq {db}
    /\ loop[n] \in {"signal", "run"} /\ claim[n] # Unset => claim[n] < db

Served ==
  \A t \in Times :
    /\ ran[t] <= 1
    /\ ran[t] > 0 => /\ t < db
                     /\ \A n \in Nodes : claim[n] # Unset => t < claim[n]

CalmInv == IInv /\ (Calm => CalmLead /\ CalmLoop /\ Served)

LEMMA CalmStays == ASSUME IInv, [Next]_vars, Calm' PROVE Calm
  <1>0. crashes \in Nat /\ lost \in Nat /\ overlap \in BOOLEAN
    BY DEF IInv, TypeOK
  <1>1. ASSUME NEW n \in Nodes,
               \/ Starting(n) \/ Poll(n) \/ Scheduling(n)
               \/ RefreshRead(n) \/ RefreshAssign(n)
        PROVE  crashes' = crashes /\ lost' = lost /\ (overlap => overlap')
    <2>1. crashes' = crashes /\ lost' = lost
      BY <1>1 DEF Starting, Elect, Load, Listen, Poll, Scheduling, FirstDue, Claim,
                  Store, Signal, Run, RefreshRead, RefreshAssign
    <2>2. overlap' = overlap \/ Store(n)
      BY <1>1 DEF Starting, Elect, Load, Listen, Poll, Scheduling, FirstDue, Claim,
                  Signal, Run, RefreshRead, RefreshAssign, event
    <2>3. Store(n) /\ overlap => overlap'
      BY Zenon DEF Store
    <2> QED BY <2>1, <2>2, <2>3
  <1>2. ASSUME NEW n \in Nodes, SessionLost(n) PROVE Calm
    BY <1>0, <1>2 DEF SessionLost, Calm
  <1>3. ASSUME NEW n \in Nodes, Crash(n) PROVE Calm
    BY <1>0, <1>3 DEF Crash, Calm
  <1>4. CASE SaveSetting \/ TimePasses \/ UNCHANGED vars
    BY <1>4 DEF SaveSetting, TimePasses, vars, event, Calm
  <1> QED
    BY <1>1, <1>2, <1>3, <1>4 DEF Next, Calm

(* In a calm cluster one node at most leads or runs a loop.                *)
LEMMA OneLeader ==
  ASSUME IInv, CalmLead, NEW m \in Nodes, NEW n \in Nodes,
         lead[m] \/ loop[m] # "off", lead[n] \/ loop[n] # "off",
         pc[m] # "down", pc[n] # "down"
  PROVE  m = n
  BY DEF IInv, LoopsLead, LeadersLock, CalmLead

LEMMA ElectionCalm ==
  ASSUME ClusterAssumption, IInv, CalmLead, CalmLoop, Served,
         NEW n \in Nodes, Starting(n) \/ Poll(n)
  PROVE  CalmLead' /\ CalmLoop' /\ Served'
  <1> USE DEF IInv
  <1>0. NoNode \notin Nodes
    BY DEF ClusterAssumption
  <1>1. CASE Elect(n)
    <2>1. CalmLead'
      BY <1>0, <1>1 DEF Elect, Locked, Leads, TypeOK, CalmLead
    <2>2. CalmLoop'
      BY <1>1 DEF Elect, event, TypeOK, CalmLoop, DownIsOff
    <2>3. Served'
      BY <1>1 DEF Elect, event, Served
    <2> QED BY <2>1, <2>2, <2>3
  <1>2. CASE Load(n)
    <2>1. CalmLead'
      BY <1>2 DEF Load, TypeOK, CalmLead
    <2>2. CalmLoop'
      BY <1>2 DEF Load, TypeOK, CalmLoop
    <2>3. Served'
      BY <1>2 DEF Load, Served
    <2> QED BY <2>1, <2>2, <2>3
  <1>3. CASE Listen(n)
    <2>1. CalmLead'
      BY <1>3 DEF Listen, TypeOK, CalmLead
    <2>2. CalmLoop'
      BY <1>3 DEF Listen, event, TypeOK, CalmLoop, DownIsOff
    <2>3. Served'
      BY <1>3 DEF Listen, event, Served
    <2> QED BY <2>1, <2>2, <2>3
  <1>4. ~Poll(n)
    BY <1>0 DEF Poll, Leads, LeadersLock, CalmLead, TypeOK
  <1> QED
    BY <1>1, <1>2, <1>3, <1>4 DEF Starting

LEMMA EventCalm ==
  ASSUME ClusterAssumption, IInv, CalmLead, CalmLoop, Served,
         NEW n \in Nodes, Scheduling(n) \/ RefreshRead(n) \/ RefreshAssign(n),
         ~overlap'
  PROVE  CalmLead' /\ CalmLoop' /\ Served'
  <1>t. TypeOK
    BY DEF IInv
  <1>1. CalmLead'
    BY DEF Scheduling, FirstDue, Claim, Store, Signal, Run, RefreshRead,
           RefreshAssign, node, CalmLead
  <1>2. lead' = lead /\ pc' = pc
    BY DEF Scheduling, FirstDue, Claim, Store, Signal, Run, RefreshRead,
           RefreshAssign, node
  <1>3. CASE RefreshRead(n)
    <2>1. /\ UNCHANGED <<loop, cache, db, claim, next, ran>> /\ pc[n] = "up"
          /\ mail' \subseteq mail
          /\ \A m \in Nodes : reads'[m] = IF m = n THEN reads[m] \union {db}
                                                  ELSE reads[m]
      BY <1>t, <1>3 DEF RefreshRead, TypeOK, CalmLoop
    <2>2. CalmLoop'
      BY <1>2, <2>1 DEF CalmLoop
    <2>3. Served'
      BY <2>1 DEF Served
    <2> QED BY <1>1, <2>2, <2>3
  <1>4. CASE Scheduling(n)
    <2>1. loop[n] # "off" /\ pc[n] = "up" /\ lead[n]
      BY <1>4 DEF Scheduling, FirstDue, Claim, Store, Signal, Run, IInv, DownIsOff,
                  LoopsLead
    <2>2. \A m \in Nodes : m # n =>
            loop[m] = "off" /\ claim[m] = Unset /\ ~(lead[m] /\ pc[m] = "listen")
      <3> SUFFICES ASSUME NEW m \in Nodes, m # n
                   PROVE  loop[m] = "off" /\ claim[m] = Unset
                          /\ ~(lead[m] /\ pc[m] = "listen")
        OBVIOUS
      <3>1. loop[m] = "off"
        BY <2>1, OneLeader DEF IInv, DownIsOff
      <3>2. claim[m] = Unset
        BY <3>1 DEF CalmLoop
      <3>3. ~(lead[m] /\ pc[m] = "listen")
        BY <2>1, OneLeader
      <3> QED BY <3>1, <3>2, <3>3
    <2>3. \A m \in Nodes : m # n =>
            /\ loop'[m] = loop[m] /\ claim'[m] = claim[m] /\ next'[m] = next[m]
            /\ cache'[m] = cache[m]
      BY <1>4, <1>t DEF Scheduling, FirstDue, Claim, Store, Signal, Run, TypeOK
    <2>r. /\ reads' = reads /\ \A m \in Nodes : m \in mail' => m \in mail \/ pc[m] = "up"
      BY <1>4, <2>1 DEF Scheduling, FirstDue, Claim, Store, Signal, Run
    <2>s. \A m \in Nodes : m # n /\ pc[m] # "down" => ~lead[m]
      BY <2>1, OneLeader
    <2>n. /\ db \in Nat /\ now \in Nat /\ Period \in Nat \ {0} /\ next[n] \in Nat
          /\ cache[n] \in Nat /\ claim[n] \in Times /\ claim[n] \in Nat
          /\ \A t \in Times : t \in Nat
      BY <1>t DEF TypeOK, Times, ClusterAssumption
    <2>4. CASE FirstDue(n)
      <3>1. PICK d \in 0..(Period - 1) : next' = [next EXCEPT ![n] = now + d]
        BY <2>4 DEF FirstDue
      <3>2. /\ loop[n] = "ready" /\ loop'[n] = "store" /\ claim'[n] = Unset
            /\ next'[n] = now + d /\ cache[n] = Unset /\ cache[n] = db
            /\ db' = db /\ ran' = ran
        BY <1>t, <2>1, <2>4, <3>1 DEF FirstDue, TypeOK, CalmLoop
      <3>3. db <= next'[n]
        BY <2>n, <3>2 DEF Unset
      <3>4. CalmLoop'
        BY <1>2, <2>1, <2>2, <2>3, <2>r, <2>s, <3>2, <3>3 DEF CalmLoop
      <3>5. Served'
        BY <2>2, <2>3, <3>2 DEF Served
      <3> QED BY <1>1, <3>4, <3>5
    <2>5. CASE Claim(n)
      <3>1. /\ loop[n] = "ready" /\ loop'[n] = "store" /\ claim'[n] = cache[n]
            /\ cache[n] = db /\ db' = db /\ ran' = ran
            /\ next'[n] \in {now + Period, cache[n] + Period}
            /\ next'[n] = now + Period => now > cache[n] + Period \/ next'[n] = cache[n] + Period
        BY <1>t, <2>1, <2>5 DEF Claim, TypeOK, CalmLoop
      <3>2. db < next'[n]
        BY <2>n, <3>1
      <3>3. CalmLoop'
        BY <1>2, <2>1, <2>2, <2>3, <2>r, <2>s, <2>n, <3>1, <3>2 DEF CalmLoop
      <3>4. Served'
        BY <2>2, <2>3, <3>1 DEF Served
      <3> QED BY <1>1, <3>3, <3>4
    <2>6. CASE Store(n)
      <3>1. /\ loop[n] = "store" /\ loop'[n] = "signal" /\ claim'[n] = claim[n]
            /\ next'[n] = next[n] /\ db' = next[n] /\ ran' = ran
            /\ db <= next[n] /\ (claim[n] # Unset => claim[n] < next[n])
            /\ reads[n] = {}
        BY <1>t, <2>1, <2>6 DEF Store, TypeOK, CalmLoop
      <3>2. CalmLoop'
        BY <1>2, <2>1, <2>2, <2>3, <2>r, <2>s, <3>1 DEF CalmLoop
      <3>3. Served'
        BY <2>2, <2>3, <2>n, <3>1 DEF Served
      <3> QED BY <1>1, <3>2, <3>3
    <2>7. CASE Signal(n)
      <3>1. /\ loop[n] = "signal" /\ loop'[n] = "run" /\ claim'[n] = claim[n]
            /\ next[n] = db /\ cache'[n] = db /\ db' = db /\ ran' = ran
            /\ claim[n] # Unset => claim[n] < db
        BY <1>t, <2>1, <2>7 DEF Signal, TypeOK, CalmLoop
      <3>2. CalmLoop'
        BY <1>2, <2>1, <2>2, <2>3, <2>r, <2>s, <3>1 DEF CalmLoop
      <3>3. Served'
        BY <2>2, <2>3, <3>1 DEF Served
      <3> QED BY <1>1, <3>2, <3>3
    <2>8. CASE Run(n)
      <3>1. /\ loop[n] = "run" /\ loop'[n] = "ready" /\ claim'[n] = Unset
            /\ cache[n] = db /\ cache'[n] = db /\ db' = db
            /\ claim[n] # Unset => claim[n] < db
        BY <1>t, <2>1, <2>8 DEF Run, TypeOK, CalmLoop
      <3>2. \A t \in Times : ran'[t] = IF t = claim[n] /\ claim[n] # Unset
                                       THEN IF ran[t] < 2 THEN ran[t] + 1 ELSE ran[t]
                                       ELSE ran[t]
        BY <1>t, <2>8 DEF Run, TypeOK
      <3>3. CalmLoop'
        BY <1>2, <2>1, <2>2, <2>3, <2>r, <2>s, <3>1 DEF CalmLoop
      <3>4. \A t \in Times : ran[t] \in 0..2
        BY <1>t DEF TypeOK
      <3>5. claim[n] # Unset => ran[claim[n]] = 0
        BY <2>n, <3>4 DEF Served
      <3>6. Served'
        BY <2>2, <2>3, <2>n, <3>1, <3>2, <3>4, <3>5 DEF Served
      <3> QED BY <1>1, <3>3, <3>6
    <2> QED
      BY <1>4, <2>4, <2>5, <2>6, <2>7, <2>8 DEF Scheduling
  <1>5. CASE RefreshAssign(n)
    <2>1. PICK v \in reads[n] : /\ cache' = [cache EXCEPT ![n] = v]
                                /\ reads' = [reads EXCEPT ![n] = @ \ {v}]
      BY <1>5 DEF RefreshAssign
    <2>2. UNCHANGED <<loop, db, claim, next, mail, ran>> /\ pc[n] = "up"
      BY <1>5, <2>1 DEF RefreshAssign, CalmLoop
    <2>3. lead[n] => v = db
      BY <2>1 DEF CalmLoop
    <2>4. \A m \in Nodes : /\ reads'[m] \subseteq reads[m]
                            /\ cache'[m] = IF m = n THEN v ELSE cache[m]
      BY <1>t, <2>1 DEF TypeOK
    <2>5. CalmLoop'
      BY <1>2, <2>2, <2>3, <2>4 DEF CalmLoop
    <2>6. Served'
      BY <2>2 DEF Served
    <2> QED BY <1>1, <2>5, <2>6
  <1> QED BY <1>3, <1>4, <1>5

LEMMA CalmHolds == ASSUME ClusterAssumption PROVE Spec => []CalmInv
  <1>1. Init => CalmInv
    <2> SUFFICES ASSUME Init PROVE CalmInv
      OBVIOUS
    <2>1. IInv
      BY InitIInv
    <2>2. CalmLead /\ CalmLoop /\ Served
      BY DEF Init, ClusterAssumption, CalmLead, CalmLoop, Served
    <2> QED BY <2>1, <2>2 DEF CalmInv
  <1>2. CalmInv /\ IInv' /\ [Next]_vars => CalmInv'
    <2> SUFFICES ASSUME CalmInv, IInv', [Next]_vars, Calm'
                 PROVE  CalmLead' /\ CalmLoop' /\ Served'
      BY DEF CalmInv
    <2>1. IInv /\ Calm
      BY CalmStays DEF CalmInv
    <2>2. CalmLead /\ CalmLoop /\ Served
      BY <2>1 DEF CalmInv
    <2>3. ASSUME NEW n \in Nodes,
                 \/ Starting(n) \/ Poll(n) \/ Scheduling(n)
                 \/ RefreshRead(n) \/ RefreshAssign(n)
          PROVE  CalmLead' /\ CalmLoop' /\ Served'
      <3>1. ~overlap'
        BY DEF Calm
      <3> QED BY <3>1, <2>1, <2>2, <2>3, ElectionCalm, EventCalm
    <2>4. ASSUME NEW n \in Nodes, SessionLost(n) \/ Crash(n) PROVE FALSE
      BY <2>1, <2>4 DEF Calm, SessionLost, Crash
    <2>5. CASE TimePasses \/ UNCHANGED vars
      BY <2>2, <2>5 DEF TimePasses, vars, node, event, CalmLead, CalmLoop, Served
    <2>6. CASE SaveSetting
      BY <2>2, <2>6 DEF SaveSetting, node, CalmLead, CalmLoop, Served
    <2> QED
      BY <2>3, <2>4, <2>5, <2>6 DEF Next
  <1> QED
    BY <1>1, <1>2, IInvHolds, PTL DEF Spec

(* As long as the scheduler is not handed over and no due time is stored   *)
(* while its node waits for an answer, no due time is served twice,        *)
(* however many refresh messages come, from whom and when, and in whatever *)
(* order the answers do (setConfig, refresh_config).                       *)
THEOREM OnceWithoutHandover ==
  ASSUME ClusterAssumption PROVE Spec => []OncePerLeader
  <1>1. CalmInv => OncePerLeader
    BY DEF CalmInv, Calm, Served, OncePerLeader, EventOnce
  <1> QED
    BY <1>1, CalmHolds, PTL
=============================================================================
