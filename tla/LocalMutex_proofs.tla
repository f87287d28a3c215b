------------------------- MODULE LocalMutex_proofs -------------------------
(***************************************************************************)
(* Proofs about LocalMutex for every set of tasks, every timeout and an    *)
(* unbounded clock.                                                        *)
(***************************************************************************)
EXTENDS LocalMutex, SequenceTheorems, TLAPS

(* The inductive invariant: the flag is up exactly when a task holds the   *)
(* lock, one task at most does, and the queue is exact.                    *)
HeldExact == held <=> \E t \in Tasks : pc[t] = "holding"

IInv ==
  /\ TypeOK
  /\ HeldExact
  /\ MutualExclusion
  /\ QueueExact
  /\ NoLostWakeup

(* What splicing one element out of a queue leaves (Expire).               *)
LEMMA RemoveAtProperties ==
  ASSUME NEW S, NEW s \in Seq(S), NEW k \in 1..Len(s)
  PROVE  /\ RemoveAt(s, k) \in Seq(S)
         /\ Len(RemoveAt(s, k)) = Len(s) - 1
         /\ \A i \in 1..(Len(s) - 1) :
              RemoveAt(s, k)[i] = IF i < k THEN s[i] ELSE s[i + 1]
  <1> DEFINE a == SubSeq(s, 1, k - 1)
             b == SubSeq(s, k + 1, Len(s))
  <1>1. a \in Seq(S) /\ Len(a) = k - 1 /\ \A i \in 1..(k - 1) : a[i] = s[i]
    BY DEF a
  <1>2. /\ b \in Seq(S) /\ Len(b) = Len(s) - k
        /\ \A i \in 1..(Len(s) - k) : b[i] = s[k + i]
    BY DEF b
  <1>3. RemoveAt(s, k) = a \o b
    BY DEF RemoveAt
  <1> HIDE DEF a, b
  <1>4. /\ a \o b \in Seq(S)
        /\ Len(a \o b) = Len(s) - 1
    <2>1. a \o b \in Seq(S) /\ Len(a \o b) = Len(a) + Len(b)
      BY <1>1, <1>2, ConcatProperties
    <2>2. Len(s) \in Nat /\ k \in Nat
      BY LenProperties
    <2> QED
      BY <1>1, <1>2, <2>1, <2>2
  <1>5. ASSUME NEW i \in 1..(Len(s) - 1)
        PROVE  (a \o b)[i] = IF i < k THEN s[i] ELSE s[i + 1]
    <2>1. CASE i < k
      <3>1. (a \o b)[i] = a[i]
        BY <1>1, <1>2, <2>1
      <3> QED
        BY <3>1, <1>1, <2>1
    <2>2. CASE ~(i < k)
      <3>1. (a \o b)[i] = b[i - (k - 1)]
        BY <1>1, <1>2, <2>2
      <3>2. b[i - (k - 1)] = s[k + (i - (k - 1))]
        BY <1>2, <2>2
      <3> QED
        BY <3>1, <3>2, <2>2
    <2> QED
      BY <2>1, <2>2
  <1> QED
    BY <1>3, <1>4, <1>5

(* Initially nobody holds the lock and nobody waits.                       *)
LEMMA InitInv == Init => IInv
  <1> SUFFICES ASSUME Init PROVE IInv
    OBVIOUS
  <1>1. TypeOK
    BY EmptySeq DEF Init, TypeOK, PCs
  <1>2. HeldExact /\ MutualExclusion /\ NoLostWakeup
    BY DEF Init, HeldExact, MutualExclusion, NoLostWakeup
  <1>3. QueueExact
    BY DEF Init, QueueExact
  <1> QED
    BY <1>1, <1>2, <1>3 DEF IInv

(* The two ways out of the loop test, for a task that is neither queued    *)
(* nor the holder.                                                         *)
LEMMA TakeInv ==
  ASSUME IInv, NEW t \in Tasks, pc[t] \in {"idle", "woken"}, Take(t),
         UNCHANGED now, asked' \in [Tasks -> Nat]
  PROVE  IInv'
  <1> USE DEF Take, IInv
  <1>1. TypeOK'
    BY DEF TypeOK, PCs
  <1>2. HeldExact' /\ MutualExclusion' /\ NoLostWakeup'
    BY DEF TypeOK, HeldExact, MutualExclusion, NoLostWakeup
  <1>3. QueueExact'
    BY DEF TypeOK, QueueExact
  <1> QED
    BY <1>1, <1>2, <1>3

LEMMA EnqueueInv ==
  ASSUME IInv, NEW t \in Tasks, pc[t] \in {"idle", "woken"}, Enqueue(t),
         UNCHANGED now, asked' \in [Tasks -> Nat]
  PROVE  IInv'
  <1> USE DEF Enqueue, IInv
  <1>0. /\ Len(waiters') = Len(waiters) + 1
        /\ \A i \in 1..Len(waiters) : waiters'[i] = waiters[i]
        /\ waiters'[Len(waiters) + 1] = t
        /\ waiters' \in Seq(Tasks)
        /\ Len(waiters) \in Nat
    BY AppendProperties, LenProperties DEF TypeOK
  <1>1. TypeOK'
    <2>1. pc' \in [Tasks -> PCs]
      BY DEF TypeOK, PCs
    <2>2. now + Timeout \in Nat
      BY TimeAssumption DEF TypeOK
    <2>3. deadline' \in [Tasks -> Nat]
      BY <2>2 DEF TypeOK
    <2> QED
      BY <1>0, <2>1, <2>3 DEF TypeOK
  <1>2. HeldExact' /\ MutualExclusion' /\ NoLostWakeup'
    BY DEF TypeOK, HeldExact, MutualExclusion, NoLostWakeup
  <1>3. \A i \in 1..Len(waiters) : waiters[i] # t
    BY DEF QueueExact, TypeOK
  <1>4. QueueExact'
    <2>1. ASSUME NEW u \in Tasks
          PROVE  pc'[u] = "waiting" <=> \E i \in 1..Len(waiters') : waiters'[i] = u
      <3>1. CASE u = t
        BY <3>1, <1>0 DEF TypeOK
      <3>2. CASE u # t
        <4>1. pc'[u] = pc[u]
          BY <3>2 DEF TypeOK
        <4>2. (\E i \in 1..Len(waiters') : waiters'[i] = u)
              <=> (\E i \in 1..Len(waiters) : waiters[i] = u)
          BY <3>2, <1>0
        <4> QED
          BY <4>1, <4>2 DEF QueueExact
      <3> QED
        BY <3>1, <3>2
    <2>2. \A i, j \in 1..Len(waiters') : waiters'[i] = waiters'[j] => i = j
      BY <1>0, <1>3 DEF QueueExact
    <2> QED
      BY <2>1, <2>2 DEF QueueExact
  <1> QED
    BY <1>1, <1>2, <1>4

LEMMA ReleaseInv ==
  ASSUME IInv, NEW t \in Tasks, Release(t)
  PROVE  IInv'
  <1> USE DEF IInv
  <1>0. t \in Tasks /\ pc[t] = "holding" /\ held' = FALSE
        /\ \A u \in Tasks : pc[u] = "holding" => u = t
    BY DEF Release, MutualExclusion
  <1>1. CASE waiters = <<>>
    <2>1. /\ pc' = [pc EXCEPT ![t] = "idle"]
          /\ UNCHANGED <<waiters, deadline, asked, now>>
      BY <1>1 DEF Release
    <2>2. TypeOK'
      BY <1>0, <2>1 DEF TypeOK, PCs
    <2>3. HeldExact' /\ MutualExclusion' /\ NoLostWakeup'
      BY <1>0, <1>1, <2>1 DEF TypeOK, HeldExact, MutualExclusion, NoLostWakeup
    <2>4. QueueExact'
      BY <1>0, <2>1 DEF TypeOK, QueueExact
    <2> QED
      BY <2>2, <2>3, <2>4
  <1>2. CASE waiters # <<>>
    <2> DEFINE h == Head(waiters)
    <2>1. /\ pc' = [pc EXCEPT ![t] = "idle", ![h] = "woken"]
          /\ waiters' = Tail(waiters)
          /\ UNCHANGED <<deadline, asked, now>>
      BY <1>2 DEF Release
    <2>2. /\ h \in Tasks /\ h = waiters[1] /\ Len(waiters) \in Nat \ {0}
          /\ waiters' \in Seq(Tasks)
          /\ Len(waiters') = Len(waiters) - 1
          /\ \A i \in 1..(Len(waiters) - 1) : waiters'[i] = waiters[i + 1]
      BY <1>2, <2>1, HeadTailProperties, LenProperties, EmptySeq DEF TypeOK
    <2>3. pc[h] = "waiting" /\ h # t
      BY <2>2, <1>0 DEF QueueExact
    <2> HIDE DEF h
    <2>4. TypeOK'
      BY <1>0, <2>1, <2>2 DEF TypeOK, PCs
    <2>5. HeldExact' /\ MutualExclusion' /\ NoLostWakeup'
      BY <1>0, <2>1, <2>2, <2>3
      DEF TypeOK, HeldExact, MutualExclusion, NoLostWakeup
    <2>6. ASSUME NEW u \in Tasks
          PROVE  pc'[u] = "waiting" <=> \E i \in 1..Len(waiters') : waiters'[i] = u
      <3>1. CASE u = h
        <4>1. pc'[u] = "woken"
          BY <3>1, <2>1, <2>2, <2>3 DEF TypeOK
        <4>2. \A i \in 1..Len(waiters') : waiters'[i] # u
          BY <3>1, <2>2 DEF QueueExact
        <4> QED
          BY <4>1, <4>2
      <3>2. CASE u = t
        <4>1. pc'[u] = "idle"
          BY <3>2, <2>1, <2>2, <2>3 DEF TypeOK
        <4>2. \A i \in 1..Len(waiters') : waiters'[i] # u
          BY <3>2, <2>2, <1>0 DEF QueueExact
        <4> QED
          BY <4>1, <4>2
      <3>3. CASE u # h /\ u # t
        <4>1. pc'[u] = pc[u]
          BY <3>3, <2>1, <2>2 DEF TypeOK
        <4>2. ASSUME NEW i \in 1..Len(waiters), waiters[i] = u
              PROVE  \E j \in 1..Len(waiters') : waiters'[j] = u
          <5>1. i # 1
            BY <4>2, <3>3, <2>2
          <5>2. i - 1 \in 1..Len(waiters') /\ waiters'[i - 1] = waiters[i]
            BY <5>1, <2>2
          <5> QED
            BY <5>2, <4>2
        <4>3. ASSUME NEW j \in 1..Len(waiters'), waiters'[j] = u
              PROVE  \E i \in 1..Len(waiters) : waiters[i] = u
          <5>1. j + 1 \in 1..Len(waiters) /\ waiters[j + 1] = u
            BY <4>3, <2>2
          <5> QED
            BY <5>1
        <4> QED
          BY <4>1, <4>2, <4>3 DEF QueueExact
      <3> QED
        BY <3>1, <3>2, <3>3
    <2>7. \A i, j \in 1..Len(waiters') : waiters'[i] = waiters'[j] => i = j
      <3> SUFFICES ASSUME NEW i \in 1..Len(waiters'), NEW j \in 1..Len(waiters'),
                          waiters'[i] = waiters'[j]
                   PROVE  i = j
        OBVIOUS
      <3>1. /\ i + 1 \in 1..Len(waiters) /\ j + 1 \in 1..Len(waiters)
            /\ waiters[i + 1] = waiters[j + 1]
        BY <2>2
      <3>2. i + 1 = j + 1
        BY <3>1 DEF QueueExact
      <3> QED
        BY <3>2
    <2> QED
      BY <2>4, <2>5, <2>6, <2>7 DEF QueueExact
  <1> QED
    BY <1>1, <1>2

LEMMA ExpireInv ==
  ASSUME IInv, NEW t \in Tasks, Expire(t)
  PROVE  IInv'
  <1> USE DEF IInv
  <1>0. /\ pc[t] = "waiting" /\ pc' = [pc EXCEPT ![t] = "idle"]
        /\ UNCHANGED <<held, deadline, asked, now>>
    BY DEF Expire
  <1>1. PICK k \in 1..Len(waiters) : waiters[k] = t /\ waiters' = RemoveAt(waiters, k)
    BY DEF Expire
  <1>2. /\ waiters' \in Seq(Tasks)
        /\ Len(waiters') = Len(waiters) - 1
        /\ \A i \in 1..(Len(waiters) - 1) :
             waiters'[i] = IF i < k THEN waiters[i] ELSE waiters[i + 1]
    BY <1>1, RemoveAtProperties DEF TypeOK
  <1>3. Len(waiters) \in Nat
    BY LenProperties DEF TypeOK
  <1>4. TypeOK'
    BY <1>0, <1>2 DEF TypeOK, PCs
  <1>5. HeldExact' /\ MutualExclusion' /\ NoLostWakeup'
    <2>1. HeldExact' /\ MutualExclusion'
      BY <1>0 DEF TypeOK, HeldExact, MutualExclusion
    <2>2. waiters # <<>>
      BY <1>1, EmptySeq DEF TypeOK
    <2>3. NoLostWakeup'
      BY <1>0, <2>2 DEF TypeOK, NoLostWakeup
    <2> QED
      BY <2>1, <2>3
  <1>6. ASSUME NEW u \in Tasks
        PROVE  pc'[u] = "waiting" <=> \E i \in 1..Len(waiters') : waiters'[i] = u
    <2>1. CASE u = t
      <3>1. pc'[u] = "idle"
        BY <2>1, <1>0 DEF TypeOK
      <3>2. \A i \in 1..Len(waiters') : waiters'[i] # u
        BY <2>1, <1>1, <1>2, <1>3, SMTT(30) DEF QueueExact
      <3> QED
        BY <3>1, <3>2
    <2>2. CASE u # t
      <3>1. pc'[u] = pc[u]
        BY <2>2, <1>0 DEF TypeOK
      <3>2. ASSUME NEW i \in 1..Len(waiters), waiters[i] = u
            PROVE  \E j \in 1..Len(waiters') : waiters'[j] = u
        <4>1. i # k
          BY <3>2, <2>2, <1>1
        <4>2. CASE i < k
          <5>1. i \in 1..Len(waiters') /\ waiters'[i] = u
            BY <3>2, <4>2, <1>2, <1>3
          <5> QED
            BY <5>1
        <4>3. CASE i > k
          <5>1. i - 1 \in 1..Len(waiters') /\ waiters'[i - 1] = u
            BY <3>2, <4>3, <1>2, <1>3
          <5> QED
            BY <5>1
        <4> QED
          BY <4>1, <4>2, <4>3, <1>3
      <3>3. ASSUME NEW j \in 1..Len(waiters'), waiters'[j] = u
            PROVE  \E i \in 1..Len(waiters) : waiters[i] = u
        BY <3>3, <1>2, <1>3
      <3> QED
        BY <3>1, <3>2, <3>3 DEF QueueExact
    <2> QED
      BY <2>1, <2>2
  <1>7. \A i, j \in 1..Len(waiters') : waiters'[i] = waiters'[j] => i = j
    BY <1>2, <1>3 DEF QueueExact
  <1> QED
    BY <1>4, <1>5, <1>6, <1>7 DEF QueueExact

LEMMA TickInv ==
  ASSUME IInv, Tick
  PROVE  IInv'
  BY DEF IInv, Tick, TypeOK, HeldExact, MutualExclusion, QueueExact, NoLostWakeup

LEMMA StutterInv ==
  ASSUME IInv, UNCHANGED vars
  PROVE  IInv'
  BY DEF IInv, vars, TypeOK, HeldExact, MutualExclusion, QueueExact, NoLostWakeup

(* Every step keeps the inductive invariant.                               *)
LEMMA NextInv == IInv /\ [Next]_vars => IInv'
  <1> SUFFICES ASSUME IInv, [Next]_vars PROVE IInv'
    OBVIOUS
  <1>1. ASSUME NEW t \in Tasks, Call(t) PROVE IInv'
    <2>1. /\ pc[t] \in {"idle", "woken"} /\ (Take(t) \/ Enqueue(t))
          /\ UNCHANGED now /\ asked' \in [Tasks -> Nat]
      BY <1>1 DEF Call, IInv, TypeOK
    <2> QED
      BY <2>1, TakeInv, EnqueueInv
  <1>2. ASSUME NEW t \in Tasks, Retest(t) PROVE IInv'
    <2>1. /\ pc[t] \in {"idle", "woken"} /\ (Take(t) \/ Enqueue(t))
          /\ UNCHANGED now /\ asked' \in [Tasks -> Nat]
      BY <1>2 DEF Retest, IInv, TypeOK
    <2> QED
      BY <2>1, TakeInv, EnqueueInv
  <1>3. ASSUME NEW t \in Tasks, Release(t) PROVE IInv'
    BY <1>3, ReleaseInv
  <1>4. ASSUME NEW t \in Tasks, Expire(t) PROVE IInv'
    BY <1>4, ExpireInv
  <1>5. CASE Tick
    BY <1>5, TickInv
  <1>6. CASE UNCHANGED vars
    BY <1>6, StutterInv
  <1> QED
    BY <1>1, <1>2, <1>3, <1>4, <1>5, <1>6 DEF Next

(* The lock, its queue and the timers stay within their types.             *)
THEOREM LocalTypeCorrect == Spec => []TypeOK
  <1>1. IInv => TypeOK
    BY DEF IInv
  <1> QED
    BY <1>1, InitInv, NextInv, PTL DEF Spec

(* One task at a time is between acquire() and release(), however callers, *)
(* woken waiters, releases and timeouts interleave.                        *)
THEOREM LocalMutualExclusion == Spec => []MutualExclusion
  <1>1. IInv => MutualExclusion
    BY DEF IInv
  <1> QED
    BY <1>1, InitInv, NextInv, PTL DEF Spec

(* A free lock with a queue always has a woken waiter on its way, so no    *)
(* release is lost on a waiter that timed out.                             *)
THEOREM LocalNoLostWakeup == Spec => []NoLostWakeup
  <1>1. IInv => NoLostWakeup
    BY DEF IInv
  <1> QED
    BY <1>1, InitInv, NextInv, PTL DEF Spec

(* The waiter queue holds exactly the waiting tasks, once each.            *)
THEOREM LocalQueueExact == Spec => []QueueExact
  <1>1. IInv => QueueExact
    BY DEF IInv
  <1> QED
    BY <1>1, InitInv, NextInv, PTL DEF Spec

-----------------------------------------------------------------------------
(* The refinement: the abstract owner is the task that holds the lock.     *)
LEMMA OwnerOfHolder ==
  ASSUME MutualExclusion, NEW t \in Tasks, pc[t] = "holding"
  PROVE  LockOwner = t
  <1>1. Tsk({"holding"}) # {}
    BY DEF Tsk
  <1>2. LockOwner = CHOOSE u \in Tasks : pc[u] = "holding"
    BY <1>1 DEF LockOwner
  <1>3. \A u \in Tasks : pc[u] = "holding" => u = t
    BY DEF MutualExclusion
  <1> QED
    BY <1>2, <1>3

LEMMA OwnerOfFree ==
  ASSUME \A t \in Tasks : pc[t] # "holding"
  PROVE  LockOwner = NoTask
  BY DEF LockOwner, Tsk

(* A step that takes or frees the lock is an abstract Acquire or Release;  *)
(* any other step leaves the abstract owner alone.                         *)
LEMMA TakeRefines ==
  ASSUME IInv, IInv', NEW t \in Tasks, pc[t] # "holding", Take(t)
  PROVE  Abstract!Acquire(t, "lock")
  <1>1. LockOwner = NoTask
    BY OwnerOfFree DEF IInv, HeldExact, Take
  <1>2. pc'[t] = "holding"
    BY DEF IInv, TypeOK, Take
  <1>3. LockOwner' = t
    <2>1. (Tsk({"holding"}))' # {}
      BY <1>2 DEF Tsk
    <2>2. LockOwner' = CHOOSE u \in Tasks : pc'[u] = "holding"
      BY <2>1 DEF LockOwner
    <2>3. \A u \in Tasks : pc'[u] = "holding" => u = t
      BY <1>2 DEF IInv, MutualExclusion
    <2> QED
      BY <1>2, <2>2, <2>3
  <1> QED
    BY <1>1, <1>3 DEF Abstract!Acquire

LEMMA ReleaseRefines ==
  ASSUME IInv, IInv', NEW t \in Tasks, Release(t)
  PROVE  Abstract!Release(t, "lock")
  <1>1. LockOwner = t
    BY OwnerOfHolder DEF IInv, Release
  <1>2. \A u \in Tasks : pc'[u] # "holding"
    BY DEF IInv, HeldExact, Release
  <1>3. LockOwner' = NoTask
    BY <1>2 DEF LockOwner, Tsk
  <1> QED
    BY <1>1, <1>3 DEF Abstract!Release

LEMMA OtherRefines ==
  ASSUME IInv, NEW t \in Tasks, pc[t] # "holding",
         NEW v \in PCs \ {"holding"}, pc' = [pc EXCEPT ![t] = v]
  PROVE  LockOwner' = LockOwner
  <1>1. \A u \in Tasks : pc'[u] = "holding" <=> pc[u] = "holding"
    BY DEF IInv, TypeOK
  <1>2. CASE \E u \in Tasks : pc[u] = "holding"
    <2>1. PICK u \in Tasks : pc[u] = "holding"
      BY <1>2
    <2>2. \A w \in Tasks : pc[w] = "holding" => w = u
      BY <2>1 DEF IInv, MutualExclusion
    <2>3. LockOwner' = CHOOSE w \in Tasks : pc'[w] = "holding"
      BY <1>1, <2>1 DEF LockOwner, Tsk
    <2>4. LockOwner' = u
      BY <1>1, <2>1, <2>2, <2>3
    <2>5. LockOwner = u
      BY <2>1, OwnerOfHolder DEF IInv
    <2> QED
      BY <2>4, <2>5
  <1>3. CASE \A u \in Tasks : pc[u] # "holding"
    BY <1>1, <1>3 DEF LockOwner, Tsk
  <1> QED
    BY <1>2, <1>3

LEMMA StepRefines ==
  IInv /\ IInv' /\ [Next]_vars
    => [Abstract!Next]_([n \in {"lock"} |-> LockOwner])
  <1> SUFFICES ASSUME IInv, IInv', [Next]_vars
               PROVE  [Abstract!Next]_([n \in {"lock"} |-> LockOwner])
    OBVIOUS
  <1>1. ASSUME NEW t \in Tasks, Call(t) \/ Retest(t)
        PROVE  Abstract!Next \/ LockOwner' = LockOwner
    <2>1. pc[t] # "holding"
      BY <1>1 DEF Call, Retest
    <2>2. CASE Take(t)
      BY <2>1, <2>2, TakeRefines DEF Abstract!Next
    <2>3. CASE Enqueue(t)
      BY <2>1, <2>3, OtherRefines DEF Enqueue, PCs
    <2> QED
      BY <1>1, <2>2, <2>3 DEF Call, Retest
  <1>2. ASSUME NEW t \in Tasks, Release(t)
        PROVE  Abstract!Next
    BY <1>2, ReleaseRefines DEF Abstract!Next
  <1>3. ASSUME NEW t \in Tasks, Expire(t)
        PROVE  LockOwner' = LockOwner
    BY <1>3, OtherRefines DEF Expire, PCs
  <1>4. CASE Tick
    BY <1>4 DEF Tick, LockOwner, Tsk
  <1>5. CASE UNCHANGED vars
    BY <1>5 DEF vars, LockOwner, Tsk
  <1> QED
    BY <1>1, <1>2, <1>3, <1>4, <1>5 DEF Next

(* acquireLockLocally and releaseLockLocally implement the named lock that *)
(* multi_node_mutex.ts promises: every step takes the free lock for one    *)
(* task, gives it back by the task that holds it, or does not move it.     *)
THEOREM LocalImplementsNamedLock == Spec => ImplementsNamedLock
  <1>1. Init => Abstract!Init
    BY OwnerOfFree DEF Init, Abstract!Init
  <1>2. IInv /\ IInv' /\ [Next]_vars
          => [Abstract!Next]_([n \in {"lock"} |-> LockOwner])
    BY StepRefines
  <1> QED
    BY <1>1, <1>2, InitInv, NextInv, PTL DEF Spec, Abstract!Spec, ImplementsNamedLock
=============================================================================
