------------------------ MODULE AdvisoryMutex_proofs ------------------------
(***************************************************************************)
(* Proofs about AdvisoryMutex, for any number of tasks, names, keys and    *)
(* connections, when every call of run() works on a mutex instance of its  *)
(* own (InstancesApart); with SharedInstance of MCAdvisoryMutex they fail. *)
(*                                                                         *)
(* IInv is about the ownership of advisory locks: a connection is in one   *)
(* place at most, the session of each held lock owns it, and as long as no *)
(* query about a key has failed, a session that owns the key has taken it  *)
(* once and is in use for it.  ConnInv adds that a connection is in one    *)
(* place at least, and that at the end of releaseAll() nothing is held;    *)
(* with it each step is a step of NamedLock.                               *)
(***************************************************************************)
EXTENDS AdvisoryMutex, TLAPS, FiniteSetTheorems

InstancesApart == \A t, u \in Tasks : InstOf[t] = InstOf[u] => t = u

(* The inductive invariant.  A connection in the local variable `client`   *)
(* is there exactly between GetClient and its hand-over ...                *)
ClientPc ==
  \A t \in Tasks :
    cli[t] # NoConn <=> pc[t] \in {"lock", "record", "cleanup", "unlock", "drop"}

(* ... and nowhere else, like the connections of held locks and of         *)
(* transactions.                                                           *)
ClientDistinct ==
  \A t, u \in Tasks : cli[t] # NoConn /\ cli[t] = cli[u] => t = u

ClientApart ==
  \A t \in Tasks : cli[t] # NoConn =>
    /\ cli[t] \notin free
    /\ \A u \in Tasks : txc[u] # cli[t]
    /\ \A i \in Instances, n \in Names : conns[i][n] # cli[t]

LockConnApart ==
  \A i \in Instances, n \in Names : conns[i][n] # NoConn =>
    /\ conns[i][n] \notin free
    /\ \A u \in Tasks : txc[u] # conns[i][n]
    /\ \A j \in Instances, m \in Names : conns[j][m] = conns[i][n] => i = j /\ n = m

TxApart ==
  \A t \in Tasks : txc[t] # NoConn =>
    txc[t] \notin free /\ \A u \in Tasks : txc[u] = txc[t] => t = u

(* No query about the key has failed.                                      *)
Clean(k) == \A n \in broken : Key[n] # k

(* A session that owns the lock of such a key is the connection of a held  *)
(* lock, or is about to become one or to give the lock back.               *)
LockBacked ==
  \A k \in Keys : lock[k] # NoConn /\ Clean(k) =>
    /\ count[k] = 1
    /\ \/ \E i \in Instances, n \in Names : Key[n] = k /\ conns[i][n] = lock[k]
       \/ \E t \in Tasks :
            /\ cli[t] = lock[k] /\ pc[t] \in {"record", "unlock"}
            /\ Key[want[t]] = k

CountOk == \A k \in Keys : IF lock[k] = NoConn THEN count[k] = 0 ELSE count[k] > 0

ConnOwnsLock ==
  \A i \in Instances, n \in Names :
    conns[i][n] # NoConn => lock[Key[n]] = conns[i][n]

PcOwnsLock ==
  \A t \in Tasks : pc[t] \in {"record", "unlock"} => lock[Key[want[t]]] = cli[t]

(* What a call is acquiring its instance does not have, and what a task    *)
(* believes to hold its instance has: false when tasks share an instance.  *)
NotYetHeld ==
  \A t \in Tasks :
    pc[t] \in {"getclient", "lock", "record"} => conns[InstOf[t]][want[t]] = NoConn

HasConn == \A t \in Tasks : \A n \in has[t] : conns[InstOf[t]][n] # NoConn

IInv ==
  /\ TypeOK /\ ClientPc /\ ClientDistinct /\ ClientApart /\ LockConnApart
  /\ TxApart /\ LockBacked /\ ConnOwnsLock /\ PcOwnsLock /\ NotYetHeld
  /\ HasConn /\ CountOk

-----------------------------------------------------------------------------
LEMMA InitIInv == Init => IInv
BY MutexAssumption
DEF Init, IInv, TypeOK, PCs, ClientPc, ClientDistinct, ClientApart, LockConnApart,
    TxApart, LockBacked, ConnOwnsLock, PcOwnsLock, NotYetHeld, HasConn, CountOk

(* A session stays backed when only a task that is not about to use its    *)
(* lock moves.                                                             *)
LEMMA LockBackedKept ==
  ASSUME LockBacked, NEW t \in Tasks, pc[t] \notin {"record", "unlock"},
         UNCHANGED conns, broken \subseteq broken',
         \A k \in Keys : lock'[k] # NoConn => lock'[k] = lock[k] /\ count'[k] = count[k],
         \A u \in Tasks \ {t} :
           cli'[u] = cli[u] /\ pc'[u] = pc[u] /\ want'[u] = want[u]
  PROVE  LockBacked'
<1> SUFFICES ASSUME NEW k \in Keys, lock'[k] # NoConn, Clean(k)'
             PROVE  /\ count'[k] = 1
                    /\ \/ \E i \in Instances, n \in Names : Key[n] = k /\ conns'[i][n] = lock'[k]
                       \/ \E u \in Tasks :
                            /\ cli'[u] = lock'[k] /\ pc'[u] \in {"record", "unlock"}
                            /\ Key[want'[u]] = k
  BY DEF LockBacked
<1>1. lock'[k] = lock[k] /\ count'[k] = count[k] /\ Clean(k)
  BY DEF Clean
<1>2. CASE \E i \in Instances, n \in Names : Key[n] = k /\ conns[i][n] = lock[k]
  BY <1>1, <1>2 DEF LockBacked
<1>3. ASSUME NEW u \in Tasks, cli[u] = lock[k], pc[u] \in {"record", "unlock"}, Key[want[u]] = k
      PROVE  cli'[u] = lock'[k] /\ pc'[u] \in {"record", "unlock"} /\ Key[want'[u]] = k
  <2>1. u # t
    BY <1>3
  <2> QED BY <1>1, <1>3, <2>1
<1> QED BY <1>1, <1>2, <1>3 DEF LockBacked

(* release() of a held name, or of one that is not held: the step that     *)
(* ReleaseStep, ReleaseAll and ReleaseNext share.                          *)
LEMMA StartReleaseIInv ==
  ASSUME InstancesApart, IInv, NEW t \in Tasks, NEW n \in Names,
         StartRelease(t, n), pc[t] \in {"run", "leave", "next"},
         UNCHANGED <<ending, txc, server, free, history>>,
         todo' \in [Tasks -> SUBSET Names]
  PROVE  IInv'
<1> USE DEF IInv, server, history
<1>1. CASE Inst(t)[n] = NoConn
  <2>1. UNCHANGED <<pc, want, cli, conns>> /\ has' = [has EXCEPT ![t] = @ \ {n}]
    BY <1>1 DEF StartRelease
  <2>2. TypeOK'
    BY <2>1 DEF TypeOK
  <2>3. HasConn'
    BY <2>1 DEF TypeOK, HasConn
  <2> QED
    BY <2>1, <2>2, <2>3 DEF ClientPc, ClientDistinct, ClientApart, LockConnApart,
       TxApart, LockBacked, Clean, ConnOwnsLock, PcOwnsLock, NotYetHeld, CountOk
<1>2. CASE Inst(t)[n] # NoConn
  <2> DEFINE i0 == InstOf[t]
             c0 == conns[i0][n]
  <2>1. i0 \in Instances /\ c0 \in Conns /\ c0 # NoConn
    BY <1>2, MutexAssumption DEF TypeOK, Inst
  <2>2. /\ pc' = [pc EXCEPT ![t] = "unlock"]
        /\ want' = [want EXCEPT ![t] = n]
        /\ cli' = [cli EXCEPT ![t] = c0]
        /\ conns' = [conns EXCEPT ![i0][n] = NoConn]
        /\ has' = [has EXCEPT ![t] = @ \ {n}]
    BY <1>2 DEF StartRelease, Inst, Goto
  <2>3. TypeOK'
    BY <2>1, <2>2 DEF TypeOK, PCs
  <2>4. \A i \in Instances, m \in Names :
          conns'[i][m] = IF i = i0 /\ m = n THEN NoConn ELSE conns[i][m]
    BY <2>1, <2>2 DEF TypeOK
  <2>5. \A u \in Tasks :
          /\ pc'[u] = IF u = t THEN "unlock" ELSE pc[u]
          /\ want'[u] = IF u = t THEN n ELSE want[u]
          /\ cli'[u] = IF u = t THEN c0 ELSE cli[u]
          /\ has'[u] = IF u = t THEN has[t] \ {n} ELSE has[u]
    BY <2>2 DEF TypeOK
  <2>6. c0 \notin free /\ \A u \in Tasks : txc[u] # c0 /\ cli[u] # c0
    BY <2>1 DEF LockConnApart, ClientApart
  <2>7. \A i \in Instances, m \in Names : conns[i][m] = c0 => i = i0 /\ m = n
    BY <2>1 DEF LockConnApart
  <2>8. lock[Key[n]] = c0
    BY <2>1 DEF ConnOwnsLock
  <2> HIDE DEF i0, c0
  <2>9. ClientPc' /\ ClientDistinct'
    BY <2>1, <2>5, <2>6 DEF ClientPc, ClientDistinct
  <2>10. ClientApart'
    BY <2>1, <2>4, <2>5, <2>6, <2>7 DEF ClientApart
  <2>11. LockConnApart' /\ TxApart'
    BY <2>4 DEF LockConnApart, TxApart
  <2>12. ConnOwnsLock' /\ PcOwnsLock'
    BY <2>4, <2>5, <2>8 DEF ConnOwnsLock, PcOwnsLock
  <2>13. NotYetHeld'
    BY <2>1, <2>4, <2>5, MutexAssumption DEF NotYetHeld, TypeOK
  <2>14. ASSUME NEW u \in Tasks, NEW m \in has'[u] PROVE conns'[InstOf[u]][m] # NoConn
    <3>1. m \in has[u] /\ m \in Names /\ InstOf[u] \in Instances /\ conns[InstOf[u]][m] # NoConn
      BY <2>5, MutexAssumption DEF HasConn, TypeOK
    <3>2. CASE u = t
      BY <3>1, <3>2, <2>4, <2>5
    <3>3. CASE u # t
      <4>1. InstOf[u] # i0
        BY <3>3 DEF InstancesApart, i0
      <4> QED BY <3>1, <4>1, <2>4
    <3> QED BY <3>2, <3>3
  <2>15. ASSUME NEW k \in Keys, lock[k] # NoConn, Clean(k)
         PROVE  \/ \E i \in Instances, m \in Names : Key[m] = k /\ conns'[i][m] = lock[k]
                \/ \E u \in Tasks : /\ cli'[u] = lock[k] /\ pc'[u] \in {"record", "unlock"}
                                   /\ Key[want'[u]] = k
    <3>1. CASE lock[k] = c0
      <4>1. Key[n] = k
        <5>1. CASE \E i \in Instances, m \in Names : Key[m] = k /\ conns[i][m] = lock[k]
          BY <3>1, <5>1, <2>7
        <5>2. CASE \E u \in Tasks : cli[u] = lock[k]
          BY <3>1, <5>2, <2>6
        <5> QED BY <2>15, <5>1, <5>2 DEF LockBacked
      <4> QED BY <3>1, <4>1, <2>5
    <3>2. CASE lock[k] # c0
      <4>1. CASE \E i \in Instances, m \in Names : Key[m] = k /\ conns[i][m] = lock[k]
        <5>1. PICK i \in Instances, m \in Names : Key[m] = k /\ conns[i][m] = lock[k]
          BY <4>1
        <5>2. conns'[i][m] = lock[k]
          BY <5>1, <3>2, <2>4 DEF c0
        <5> QED BY <5>1, <5>2
      <4>2. CASE \E u \in Tasks : /\ cli[u] = lock[k] /\ pc[u] \in {"record", "unlock"}
                                /\ Key[want[u]] = k
        <5>1. PICK u \in Tasks : /\ cli[u] = lock[k] /\ pc[u] \in {"record", "unlock"}
                                 /\ Key[want[u]] = k
          BY <4>2
        <5>2. u # t
          BY <5>1
        <5> QED BY <5>1, <5>2, <2>5
      <4> QED BY <2>15, <4>1, <4>2 DEF LockBacked
    <3> QED BY <3>1, <3>2
  <2>16. LockBacked'
    BY <2>15 DEF LockBacked, Clean
  <2> QED BY <2>3, <2>9, <2>10, <2>11, <2>12, <2>13, <2>14, <2>16 DEF HasConn, CountOk
<1> QED BY <1>1, <1>2

(* releaseClient: no session in use owns a lock of the one that may end.   *)
LEMMA ReleaseClientIInv ==
  ASSUME InstancesApart, IInv, NEW t \in Tasks, NEW l \in {"run", "next"},
         ReleaseClient(t), pc[t] \in {"cleanup", "drop"}, Goto(t, l),
         UNCHANGED <<ending, want, txc, todo, conns, has, broken>>
  PROVE  IInv'
<1> USE DEF IInv, server
<1>1. /\ free' = free \union {cli[t]} /\ cli' = [cli EXCEPT ![t] = NoConn]
      /\ cli[t] # NoConn /\ cli[t] \in Conns
  BY DEF ReleaseClient, ClientPc, TypeOK
<1>2. /\ \A k \in Keys : \/ lock'[k] = lock[k] /\ count'[k] = count[k]
                         \/ lock[k] = cli[t] /\ lock'[k] = NoConn /\ count'[k] = 0
      /\ lock' \in [Keys -> Conns \union {NoConn}] /\ count' \in [Keys -> Nat]
      /\ faults' \in 0..MaxFaults
  <2>1. CASE UNCHANGED <<lock, count, faults>>
    BY <2>1 DEF TypeOK
  <2>2. CASE /\ Fault
             /\ lock' = [k \in Keys |-> IF lock[k] = cli[t] THEN NoConn ELSE lock[k]]
             /\ count' = [k \in Keys |-> IF lock[k] = cli[t] THEN 0 ELSE count[k]]
    BY <2>2, MutexAssumption DEF TypeOK, Fault
  <2> QED BY <2>1, <2>2 DEF ReleaseClient
<1>3. TypeOK'
  BY <1>1, <1>2 DEF Goto, TypeOK, PCs
<1>4. ClientPc' /\ ClientDistinct' /\ NotYetHeld'
  BY <1>1 DEF Goto, TypeOK, ClientPc, ClientDistinct, NotYetHeld
<1>5. ClientApart'
  BY <1>1 DEF TypeOK, ClientApart, ClientDistinct
<1>6. LockConnApart' /\ TxApart' /\ HasConn'
  BY <1>1 DEF LockConnApart, TxApart, ClientApart, HasConn
<1>7. LockBacked'
  BY <1>1, <1>2, LockBackedKept DEF Goto, TypeOK
<1>8. ConnOwnsLock'
  BY <1>1, <1>2, MutexAssumption DEF ConnOwnsLock, ClientApart
<1>9. CountOk'
  BY <1>2 DEF CountOk
<1>10. PcOwnsLock'
  <2> SUFFICES ASSUME NEW u \in Tasks, pc'[u] \in {"record", "unlock"}
               PROVE  lock'[Key[want'[u]]] = cli'[u]
    BY DEF PcOwnsLock
  <2>1. u # t /\ pc[u] \in {"record", "unlock"} /\ cli'[u] = cli[u] /\ cli[u] # cli[t]
    BY <1>1 DEF Goto, TypeOK, ClientDistinct
  <2>2. Key[want[u]] \in Keys /\ lock[Key[want[u]]] = cli[u]
    BY <2>1, MutexAssumption DEF PcOwnsLock, TypeOK
  <2> QED BY <1>2, <2>1, <2>2
<1> QED BY <1>3, <1>4, <1>5, <1>6, <1>7, <1>8, <1>9, <1>10

(* The server takes one from the count of the lock that a call gives back. *)
LEMMA GiveKeeps ==
  ASSUME IInv, NEW t \in Tasks, pc[t] = "unlock", Give(t) \/ UNCHANGED server
  PROVE  /\ lock' \in [Keys -> Conns \union {NoConn}] /\ count' \in [Keys -> Nat]
         /\ \A k \in Keys \ {Key[want[t]]} : lock'[k] = lock[k] /\ count'[k] = count[k]
         /\ lock'[Key[want[t]]] \in {cli[t], NoConn}
         /\ CountOk'
<1> USE DEF IInv, server
<1> DEFINE k0 == Key[want[t]]
<1>1. /\ k0 \in Keys /\ lock[k0] = cli[t] /\ cli[t] # NoConn /\ cli[t] \in Conns
      /\ count[k0] \in Nat /\ count[k0] > 0
  BY MutexAssumption DEF TypeOK, PcOwnsLock, ClientPc, CountOk
<1>2. CASE UNCHANGED server
  BY <1>1, <1>2 DEF TypeOK, CountOk
<1>3. CASE Give(t)
  <2>1. /\ lock' = [lock EXCEPT ![k0] = IF count[k0] = 1 THEN NoConn ELSE @]
        /\ count' = [count EXCEPT ![k0] = @ - 1]
    BY <1>1, <1>3 DEF Give
  <2>2. \A k \in Keys : /\ lock'[k] = IF k = k0 /\ count[k0] = 1 THEN NoConn ELSE lock[k]
                        /\ count'[k] = IF k = k0 THEN count[k] - 1 ELSE count[k]
    BY <2>1 DEF TypeOK
  <2>3. lock' \in [Keys -> Conns \union {NoConn}]
    BY <1>1, <2>1 DEF TypeOK
  <2>4. count' \in [Keys -> Nat]
    BY <1>1, <2>1 DEF TypeOK
  <2>5. CountOk'
    BY <1>1, <2>2 DEF CountOk, TypeOK
  <2> QED BY <1>1, <2>2, <2>3, <2>4, <2>5
<1> QED BY <1>2, <1>3

LEMMA NextIInv == ASSUME InstancesApart PROVE IInv /\ [Next]_vars => IInv'
<1> SUFFICES ASSUME IInv, [Next]_vars PROVE IInv'
  OBVIOUS
<1> USE DEF InstancesApart, IInv, server, history

<1>1. ASSUME NEW t \in Tasks, Begin(t) PROVE IInv'
  <2> USE <1>1
  <2>2. TypeOK'
    BY DEF Begin, Goto, TypeOK, PCs
  <2>3. ClientPc'
    BY DEF Begin, Goto, ClientPc
  <2>4. ClientApart'
    BY DEF Begin, TypeOK, ClientApart
  <2>5. LockConnApart'
    BY DEF Begin, TypeOK, LockConnApart
  <2>6. TxApart'
    <3>1. CASE UNCHANGED <<txc, free>>
      BY <3>1 DEF TxApart
    <3>2. ASSUME NEW c \in free, txc' = [txc EXCEPT ![t] = c], free' = free \ {c}
          PROVE  TxApart'
      <4>1. \A u \in Tasks : txc'[u] = IF u = t THEN c ELSE txc[u]
        BY <3>2 DEF TypeOK
      <4>2. \A u \in Tasks : txc[u] # c
        BY MutexAssumption DEF TypeOK, TxApart
      <4> QED BY <3>2, <4>1, <4>2 DEF TxApart
    <3> QED BY <3>1, <3>2 DEF Begin
  <2>7. LockBacked'
    BY LockBackedKept DEF Begin, Goto
  <2>8. PcOwnsLock'
    BY DEF Begin, Goto, PcOwnsLock
  <2>9. NotYetHeld'
    BY DEF Begin, Goto, NotYetHeld
  <2>10. ClientDistinct' /\ ConnOwnsLock' /\ HasConn' /\ CountOk'
    BY DEF Begin, ClientDistinct, ConnOwnsLock, HasConn, CountOk
  <2> QED BY <2>2, <2>3, <2>4, <2>5, <2>6, <2>7, <2>8, <2>9, <2>10

<1>2. ASSUME NEW t \in Tasks, NEW n \in Names, Reacquire(t, n) PROVE IInv'
  <2> USE <1>2
  <2>2. TypeOK'
    BY DEF Reacquire, TypeOK
  <2>3. HasConn'
    BY DEF Reacquire, Inst, HasConn
  <2>4. /\ ClientPc' /\ ClientDistinct' /\ ClientApart' /\ LockConnApart' /\ TxApart'
        /\ LockBacked' /\ ConnOwnsLock' /\ PcOwnsLock' /\ NotYetHeld' /\ CountOk'
    BY DEF Reacquire, ClientPc, ClientDistinct, ClientApart, LockConnApart, TxApart,
       LockBacked, Clean, ConnOwnsLock, PcOwnsLock, NotYetHeld, CountOk
  <2> QED BY <2>2, <2>3, <2>4

<1>3. ASSUME NEW t \in Tasks, NEW n \in Names, Acquire(t, n) PROVE IInv'
  <2> USE <1>3
  <2>2. TypeOK'
    BY DEF Acquire, Goto, TypeOK, PCs
  <2>3. ClientPc'
    BY DEF Acquire, Goto, ClientPc
  <2>4. LockBacked'
    BY LockBackedKept DEF Acquire, Goto
  <2>5. PcOwnsLock'
    BY DEF Acquire, Goto, PcOwnsLock
  <2>6. NotYetHeld'
    BY DEF Acquire, Goto, Inst, TypeOK, NotYetHeld
  <2>7. /\ ClientDistinct' /\ ClientApart' /\ LockConnApart' /\ TxApart'
        /\ ConnOwnsLock' /\ HasConn' /\ CountOk'
    BY DEF Acquire, ClientDistinct, ClientApart, LockConnApart,
       TxApart, ConnOwnsLock, HasConn, CountOk
  <2> QED BY <2>2, <2>3, <2>4, <2>5, <2>6, <2>7

<1>4. ASSUME NEW t \in Tasks, GetClient(t) PROVE IInv'
  <2> USE <1>4
  <2>2. TypeOK'
    BY DEF GetClient, Goto, TypeOK, PCs
  <2>3. ClientPc'
    BY MutexAssumption DEF GetClient, Goto, TypeOK, ClientPc
  <2>4. ClientDistinct'
    BY DEF GetClient, ClientDistinct, ClientApart
  <2>5. ClientApart'
    BY DEF GetClient, ClientApart, LockConnApart, TxApart
  <2>6. LockConnApart'
    BY DEF GetClient, LockConnApart
  <2>7. TxApart'
    BY DEF GetClient, TxApart
  <2>8. LockBacked'
    BY LockBackedKept DEF GetClient, Goto
  <2>9. PcOwnsLock'
    BY DEF GetClient, Goto, PcOwnsLock
  <2>10. NotYetHeld'
    BY DEF GetClient, Goto, NotYetHeld
  <2>11. ConnOwnsLock' /\ HasConn' /\ CountOk'
    BY DEF GetClient, ConnOwnsLock, HasConn, CountOk
  <2> QED BY <2>2, <2>3, <2>4, <2>5, <2>6, <2>7, <2>8, <2>9, <2>10, <2>11

<1>5. ASSUME NEW t \in Tasks, pc[t] = "lock", Grantable(t), Take(t),
             \/ Goto(t, "record") /\ UNCHANGED broken
             \/ Goto(t, "cleanup") /\ broken' = broken \union {want[t]},
             faults' \in 0..MaxFaults,
             UNCHANGED <<ending, want, cli, txc, todo, conns, has, free>>
      PROVE  IInv'
  <2> USE <1>5
  <2> DEFINE k0 == Key[want[t]]
  <2>1. k0 \in Keys /\ want[t] \in Names /\ cli[t] \in Conns /\ cli[t] # NoConn
    BY MutexAssumption DEF TypeOK, ClientPc
  <2>2. \A k \in Keys : /\ lock'[k] = IF k = k0 THEN cli[t] ELSE lock[k]
                        /\ count'[k] = IF k = k0 THEN count[k] + 1 ELSE count[k]
    BY DEF Take, TypeOK
  <2>3. TypeOK'
    <3>1. lock' \in [Keys -> Conns \union {NoConn}] /\ count' \in [Keys -> Nat]
      BY <2>1 DEF Take, TypeOK
    <3> QED BY <2>1, <3>1 DEF Goto, TypeOK, PCs
  <2>4. ClientPc' /\ NotYetHeld'
    BY DEF Goto, TypeOK, ClientPc, NotYetHeld
  <2>5. lock[k0] = NoConn \/ ~Clean(k0)
    <3> SUFFICES ASSUME lock[k0] = cli[t], Clean(k0) PROVE FALSE
      BY DEF Grantable
    <3> QED BY <2>1 DEF LockBacked, ClientApart, ClientDistinct
  <2>6. \A u \in Tasks : pc'[u] = IF u = t THEN pc'[t] ELSE pc[u]
    BY DEF Goto, TypeOK
  <2>7. LockBacked'
    <3> SUFFICES ASSUME NEW k \in Keys, lock'[k] # NoConn, Clean(k)'
                 PROVE  /\ count'[k] = 1
                        /\ \/ \E i \in Instances, n \in Names : Key[n] = k /\ conns'[i][n] = lock'[k]
                           \/ \E u \in Tasks :
                                /\ cli'[u] = lock'[k] /\ pc'[u] \in {"record", "unlock"}
                                /\ Key[want'[u]] = k
      BY DEF LockBacked
    <3>1. Clean(k)
      BY DEF Clean
    <3>2. CASE k = k0
      <4>1. pc'[t] = "record"
        BY <3>2, <2>1 DEF Goto, TypeOK, Clean
      <4>2. count'[k] = 1
        BY <3>1, <3>2, <2>2, <2>5 DEF CountOk
      <4> QED BY <3>2, <4>1, <4>2, <2>2
    <3>3. CASE k # k0
      <4>1. lock'[k] = lock[k] /\ count'[k] = count[k]
        BY <3>3, <2>2
      <4>2. ASSUME NEW u \in Tasks, pc[u] \in {"record", "unlock"} PROVE pc'[u] = pc[u]
        BY <4>2, <2>6
      <4> QED BY <3>1, <4>1, <4>2 DEF LockBacked
    <3> QED BY <3>2, <3>3
  <2>8. ConnOwnsLock'
    <3> SUFFICES ASSUME NEW i \in Instances, NEW n \in Names, conns[i][n] # NoConn
                 PROVE  lock'[Key[n]] = conns[i][n]
      BY DEF ConnOwnsLock
    <3>1. Key[n] \in Keys /\ lock[Key[n]] = conns[i][n]
      BY MutexAssumption DEF ConnOwnsLock
    <3> QED BY <2>2, <3>1 DEF Grantable
  <2>9. PcOwnsLock'
    BY <2>1, <2>2, <2>6, MutexAssumption DEF Goto, TypeOK, Grantable, PcOwnsLock, ClientPc, ClientDistinct
  <2>10. CountOk'
    BY <2>1, <2>2 DEF CountOk, TypeOK
  <2>11. ClientDistinct' /\ ClientApart' /\ LockConnApart' /\ TxApart' /\ HasConn'
    BY DEF ClientDistinct, ClientApart, LockConnApart, TxApart, HasConn
  <2> QED BY <2>3, <2>4, <2>7, <2>8, <2>9, <2>10, <2>11

<1>6. ASSUME NEW t \in Tasks, Record(t) PROVE IInv'
  <2> USE <1>6
  <2>1. \A i \in Instances, n \in Names :
          conns'[i][n] = IF i = InstOf[t] /\ n = want[t] THEN cli[t] ELSE conns[i][n]
    BY MutexAssumption DEF Record, TypeOK
  <2>2. TypeOK'
    BY MutexAssumption, ZenonT(60) DEF Record, Goto, TypeOK, PCs
  <2>3. ClientPc'
    BY DEF Record, Goto, TypeOK, ClientPc
  <2>4. ClientDistinct'
    BY DEF Record, ClientDistinct
  <2>5. ClientApart'
    BY DEF Record, TypeOK, ClientApart, ClientDistinct
  <2>6. LockConnApart'
    BY DEF Record, LockConnApart, ClientApart
  <2>7. LockBacked'
    <3>1. ASSUME NEW k \in Keys, lock'[k] # NoConn, Clean(k)
          PROVE  \/ \E i \in Instances, n \in Names : Key[n] = k /\ conns'[i][n] = lock'[k]
                 \/ \E u \in Tasks : /\ cli'[u] = lock'[k] /\ pc'[u] \in {"record", "unlock"}
                                    /\ Key[want'[u]] = k
      <4>1. CASE \E i \in Instances, n \in Names : Key[n] = k /\ conns[i][n] = lock[k]
        BY <3>1, <4>1 DEF NotYetHeld, Record
      <4>2. CASE cli[t] = lock[k] /\ Key[want[t]] = k
        <5>1. InstOf[t] \in Instances /\ want[t] \in Names
          BY MutexAssumption DEF TypeOK
        <5>2. conns'[InstOf[t]][want[t]] = lock[k]
          BY <4>2, <5>1, <2>1
        <5> QED BY <4>2, <5>1, <5>2 DEF Record
      <4>3. CASE \E u \in Tasks \ {t} :
                   /\ cli[u] = lock[k] /\ pc[u] \in {"record", "unlock"} /\ Key[want[u]] = k
        BY <4>3 DEF Record, Goto
      <4> QED BY <3>1, <4>1, <4>2, <4>3 DEF LockBacked, Record
    <3> QED BY <3>1 DEF LockBacked, Clean, Record
  <2>8. ConnOwnsLock'
    BY DEF Record, ConnOwnsLock, PcOwnsLock
  <2>9. PcOwnsLock'
    BY DEF Record, Goto, TypeOK, PcOwnsLock
  <2>10. NotYetHeld'
    BY DEF Record, Goto, TypeOK, NotYetHeld
  <2>11. HasConn'
    <3>1. ASSUME NEW u \in Tasks, NEW m \in has'[u] PROVE conns'[InstOf[u]][m] # NoConn
      <4>1. CASE u = t /\ m = want[t]
        BY <4>1, MutexAssumption DEF Record, TypeOK, ClientPc
      <4>2. CASE ~ (u = t /\ m = want[t])
        <5>1. m \in has[u] /\ m \in Names /\ InstOf[u] \in Instances
          BY <4>2, MutexAssumption DEF Record, TypeOK
        <5>2. conns'[InstOf[u]][m] = conns[InstOf[u]][m]
          BY <4>2, <5>1, <2>1
        <5> QED BY <5>1, <5>2 DEF HasConn
      <4> QED BY <4>1, <4>2
    <3> QED BY <3>1 DEF HasConn
  <2>12. TxApart' /\ CountOk'
    BY DEF Record, TxApart, CountOk
  <2> QED BY <2>2, <2>3, <2>4, <2>5, <2>6, <2>7, <2>8, <2>9, <2>10, <2>11, <2>12

<1>7. ASSUME NEW t \in Tasks, LockTimeout(t) PROVE IInv'
  <2> USE <1>7
  <2>2. TypeOK'
    BY DEF LockTimeout, Goto, TypeOK, PCs
  <2>3. ClientPc'
    BY DEF LockTimeout, Goto, ClientPc
  <2>4. LockBacked'
    BY LockBackedKept DEF LockTimeout, Goto
  <2>5. PcOwnsLock'
    BY DEF LockTimeout, Goto, PcOwnsLock
  <2>6. NotYetHeld'
    BY DEF LockTimeout, Goto, NotYetHeld
  <2>7. /\ ClientDistinct' /\ ClientApart' /\ LockConnApart' /\ TxApart'
        /\ ConnOwnsLock' /\ HasConn' /\ CountOk'
    BY DEF LockTimeout, ClientDistinct, ClientApart, LockConnApart,
       TxApart, ConnOwnsLock, HasConn, CountOk
  <2> QED BY <2>2, <2>3, <2>4, <2>5, <2>6, <2>7

<1>8. ASSUME NEW t \in Tasks, Cleanup(t) PROVE IInv'
  BY <1>8, ReleaseClientIInv DEF Cleanup

<1>9. ASSUME NEW t \in Tasks, NEW n \in Names, ReleaseStep(t, n) PROVE IInv'
  BY <1>9, StartReleaseIInv DEF ReleaseStep, TypeOK

<1>10. ASSUME NEW t \in Tasks, Unlock(t) \/ UnlockFails(t) PROVE IInv'
  <2> DEFINE k0 == Key[want[t]]
  <2>1. /\ pc[t] = "unlock" /\ (Give(t) \/ UNCHANGED server) /\ Goto(t, "drop")
        /\ UNCHANGED <<ending, want, cli, txc, todo, conns, has, free>>
    BY <1>10 DEF Unlock, UnlockFails
  <2>2. /\ lock' \in [Keys -> Conns \union {NoConn}] /\ count' \in [Keys -> Nat]
        /\ \A k \in Keys \ {k0} : lock'[k] = lock[k] /\ count'[k] = count[k]
        /\ lock'[k0] \in {cli[t], NoConn}
        /\ CountOk'
    BY <2>1, GiveKeeps
  <2>3. /\ k0 \in Keys /\ want[t] \in Names /\ lock[k0] = cli[t]
        /\ cli[t] # NoConn /\ cli[t] \in Conns
    BY <2>1, MutexAssumption DEF TypeOK, PcOwnsLock, ClientPc
  <2>4. /\ broken \subseteq broken' /\ broken' \in SUBSET Names /\ faults' \in 0..MaxFaults
        /\ (UNCHANGED broken /\ Give(t)) \/ want[t] \in broken'
    BY <1>10, <2>3, MutexAssumption DEF Unlock, UnlockFails, Fault, TypeOK
  <2>5. \A u \in Tasks : pc'[u] = IF u = t THEN "drop" ELSE pc[u]
    BY <2>1 DEF Goto, TypeOK
  <2>6. TypeOK'
    BY <2>1, <2>2, <2>4 DEF Goto, TypeOK, PCs
  <2>7. ClientPc' /\ NotYetHeld'
    BY <2>1, <2>5 DEF ClientPc, NotYetHeld
  <2>8. LockBacked'
    <3> SUFFICES ASSUME NEW k \in Keys, lock'[k] # NoConn, Clean(k)'
                 PROVE  /\ count'[k] = 1
                        /\ \/ \E i \in Instances, n \in Names : Key[n] = k /\ conns'[i][n] = lock'[k]
                           \/ \E u \in Tasks :
                                /\ cli'[u] = lock'[k] /\ pc'[u] \in {"record", "unlock"}
                                /\ Key[want'[u]] = k
      BY DEF LockBacked
    <3>1. Clean(k)
      BY <2>4 DEF Clean
    <3>2. k # k0
      <4> SUFFICES ASSUME k = k0 PROVE FALSE
        OBVIOUS
      <4>1. UNCHANGED broken /\ Give(t)
        BY <2>4 DEF Clean
      <4>2. count[k0] = 1
        BY <2>3, <3>1 DEF LockBacked
      <4> QED BY <2>3, <4>1, <4>2 DEF Give, TypeOK
    <3>3. lock'[k] = lock[k] /\ count'[k] = count[k]
      BY <2>2, <3>2
    <3>4. ASSUME NEW u \in Tasks, cli[u] = lock[k], pc[u] \in {"record", "unlock"}, Key[want[u]] = k
          PROVE  cli'[u] = lock'[k] /\ pc'[u] \in {"record", "unlock"} /\ Key[want'[u]] = k
      BY <2>1, <2>5, <3>2, <3>3, <3>4
    <3> QED BY <2>1, <3>1, <3>3, <3>4 DEF LockBacked
  <2>9. ConnOwnsLock'
    BY <2>1, <2>2, <2>3, MutexAssumption DEF ConnOwnsLock, ClientApart
  <2>10. PcOwnsLock'
    BY <2>1, <2>2, <2>3, <2>5, MutexAssumption DEF PcOwnsLock, ClientDistinct, TypeOK
  <2>11. ClientDistinct' /\ ClientApart' /\ LockConnApart' /\ TxApart' /\ HasConn'
    BY <2>1 DEF ClientDistinct, ClientApart, LockConnApart, TxApart, HasConn
  <2> QED BY <2>2, <2>6, <2>7, <2>8, <2>9, <2>10, <2>11

<1>11. ASSUME NEW t \in Tasks, Drop(t) PROVE IInv'
  BY <1>11, ReleaseClientIInv DEF Drop

<1>12. ASSUME NEW t \in Tasks, Leave(t) PROVE IInv'
  <2> USE <1>12
  <2>2. TypeOK'
    BY DEF Leave, Goto, TypeOK, PCs
  <2>3. ClientPc'
    BY DEF Leave, Goto, ClientPc
  <2>4. LockBacked'
    BY LockBackedKept DEF Leave, Goto
  <2>5. PcOwnsLock'
    BY DEF Leave, Goto, PcOwnsLock
  <2>6. NotYetHeld'
    BY DEF Leave, Goto, NotYetHeld
  <2>7. /\ ClientDistinct' /\ ClientApart' /\ LockConnApart' /\ TxApart'
        /\ ConnOwnsLock' /\ HasConn' /\ CountOk'
    BY DEF Leave, ClientDistinct, ClientApart, LockConnApart,
       TxApart, ConnOwnsLock, HasConn, CountOk
  <2> QED BY <2>2, <2>3, <2>4, <2>5, <2>6, <2>7

<1>13. ASSUME NEW t \in Tasks, ReleaseAll(t) PROVE IInv'
  <2>1. CASE HeldBy(t) = {}
    <3>1. /\ pc[t] = "leave" /\ pc' = [pc EXCEPT ![t] = "next"]
          /\ UNCHANGED <<want, cli, todo, conns, has, ending, txc, lock, count, free, history>>
      BY <1>13, <2>1 DEF ReleaseAll, Goto
    <3>2. TypeOK' /\ ClientPc' /\ PcOwnsLock' /\ NotYetHeld'
      BY <3>1 DEF TypeOK, PCs, ClientPc, PcOwnsLock, NotYetHeld
    <3>3. LockBacked'
      BY <3>1, LockBackedKept DEF TypeOK
    <3> QED
      BY <3>1, <3>2, <3>3 DEF ClientDistinct, ClientApart, LockConnApart, TxApart,
         ConnOwnsLock, HasConn, CountOk
  <2>2. ASSUME NEW n \in HeldBy(t), StartRelease(t, n), todo' = [todo EXCEPT ![t] = HeldBy(t) \ {n}]
        PROVE  IInv'
    BY <1>13, StartReleaseIInv DEF ReleaseAll, TypeOK, HeldBy
  <2> QED BY <1>13, <2>1, <2>2 DEF ReleaseAll

<1>14. ASSUME NEW t \in Tasks, NEW n \in Names, ReleaseNext(t, n) PROVE IInv'
  BY <1>14, StartReleaseIInv DEF ReleaseNext, TypeOK

<1>15. ASSUME NEW t \in Tasks, Finish(t) PROVE IInv'
  <2> USE <1>15
  <2>2. TypeOK'
    BY DEF Finish, Goto, TypeOK, PCs
  <2>3. ClientPc'
    BY DEF Finish, Goto, ClientPc
  <2>4. ClientApart'
    BY DEF Finish, ClientApart
  <2>5. LockConnApart'
    BY DEF Finish, LockConnApart
  <2>6. TxApart'
    BY DEF Finish, TypeOK, TxApart
  <2>7. LockBacked'
    BY LockBackedKept DEF Finish, Goto
  <2>8. PcOwnsLock'
    BY DEF Finish, Goto, PcOwnsLock
  <2>9. NotYetHeld'
    BY DEF Finish, Goto, NotYetHeld
  <2>10. HasConn'
    BY DEF Finish, HasConn
  <2>11. ClientDistinct' /\ ConnOwnsLock' /\ CountOk'
    BY DEF Finish, ClientDistinct, ConnOwnsLock, CountOk
  <2> QED BY <2>2, <2>3, <2>4, <2>5, <2>6, <2>7, <2>8, <2>9, <2>10, <2>11

<1>16. ASSUME NEW t \in Tasks, ConnectFails(t) PROVE IInv'
  <2> USE <1>16
  <2>1. TypeOK'
    BY MutexAssumption DEF ConnectFails, Goto, Fault, TypeOK, PCs
  <2>2. ClientPc' /\ PcOwnsLock' /\ NotYetHeld'
    BY DEF ConnectFails, Goto, ClientPc, PcOwnsLock, NotYetHeld
  <2>3. LockBacked'
    BY LockBackedKept DEF ConnectFails, Goto
  <2>4. /\ ClientDistinct' /\ ClientApart' /\ LockConnApart' /\ TxApart'
        /\ ConnOwnsLock' /\ HasConn' /\ CountOk'
    BY DEF ConnectFails, ClientDistinct, ClientApart, LockConnApart,
       TxApart, ConnOwnsLock, HasConn, CountOk
  <2> QED BY <2>1, <2>2, <2>3, <2>4

<1>17. ASSUME NEW t \in Tasks, Grant(t) PROVE IInv'
  BY <1>5, <1>17 DEF Grant, TypeOK

<1>18. ASSUME NEW t \in Tasks, LockFails(t) PROVE IInv'
  <2>1. faults' \in 0..MaxFaults
    BY <1>18, MutexAssumption DEF LockFails, Fault, TypeOK
  <2>2. CASE Grantable(t) /\ Take(t)
    BY <1>5, <1>18, <2>1, <2>2 DEF LockFails
  <2>3. CASE UNCHANGED server
    <3> USE <1>18, <2>3
    <3>1. TypeOK'
      BY <2>1 DEF LockFails, Goto, TypeOK, PCs
    <3>2. ClientPc' /\ PcOwnsLock' /\ NotYetHeld'
      BY DEF LockFails, Goto, ClientPc, PcOwnsLock, NotYetHeld
    <3>3. LockBacked'
      BY LockBackedKept DEF LockFails, Goto
    <3>4. /\ ClientDistinct' /\ ClientApart' /\ LockConnApart' /\ TxApart'
          /\ ConnOwnsLock' /\ HasConn' /\ CountOk'
      BY DEF LockFails, ClientDistinct, ClientApart, LockConnApart,
         TxApart, ConnOwnsLock, HasConn, CountOk
    <3> QED BY <3>1, <3>2, <3>3, <3>4
  <2> QED BY <1>18, <2>2, <2>3 DEF LockFails

<1>19. CASE UNCHANGED vars
  BY <1>19 DEF vars, TypeOK, ClientPc, ClientDistinct, ClientApart, LockConnApart,
     TxApart, LockBacked, Clean, ConnOwnsLock, PcOwnsLock, NotYetHeld, HasConn, CountOk
<1> QED
  BY <1>1, <1>2, <1>3, <1>4, <1>6, <1>7, <1>8, <1>9, <1>10, <1>11, <1>12, <1>13,
     <1>14, <1>15, <1>16, <1>17, <1>18, <1>19 DEF Next, Step, Choice, Fails

LEMMA IInvHolds == ASSUME InstancesApart PROVE Spec => []IInv
<1>1. Init => IInv
  BY InitIInv
<1>2. IInv /\ [Next]_vars => IInv'
  BY NextIInv
<1> QED
  BY <1>1, <1>2, PTL DEF Spec

(* Names are held by one task each.                                        *)
OneHolder == \A n \in Names : \A t, u \in Tasks : n \in has[t] /\ n \in has[u] => t = u

LEMMA HeldByOne == ASSUME InstancesApart, IInv PROVE OneHolder
<1> SUFFICES ASSUME NEW t \in Tasks, NEW u \in Tasks,
                    NEW n \in has[t], n \in has[u]
             PROVE  InstOf[t] = InstOf[u]
  BY DEF InstancesApart, OneHolder
<1> USE DEF IInv
<1>1. n \in Names /\ InstOf[t] \in Instances /\ InstOf[u] \in Instances
  BY MutexAssumption DEF TypeOK
<1>2. conns[InstOf[t]][n] # NoConn /\ conns[InstOf[u]][n] # NoConn
  BY DEF HasConn
<1>3. conns[InstOf[t]][n] = conns[InstOf[u]][n]
  BY <1>1, <1>2 DEF ConnOwnsLock
<1> QED BY <1>1, <1>2, <1>3 DEF LockConnApart

-----------------------------------------------------------------------------
(* The state of the mutex, the pool and the server stays well-formed.      *)
THEOREM AdvisoryTypeCorrect == ASSUME InstancesApart PROVE Spec => []TypeOK
BY IInvHolds, PTL DEF IInv

(* Two runs never hold the same name at once: both instances would have    *)
(* the connection whose session owns the advisory lock, and a connection   *)
(* is in one place.                                                        *)
THEOREM AdvisoryMutualExclusion == ASSUME InstancesApart PROVE Spec => []MutualExclusion
<1>1. IInv => MutualExclusion
  BY HeldByOne DEF OneHolder, MutualExclusion, IInv, TypeOK
<1> QED BY <1>1, IInvHolds, PTL

(* What a run believes to hold, its session holds.                         *)
THEOREM AdvisoryHeldIsLocked == ASSUME InstancesApart PROVE Spec => []HeldIsLocked
<1>1. IInv => HeldIsLocked
  BY MutexAssumption DEF IInv, HeldIsLocked, HasConn, ConnOwnsLock, TypeOK, Inst
<1> QED BY <1>1, IInvHolds, PTL

(* An idle connection of the pool owns an advisory lock only after a lock  *)
(* or unlock query about its key has failed and acquire() or release()     *)
(* threw: the key of a lock that stays behind is not Clean.                *)
THEOREM AdvisoryIdleOwnsReported == ASSUME InstancesApart PROVE Spec => []IdleOwnsReported
<1>1. ASSUME IInv, NEW k \in Keys, lock[k] \in free, Clean(k) PROVE FALSE
  <2>1. lock[k] # NoConn
    BY <1>1, MutexAssumption DEF IInv, TypeOK
  <2>2. CASE \E i \in Instances, n \in Names : Key[n] = k /\ conns[i][n] = lock[k]
    BY <1>1, <2>1, <2>2 DEF IInv, LockConnApart
  <2>3. CASE \E t \in Tasks : cli[t] = lock[k]
    BY <1>1, <2>1, <2>3 DEF IInv, ClientApart
  <2> QED BY <1>1, <2>1, <2>2, <2>3 DEF IInv, LockBacked
<1>2. IInv => IdleOwnsReported
  BY <1>1 DEF IdleOwnsReported, Clean
<1> QED BY <1>2, IInvHolds, PTL

-----------------------------------------------------------------------------
(* No connection leaks: each one is idle, in a call, in a transaction or   *)
(* the connection of a held lock.                                          *)
NoLeak ==
  \A c \in Conns :
    \/ c \in free
    \/ \E t \in Tasks : cli[t] = c \/ txc[t] = c
    \/ \E i \in Instances, n \in Names : conns[i][n] = c

TxPc == \A t \in Tasks : pc[t] = "new" => txc[t] = NoConn

(* What an instance has its task believes to hold; and what releaseAll()   *)
(* has still to release is in its list.                                    *)
HasIffConn ==
  \A t \in Tasks : \A n \in Names : conns[InstOf[t]][n] # NoConn => n \in has[t]

EndingPc ==
  \A t \in Tasks :
    /\ pc[t] \in {"new", "run", "getclient", "lock", "record", "cleanup"} => ~ending[t]
    /\ pc[t] \in {"leave", "next", "done"} => ending[t]
    /\ ending[t] /\ pc[t] # "leave" => has[t] \subseteq todo[t]

ConnInv == IInv /\ NoLeak /\ TxPc /\ HasIffConn /\ EndingPc

(* release() moves the connection of a held lock to the variable of the    *)
(* call, and the name out of what the task believes to hold.               *)
LEMMA StartReleaseConns ==
  ASSUME InstancesApart, IInv, NoLeak, HasIffConn, NEW t \in Tasks, NEW n \in Names,
         StartRelease(t, n), pc[t] \in {"run", "leave", "next"},
         UNCHANGED <<ending, txc, free>>
  PROVE  /\ NoLeak' /\ HasIffConn'
         /\ \A u \in Tasks : u # t => pc'[u] = pc[u] /\ has'[u] = has[u]
         /\ has'[t] = has[t] \ {n}
         /\ \/ pc'[t] = pc[t] /\ Inst(t)[n] = NoConn
            \/ pc'[t] = "unlock"
<1> USE DEF IInv
<1>1. CASE Inst(t)[n] = NoConn
  <2>1. UNCHANGED <<pc, want, cli, conns>> /\ has' = [has EXCEPT ![t] = @ \ {n}]
    BY <1>1 DEF StartRelease
  <2>2. \A u \in Tasks : has'[u] = IF u = t THEN has[t] \ {n} ELSE has[u]
    BY <2>1 DEF TypeOK
  <2>3. NoLeak'
    BY <2>1 DEF NoLeak
  <2>4. HasIffConn'
    BY <1>1, <2>1, <2>2 DEF HasIffConn, Inst
  <2> QED BY <1>1, <2>1, <2>2, <2>3, <2>4
<1>2. CASE Inst(t)[n] # NoConn
  <2> DEFINE i0 == InstOf[t]
             c0 == conns[i0][n]
  <2>1. i0 \in Instances /\ c0 \in Conns /\ c0 # NoConn
    BY <1>2, MutexAssumption DEF TypeOK, Inst
  <2>2. /\ pc' = [pc EXCEPT ![t] = "unlock"]
        /\ cli' = [cli EXCEPT ![t] = c0]
        /\ conns' = [conns EXCEPT ![i0][n] = NoConn]
        /\ has' = [has EXCEPT ![t] = @ \ {n}]
    BY <1>2 DEF StartRelease, Inst, Goto
  <2>3. \A i \in Instances, m \in Names :
          conns'[i][m] = IF i = i0 /\ m = n THEN NoConn ELSE conns[i][m]
    BY <2>1, <2>2 DEF TypeOK
  <2>4. \A u \in Tasks :
          /\ pc'[u] = IF u = t THEN "unlock" ELSE pc[u]
          /\ cli'[u] = IF u = t THEN c0 ELSE cli[u]
          /\ has'[u] = IF u = t THEN has[t] \ {n} ELSE has[u]
    BY <2>2 DEF TypeOK
  <2>5. cli[t] = NoConn
    BY DEF ClientPc
  <2>6. \A u \in Tasks : InstOf[u] \in Instances /\ (InstOf[u] = i0 => u = t)
    BY MutexAssumption DEF InstancesApart
  <2> HIDE DEF i0
  <2>7. NoLeak'
    <3> SUFFICES ASSUME NEW c \in Conns
                 PROVE  \/ c \in free'
                        \/ \E u \in Tasks : cli'[u] = c \/ txc'[u] = c
                        \/ \E i \in Instances, m \in Names : conns'[i][m] = c
      BY DEF NoLeak
    <3>1. CASE c \in free \/ \E u \in Tasks : txc[u] = c
      BY <3>1
    <3>2. CASE \E u \in Tasks : cli[u] = c
      <4>1. PICK u \in Tasks : cli[u] = c
        BY <3>2
      <4>2. u # t
        BY <4>1, <2>5, MutexAssumption
      <4> QED BY <4>1, <4>2, <2>4
    <3>3. CASE \E i \in Instances, m \in Names : conns[i][m] = c
      <4>1. PICK i \in Instances, m \in Names : conns[i][m] = c
        BY <3>3
      <4>2. CASE i = i0 /\ m = n
        BY <4>1, <4>2, <2>4
      <4>3. CASE ~(i = i0 /\ m = n)
        BY <4>1, <4>3, <2>3
      <4> QED BY <4>2, <4>3
    <3> QED BY <3>1, <3>2, <3>3 DEF NoLeak
  <2>8. HasIffConn'
    <3> SUFFICES ASSUME NEW u \in Tasks, NEW m \in Names, conns'[InstOf[u]][m] # NoConn
                 PROVE  m \in has'[u]
      BY DEF HasIffConn
    <3>1. ~(InstOf[u] = i0 /\ m = n) /\ conns[InstOf[u]][m] # NoConn
      BY <2>3, <2>6
    <3>2. m \in has[u]
      BY <3>1 DEF HasIffConn
    <3> QED BY <3>1, <3>2, <2>4 DEF i0
  <2> QED BY <2>4, <2>7, <2>8
<1> QED BY <1>1, <1>2

(* No step loses a connection, and a task's names and its instance's       *)
(* connections stay in step.                                               *)
LEMMA NextConns ==
  ASSUME InstancesApart, IInv, NoLeak, TxPc, HasIffConn, EndingPc,
         [Next]_vars
  PROVE  NoLeak' /\ HasIffConn'
<1> USE DEF IInv
<1>1. ASSUME NEW t \in Tasks, Begin(t) PROVE NoLeak' /\ HasIffConn'
  <2>1. UNCHANGED <<cli, conns, has>>
    BY <1>1 DEF Begin
  <2>2. HasIffConn'
    BY <2>1 DEF HasIffConn
  <2>3. NoLeak'
    <3>1. CASE UNCHANGED <<txc, free>>
      BY <2>1, <3>1 DEF NoLeak
    <3>2. ASSUME NEW c \in free, txc' = [txc EXCEPT ![t] = c], free' = free \ {c}
          PROVE  NoLeak'
      <4>1. txc[t] = NoConn
        BY <1>1 DEF Begin, TxPc
      <4>2. \A u \in Tasks : txc'[u] = IF u = t THEN c ELSE txc[u]
        BY <3>2 DEF TypeOK
      <4> QED BY <2>1, <3>2, <4>1, <4>2, MutexAssumption DEF NoLeak
    <3> QED BY <1>1, <3>1, <3>2 DEF Begin
  <2> QED BY <2>2, <2>3
<1>2. ASSUME NEW t \in Tasks, NEW n \in Names, Reacquire(t, n) PROVE NoLeak' /\ HasIffConn'
  <2>1. UNCHANGED <<cli, conns, txc, free>> /\ has' = [has EXCEPT ![t] = @ \union {n}]
    BY <1>2 DEF Reacquire
  <2>2. \A u \in Tasks : has[u] \subseteq has'[u]
    BY <2>1 DEF TypeOK
  <2> QED BY <2>1, <2>2 DEF NoLeak, HasIffConn
<1>3. ASSUME NEW t \in Tasks, GetClient(t) PROVE NoLeak' /\ HasIffConn'
  <2>1. PICK c \in free : cli' = [cli EXCEPT ![t] = c] /\ free' = free \ {c}
    BY <1>3 DEF GetClient
  <2>2. UNCHANGED <<txc, conns, has>> /\ cli[t] = NoConn
    BY <1>3 DEF GetClient, ClientPc
  <2>3. \A u \in Tasks : cli'[u] = IF u = t THEN c ELSE cli[u]
    BY <2>1 DEF TypeOK
  <2>4. NoLeak'
    BY <2>1, <2>2, <2>3, MutexAssumption DEF NoLeak
  <2> QED BY <2>2, <2>4 DEF HasIffConn
<1>4. ASSUME NEW t \in Tasks, Record(t) PROVE NoLeak' /\ HasIffConn'
  <2>1. InstOf[t] \in Instances /\ want[t] \in Names
    BY MutexAssumption DEF TypeOK
  <2>2. /\ UNCHANGED <<txc, free>>
        /\ conns[InstOf[t]][want[t]] = NoConn
    BY <1>4 DEF Record, NotYetHeld
  <2>3. \A i \in Instances, n \in Names :
          conns'[i][n] = IF i = InstOf[t] /\ n = want[t] THEN cli[t] ELSE conns[i][n]
    BY <1>4, <2>1 DEF Record, TypeOK
  <2>4. \A u \in Tasks :
          /\ cli'[u] = IF u = t THEN NoConn ELSE cli[u]
          /\ has'[u] = IF u = t THEN has[t] \union {want[t]} ELSE has[u]
    BY <1>4 DEF Record, TypeOK
  <2>5. NoLeak'
    <3> SUFFICES ASSUME NEW c \in Conns
                 PROVE  \/ c \in free'
                        \/ \E u \in Tasks : cli'[u] = c \/ txc'[u] = c
                        \/ \E i \in Instances, m \in Names : conns'[i][m] = c
      BY DEF NoLeak
    <3>1. CASE c \in free \/ \E u \in Tasks : txc[u] = c
      BY <3>1, <2>2
    <3>2. CASE \E u \in Tasks : cli[u] = c
      BY <3>2, <2>1, <2>3, <2>4
    <3>3. CASE \E i \in Instances, m \in Names : conns[i][m] = c
      BY <3>3, <2>2, <2>3, MutexAssumption
    <3> QED BY <3>1, <3>2, <3>3 DEF NoLeak
  <2>6. \A u \in Tasks : InstOf[u] \in Instances /\ (InstOf[u] = InstOf[t] => u = t)
    BY MutexAssumption DEF InstancesApart
  <2>7. HasIffConn'
    BY <2>3, <2>4, <2>6 DEF HasIffConn
  <2> QED BY <2>5, <2>7
<1>5. ASSUME NEW t \in Tasks, Cleanup(t) \/ Drop(t) PROVE NoLeak' /\ HasIffConn'
  <2>1. /\ UNCHANGED <<txc, conns, has>>
        /\ free' = free \union {cli[t]} /\ cli' = [cli EXCEPT ![t] = NoConn]
    BY <1>5 DEF Cleanup, Drop, ReleaseClient
  <2>2. \A u \in Tasks : cli'[u] = IF u = t THEN NoConn ELSE cli[u]
    BY <2>1 DEF TypeOK
  <2>3. NoLeak'
    BY <2>1, <2>2 DEF NoLeak
  <2> QED BY <2>1, <2>3 DEF HasIffConn
<1>6. ASSUME NEW t \in Tasks, Finish(t) PROVE NoLeak' /\ HasIffConn'
  <2>1. /\ UNCHANGED <<cli, conns>> /\ has[t] = {}
        /\ has' = [has EXCEPT ![t] = {}]
        /\ free' = IF txc[t] = NoConn THEN free ELSE free \union {txc[t]}
        /\ txc' = [txc EXCEPT ![t] = NoConn]
    BY <1>6 DEF Finish, EndingPc
  <2>2. \A u \in Tasks : /\ has'[u] = has[u]
                         /\ txc'[u] = IF u = t THEN NoConn ELSE txc[u]
    BY <2>1 DEF TypeOK
  <2>3. NoLeak'
    BY <2>1, <2>2, MutexAssumption DEF NoLeak
  <2> QED BY <2>1, <2>2, <2>3 DEF HasIffConn
<1>7. ASSUME NEW t \in Tasks, NEW n \in Names, ReleaseStep(t, n) \/ ReleaseNext(t, n)
      PROVE  NoLeak' /\ HasIffConn'
  BY <1>7, StartReleaseConns DEF ReleaseStep, ReleaseNext
<1>8. ASSUME NEW t \in Tasks, ReleaseAll(t) PROVE NoLeak' /\ HasIffConn'
  <2>1. CASE HeldBy(t) = {}
    <3>1. UNCHANGED <<cli, txc, conns, has, free>>
      BY <1>8, <2>1 DEF ReleaseAll
    <3> QED BY <3>1 DEF NoLeak, HasIffConn
  <2>2. CASE \E n \in HeldBy(t) : StartRelease(t, n)
    BY <1>8, <2>2, StartReleaseConns DEF ReleaseAll, HeldBy
  <2> QED BY <1>8, <2>1, <2>2 DEF ReleaseAll
<1>9. ASSUME NEW t \in Tasks,
             \/ Grant(t) \/ LockTimeout(t) \/ Unlock(t) \/ Leave(t) \/ Fails(t)
             \/ \E n \in Names : Acquire(t, n)
      PROVE  NoLeak' /\ HasIffConn'
  <2>1. UNCHANGED <<cli, txc, conns, has, free>>
    BY <1>9 DEF Grant, LockTimeout, Unlock, Leave, Acquire, Fails, ConnectFails, LockFails,
       UnlockFails
  <2> QED BY <2>1 DEF NoLeak, HasIffConn
<1>10. CASE UNCHANGED vars
  BY <1>10 DEF vars, NoLeak, HasIffConn
<1> QED
  BY <1>1, <1>2, <1>3, <1>4, <1>5, <1>6, <1>7, <1>8, <1>9, <1>10 DEF Next, Step, Choice

(* Where a task is in releaseAll(), and what it has still to release.      *)
LEMMA NextEnding ==
  ASSUME InstancesApart, IInv, NoLeak, TxPc, HasIffConn, EndingPc, [Next]_vars
  PROVE  TxPc' /\ EndingPc'
<1> USE DEF IInv
<1>1. ASSUME NEW t \in Tasks,
             UNCHANGED <<ending, todo, txc>>,
             \A u \in Tasks \ {t} : pc'[u] = pc[u] /\ has'[u] = has[u],
             \/ /\ pc[t] \in {"run", "getclient", "lock", "record"}
                /\ pc'[t] \in {"run", "getclient", "lock", "record", "cleanup", "unlock"}
             \/ /\ pc[t] = "cleanup" /\ pc'[t] = "run"
             \/ /\ pc[t] \in {"unlock", "drop"} /\ has'[t] = has[t]
                /\ pc'[t] \in {"drop", IF ending[t] THEN "next" ELSE "run"}
      PROVE  TxPc' /\ EndingPc'
  BY <1>1 DEF TxPc, EndingPc
<1>2. ASSUME NEW t \in Tasks,
             \/ GetClient(t) \/ Grant(t) \/ LockTimeout(t) \/ Record(t) \/ Cleanup(t)
             \/ Unlock(t) \/ Drop(t) \/ Fails(t)
             \/ \E n \in Names : Acquire(t, n) \/ Reacquire(t, n)
      PROVE  TxPc' /\ EndingPc'
  <2>1. UNCHANGED <<ending, todo, txc>>
    BY <1>2 DEF GetClient, Grant, LockTimeout, Record, Cleanup, Unlock, Drop, Acquire,
       Reacquire, Fails, ConnectFails, LockFails, UnlockFails
  <2>2. \A u \in Tasks \ {t} : pc'[u] = pc[u] /\ has'[u] = has[u]
    BY <1>2 DEF GetClient, Grant, LockTimeout, Record, Cleanup, Unlock, Drop, Acquire,
       Reacquire, Fails, ConnectFails, LockFails, UnlockFails, Goto, TypeOK
  <2>3. \/ /\ pc[t] \in {"run", "getclient", "lock", "record"}
           /\ pc'[t] \in {"run", "getclient", "lock", "record", "cleanup", "unlock"}
        \/ /\ pc[t] = "cleanup" /\ pc'[t] = "run"
        \/ /\ pc[t] \in {"unlock", "drop"} /\ has'[t] = has[t]
           /\ pc'[t] \in {"drop", IF ending[t] THEN "next" ELSE "run"}
    BY <1>2 DEF GetClient, Grant, LockTimeout, Record, Cleanup, Unlock, Drop, Acquire,
       Reacquire, Fails, ConnectFails, LockFails, UnlockFails, Goto, TypeOK
  <2> QED BY <1>1, <2>1, <2>2, <2>3
<1>3. ASSUME NEW t \in Tasks, Begin(t) PROVE TxPc' /\ EndingPc'
  <2>1. /\ UNCHANGED <<ending, todo, has>>
        /\ pc[t] = "new" /\ \A u \in Tasks : pc'[u] = IF u = t THEN "run" ELSE pc[u]
        /\ \A u \in Tasks \ {t} : txc'[u] = txc[u]
    BY <1>3 DEF Begin, Goto, TypeOK
  <2> QED BY <2>1 DEF TxPc, EndingPc
<1>4. ASSUME NEW t \in Tasks, Leave(t) PROVE TxPc' /\ EndingPc'
  <2>1. /\ UNCHANGED <<todo, txc, has>>
        /\ \A u \in Tasks : /\ pc'[u] = IF u = t THEN "leave" ELSE pc[u]
                            /\ ending'[u] = IF u = t THEN TRUE ELSE ending[u]
    BY <1>4 DEF Leave, Goto, TypeOK
  <2> QED BY <2>1 DEF TxPc, EndingPc
<1>5. ASSUME NEW t \in Tasks, NEW n \in Names, ReleaseStep(t, n) PROVE TxPc' /\ EndingPc'
  <2>1. UNCHANGED <<ending, todo, txc>> /\ pc[t] = "run"
    BY <1>5 DEF ReleaseStep
  <2>2. pc'[t] \in {"run", "unlock"} /\ \A u \in Tasks \ {t} : pc'[u] = pc[u] /\ has'[u] = has[u]
    BY <1>5, StartReleaseConns DEF ReleaseStep
  <2> QED BY <1>1, <2>1, <2>2
<1>6. ASSUME NEW t \in Tasks, ReleaseAll(t) PROVE TxPc' /\ EndingPc'
  <2>1. CASE HeldBy(t) = {}
    <3>1. /\ UNCHANGED <<ending, todo, txc, has>>
          /\ pc[t] = "leave" /\ \A u \in Tasks : pc'[u] = IF u = t THEN "next" ELSE pc[u]
      BY <1>6, <2>1 DEF ReleaseAll, Goto, TypeOK
    <3>2. has[t] = {}
      BY <2>1 DEF HeldBy, HasConn, TypeOK, Inst
    <3> QED BY <3>1, <3>2 DEF TxPc, EndingPc
  <2>2. ASSUME NEW n \in HeldBy(t), StartRelease(t, n),
               todo' = [todo EXCEPT ![t] = HeldBy(t) \ {n}]
        PROVE  TxPc' /\ EndingPc'
    <3>1. UNCHANGED <<ending, txc>> /\ pc[t] = "leave" /\ n \in Names /\ Inst(t)[n] # NoConn
      BY <1>6, <2>2 DEF ReleaseAll, HeldBy
    <3>2. /\ pc'[t] = "unlock" /\ has'[t] = has[t] \ {n}
          /\ \A u \in Tasks \ {t} : pc'[u] = pc[u] /\ has'[u] = has[u]
      BY <1>6, <2>2, <3>1, StartReleaseConns DEF ReleaseAll
    <3>3. \A u \in Tasks : todo'[u] = IF u = t THEN HeldBy(t) \ {n} ELSE todo[u]
      BY <2>2 DEF TypeOK
    <3>4. has[t] \subseteq HeldBy(t)
      BY DEF HeldBy, HasConn, TypeOK, Inst
    <3> QED BY <3>1, <3>2, <3>3, <3>4 DEF TxPc, EndingPc
  <2> QED BY <1>6, <2>1, <2>2 DEF ReleaseAll
<1>7. ASSUME NEW t \in Tasks, NEW n \in Names, ReleaseNext(t, n) PROVE TxPc' /\ EndingPc'
  <2>1. /\ UNCHANGED <<ending, txc>> /\ pc[t] = "next"
        /\ \A u \in Tasks : todo'[u] = IF u = t THEN todo[t] \ {n} ELSE todo[u]
    BY <1>7 DEF ReleaseNext, TypeOK
  <2>2. /\ pc'[t] \in {"next", "unlock"} /\ has'[t] = has[t] \ {n}
        /\ \A u \in Tasks \ {t} : pc'[u] = pc[u] /\ has'[u] = has[u]
    BY <1>7, StartReleaseConns DEF ReleaseNext
  <2> QED BY <2>1, <2>2 DEF TxPc, EndingPc
<1>8. ASSUME NEW t \in Tasks, Finish(t) PROVE TxPc' /\ EndingPc'
  <2>1. /\ UNCHANGED <<ending, todo>> /\ pc[t] = "next"
        /\ \A u \in Tasks : /\ pc'[u] = IF u = t THEN "done" ELSE pc[u]
                            /\ has'[u] = IF u = t THEN {} ELSE has[u]
                            /\ txc'[u] = IF u = t THEN NoConn ELSE txc[u]
    BY <1>8 DEF Finish, Goto, TypeOK
  <2> QED BY <2>1 DEF TxPc, EndingPc
<1>9. CASE UNCHANGED vars
  BY <1>9 DEF vars, TxPc, EndingPc
<1> QED
  BY <1>2, <1>3, <1>4, <1>5, <1>6, <1>7, <1>8, <1>9 DEF Next, Step, Choice

LEMMA ConnInvHolds == ASSUME InstancesApart PROVE Spec => []ConnInv
<1>1. Init => ConnInv
  BY InitIInv, MutexAssumption
  DEF Init, ConnInv, NoLeak, TxPc, HasIffConn, EndingPc
<1>2. ConnInv /\ IInv' /\ [Next]_vars => ConnInv'
  BY NextConns, NextEnding DEF ConnInv
<1> QED
  BY <1>1, <1>2, IInvHolds, PTL DEF Spec

(* No connection leaks and none is in two places, whatever is acquired     *)
(* twice, times out or is released: a connection that a task gave back     *)
(* is idle, and one that is idle is nobody's.                              *)
THEOREM AdvisoryConnInOnePlace == ASSUME InstancesApart PROVE Spec => []ConnInOnePlace
<1>1. ASSUME ConnInv, NEW c \in Conns PROVE \E p : Places(c) = {p}
  <2> USE <1>1 DEF ConnInv, IInv
  <2>1. c # NoConn
    BY MutexAssumption
  <2>2. CASE c \in free
    <3>1. /\ \A t \in Tasks : cli[t] # c /\ txc[t] # c
          /\ \A i \in Instances, n \in Names : conns[i][n] # c
      BY <2>1, <2>2 DEF ClientApart, LockConnApart, TxApart
    <3> QED BY <2>2, <3>1 DEF Places
  <2>3. ASSUME NEW t \in Tasks, cli[t] = c PROVE \E p : Places(c) = {p}
    <3>1. /\ c \notin free
          /\ \A u \in Tasks : (cli[u] = c <=> u = t) /\ txc[u] # c
          /\ \A i \in Instances, n \in Names : conns[i][n] # c
      BY <2>1, <2>3 DEF ClientApart, ClientDistinct
    <3>2. Places(c) = {<<"client", t>>}
      BY <3>1 DEF Places
    <3> QED BY <3>2
  <2>4. ASSUME NEW t \in Tasks, txc[t] = c PROVE \E p : Places(c) = {p}
    <3>1. /\ c \notin free
          /\ \A u \in Tasks : (txc[u] = c <=> u = t) /\ cli[u] # c
          /\ \A i \in Instances, n \in Names : conns[i][n] # c
      BY <2>1, <2>4 DEF ClientApart, LockConnApart, TxApart
    <3>2. Places(c) = {<<"tx", t>>}
      BY <3>1 DEF Places
    <3> QED BY <3>2
  <2>5. ASSUME NEW i \in Instances, NEW n \in Names, conns[i][n] = c
        PROVE  \E p : Places(c) = {p}
    <3>1. /\ c \notin free
          /\ \A u \in Tasks : txc[u] # c /\ cli[u] # c
          /\ \A j \in Instances, m \in Names : conns[j][m] = c <=> j = i /\ m = n
      BY <2>1, <2>5 DEF ClientApart, LockConnApart
    <3>2. {q \in Instances \X Names : conns[q[1]][q[2]] = c} = {<<i, n>>}
      BY <3>1
    <3>3. Places(c) = {<<"lock", <<i, n>> >>}
      BY <3>1, <3>2 DEF Places
    <3> QED BY <3>3
  <2> QED BY <2>2, <2>3, <2>4, <2>5 DEF NoLeak
<1>2. ConnInv => ConnInOnePlace
  BY <1>1, FS_Singleton DEF ConnInOnePlace
<1> QED BY <1>2, ConnInvHolds, PTL

-----------------------------------------------------------------------------
(* The owner of a name, by what the tasks hold.                            *)
LEMMA OwnerIs ==
  ASSUME OneHolder, NEW n \in Names
  PROVE  /\ \A t \in Tasks : n \in has[t] => Owner(n) = t
         /\ (\A t \in Tasks : n \notin has[t]) => Owner(n) = NoTask
BY DEF Owner, OneHolder

LEMMA OwnerIsNext ==
  ASSUME OneHolder', NEW n \in Names
  PROVE  /\ \A t \in Tasks : n \in has'[t] => Owner(n)' = t
         /\ (\A t \in Tasks : n \notin has'[t]) => Owner(n)' = NoTask
BY DEF Owner, OneHolder

(* The end of an acquire() or the beginning of a release() that changes    *)
(* what the task holds is that step of the named lock.                     *)
LEMMA HolderStep ==
  ASSUME OneHolder, OneHolder', NEW t \in Tasks, NEW n \in Names,
         has \in [Tasks -> SUBSET Names], has' \in [Tasks -> SUBSET Names],
         \A u \in Tasks \ {t} : has'[u] = has[u],
         has'[t] \in {has[t] \union {n}, has[t] \ {n}}
  PROVE  [Abstract!Next]_([m \in Names |-> Owner(m)])
<1>1. \A m \in Names \ {n} : Owner(m)' = Owner(m)
  <2> SUFFICES ASSUME NEW m \in Names \ {n} PROVE Owner(m)' = Owner(m)
    OBVIOUS
  <2>1. \A u \in Tasks : m \in has'[u] <=> m \in has[u]
    OBVIOUS
  <2> QED BY <2>1, OwnerIs, OwnerIsNext
<1>2. CASE n \in has[t] /\ n \notin has'[t]
  <2>1. Owner(n) = t
    BY <1>2, OwnerIs
  <2>2. \A u \in Tasks : n \notin has'[u]
    BY <1>2 DEF OneHolder
  <2>3. Owner(n)' = NoTask
    BY <2>2, OwnerIsNext
  <2>4. Abstract!Release(t, n)
    BY <1>1, <2>1, <2>3 DEF Abstract!Release
  <2> QED BY <2>4 DEF Abstract!Next
<1>3. CASE n \notin has[t] /\ n \in has'[t]
  <2>1. Owner(n)' = t
    BY <1>3, OwnerIsNext
  <2>2. \A u \in Tasks : n \notin has[u]
    BY <1>3 DEF OneHolder
  <2>3. Owner(n) = NoTask
    BY <2>2, OwnerIs
  <2>4. Abstract!Acquire(t, n)
    BY <1>1, <2>1, <2>3 DEF Abstract!Acquire
  <2> QED BY <2>4 DEF Abstract!Next
<1>4. CASE n \in has[t] <=> n \in has'[t]
  <2>1. \A u \in Tasks : n \in has'[u] <=> n \in has[u]
    BY <1>4
  <2>2. Owner(n)' = Owner(n)
    BY <2>1, OwnerIs, OwnerIsNext
  <2> QED BY <1>1, <2>2
<1> QED BY <1>2, <1>3, <1>4

(* A step that leaves what is held alone is a stutter of the named lock.   *)
LEMMA HolderStutters ==
  ASSUME UNCHANGED has PROVE [Abstract!Next]_([m \in Names |-> Owner(m)])
BY DEF Owner

(* Every step of the implementation is a step or a stutter of NamedLock:   *)
(* the owner changes when acquire() records the connection and when        *)
(* release() takes it out of the map, and never otherwise.                 *)
THEOREM AdvisoryImplementsNamedLock ==
  ASSUME InstancesApart PROVE Spec => ImplementsNamedLock
<1>1. Init => Abstract!Init
  BY MutexAssumption DEF Init, Owner, Abstract!Init
<1>2. ConnInv /\ ConnInv' /\ [Next]_vars => [Abstract!Next]_([n \in Names |-> Owner(n)])
  <2> SUFFICES ASSUME ConnInv, ConnInv', [Next]_vars
               PROVE  [Abstract!Next]_([n \in Names |-> Owner(n)])
    OBVIOUS
  <2>1. OneHolder /\ has \in [Tasks -> SUBSET Names] /\ want \in [Tasks -> Names]
    BY HeldByOne DEF ConnInv, IInv, TypeOK
  <2>2. has' \in [Tasks -> SUBSET Names]
    BY DEF ConnInv, IInv, TypeOK
  <2>3. OneHolder'
    BY HeldByOne, PTL DEF ConnInv
  <2>4. ASSUME NEW t \in Tasks, NEW n \in Names,
               has' = [has EXCEPT ![t] = @ \union {n}] \/ has' = [has EXCEPT ![t] = @ \ {n}]
        PROVE  [Abstract!Next]_([m \in Names |-> Owner(m)])
    BY <2>1, <2>2, <2>3, <2>4, HolderStep
  <2>5. ASSUME NEW t \in Tasks, Finish(t) PROVE UNCHANGED has
    BY <2>1, <2>5 DEF Finish, ConnInv, EndingPc
  <2>6. ASSUME NEW t \in Tasks,
               \/ Begin(t) \/ GetClient(t) \/ Grant(t) \/ LockTimeout(t) \/ Cleanup(t)
               \/ Unlock(t) \/ Drop(t) \/ Leave(t) \/ Fails(t)
               \/ \E n \in Names : Acquire(t, n)
        PROVE  UNCHANGED has
    BY <2>6 DEF Begin, GetClient, Grant, LockTimeout, Cleanup, Unlock, Drop, Leave, Acquire,
       Fails, ConnectFails, LockFails, UnlockFails
  <2>7. ASSUME NEW t \in Tasks,
               \/ Record(t) \/ ReleaseAll(t)
               \/ \E n \in Names : Reacquire(t, n) \/ ReleaseStep(t, n) \/ ReleaseNext(t, n)
        PROVE  \/ UNCHANGED has
               \/ \E n \in Names : \/ has' = [has EXCEPT ![t] = @ \union {n}]
                                   \/ has' = [has EXCEPT ![t] = @ \ {n}]
    BY <2>1, <2>7 DEF Record, ReleaseAll, StartRelease, Reacquire, ReleaseStep, ReleaseNext, HeldBy
  <2>8. CASE UNCHANGED vars
    BY <2>8, HolderStutters DEF vars
  <2> QED
    BY <2>4, <2>5, <2>6, <2>7, <2>8, HolderStutters DEF Next, Step, Choice
<1> QED
  BY <1>1, <1>2, ConnInvHolds, PTL DEF Spec, Abstract!Spec, ImplementsNamedLock
=============================================================================
