--------------------------- MODULE AdvisoryMutex ---------------------------
(***************************************************************************)
(* MultiNodeMutex on PostgreSQL (multi_node_mutex.ts) together with the    *)
(* two things it leans on: the connection pool of packages/postgres and    *)
(* the session-level advisory locks of the database server.                *)
(*                                                                         *)
(* A task is one call of WorkflowRun.run(): steps that acquire and release *)
(* named locks on the run's own MultiNodeMutex instance, and releaseAll()  *)
(* in the end.  Every lock is held by a pooled connection of its own, next *)
(* to the connection of the transaction the task may run in.  A run paused *)
(* by WaitNextTick with immediately_bg goes on in a second call of run()   *)
(* on the same object (workflow_run.ts:789-818), so on the same instance,  *)
(* which may start while the first call is still in its releaseAll().      *)
(*                                                                         *)
(* A query may fail, on a session that lives on or on one that is lost; a  *)
(* session that is lost gives its locks up at once.  The sessions of held  *)
(* locks and of transactions are not lost.                                 *)
(***************************************************************************)
EXTENDS FiniteSets, Naturals

CONSTANTS
  Tasks,       \* calls of WorkflowRun.run()
  Instances,   \* MultiNodeMutex objects
  InstOf,      \* InstOf[t]: the instance of the run that t executes
  After,       \* After[t]: the call that scheduled t, or NoTask
  InTx,        \* the tasks that run inside db.withTransaction
  Names,       \* lock names
  Keys,        \* values of hashtext()
  Key,         \* Key[n]: the advisory lock key of name n
  Conns,       \* the connections of the pool
  Bounded,     \* timeoutMs > 0: lock_timeout ends a wait for the lock
  MaxFaults,   \* bound: queries that fail
  NoTask, NoConn

ASSUME MutexAssumption ==
  /\ InstOf \in [Tasks -> Instances]
  /\ After \in [Tasks -> Tasks \union {NoTask}]
  /\ InTx \subseteq Tasks
  /\ Names # {}
  /\ Key \in [Names -> Keys]
  /\ Bounded \in BOOLEAN
  /\ MaxFaults \in Nat
  /\ NoTask \notin Tasks
  /\ NoConn \notin Conns

VARIABLES
  pc,       \* control point of each task, see PCs
  ending,   \* the task is in releaseAll()
  want,     \* the name being acquired or released
  cli,      \* the connection in the local variable `client`
  txc,      \* the connection of the task's transaction
  todo,     \* names releaseAll() has still to go through
  conns,    \* conns[i][n]: lockConnections of instance i
  has,      \* names the task acquired and did not release since
  lock,     \* lock[k]: the session that holds advisory lock k ...
  count,    \* ... and how many times it has taken it
  free,     \* idle connections of the pool
  broken,   \* history: names whose lock or unlock query failed
  faults

vars == <<pc, ending, want, cli, txc, todo, conns, has, lock, count, free, broken, faults>>

PCs == {"new", "run", "getclient", "lock", "record", "cleanup",
        "leave", "unlock", "drop", "next", "done"}

Inst(t) == conns[InstOf[t]]
HeldBy(t) == {n \in Names : Inst(t)[n] # NoConn}

TypeOK ==
  /\ pc \in [Tasks -> PCs]
  /\ ending \in [Tasks -> BOOLEAN]
  /\ want \in [Tasks -> Names]
  /\ cli \in [Tasks -> Conns \union {NoConn}]
  /\ txc \in [Tasks -> Conns \union {NoConn}]
  /\ todo \in [Tasks -> SUBSET Names]
  /\ conns \in [Instances -> [Names -> Conns \union {NoConn}]]
  /\ has \in [Tasks -> SUBSET Names]
  /\ lock \in [Keys -> Conns \union {NoConn}]
  /\ count \in [Keys -> Nat]
  /\ free \in SUBSET Conns
  /\ broken \in SUBSET Names
  /\ faults \in 0..MaxFaults

Init ==
  /\ pc = [t \in Tasks |-> "new"]
  /\ ending = [t \in Tasks |-> FALSE]
  /\ want = [t \in Tasks |-> CHOOSE n \in Names : TRUE]
  /\ cli = [t \in Tasks |-> NoConn]
  /\ txc = [t \in Tasks |-> NoConn]
  /\ todo = [t \in Tasks |-> {}]
  /\ conns = [i \in Instances |-> [n \in Names |-> NoConn]]
  /\ has = [t \in Tasks |-> {}]
  /\ lock = [k \in Keys |-> NoConn]
  /\ count = [k \in Keys |-> 0]
  /\ free = Conns
  /\ broken = {}
  /\ faults = 0

Fault == faults < MaxFaults /\ faults' = faults + 1

server == <<lock, count>>
history == <<broken, faults>>

Goto(t, l) == pc' = [pc EXCEPT ![t] = l]

-----------------------------------------------------------------------------
(* The task starts, in a transaction of its own when it has one.  A        *)
(* background continuation starts once its predecessor has left its steps. *)
Begin(t) ==
  /\ pc[t] = "new"
  /\ After[t] # NoTask => ending[After[t]]
  /\ \/ /\ t \in InTx
        /\ \E c \in free :
             txc' = [txc EXCEPT ![t] = c] /\ free' = free \ {c}
     \/ t \notin InTx /\ UNCHANGED <<txc, free>>
  /\ Goto(t, "run")
  /\ UNCHANGED <<ending, want, cli, todo, conns, has, server, history>>

(* acquire(): a no-op when the instance has the name, otherwise it asks    *)
(* the pool for a connection.                                              *)
Reacquire(t, n) ==
  /\ pc[t] = "run"
  /\ Inst(t)[n] # NoConn
  /\ has' = [has EXCEPT ![t] = @ \union {n}]
  /\ UNCHANGED <<pc, ending, want, cli, txc, todo, conns, server, free, history>>

Acquire(t, n) ==
  /\ pc[t] = "run"
  /\ Inst(t)[n] = NoConn
  /\ want' = [want EXCEPT ![t] = n]
  /\ Goto(t, "getclient")
  /\ UNCHANGED <<ending, cli, txc, todo, conns, has, server, free, history>>

GetClient(t) ==
  /\ pc[t] = "getclient"
  /\ \E c \in free : cli' = [cli EXCEPT ![t] = c] /\ free' = free \ {c}
  /\ Goto(t, "lock")
  /\ UNCHANGED <<ending, want, txc, todo, conns, has, server, history>>

(* A query for a connection that fails: acquire() throws it.               *)
ConnectFails(t) ==
  /\ pc[t] = "getclient"
  /\ Fault
  /\ Goto(t, "run")
  /\ UNCHANGED <<ending, want, cli, txc, todo, conns, has, server, free, broken>>

(* Advisory locks are re-entrant: a session may take one that it has.      *)
Grantable(t) == lock[Key[want[t]]] \in {NoConn, cli[t]}

Take(t) ==
  /\ lock' = [lock EXCEPT ![Key[want[t]]] = cli[t]]
  /\ count' = [count EXCEPT ![Key[want[t]]] = @ + 1]

(* Mutant of Grant: the lock is taken without a look at its owner.         *)
GrantAnyway(t) ==
  /\ pc[t] = "lock"
  /\ Take(t)
  /\ Goto(t, "record")
  /\ UNCHANGED <<ending, want, cli, txc, todo, conns, has, free, history>>

(* The server grants pg_advisory_lock to the session ...                   *)
Grant(t) ==
  /\ pc[t] = "lock"
  /\ Grantable(t)
  /\ Take(t)
  /\ Goto(t, "record")
  /\ UNCHANGED <<ending, want, cli, txc, todo, conns, has, free, history>>

(* Or the query fails, before the server has granted the lock or after.    *)
LockFails(t) ==
  /\ pc[t] = "lock"
  /\ Fault
  /\ broken' = broken \union {want[t]}
  /\ (Grantable(t) /\ Take(t)) \/ UNCHANGED server
  /\ Goto(t, "cleanup")
  /\ UNCHANGED <<ending, want, cli, txc, todo, conns, has, free>>

(* ... and acquire() goes on when the answer arrives.                      *)
Record(t) ==
  /\ pc[t] = "record"
  /\ conns' = [conns EXCEPT ![InstOf[t]][want[t]] = cli[t]]
  /\ cli' = [cli EXCEPT ![t] = NoConn]
  /\ has' = [has EXCEPT ![t] = @ \union {want[t]}]
  /\ Goto(t, "run")
  /\ UNCHANGED <<ending, want, txc, todo, server, free, history>>

(* Mutants of LockTimeout: the error is taken for success; lock_timeout is *)
(* set when no timeout was asked for, and only then.                       *)
LockTimeoutIgnored(t) ==
  /\ Bounded
  /\ pc[t] = "lock"
  /\ ~Grantable(t)
  /\ Goto(t, "record")
  /\ UNCHANGED <<ending, want, cli, txc, todo, conns, has, server, free, history>>

LockTimeoutInverted(t) ==
  /\ ~Bounded
  /\ pc[t] = "lock"
  /\ ~Grantable(t)
  /\ Goto(t, "cleanup")
  /\ UNCHANGED <<ending, want, cli, txc, todo, conns, has, server, free, history>>

(* lock_timeout cancels the wait.  The server's own deadlock detection     *)
(* does not: the session that waits for a lock never holds one.            *)
LockTimeout(t) ==
  /\ Bounded
  /\ pc[t] = "lock"
  /\ ~Grantable(t)
  /\ Goto(t, "cleanup")
  /\ UNCHANGED <<ending, want, cli, txc, todo, conns, has, server, free, history>>

(* releaseClient: RESET lock_timeout and back to the pool, with what the   *)
(* session holds; when RESET fails the session ends, and the pool can open *)
(* a new one in its place.                                                 *)
ReleaseClient(t) ==
  /\ free' = free \union {cli[t]}
  /\ cli' = [cli EXCEPT ![t] = NoConn]
  /\ \/ UNCHANGED <<server, faults>>
     \/ /\ Fault
        /\ lock' = [k \in Keys |-> IF lock[k] = cli[t] THEN NoConn ELSE lock[k]]
        /\ count' = [k \in Keys |-> IF lock[k] = cli[t] THEN 0 ELSE count[k]]

(* Mutants of Cleanup: the connection is not given back; the one of the    *)
(* transaction is.                                                         *)
CleanupLeak(t) ==
  /\ pc[t] = "cleanup"
  /\ cli' = [cli EXCEPT ![t] = NoConn]
  /\ Goto(t, "run")
  /\ UNCHANGED <<ending, want, txc, todo, conns, has, server, free, history>>

CleanupWrong(t) ==
  /\ pc[t] = "cleanup"
  /\ free' = free \union {txc[t]}
  /\ cli' = [cli EXCEPT ![t] = NoConn]
  /\ Goto(t, "run")
  /\ UNCHANGED <<ending, want, txc, todo, conns, has, server, history>>

(* releaseClient and the rethrow; the run ends or its error handler goes on. *)
Cleanup(t) ==
  /\ pc[t] = "cleanup"
  /\ ReleaseClient(t)
  /\ Goto(t, "run")
  /\ UNCHANGED <<ending, want, txc, todo, conns, has, broken>>

(* release(): the name leaves lockConnections before the first await.      *)
StartRelease(t, n) ==
  /\ has' = [has EXCEPT ![t] = @ \ {n}]
  /\ IF Inst(t)[n] = NoConn
     THEN UNCHANGED <<pc, want, cli, conns>>
     ELSE /\ want' = [want EXCEPT ![t] = n]
          /\ cli' = [cli EXCEPT ![t] = Inst(t)[n]]
          /\ conns' = [conns EXCEPT ![InstOf[t]][n] = NoConn]
          /\ Goto(t, "unlock")

ReleaseStep(t, n) ==
  /\ pc[t] = "run"
  /\ StartRelease(t, n)
  /\ UNCHANGED <<ending, txc, todo, server, free, history>>

(* Mutant of Unlock: pg_advisory_unlock is not sent.                       *)
UnlockNever(t) ==
  /\ pc[t] = "unlock"
  /\ Goto(t, "drop")
  /\ UNCHANGED <<ending, want, cli, txc, todo, conns, has, server, free, history>>

(* The server takes one from the count of a lock that the session has.     *)
Give(t) ==
  LET k == Key[want[t]] IN
  IF lock[k] = cli[t]
  THEN /\ lock' = [lock EXCEPT ![k] = IF count[k] = 1 THEN NoConn ELSE @]
       /\ count' = [count EXCEPT ![k] = @ - 1]
  ELSE UNCHANGED server

Unlock(t) ==
  /\ pc[t] = "unlock"
  /\ Give(t)
  /\ Goto(t, "drop")
  /\ UNCHANGED <<ending, want, cli, txc, todo, conns, has, free, history>>

(* Or the query fails, done by the server or not; `finally` goes on.       *)
UnlockFails(t) ==
  /\ pc[t] = "unlock"
  /\ Fault
  /\ broken' = broken \union {want[t]}
  /\ Give(t) \/ UNCHANGED server
  /\ Goto(t, "drop")
  /\ UNCHANGED <<ending, want, cli, txc, todo, conns, has, free>>

(* `finally`: releaseClient.  What release() throws releaseAll() collects, *)
(* and goes on; in a step it ends the run or its error handler goes on.    *)
Drop(t) ==
  /\ pc[t] = "drop"
  /\ ReleaseClient(t)
  /\ Goto(t, IF ending[t] THEN "next" ELSE "run")
  /\ UNCHANGED <<ending, want, txc, todo, conns, has, broken>>

(* runInner has nothing more to do: the run finished, failed or paused,    *)
(* and its last step may have scheduled the background continuation.       *)
Leave(t) ==
  /\ pc[t] = "run"
  /\ ending' = [ending EXCEPT ![t] = TRUE]
  /\ Goto(t, "leave")
  /\ UNCHANGED <<want, cli, txc, todo, conns, has, server, free, history>>

(* releaseAll: the names are those of the instance by now, and the release *)
(* of the first one starts at once.                                        *)
ReleaseAll(t) ==
  /\ pc[t] = "leave"
  /\ \/ /\ HeldBy(t) = {}
        /\ Goto(t, "next")
        /\ UNCHANGED <<want, cli, todo, conns, has>>
     \/ \E n \in HeldBy(t) :
          /\ todo' = [todo EXCEPT ![t] = HeldBy(t) \ {n}]
          /\ StartRelease(t, n)
  /\ UNCHANGED <<ending, txc, server, free, history>>

ReleaseNext(t, n) ==
  /\ pc[t] = "next"
  /\ n \in todo[t]
  /\ todo' = [todo EXCEPT ![t] = @ \ {n}]
  /\ StartRelease(t, n)
  /\ UNCHANGED <<ending, txc, server, free, history>>

(* The transaction ends after the locks are gone.                          *)
Finish(t) ==
  /\ pc[t] = "next"
  /\ todo[t] = {}
  /\ free' = IF txc[t] = NoConn THEN free ELSE free \union {txc[t]}
  /\ txc' = [txc EXCEPT ![t] = NoConn]
  /\ has' = [has EXCEPT ![t] = {}]
  /\ Goto(t, "done")
  /\ UNCHANGED <<ending, want, cli, todo, conns, server, history>>

Step(t) ==
  \/ GetClient(t) \/ Grant(t) \/ Record(t) \/ LockTimeout(t) \/ Cleanup(t)
  \/ ReleaseAll(t) \/ Unlock(t) \/ Drop(t) \/ Finish(t)
  \/ \E n \in Names : ReleaseNext(t, n)

Choice(t) ==
  \/ Begin(t) \/ Leave(t)
  \/ \E n \in Names : Reacquire(t, n) \/ Acquire(t, n) \/ ReleaseStep(t, n)

Fails(t) == ConnectFails(t) \/ LockFails(t) \/ UnlockFails(t)

Next == \E t \in Tasks : Step(t) \/ Choice(t) \/ Fails(t)

(* Queries are answered, lock_timeout fires, and the pool serves its       *)
(* waiting callers in order, so a caller is not passed over for ever.      *)
Fairness == \A t \in Tasks : WF_vars(Step(t)) /\ SF_vars(GetClient(t))

Spec == Init /\ [][Next]_vars /\ Fairness

-----------------------------------------------------------------------------
(* Tasks of different instances never believe at the same time to hold the *)
(* same name: between the return of acquire() and the call of release() a  *)
(* run is alone, whatever other runs acquire, release, time out or end.    *)
MutualExclusion ==
  \A t, u \in Tasks : InstOf[t] # InstOf[u] => has[t] \cap has[u] = {}

(* What a task believes to hold is held: the instance has a connection for *)
(* the name and the session of that connection has the advisory lock.      *)
HeldIsLocked ==
  \A t \in Tasks : \A n \in has[t] :
    Inst(t)[n] # NoConn /\ lock[Key[n]] = Inst(t)[n]

(* Where a connection is: idle, in a variable of a call, or the connection *)
(* of a held lock.                                                         *)
Places(c) ==
  {<<"pool">> : d \in {c} \cap free}
    \union {<<"client", t>> : t \in {u \in Tasks : cli[u] = c}}
    \union {<<"tx", t>> : t \in {u \in Tasks : txc[u] = c}}
    \union {<<"lock", p>> : p \in
              {q \in Instances \X Names : conns[q[1]][q[2]] = c}}

(* No connection leaks and none is handed out twice: timeouts, re-entrant  *)
(* acquires, releases and releaseAll() keep each one in exactly one place. *)
ConnInOnePlace == \A c \in Conns : Cardinality(Places(c)) = 1

(* What the comment of releaseAll() promises: a session in the pool owns   *)
(* no advisory lock.  A query that fails on a live session breaks it.      *)
IdleOwnsNothing == \A k \in Keys : lock[k] \notin free

(* A session in the pool owns no advisory lock, unless the lock or unlock  *)
(* query of a name with this key has failed and acquire() or release()     *)
(* threw that: no lock stays behind by a timeout, a release, an error of   *)
(* another name, a failed RESET or the end of a run.                       *)
IdleOwnsReported ==
  \A k \in Keys : lock[k] \in free => \E n \in broken : Key[n] = k

(* With a timeout every acquire() that waits for its turn returns or       *)
(* throws, as long as the pool has a connection for everybody.             *)
AcquireEnds ==
  \A t \in Tasks : pc[t] \in {"getclient", "lock"} ~> pc[t] \notin {"getclient", "lock"}

(* With one instance for each task, this is the named lock.                *)
Owner(n) ==
  IF \E t \in Tasks : n \in has[t] THEN CHOOSE t \in Tasks : n \in has[t] ELSE NoTask

Abstract == INSTANCE NamedLock
  WITH Owners <- Tasks, NoOwner <- NoTask, owner <- [n \in Names |-> Owner(n)]

ImplementsNamedLock == Abstract!Spec
=============================================================================
