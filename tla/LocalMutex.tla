----------------------------- MODULE LocalMutex -----------------------------
(***************************************************************************)
(* The in-process fallback of multi_node_mutex.ts, used when the database  *)
(* driver is not "postgres": acquireLockLocally and releaseLockLocally     *)
(* over the module-level localLocksHeld (a set of names) and               *)
(* localLockWaiters (a queue of waiters for each name).  Names do not      *)
(* interact, so the module follows one name.                               *)
(*                                                                         *)
(* Release does not hand the lock over.  It frees the name and resolves    *)
(* the promise of the first waiter; the waiter tests localLocksHeld again  *)
(* when its continuation runs, and whoever asked in between has the lock.  *)
(***************************************************************************)
EXTENDS Integers, SequencesExt

CONSTANTS
  Tasks,      \* concurrent callers of acquire(), each with its own instance
  Timeout,    \* timeoutMs of the callers; 0 waits forever
  NoTask,     \* a value that is not a task
  MaxTime     \* bound of the clock, for model checking

ASSUME TimeAssumption == Timeout \in Nat /\ MaxTime \in Nat
ASSUME TaskAssumption == NoTask \notin Tasks

VARIABLES
  held,       \* localLocksHeld has the name
  waiters,    \* localLockWaiters.get(name), oldest first
  pc,         \* where each task is, see PCs
  deadline,   \* when the running setTimeout of a waiting task fires
  asked,      \* history: when the task called acquire()
  now         \* the clock

vars == <<held, waiters, pc, deadline, asked, now>>

(* "woken": the waiter's promise is resolved, its continuation is queued.  *)
PCs == {"idle", "waiting", "woken", "holding"}

Tsk(pcs) == {t \in Tasks : pc[t] \in pcs}

TypeOK ==
  /\ held \in BOOLEAN
  /\ waiters \in Seq(Tasks)
  /\ pc \in [Tasks -> PCs]
  /\ deadline \in [Tasks -> Nat]
  /\ asked \in [Tasks -> Nat]
  /\ now \in Nat

Init ==
  /\ held = FALSE
  /\ waiters = <<>>
  /\ pc = [t \in Tasks |-> "idle"]
  /\ deadline = [t \in Tasks |-> 0]
  /\ asked = [t \in Tasks |-> 0]
  /\ now = 0

-----------------------------------------------------------------------------
(* The test of the while loop and what follows it, in one turn of the      *)
(* event loop: take the free lock, or queue a new waiter with a new timer. *)
Take(t) ==
  /\ ~held
  /\ held' = TRUE
  /\ pc' = [pc EXCEPT ![t] = "holding"]
  /\ UNCHANGED <<waiters, deadline>>

Enqueue(t) ==
  /\ held
  /\ waiters' = Append(waiters, t)
  /\ pc' = [pc EXCEPT ![t] = "waiting"]
  /\ deadline' = [deadline EXCEPT ![t] = now + Timeout]
  /\ UNCHANGED held

(* acquire() is called.  A caller whose own continuation was queued before *)
(* that of a woken waiter calls it ahead of the waiter's next loop test.   *)
Call(t) ==
  /\ pc[t] = "idle"
  /\ asked' = [asked EXCEPT ![t] = now]
  /\ Take(t) \/ Enqueue(t)
  /\ UNCHANGED now

(* Mutant of Retest: a woken waiter believes that the lock is its own.     *)
RetestTrusting(t) ==
  /\ pc[t] = "woken"
  /\ held' = TRUE
  /\ pc' = [pc EXCEPT ![t] = "holding"]
  /\ UNCHANGED <<waiters, deadline, asked, now>>

(* The continuation of a resolved waiter goes back to the loop test.       *)
Retest(t) ==
  /\ pc[t] = "woken"
  /\ Take(t) \/ Enqueue(t)
  /\ UNCHANGED <<asked, now>>

(* Mutant of Release: nobody is woken.                                     *)
ReleaseSilently(t) ==
  /\ pc[t] = "holding"
  /\ held' = FALSE
  /\ pc' = [pc EXCEPT ![t] = "idle"]
  /\ UNCHANGED <<waiters, deadline, asked, now>>

(* releaseLockLocally, from release() or releaseAll().                     *)
Release(t) ==
  /\ pc[t] = "holding"
  /\ held' = FALSE
  /\ \/ /\ waiters = <<>>
        /\ pc' = [pc EXCEPT ![t] = "idle"]
        /\ UNCHANGED waiters
     \/ /\ waiters # <<>>
        /\ pc' = [pc EXCEPT ![t] = "idle", ![Head(waiters)] = "woken"]
        /\ waiters' = Tail(waiters)
  /\ UNCHANGED <<deadline, asked, now>>

(* Mutant of Expire: the waiter is not spliced out of the queue.           *)
ExpireQueued(t) ==
  /\ Timeout > 0
  /\ pc[t] = "waiting"
  /\ now >= deadline[t]
  /\ pc' = [pc EXCEPT ![t] = "idle"]
  /\ UNCHANGED <<held, waiters, deadline, asked, now>>

(* The timer of a waiter that is still queued: it is spliced out of the    *)
(* queue and its acquire() throws.  resolve() has cleared the timer of a   *)
(* woken one.                                                              *)
Expire(t) ==
  /\ Timeout > 0
  /\ pc[t] = "waiting"
  /\ now >= deadline[t]
  /\ \E i \in 1..Len(waiters) :
       waiters[i] = t /\ waiters' = RemoveAt(waiters, i)
  /\ pc' = [pc EXCEPT ![t] = "idle"]
  /\ UNCHANGED <<held, deadline, asked, now>>

(* Time passes between turns of the event loop only: queued continuations  *)
(* run first.                                                              *)
Tick ==
  /\ now < MaxTime
  /\ Tsk({"woken"}) = {}
  /\ now' = now + 1
  /\ UNCHANGED <<held, waiters, pc, deadline, asked>>

Next ==
  \/ \E t \in Tasks : Call(t) \/ Retest(t) \/ Release(t) \/ Expire(t)
  \/ Tick

(* Continuations run, and a task that holds the lock gives it back: run()  *)
(* and withLock() release in a finally block (the critical section itself  *)
(* is assumed to end).                                                     *)
Fairness == \A t \in Tasks : WF_vars(Retest(t)) /\ WF_vars(Release(t))

Spec == Init /\ [][Next]_vars /\ Fairness

-----------------------------------------------------------------------------
(* At most one task is past acquire() and before release(), although a     *)
(* release, a barging caller and a woken waiter meet in any order.         *)
MutualExclusion ==
  \A t, u \in Tasks : pc[t] = "holding" /\ pc[u] = "holding" => t = u

(* The queue holds each waiting task once, and only waiting tasks: a       *)
(* waiter that timed out or was woken never stays behind to swallow a      *)
(* later release.                                                          *)
QueueExact ==
  /\ \A t \in Tasks : pc[t] = "waiting" <=> \E i \in 1..Len(waiters) : waiters[i] = t
  /\ \A i, j \in 1..Len(waiters) : waiters[i] = waiters[j] => i = j

(* No lost wakeup: when the lock is free and tasks wait for it, a woken    *)
(* waiter is on its way to the loop test.                                  *)
NoLostWakeup == ~held /\ waiters # <<>> => \E t \in Tasks : pc[t] = "woken"

(* As long as somebody waits, the lock keeps being taken: the queue is     *)
(* never left behind by a release that woke a task which lost the race.    *)
WaitersServed == (waiters # <<>>) ~> (waiters = <<>> \/ held)

(* What acquire() documents for timeoutMs ("throw if the lock isn't        *)
(* acquired within this many milliseconds", multi_node_mutex.ts:88): the   *)
(* timer of a waiting task never runs past the deadline of its call.       *)
TimeoutBounded ==
  \A t \in Tasks :
    pc[t] = "waiting" /\ Timeout > 0 => deadline[t] <= asked[t] + Timeout

(* The lock implements the abstract one.                                   *)
LockOwner ==
  IF Tsk({"holding"}) = {} THEN NoTask ELSE CHOOSE t \in Tasks : pc[t] = "holding"

Abstract == INSTANCE NamedLock
  WITH Owners <- Tasks, Names <- {"lock"}, NoOwner <- NoTask,
       owner <- [n \in {"lock"} |-> LockOwner]

ImplementsNamedLock == Abstract!Spec
=============================================================================
