----------------------------- MODULE GoScheduler -----------------------------
(***************************************************************************)
(* runScheduledTriggersJob of several Go worker processes for one tenant   *)
(* on PostgreSQL (migracao/backend/cmd/worker): a transaction that claims  *)
(* or renews the lease, then one that runs the triggers that are due.      *)
(* Time is relative: what is left of the lease and the ticks to the next   *)
(* run are counted down by Tick.  Cron expressions are the multiples of    *)
(* Period; those of Rare triggers ('0 0 29 2 *') have occurrences farther  *)
(* apart than the 400 days that NextAfter searches, so that it may find    *)
(* none.  A new process has a new owner id, so the lease of a dead one     *)
(* belongs to "gone".  The Guard in front of the job is in Cutover.        *)
(* GSInit, GSNext, ... have a prefix because Go_proofs extends this module *)
(* together with Cutover.                                                  *)
(***************************************************************************)
EXTENDS Integers, FiniteSets

CONSTANTS Workers, Triggers,
          Rare,       \* triggers whose next occurrence may not be found
          TTL,        \* ticks that a lease lasts
          Period,     \* ticks between the occurrences of a trigger
          MaxAge,     \* bound: ticks that a lease transaction may take
          MaxFaults   \* bound: failed transactions and processes that die

ASSUME TimesAssumption ==
  /\ TTL \in Nat /\ Period \in Nat \ {0} /\ MaxAge \in 0..TTL /\ MaxFaults \in Nat
  /\ Workers \cap {"none", "gone"} = {}
  /\ Rare \subseteq Triggers

VARIABLES lease,   \* row of _sc_leases: owner_id, time left to expires_at
          wait,    \* time left to next_run_at of each trigger
          phase,   \* the clock, modulo Period
          job,     \* the job of each worker process
          served,  \* history: how often the present occurrence was served
          kept,    \* history: triggers left at it, as no other was found
          faults

gsVars == <<lease, wait, phase, job, served, kept, faults>>

\* Expired for longer than any transaction is old: it makes no difference.
Floor == -(MaxAge + 1)
Down(n, floor) == IF n > floor THEN n - 1 ELSE floor

JobPCs == {"idle", "asking", "leased", "running"}
Idle == [pc |-> "idle", age |-> 0, left |-> Floor, due |-> {}, next |-> 0]

GSInit ==
  /\ lease = [owner |-> "none", left |-> Floor]
  /\ wait \in [Triggers -> 0..Period]
  /\ phase = 0
  /\ job = [w \in Workers |-> Idle]
  /\ served = [t \in Triggers |-> 0]
  /\ kept = {}
  /\ faults = 0

Fault == faults < MaxFaults /\ faults' = faults + 1

-------------------------------------------------------------------------------
\* The lease transaction begins, which fixes now() for its statements.
Ask(w) ==
  /\ job[w].pc = "idle"
  /\ job' = [job EXCEPT ![w] = [Idle EXCEPT !.pc = "asking"]]
  /\ UNCHANGED <<lease, wait, phase, served, kept, faults>>

\* Mutant of Free: expires_at is compared with <=.
FreeEarly(w) == \/ lease.owner \in {"none", w}
                \/ lease.left + job[w].age <= 0

\* Mutant of Free: only the owner may take a row that exists.
FreeOwn(w) == lease.owner \in {"none", w}

\* Whether the conditional UPSERT of lease.Acquire takes the row: there is
\* none, it is the caller's own, or expires_at < now().
Free(w) == \/ lease.owner \in {"none", w}
           \/ lease.left + job[w].age < 0

\* expires_at is counted from now() of the transaction, not from the commit.
Granted(w) == TTL - job[w].age

Acquire(w) ==
  /\ job[w].pc = "asking"
  /\ Free(w)
  /\ lease' = [owner |-> w, left |-> Granted(w)]
  /\ job' = [job EXCEPT ![w] = [Idle EXCEPT !.pc = "leased", !.left = Granted(w)]]
  /\ UNCHANGED <<wait, phase, served, kept, faults>>

\* ErrLeaseHeld: the job is skipped.
Refused(w) ==
  /\ job[w].pc = "asking"
  /\ ~Free(w)
  /\ job' = [job EXCEPT ![w] = Idle]
  /\ UNCHANGED <<lease, wait, phase, served, kept, faults>>

\* The lease transaction fails, or it commits and the answer is lost.
AcquireFails(w) ==
  /\ job[w].pc = "asking"
  /\ Fault
  /\ \/ UNCHANGED lease
     \/ Free(w) /\ lease' = [owner |-> w, left |-> Granted(w)]
  /\ job' = [job EXCEPT ![w] = Idle]
  /\ UNCHANGED <<wait, phase, served, kept>>

Locked == UNION {job[v].due : v \in Workers}

\* Mutant of Due: the rows are read without FOR UPDATE SKIP LOCKED.
DueUnlocked == {t \in Triggers : wait[t] = 0}

\* DueTriggersTx.
Due == {t \in Triggers : wait[t] = 0} \ Locked

\* The second transaction locks the due rows; their actions run, each in a
\* savepoint.  The next run is computed from the time read here.
RunDue(w) ==
  /\ job[w].pc = "leased"
  /\ job' = [job EXCEPT ![w].pc = "running", ![w].due = Due,
                        ![w].next = Period - phase]
  /\ UNCHANGED <<lease, wait, phase, served, kept, faults>>

\* Histories do not count beyond two.
Again(n) == IF n < 2 THEN n + 1 ELSE n

\* It commits: the triggers of the batch, failed or not, are advanced, but for
\* those for which no next run was found: they have run and are due as before.
Commit(w) ==
  \E keep \in SUBSET (job[w].due \cap Rare) :
    LET moved == job[w].due \ keep
        next == job[w].next
        late == IF next = 0 THEN moved ELSE {} IN
    /\ job[w].pc = "running"
    /\ wait' = [t \in Triggers |-> IF t \in moved THEN next ELSE wait[t]]
    /\ served' = [t \in Triggers |-> IF t \in late THEN 0
                                     ELSE IF t \in job[w].due THEN Again(served[t])
                                     ELSE served[t]]
    /\ kept' = (kept \cup keep) \ late
    /\ job' = [job EXCEPT ![w] = Idle]
    /\ UNCHANGED <<lease, phase, faults>>

\* It fails: the locks go, nothing has happened.
Rollback(w) ==
  /\ job[w].pc \in {"leased", "running"}
  /\ Fault
  /\ job' = [job EXCEPT ![w] = Idle]
  /\ UNCHANGED <<lease, wait, phase, served, kept>>

\* The process dies, the server rolls back; a new one takes its place.
Crash(w) ==
  /\ Fault
  /\ job' = [job EXCEPT ![w] = Idle]
  /\ lease' = [lease EXCEPT !.owner = IF @ = w THEN "gone" ELSE @]
  /\ UNCHANGED <<wait, phase, served, kept>>

\* Time passes.  A trigger that becomes due has an occurrence to be served.
Tick ==
  /\ \A w \in Workers : job[w].age < MaxAge \/ job[w].pc # "asking"
  /\ phase' = (phase + 1) % Period
  /\ lease' = [lease EXCEPT !.left = Down(@, Floor)]
  /\ wait' = [t \in Triggers |-> Down(wait[t], 0)]
  /\ served' = [t \in Triggers |-> IF wait[t] = 1 THEN 0 ELSE served[t]]
  /\ kept' = {t \in kept : wait[t] # 1}
  /\ job' = [w \in Workers |->
               [job[w] EXCEPT !.age = IF job[w].pc = "asking" THEN @ + 1 ELSE @,
                              !.left = Down(@, Floor),
                              !.next = Down(@, 0)]]
  /\ UNCHANGED faults

Step(w) == Ask(w) \/ Acquire(w) \/ Refused(w) \/ RunDue(w) \/ Commit(w)

GSNext ==
  \/ \E w \in Workers : Step(w) \/ AcquireFails(w) \/ Rollback(w) \/ Crash(w)
  \/ Tick

\* The ticker of every process goes on, and so does the clock.
GSFairness == WF_gsVars(Tick) /\ \A w \in Workers : WF_gsVars(Step(w))

GSSpec == GSInit /\ [][GSNext]_gsVars /\ GSFairness

-------------------------------------------------------------------------------
Jobs == [pc : JobPCs, age : 0..MaxAge, left : Floor..TTL,
         due : SUBSET Triggers, next : 0..Period]

\* Values stay within their types.
GSTypeOK ==
  /\ lease \in [owner : Workers \cup {"none", "gone"}, left : Floor..TTL]
  /\ wait \in [Triggers -> 0..Period]
  /\ phase \in 0..(Period - 1)
  /\ job \in [Workers -> Jobs]
  /\ served \in [Triggers -> 0..2]
  /\ kept \subseteq Triggers
  /\ faults \in 0..MaxFaults

\* The time for which a job may believe that it is alone has not run out.
Believes(w) == job[w].pc \in {"leased", "running"} /\ job[w].left >= 0

\* "Two workers do not run an exclusive job at the same time" (lease/schema.go)
\* holds for as long as their leases last, whatever the order of transactions,
\* lost answers and dead processes; a job that outlives its lease is on its own.
LeaseExclusive ==
  \A v, w \in Workers : Believes(v) /\ Believes(w) => v = w

\* An occurrence of a trigger is served once at most, also by jobs that
\* overlap because one outlived its lease: next_run_at is read under a row
\* lock and advanced before the lock goes - unless no next run was found.
OccurrenceOnce == \A t \in Triggers : served[t] <= 1 \/ t \in kept

\* "NextRunAt is always advanced from now" (dispatch.go) would be this: no
\* occurrence whatever is served again.
EveryOccurrenceOnce == \A t \in Triggers : served[t] <= 1

\* Every trigger is served again and again: a crash only delays it until the
\* lease of the dead process has expired.
DueServed ==
  \A t \in Triggers :
    []<><<\E w \in Workers : t \in job[w].due /\ Commit(w)>>_gsVars
===============================================================================
