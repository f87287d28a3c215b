------------------------------- MODULE GoOutbox -------------------------------
(***************************************************************************)
(* Writes with an Idempotency-Key and the outbox of the Go backend         *)
(* (migracao/backend/internal/platform/outbox): PATCH requests on records  *)
(* of one table on PostgreSQL, whose WhenUpdate trigger has AfterCommit,   *)
(* and the outbox jobs of the worker processes.  An attempt is one arrival *)
(* of a request at a server; a client that hears nothing sends the request *)
(* again, also while the first attempt is still under way.  A version      *)
(* (xmin) is the number of updates of its record; the records are created  *)
(* by one transaction, so they begin with the same one.  Locks are those   *)
(* of transactions: an attempt or a job holds them up to its end.  Keys    *)
(* are those of the tenant; nothing stops a client from using one, with    *)
(* one body, for two records.                                              *)
(***************************************************************************)
EXTENDS Naturals, Sequences, FiniteSets

CONSTANTS Requests, Records, Keys, Bodies,
          KeyOf, RecOf, BodyOf,   \* key, record and body of a request
          MaxTries,       \* bound: attempts at all requests
          Workers,
          Batch,          \* outboxBatchLimit
          MaxAttempts,    \* outboxMaxAttempts
          MaxFaults,      \* bound: transactions that fail, processes that die
          NoBody

Answers == {"ok", "key_conflict", "version_conflict"}

ASSUME OutboxAssumption ==
  /\ KeyOf \in [Requests -> Keys] /\ RecOf \in [Requests -> Records]
  /\ BodyOf \in [Requests -> Bodies]
  /\ MaxTries \in Nat /\ Batch \in Nat \ {0} /\ MaxAttempts \in Nat \ {0} /\ MaxFaults \in Nat
  /\ Keys \cap Records = {} /\ NoBody \notin Requests \cup Nat \cup Answers

VARIABLES version,  \* _version of each record
          wants,    \* _version in the body of each request, once composed
          hash,     \* _sc_idempotency_keys: a request's key has the request,
                    \* which stands for the hash of its payload, the key of
                    \* (trigger, record) the version in the event
          tries,    \* the attempts
          outbox,   \* _sc_outbox in the order of id; sent and effects: history
          job,      \* the transaction of each worker's outbox job: the events
                    \* of its batch that it has yet to handle, that went well,
                    \* and that did not
          faults

vars == <<version, wants, hash, tries, outbox, job, faults>>

Attempts == 1..MaxTries   \* in the order of their arrival
Unsent == NoBody
Fresh == [pc |-> "idle", req |-> NoBody, answer |-> NoBody]
NoJob == [todo |-> {}, ok |-> {}, failed |-> {}]
Event(r) == [rec |-> r, status |-> "pending", attempts |-> 0, sent |-> 0, effects |-> 0]

Init ==
  /\ version = [r \in Records |-> 0]
  /\ wants = [q \in Requests |-> Unsent]
  /\ hash = [k \in Keys \cup Records |-> NoBody]
  /\ tries = [a \in Attempts |-> Fresh]
  /\ outbox = <<>>
  /\ job = [w \in Workers |-> NoJob]
  /\ faults = 0

Fault == faults < MaxFaults /\ faults' = faults + 1

-------------------------------------------------------------------------------
\* The server.
Step(a, pc) == tries' = [tries EXCEPT ![a].pc = pc]
Answer(a, what) == tries' = [tries EXCEPT ![a].pc = "end", ![a].answer = what]

\* A request arrives, for the first time or again.  Its client composed it from
\* the record as it was when the first attempt left.
Arrive(a, q) ==
  /\ tries[a].pc = "idle"
  /\ \A b \in 1..(a - 1) : tries[b].pc # "idle"
  /\ tries' = [tries EXCEPT ![a] = [Fresh EXCEPT !.pc = "key", !.req = q]]
  /\ wants' = IF wants[q] = Unsent THEN [wants EXCEPT ![q] = version[RecOf[q]]] ELSE wants
  /\ UNCHANGED <<version, hash, outbox, job, faults>>

\* Mutant of KeyFree: no pg_advisory_xact_lock.
KeyFreeAlways(a) == TRUE

\* No other transaction holds the advisory lock of the key.
KeyFree(a) == \A b \in Attempts \ {a} :
  tries[b].pc \in {"update", "enqueue", "commit"} => KeyOf[tries[b].req] # KeyOf[tries[a].req]

\* hashPayload of the body, which has _version in it, but not the record.
SamePayload(p, q) == BodyOf[p] = BodyOf[q] /\ wants[p] = wants[q]

\* DoTx up to fn: lock the key and look it up.
Lookup(a) ==
  LET q == tries[a].req
      first == hash[KeyOf[q]]
  IN
  /\ tries[a].pc = "key" /\ KeyFree(a)
  /\ \/ first = NoBody /\ Step(a, "update")
     \/ first # NoBody /\ SamePayload(first, q) /\ Answer(a, "ok")
     \/ first # NoBody /\ ~SamePayload(first, q) /\ Answer(a, "key_conflict")
  /\ UNCHANGED <<version, wants, hash, outbox, job, faults>>

\* No other transaction holds the lock of the row.
RowFree(a) == \A b \in Attempts \ {a} :
  tries[b].pc \in {"enqueue", "commit"} => RecOf[tries[b].req] # RecOf[tries[a].req]

\* updateRecordTx: UPDATE ... WHERE id = $ AND _version = $.
Update(a) ==
  LET q == tries[a].req IN
  /\ tries[a].pc = "update" /\ RowFree(a)
  /\ IF version[RecOf[q]] = wants[q] THEN Step(a, "enqueue") ELSE Answer(a, "version_conflict")
  /\ UNCHANGED <<version, wants, hash, outbox, job, faults>>

\* runAfterTx: a DoTx of its own, whose payload has the record with its new
\* _version, so a key that is there has another payload.  Its ErrKeyConflict
\* is the answer of the handler too.
Enqueue(a) ==
  LET r == RecOf[tries[a].req] IN
  /\ tries[a].pc = "enqueue"
  /\ IF hash[r] = NoBody THEN Step(a, "commit") ELSE Answer(a, "key_conflict")
  /\ UNCHANGED <<version, wants, hash, outbox, job, faults>>

\* COMMIT: record, both keys and event.  The answer may never arrive.
Commit(a) ==
  LET q == tries[a].req
      r == RecOf[q]
  IN
  /\ tries[a].pc = "commit"
  /\ hash[KeyOf[q]] = NoBody
  /\ version' = [version EXCEPT ![r] = @ + 1]
  /\ hash' = [hash EXCEPT ![KeyOf[q]] = q, ![r] = version[r] + 1]
  /\ outbox' = Append(outbox, Event(r))
  /\ \/ Answer(a, "ok") /\ UNCHANGED faults
     \/ Answer(a, NoBody) /\ Fault
  /\ UNCHANGED <<wants, job>>

\* The transaction fails or the server dies: all of it is rolled back.
AbortTry(a) ==
  /\ tries[a].pc \notin {"idle", "end"}
  /\ Answer(a, NoBody)
  /\ Fault
  /\ UNCHANGED <<version, wants, hash, outbox, job>>

-------------------------------------------------------------------------------
\* The workers.
Handled(w) == job[w].ok \cup job[w].failed
Held(w) == job[w].todo \cup Handled(w)

\* Mutant of Pending: no FOR UPDATE SKIP LOCKED.
PendingUnlocked(w) == {i \in DOMAIN outbox : outbox[i].status = "pending"}

\* The rows that ListPendingTx can take.
Pending(w) == {i \in DOMAIN outbox :
  outbox[i].status = "pending" /\ \A v \in Workers \ {w} : i \notin Held(v)}

\* runOutboxJob begins its transaction and reads a batch, the oldest first.
Fetch(w) ==
  LET batch == {i \in Pending(w) : Cardinality({j \in Pending(w) : j < i}) < Batch} IN
  /\ job[w] = NoJob /\ batch # {}
  /\ job' = [job EXCEPT ![w].todo = batch]
  /\ UNCHANGED <<version, wants, hash, tries, outbox, faults>>

\* The event whose turn it is.
Turn(w, i) == i \in job[w].todo /\ \A j \in job[w].todo : i <= j

Sent(i, n) == outbox' = [outbox EXCEPT ![i].sent = @ + n]

\* The handler succeeds: what it sends leaves at once, what it writes waits
\* for the commit.
HandleOk(w) == \E i \in DOMAIN outbox :
  /\ Turn(w, i)
  /\ job' = [job EXCEPT ![w].todo = @ \ {i}, ![w].ok = @ \cup {i}]
  /\ Sent(i, 1)
  /\ UNCHANGED <<version, wants, hash, tries, faults>>

\* Mutant of HandleError: no savepoint, an error ends the transaction.
HandleErrorAll(w) == \E i \in DOMAIN outbox, n \in {0, 1} :
  /\ Turn(w, i)
  /\ job' = [job EXCEPT ![w] = NoJob]
  /\ Sent(i, n)
  /\ UNCHANGED <<version, wants, hash, tries, faults>>

\* It returns an error, after it sent or before: runInSavepoint undoes what it
\* wrote, and the batch goes on.
HandleError(w) == \E i \in DOMAIN outbox, n \in {0, 1} :
  /\ Turn(w, i)
  /\ job' = [job EXCEPT ![w].todo = @ \ {i}, ![w].failed = @ \cup {i}]
  /\ Sent(i, n)
  /\ UNCHANGED <<version, wants, hash, tries, faults>>

\* Mutant of Marked: an event that has used up its attempts stays pending.
MarkedPending(e, ok) ==
  IF ok THEN [e EXCEPT !.status = "done", !.effects = @ + 1]
        ELSE [e EXCEPT !.attempts = IF @ + 1 < MaxAttempts THEN @ + 1 ELSE @]

\* markDone with the handler's effect, and markFailed.
Marked(e, ok) ==
  IF ok THEN [e EXCEPT !.status = "done", !.effects = @ + 1]
        ELSE [e EXCEPT !.attempts = @ + 1,
                       !.status = IF e.attempts + 1 >= MaxAttempts THEN "failed" ELSE "pending"]

CommitBatch(w) ==
  /\ job[w].todo = {} /\ Handled(w) # {}
  /\ outbox' = [i \in DOMAIN outbox |->
       IF i \in Handled(w) THEN Marked(outbox[i], i \in job[w].ok) ELSE outbox[i]]
  /\ job' = [job EXCEPT ![w] = NoJob]
  /\ UNCHANGED <<version, wants, hash, tries, faults>>

\* The worker dies or the transaction fails: the marks and the writes of the
\* whole batch are rolled back, what was sent stays sent.
AbortBatch(w) ==
  /\ job[w] # NoJob
  /\ job' = [job EXCEPT ![w] = NoJob]
  /\ Fault
  /\ UNCHANGED <<version, wants, hash, tries, outbox>>

-------------------------------------------------------------------------------
Serve(a) == \/ \E q \in Requests : Arrive(a, q)
            \/ Lookup(a) \/ Update(a) \/ Enqueue(a) \/ Commit(a) \/ AbortTry(a)
Work(w) == HandleOk(w) \/ HandleError(w) \/ CommitBatch(w)

Next == \/ \E a \in Attempts : Serve(a)
        \/ \E w \in Workers : Fetch(w) \/ Work(w) \/ AbortBatch(w)

Fairness == \A w \in Workers : WF_vars(Fetch(w)) /\ WF_vars(Work(w))

\* The job runs at every tick of jobInterval and every batch ends.
Spec == Init /\ [][Next]_vars /\ Fairness

-------------------------------------------------------------------------------
\* What q asks for has been done, by itself or by a request like it.
Committed(q) ==
  \E p \in Requests : hash[KeyOf[q]] = p /\ SamePayload(p, q) /\ RecOf[p] = RecOf[q]

\* A key is not used with one body for two records.
KeysTellRecords ==
  \A p, q \in Requests : KeyOf[p] = KeyOf[q] /\ BodyOf[p] = BodyOf[q] => RecOf[p] = RecOf[q]

TypeOK ==
  /\ version \in [Records -> Nat]
  /\ wants \in [Requests -> Nat \cup {Unsent}]
  /\ hash \in [Keys \cup Records -> Requests \cup Nat \cup {NoBody}]
  /\ tries \in [Attempts ->
       [pc : {"idle", "key", "update", "enqueue", "commit", "end"},
        req : Requests \cup {NoBody},
        answer : Answers \cup {NoBody}]]
  /\ outbox \in Seq([rec : Records, status : {"pending", "done", "failed"},
                     attempts : 0..MaxAttempts, sent : Nat, effects : Nat])
  /\ job \in [Workers -> [todo : SUBSET DOMAIN outbox, ok : SUBSET DOMAIN outbox,
                          failed : SUBSET DOMAIN outbox]]
  /\ faults \in 0..MaxFaults

\* "A key is scoped by tenant, actor and operation" (common.yaml): whoever is
\* told that a request has been done, it has.  It is true as long as the keys
\* tell records apart, which the client has to see to.
OkMeansDone == \A a \in Attempts : tries[a].answer = "ok" => Committed(tries[a].req)

\* All attempts at one request agree: what one of them confirmed is durable,
\* and no attempt is refused when another one has written, or will write, the
\* record.  A false version_conflict is what the key is there to prevent
\* (records.go, updateRecordHandler).
AnswersAgree ==
  /\ OkMeansDone
  /\ \A a \in Attempts :
       tries[a].answer \in {"version_conflict", "key_conflict"} => ~Committed(tries[a].req)

\* What the handler of an event wrote is in the database exactly once when the
\* event is done, and not at all when it is pending or has failed for good,
\* whatever jobs overlap, fail or die (worker.go, ProcessPendingTx).
EffectOnce == \A i \in DOMAIN outbox :
  outbox[i].effects = IF outbox[i].status = "done" THEN 1 ELSE 0

\* An e-mail or a webhook leaves once for each recorded attempt and once for
\* the success: more often only by batches that were rolled back, and the
\* errors of other events in the batch do not repeat it (worker.go).
SendsAccounted == \A i \in DOMAIN outbox :
  outbox[i].sent <= outbox[i].attempts + outbox[i].effects + faults
                      + (IF \E w \in Workers : i \in Held(w) THEN 1 ELSE 0)

\* Every event is done or has failed for good in the end, however often its
\* handler fails (worker.go, markFailed).
Settles == \A i \in Attempts :
  (i \in DOMAIN outbox) ~> (i \in DOMAIN outbox /\ outbox[i].status # "pending")

\* A request that is refused for its key has a key that was used with another
\* body before (errors.go, ErrKeyConflict; the message of the handler).
ConflictMeansReuse == \A a \in Attempts :
  tries[a].answer = "key_conflict" =>
    LET first == hash[KeyOf[tries[a].req]] IN
    first # NoBody /\ ~SamePayload(first, tries[a].req)

===============================================================================
