------------------------------- MODULE TxContext -------------------------------
(***************************************************************************)
(* Transactions of the PostgreSQL driver that share a request context      *)
(* (packages/postgres/postgres.ts, packages/db-common/multi-tenant.ts).    *)
(* getRequestContext() gives one record with the client, inTransaction and *)
(* the afterCommit queue to all the flows of a request: the one that calls *)
(* withTransaction, and the work that it leaves to whenTransactionisFree   *)
(* (refreshSystemCache, emptyQueue, stored calculated fields).  A flow     *)
(* that awaits lets the others run.  The name of a flow stands for the     *)
(* connection its getClient() took from the pool.                          *)
(***************************************************************************)
EXTENDS Naturals, FiniteSets

CONSTANTS Main,      \* flows that call withTransaction
          Waiters,   \* flows that call whenTransactionisFree
          MaxWrites, \* bound: statements of a flow
          None

ASSUME FlowsAssumption ==
  Main \cap Waiters = {} /\ None \notin Main \cup Waiters /\ MaxWrites \in Nat

Flows == Main \cup Waiters
Writes == Flows \X (1..MaxWrites)

VARIABLES ctx,    \* the request context: client, inTransaction, afterCommit
          flow,   \* pc; written: the statements of its f that are to stay;
                  \* sp: open savepoint, NoSave or the statements before it;
                  \* queue: the callbacks taken from the context
          conn,   \* the transaction of each connection: its uncommitted writes
          db,     \* committed writes
          end,    \* history: how the transaction of each flow ended
          ran     \* history: <<g, end[g]>> when the callback of g ran

vars == <<ctx, flow, conn, db, end, ran>>

NoSave == [on |-> FALSE, kept |-> {}]
Idle == [pc |-> "idle", n |-> 0, written |-> {}, sp |-> NoSave, deferred |-> FALSE, queue |-> {}]

Init ==
  /\ ctx = [client |-> None, inTransaction |-> FALSE, afterCommit |-> {}]
  /\ flow = [f \in Flows |-> Idle]
  /\ conn = [f \in Flows |-> {}]
  /\ db = {}
  /\ end = [f \in Flows |-> "open"]
  /\ ran = {}

Goto(f, pc) == flow' = [flow EXCEPT ![f].pc = pc]

-------------------------------------------------------------------------------
\* withTransaction: wait for a connection.  The context does not tell yet.
Begin(f) ==
  /\ f \in Main /\ flow[f].pc = "idle"
  /\ Goto(f, "client")
  /\ UNCHANGED <<ctx, conn, db, end, ran>>

\* f of a transaction calls whenTransactionisFree and goes on.
Spawn(w) ==
  /\ w \in Waiters /\ flow[w].pc = "idle"
  /\ \E m \in Main : flow[m].pc = "body"
  /\ Goto(w, "poll")
  /\ UNCHANGED <<ctx, conn, db, end, ran>>

\* Mutant of Free: the transaction of another flow is not looked for.
FreeAlways(w) == TRUE

Free(w) == ~ctx.inTransaction

\* A poll, every 200 ms.
Poll(w) ==
  /\ flow[w].pc = "poll" /\ Free(w)
  /\ Goto(w, "client")
  /\ UNCHANGED <<ctx, conn, db, end, ran>>

\* The 101st poll found a transaction too: the promise is rejected.
GiveUp(w) ==
  /\ flow[w].pc = "poll" /\ ctx.inTransaction
  /\ Goto(w, "end")
  /\ UNCHANGED <<ctx, conn, db, end, ran>>

\* The connection is there: the context is set, and BEGIN.
Client(f) ==
  /\ flow[f].pc = "client"
  /\ ctx' = [ctx EXCEPT !.client = f, !.inTransaction = TRUE]
  /\ Goto(f, "body")
  /\ UNCHANGED <<conn, db, end, ran>>

\* BEGIN fails, outside of the try: the context stays set and the connection
\* is not released.
BeginFails(f) ==
  /\ flow[f].pc = "client"
  /\ ctx' = [ctx EXCEPT !.client = f, !.inTransaction = TRUE]
  /\ Goto(f, "failed")
  /\ UNCHANGED <<conn, db, end, ran>>

\* A statement of f, on the client of the context: getMyClient.  Without one,
\* or when that transaction is over, it is committed by itself.
Write(f) ==
  LET w == <<f, flow[f].n + 1>> IN
  /\ flow[f].pc = "body" /\ flow[f].n < MaxWrites
  /\ flow' = [flow EXCEPT ![f].n = @ + 1, ![f].written = @ \cup {w}]
  /\ IF ctx.client # None /\ end[ctx.client] = "open"
     THEN conn' = [conn EXCEPT ![ctx.client] = @ \cup {w}] /\ UNCHANGED db
     ELSE db' = db \cup {w} /\ UNCHANGED conn
  /\ UNCHANGED <<ctx, end, ran>>

\* tryCatchInTransaction: SAVEPOINT, if the context is in a transaction.
Save(f) ==
  /\ flow[f].pc = "body" /\ ~flow[f].sp.on /\ ctx.inTransaction
  /\ flow' = [flow EXCEPT ![f].sp = [on |-> TRUE, kept |-> conn[ctx.client]]]
  /\ UNCHANGED <<ctx, conn, db, end, ran>>

\* Mutant of Undone: the error handler runs without ROLLBACK TO SAVEPOINT.
UndoneNot(f) == conn[f]
Undone(f) == flow[f].sp.kept

\* It throws: ROLLBACK TO SAVEPOINT and RELEASE, on the client that has it.
Undo(f) ==
  /\ flow[f].pc = "body" /\ flow[f].sp.on /\ ctx.client = f
  /\ conn' = [conn EXCEPT ![f] = Undone(f)]
  /\ flow' = [flow EXCEPT ![f].sp = NoSave, ![f].written = @ \cap flow[f].sp.kept]
  /\ UNCHANGED <<ctx, db, end, ran>>

\* RELEASE SAVEPOINT.
Release(f) ==
  /\ flow[f].pc = "body" /\ flow[f].sp.on
  /\ flow' = [flow EXCEPT ![f].sp = NoSave]
  /\ UNCHANGED <<ctx, conn, db, end, ran>>

\* db.afterCommit: a callback for after the transaction, or at once.
Defer(f) ==
  /\ flow[f].pc = "body" /\ ~flow[f].deferred
  /\ flow' = [flow EXCEPT ![f].deferred = TRUE]
  /\ IF ctx.inTransaction
     THEN ctx' = [ctx EXCEPT !.afterCommit = @ \cup {f}] /\ UNCHANGED ran
     ELSE ran' = ran \cup {<<f, end[f]>>} /\ UNCHANGED ctx
  /\ UNCHANGED <<conn, db, end>>

\* f returns or throws: COMMIT or ROLLBACK on the client of the transaction.
Close(f, how) ==
  /\ flow[f].pc = "body" /\ ~flow[f].sp.on
  /\ end' = [end EXCEPT ![f] = how]
  /\ db' = IF how = "committed" THEN db \cup conn[f] ELSE db
  /\ conn' = [conn EXCEPT ![f] = {}]
  /\ Goto(f, "finally")
  /\ UNCHANGED <<ctx, ran>>

\* Mutant of Cleared: the queue is left in the context.
ClearedNot(c) == [c EXCEPT !.client = None, !.inTransaction = FALSE]
Cleared(c) == [client |-> None, inTransaction |-> FALSE, afterCommit |-> {}]

\* The finally block: the context is cleared, the callbacks are taken from it
\* and dropped unless this transaction was committed.
Finally(f) ==
  /\ flow[f].pc = "finally"
  /\ ctx' = Cleared(ctx)
  /\ flow' = [flow EXCEPT ![f].pc = "callbacks",
                          ![f].queue = IF end[f] = "committed" THEN ctx.afterCommit ELSE {}]
  /\ UNCHANGED <<conn, db, end, ran>>

\* runAfterCommit, one callback after the other.
Callback(f) ==
  /\ flow[f].pc = "callbacks"
  /\ \E g \in flow[f].queue :
       /\ flow' = [flow EXCEPT ![f].queue = @ \ {g}]
       /\ ran' = ran \cup {<<g, end[g]>>}
  /\ UNCHANGED <<ctx, conn, db, end>>

Return(f) ==
  /\ flow[f].pc = "callbacks" /\ flow[f].queue = {}
  /\ Goto(f, "end")
  /\ UNCHANGED <<ctx, conn, db, end, ran>>

-------------------------------------------------------------------------------
Next == \E f \in Flows :
          \/ Begin(f) \/ Spawn(f) \/ Poll(f) \/ GiveUp(f) \/ Client(f)
          \/ BeginFails(f) \/ Write(f) \/ Save(f) \/ Undo(f) \/ Release(f) \/ Defer(f)
          \/ Close(f, "committed") \/ Close(f, "rolled back")
          \/ Finally(f) \/ Callback(f) \/ Return(f)

Spec == Init /\ [][Next]_vars

-------------------------------------------------------------------------------
TypeOK ==
  /\ ctx \in [client : Flows \cup {None}, inTransaction : BOOLEAN, afterCommit : SUBSET Flows]
  /\ flow \in [Flows -> [pc : {"idle", "poll", "client", "failed", "body", "finally",
                               "callbacks", "end"},
                         n : 0..MaxWrites, written : SUBSET Writes, deferred : BOOLEAN,
                         sp : [on : BOOLEAN, kept : SUBSET Writes], queue : SUBSET Flows]]
  /\ conn \in [Flows -> SUBSET Writes]
  /\ db \in SUBSET Writes
  /\ end \in [Flows -> {"open", "committed", "rolled back"}]
  /\ ran \in SUBSET (Flows \X {"open", "committed", "rolled back"})

Own(f) == {w \in db : w[1] = f}

\* The statements of a transaction are committed by its own COMMIT, all of
\* them but those a savepoint undid, and never before or without it
\* (withTransaction, tryCatchInTransaction).
WritesFollow == \A f \in Flows :
  Own(f) = IF end[f] = "committed" THEN flow[f].written ELSE {}

\* What is deferred to after the commit of a transaction runs when it has been
\* committed, and is dropped on its rollback ("Run work after COMMIT ...
\* Dropped on rollback", afterCommit).
CallbacksFollow == \A f \in Flows :
  /\ \A how \in {"open", "rolled back"} : <<f, how>> \notin ran
  /\ flow[f].pc = "end" /\ flow[f].deferred /\ end[f] = "committed" => <<f, "committed">> \in ran

===============================================================================
