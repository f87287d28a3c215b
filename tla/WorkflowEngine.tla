---------------------------- MODULE WorkflowEngine ----------------------------
(***************************************************************************)
(* How WorkflowRun.runInner walks through the steps of a workflow          *)
(* (packages/saltcorn-data/models/workflow_run.ts): current_step as a      *)
(* stack of steps and item indices, ForLoop, SetErrorHandler, pauses and   *)
(* return directives, which end a call in the middle of a loop.  Calls of  *)
(* one run that overlap, and what fulfils a pause, are in WorkflowRuns;    *)
(* here a run has one call at a time, made with a user.  A step names at   *)
(* most one next step, array_expression has the same value each time, and  *)
(* an action either succeeds or throws.  Sub-workflows are left out.       *)
(***************************************************************************)
EXTENDS Integers, Sequences, SequencesExt

CONSTANTS Programs,    \* workflows, see Step; the first step is step 1
          Handler,     \* the step that SetErrorHandler names; it is the last
                       \* of its chain
          MaxCrashes   \* bound: transactions of a call that are lost

Step == [kind : {"Action", "SetErrorHandler", "Throws", "Pause", "Directive", "Stop", "ForLoop"},
         next : Nat,   \* 0: none
         body : Nat,   \* loop_body_initial_step
         len : Nat]    \* of the array

ASSUME ProgramsAssumption ==
  /\ MaxCrashes \in Nat /\ Handler \in Nat \ {0}
  /\ \A p \in Programs : p \in Seq(Step) /\ Handler \notin DOMAIN p

VARIABLES prog,    \* the workflow
          row,     \* the row of the run, as the connection of the call sees it
          kept,    \* the row as it was when the transaction began
          obj,     \* this: the WorkflowRun object of the call
          call,    \* step: the local variable; tx: in a transaction; inter:
                   \* interactive; fulfilled: waiting_fulfilled
          crashes

vars == <<prog, row, kept, obj, call, crashes>>

NoCall == [on |-> FALSE, tx |-> FALSE, inter |-> FALSE, step |-> 0, fulfilled |-> FALSE]
NoItem == -1
NoRun == [status |-> "Pending", stack |-> <<>>, item |-> <<>>, handler |-> FALSE]

\* log: history, the steps done by actions whose effect is in the database.
Init ==
  /\ prog \in Programs
  /\ obj = [NoRun EXCEPT !.item = [s \in DOMAIN prog |-> NoItem]]
  /\ row = [run |-> obj, log |-> <<>>]
  /\ kept = row
  /\ call = NoCall
  /\ crashes = 0

Ended == {"Finished", "Error"}
SetTop(stack, s) == IF stack = <<>> THEN <<s>> ELSE [stack EXCEPT ![Len(stack)] = s]
Kind(p, s) == IF s = Handler THEN "Action" ELSE p[s].kind
NextOf(p, s) == IF s = Handler THEN 0 ELSE p[s].next

\* The items of the loops around the step at the top of the stack.
Indices(stack) == [k \in 1..(Len(stack) \div 2) |-> stack[2 * k]]

-------------------------------------------------------------------------------
\* What runInner computes when the step s is done: the next step, and the run
\* with the stack and the loop variables that are written with it.
Go(o, s) == [step |-> s, run |-> [o EXCEPT !.stack = SetTop(@, s)]]
Finish(o) == [step |-> 0, run |-> [o EXCEPT !.status = "Finished"]]

\* Mutant of MoreItems: one item short.
MoreItemsShort(f, i) == i + 1 < prog[f].len - 1
MoreItems(f, i) == i < prog[f].len - 1

\* Mutant of NextItem: the loop variable is not written with the index.
NextItemStale(o, f, i) == Go([o EXCEPT !.stack[Len(o.stack) - 1] = i + 1], prog[f].body)
NextItem(o, f, i) ==
  Go([o EXCEPT !.stack[Len(o.stack) - 1] = i + 1, !.item[f] = i + 1], prog[f].body)

\* The loop is popped and its variable deleted.  When it has no next step the
\* run is finished, also inside of another loop.
LeaveLoop(o, f) ==
  LET out == [o EXCEPT !.stack = SubSeq(@, 1, Len(@) - 2), !.item[f] = NoItem]
  IN IF NextOf(prog, f) # 0 THEN Go(out, NextOf(prog, f)) ELSE Finish(out)

Advance(o, s) ==
  IF NextOf(prog, s) # 0 THEN Go(o, NextOf(prog, s))
  ELSE IF Len(o.stack) > 1
       THEN LET f == o.stack[Len(o.stack) - 2]
                i == o.stack[Len(o.stack) - 1]
            IN IF MoreItems(f, i) THEN NextItem(o, f, i) ELSE LeaveLoop(o, f)
       ELSE Finish(o)

\* The call goes on after an update of the row, or returns with it.
Continue(next, log) ==
  /\ obj' = next.run
  /\ row' = [run |-> next.run, log |-> log]
  /\ call' = IF next.step = 0 THEN NoCall ELSE [call EXCEPT !.step = next.step]

Return(run, log) ==
  /\ obj' = run
  /\ row' = [run |-> run, log |-> log]
  /\ call' = NoCall

Done(s) == Append(row.log, <<s, Indices(obj.stack)>>)

At(kinds) == call.on /\ Kind(prog, call.step) \in kinds
Skipped == {"Action", "SetErrorHandler", "Throws", "Pause", "Directive"}

-------------------------------------------------------------------------------
\* A request, the browser's resume-workflow or the scheduler calls run() on
\* the row; a run that waits is called when its pause is over.
Call(tx, inter) ==
  LET o == row.run
      s == IF o.stack = <<>> THEN 1 ELSE Last(o.stack)
      running == [o EXCEPT !.status = "Running", !.stack = SetTop(@, s)]
  IN
  /\ ~call.on /\ o.status \notin Ended
  /\ kept' = row
  /\ obj' = running
  /\ row' = [row EXCEPT !.run = running]
  /\ call' = [on |-> TRUE, tx |-> tx, inter |-> inter, step |-> s,
              fulfilled |-> o.status = "Waiting"]
  /\ UNCHANGED <<prog, crashes>>

Action ==
  /\ At({"Action", "SetErrorHandler"}) /\ ~call.fulfilled
  /\ LET o == IF Kind(prog, call.step) = "SetErrorHandler" THEN [obj EXCEPT !.handler = TRUE] ELSE obj
     IN Continue(Advance(o, call.step), Done(call.step))
  /\ UNCHANGED <<prog, kept, crashes>>

\* An action that returns a directive ends an interactive call when the row
\* already has the next step.
Directive ==
  /\ At({"Directive"}) /\ ~call.fulfilled
  /\ LET next == Advance(obj, call.step) IN
     IF call.inter THEN Return(next.run, Done(call.step)) ELSE Continue(next, Done(call.step))
  /\ UNCHANGED <<prog, kept, crashes>>

Pause ==
  /\ At({"Pause"}) /\ ~call.fulfilled
  /\ Return([obj EXCEPT !.status = "Waiting"], row.log)
  /\ UNCHANGED <<prog, kept, crashes>>

\* waiting_fulfilled: the body of the step is skipped, which is right for the
\* pause that was waited for and for nothing else.
Resumed ==
  /\ At(Skipped) /\ call.fulfilled
  /\ LET next == Advance(obj, call.step)
         log == IF Kind(prog, call.step) = "Pause" THEN Done(call.step) ELSE row.log
     IN /\ obj' = next.run
        /\ row' = [run |-> next.run, log |-> log]
        /\ call' = IF next.step = 0 THEN NoCall
                   ELSE [call EXCEPT !.step = next.step, !.fulfilled = FALSE]
  /\ UNCHANGED <<prog, kept, crashes>>

Stop ==
  /\ At({"Stop"})
  /\ Return([obj EXCEPT !.status = "Finished"], Done(call.step))
  /\ UNCHANGED <<prog, kept, crashes>>

ForLoop ==
  /\ At({"ForLoop"})
  /\ LET s == call.step IN
     Continue(IF prog[s].len = 0 THEN Advance(obj, s)
              ELSE [step |-> prog[s].body,
                    run |-> [obj EXCEPT !.stack = @ \o <<0, prog[s].body>>, !.item[s] = 0]],
              row.log)
  /\ UNCHANGED <<prog, kept, crashes>>

\* The step throws: its savepoint is rolled back, and the handler takes its
\* place at the top of the stack.
Throws ==
  /\ At({"Throws"}) /\ ~call.fulfilled
  /\ IF obj.handler THEN Continue(Go(obj, Handler), row.log)
                    ELSE Return([obj EXCEPT !.status = "Error"], row.log)
  /\ UNCHANGED <<prog, kept, crashes>>

\* The process dies, or the transaction around the call fails.
Crash ==
  /\ call.on /\ call.tx /\ crashes < MaxCrashes
  /\ crashes' = crashes + 1
  /\ row' = kept
  /\ call' = NoCall
  /\ UNCHANGED <<prog, kept, obj>>

Next == \/ \E tx, inter \in BOOLEAN : Call(tx, inter)
        \/ Action \/ Directive \/ Pause \/ Resumed \/ Stop \/ ForLoop \/ Throws
        \/ Crash

Spec == Init /\ [][Next]_vars

-------------------------------------------------------------------------------
\* The reference: the steps of a workflow as a structured program.  A point is
\* a step s, the items ix of the loops around it, the item i that s itself
\* has come to when it is a loop, and whether there is an error handler.
Points(p) == ({0, Handler} \cup DOMAIN p) \X Seq(Nat) \X Nat \X BOOLEAN

\* What is done from a point on: the steps, in order, and how it ends.
Outcomes == [log : Seq(Nat \X Seq(Nat)), handler : BOOLEAN, end : {"on", "Finished", "Error"}]
Nothing(h, end) == [log |-> <<>>, handler |-> h, end |-> end]

\* The outcome of one thing after another, and of a step before the rest.
Then(one, more) == IF one.end # "on" THEN one ELSE [more EXCEPT !.log = one.log \o @]
First(s, ix, more) == [more EXCEPT !.log = <<<<s, ix>>>> \o @]

\* What is done from a point on, when M says it of the points after it.
Unfold(p, M, s, ix, i, h) ==
  LET rest(g) == M[<<NextOf(p, s), ix, 0, g>>] IN
  IF s = 0 THEN Nothing(h, "on")
  ELSE CASE Kind(p, s) = "Stop"    -> First(s, ix, Nothing(h, "Finished"))
         [] Kind(p, s) = "Throws"  -> IF h THEN M[<<Handler, ix, 0, h>>] ELSE Nothing(h, "Error")
         [] Kind(p, s) = "ForLoop" ->
              IF i >= p[s].len THEN rest(h)
              ELSE LET one == M[<<p[s].body, Append(ix, i), 0, h>>]
                   IN Then(one, M[<<s, ix, i + 1, one.handler>>])
         [] OTHER -> First(s, ix, rest(h \/ Kind(p, s) = "SetErrorHandler"))

Meaning(p) ==
  LET M[x \in Points(p)] == Unfold(p, M, x[1], x[2], x[3], x[4]) IN M

\* The whole workflow, from its first step on.
Whole(p) == Meaning(p)[<<1, <<>>, 0, FALSE>>]

\* A workflow whose loops are nested: around[s] has the loops around the step
\* s, a step that follows another one is inside of the same loops, and the body
\* of a loop is inside of it as well.  Nobody checks what users build.
Nests(p, around) ==
  /\ around \in [DOMAIN p -> SUBSET DOMAIN p]
  /\ 1 \in DOMAIN p /\ around[1] = {}
  /\ \A s \in DOMAIN p :
       /\ p[s].next # 0 => p[s].next \in DOMAIN p /\ around[p[s].next] = around[s]
       /\ p[s].kind = "ForLoop" => /\ p[s].body \in DOMAIN p /\ s \notin around[s]
                                  /\ around[p[s].body] = around[s] \cup {s}

Nested(p) == \E around \in [DOMAIN p -> SUBSET DOMAIN p] : Nests(p, around)

\* And one that does not jump back, and in which a loop inside of a loop has a
\* step after it (see LeaveLoop).
Forward(p, around) == \A s \in DOMAIN p :
  /\ p[s].next # 0 => s < p[s].next
  /\ p[s].kind = "ForLoop" => s < p[s].body /\ (around[s] # {} => p[s].next # 0)

Structured(p) == \E around \in [DOMAIN p -> SUBSET DOMAIN p] : Nests(p, around) /\ Forward(p, around)

\* The run does the steps of the workflow for the items of the loops in their
\* order, each one once and none left out, wherever calls end and resume,
\* steps throw or transactions are lost (runInner).
InOrder ==
  LET m == Whole(prog)
      status == row.run.status
  IN /\ IsPrefix(row.log, m.log)
     /\ status \in Ended => row.log = m.log /\ (status = "Error" <=> m.end = "Error")

\* A call that resumes the run finds, for each loop on the stack, the item of
\* its index in the context (item_variable, index_variable).
ItemsMatch == LET o == row.run IN
  o.status \notin Ended =>
    \A k \in 1..(Len(o.stack) \div 2) : o.item[o.stack[2 * k - 1]] = o.stack[2 * k]

TypeOK ==
  /\ {obj, row.run, kept.run} \subseteq
       [status : Ended \cup {"Pending", "Running", "Waiting"}, stack : Seq(Nat),
        item : [DOMAIN prog -> Nat \cup {NoItem}], handler : BOOLEAN]
  /\ call \in [on : BOOLEAN, tx : BOOLEAN, inter : BOOLEAN, step : Nat, fulfilled : BOOLEAN]
  /\ crashes \in 0..MaxCrashes

===============================================================================
