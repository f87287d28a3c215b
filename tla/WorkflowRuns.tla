---------------------------- MODULE WorkflowRuns ----------------------------
(***************************************************************************)
(* The life of workflow runs in a running server: the rows of              *)
(* _sc_workflow_runs, the calls of WorkflowRun.run() that execute them     *)
(* (packages/saltcorn-data/models/workflow_run.ts), the scheduler that     *)
(* resumes paused runs (scheduler.ts, getResumableWorkflows,               *)
(* runResumableWorkflows), the requests that answer forms                  *)
(* (server/routes/actions.ts), the timers of background steps, and the     *)
(* per-process flag state.waitingWorkflows (db/state.ts).                  *)
(*                                                                         *)
(* A call works on an object read from the row: it has its own copy of the *)
(* status, the current step and the wait_info, and never reads them again. *)
(* Its writes go to the row, at once or when the transaction it runs in    *)
(* commits.  The steps of a workflow form a sequence here; ForLoop,        *)
(* next_step expressions, error handlers and sub-workflows are left out.   *)
(***************************************************************************)
EXTENDS Naturals, Sequences, FiniteSets

CONSTANTS
  Runs,         \* the runs
  Program,      \* Program[r]: the kinds of the steps of run r
  Procs,        \* operating system processes of the server
  Primary,      \* the process whose runScheduler loop is active
  RequestProcs, \* the processes that serve requests
  Slots,        \* concurrent calls of run() outside the scheduler, a bound
  Users,        \* whether requests come with a user: a subset of BOOLEAN
  SchedSlot,    \* the call made by the scheduler loop
  TriggerRuns,  \* the runs started by scheduled triggers, not by requests
  LateAnswers,  \* a form may be submitted again after it was answered
  CanDelete,    \* runs may be deleted by hand or pruned
  MaxCrashes,   \* bound on crashes of processes
  NoRow

Kinds == {"Action", "Directive", "UserForm", "Output", "WaitUntil",
          "WaitNextTick", "Background"}
WaitKinds == Kinds \ {"Action", "Directive"}

ASSUME RunsAssumption ==
  /\ Runs # {}
  /\ Program \in [Runs -> Seq(Kinds)]
  /\ \A r \in Runs : Len(Program[r]) > 0
  /\ Primary \in Procs
  /\ RequestProcs \subseteq Procs
  /\ SchedSlot \notin Slots
  /\ Users \subseteq BOOLEAN
  /\ TriggerRuns \subseteq Runs
  /\ LateAnswers \in BOOLEAN
  /\ CanDelete \in BOOLEAN
  /\ MaxCrashes \in Nat

Statuses == {"Pending", "Running", "Waiting", "Finished", "Error"}

(* wait_info: "form" and "output" for an unread form or message,           *)
(* "answered" once provide_form_input has cleared them, "until" for        *)
(* until_time, "tick" for the empty object of WaitNextTick.                *)
Waits == {"none", "form", "output", "answered", "until", "tick"}

Row == [status : Statuses, pos : Nat, wait : Waits]

ASSUME NoRowAssumption == NoRow \notin Row

VARIABLES
  row,        \* committed rows of _sc_workflow_runs
  exec,       \* the calls in progress, see Exec
  started,    \* the runs that were created
  flag,       \* flag[p]: state.waitingWorkflows of process p
  timers,     \* pending setTimeout callbacks of Background steps
  sched,      \* the tick in progress: what it read and has still to run
  due,        \* the <<run, step>> whose until_time has passed
  handed,     \* runs whose client was told to call resume-workflow
  crashes,    \* number of crashes so far
  ran,        \* history: how often the body of an action step took effect
  answered,   \* history: the forms and messages a user answered
  passed      \* history: the pauses a call went past

vars == <<row, exec, started, flag, timers, sched, due, handed, crashes,
          ran, answered, passed>>
hist == <<ran, answered, passed>>

AllSlots == Slots \union {SchedSlot}
Steps(r) == 1..Len(Program[r])

PCs == {"idle", "input", "mark", "enter", "body", "park", "flag", "advance",
        "commit"}

(* mem: the object's own status, step and wait_info; ful: waiting_fulfilled *)
(* user: run() was given a user; inter: interactive; tx: inside            *)
(* withTransaction, with pend the version of the row and eff the actions   *)
(* that commit with it.                                                    *)
Exec == [pc : PCs, proc : Procs, run : Runs, user : BOOLEAN, inter : BOOLEAN,
         tx : BOOLEAN, mem : Row, ful : BOOLEAN, pend : Row \union {NoRow},
         eff : SUBSET Nat]

Fresh == [status |-> "Pending", pos |-> 1, wait |-> "none"]

Idle == [pc |-> "idle", proc |-> Primary, run |-> CHOOSE r \in Runs : TRUE,
         user |-> FALSE, inter |-> FALSE, tx |-> FALSE, mem |-> Fresh,
         ful |-> FALSE, pend |-> NoRow, eff |-> {}]

Init ==
  /\ row = [r \in Runs |-> NoRow]
  /\ exec = [e \in AllSlots |-> Idle]
  /\ started = {}
  /\ flag = [p \in Procs |-> TRUE]
  /\ timers = {}
  /\ sched = [pc |-> "idle", queue |-> {}]
  /\ due = {}
  /\ handed = {}
  /\ crashes = 0
  /\ ran = [r \in Runs |-> [i \in Steps(r) |-> 0]]
  /\ answered = [r \in Runs |-> {}]
  /\ passed = [r \in Runs |-> {}]

-----------------------------------------------------------------------------
(* Database.  An UPDATE waits for another transaction that has changed the *)
(* row, changes some columns of the newest version, and does nothing when  *)
(* there is no row (deleted, or inserted by an open transaction).          *)

Current(e) ==
  IF exec[e].pend # NoRow THEN exec[e].pend ELSE row[exec[e].run]

LockedBy(e, r) == exec[e].tx /\ exec[e].run = r /\ exec[e].pend # NoRow

Writable(e) ==
  \A f \in AllSlots \ {e} :
    LockedBy(f, exec[e].run) => row[exec[e].run] = NoRow

SetStatus(x, s) == IF x = NoRow THEN NoRow ELSE [x EXCEPT !.status = s]
SetPos(x, i) == IF x = NoRow THEN NoRow ELSE [x EXCEPT !.pos = i]
SetWait(x, w) == IF x = NoRow THEN NoRow ELSE [x EXCEPT !.wait = w]

(* Call e stores the version v of its row and goes on as x.                *)
Store(e, v, x) ==
  /\ Writable(e)
  /\ IF exec[e].tx
     THEN exec' = [exec EXCEPT ![e] = [x EXCEPT !.pend = v]] /\ UNCHANGED row
     ELSE exec' = [exec EXCEPT ![e] = x] /\ row' = [row EXCEPT ![exec[e].run] = v]

(* The call that executed as x returns; a transaction has still to commit. *)
Over(x) == IF x.tx THEN [x EXCEPT !.pc = "commit"] ELSE Idle

(* Mutant of HandOver: the client of a run that waits is told to resume it. *)
HandOverAlways(x) == handed' = handed \union {x.run}

(* A call returns with its run still Running only after a return directive *)
(* (popReturnDirectives): the client is told to call resume-workflow.      *)
HandOver(x) ==
  handed' = IF x.mem.status = "Running" THEN handed \union {x.run} ELSE handed

Kind(x) == Program[x.run][x.mem.pos]

Capped(n) == IF n < 2 THEN n + 1 ELSE n

-----------------------------------------------------------------------------
(* Calling run() on an object m of run r, in process p: runInner up to the *)
(* loop.  A run that has ended, or whose wait is not fulfilled, is left    *)
(* alone.                                                                  *)

(* Mutant of Fulfilled: until_time is not looked at.                       *)
FulfilledAtOnce(r, m) == m.wait # "form"

Fulfilled(r, m) ==
  /\ m.wait # "form"
  /\ m.wait = "until" => <<r, m.pos>> \in due

Runnable(r, m) ==
  \/ m.status \in {"Pending", "Running"}
  \/ m.status = "Waiting" /\ Fulfilled(r, m)

Invoke(x) ==
  IF Runnable(x.run, x.mem)
  THEN [x EXCEPT !.pc = "mark", !.ful = x.mem.status = "Waiting"]
  ELSE Over(x)

Object(p, r, m, u) ==
  [Idle EXCEPT !.proc = p, !.run = r, !.mem = m, !.user = u]

(* A request runs the trigger of a workflow: the run is created and called.*)
Start(e, p, r) ==
  /\ exec[e] = Idle
  /\ r \notin started \union TriggerRuns
  /\ started' = started \union {r}
  /\ \E u \in Users, t \in BOOLEAN :
       LET x == [Object(p, r, Fresh, u) EXCEPT !.inter = TRUE, !.tx = t]
       IN IF t
          THEN /\ exec' = [exec EXCEPT ![e] = [Invoke(x) EXCEPT !.pend = Fresh]]
               /\ UNCHANGED row
          ELSE /\ exec' = [exec EXCEPT ![e] = Invoke(x)]
               /\ row' = [row EXCEPT ![r] = Fresh]
  /\ UNCHANGED <<flag, timers, sched, due, handed, crashes, hist>>

(* The scheduler runs a trigger that is due, as the user with role 1, in a *)
(* transaction.                                                            *)
StartScheduled(r) ==
  /\ sched.pc = "idle" /\ exec[SchedSlot] = Idle
  /\ r \in TriggerRuns \ started
  /\ started' = started \union {r}
  /\ LET x == [Object(Primary, r, Fresh, TRUE) EXCEPT !.tx = TRUE]
     IN exec' = [exec EXCEPT ![SchedSlot] = [Invoke(x) EXCEPT !.pend = Fresh]]
  /\ UNCHANGED <<row, flag, timers, sched, due, handed, crashes, hist>>

(* POST fill-workflow-form: the run is loaded, the form is validated, ...  *)
(* The request does not look at the run's status.  The page with the form  *)
(* is there while the run asks, and may be submitted again later.          *)
FillForm(e, p, r) ==
  /\ exec[e] = Idle
  /\ row[r] # NoRow
  /\ \/ row[r].status = "Waiting" /\ row[r].wait \in {"form", "output"}
     \/ LateAnswers /\ answered[r] # {}
  /\ \E u \in Users :
       exec' = [exec EXCEPT ![e] =
                  [Object(p, r, row[r], u) EXCEPT !.pc = "input", !.inter = TRUE]]
  /\ UNCHANGED <<row, started, flag, timers, sched, due, handed, crashes, hist>>

(* wait_info.form and wait_info.output are cleared, until_time stays.      *)
Cleared(w) == IF w \in {"form", "output"} THEN "answered" ELSE w

(* Mutant of ProvideInput: the answer is stored, run() is not called.      *)
ProvideInputOnly(e) ==
  /\ exec[e].pc = "input"
  /\ Store(e, SetWait(Current(e), Cleared(exec[e].mem.wait)), Idle)
  /\ answered' = [answered EXCEPT ![exec[e].run] = @ \union {exec[e].mem.pos}]
  /\ UNCHANGED <<started, flag, timers, sched, due, handed, crashes, ran,
                 passed>>

(* ... provide_form_input writes the wait_info of the object, and run() is *)
(* called.                                                                 *)
ProvideInput(e) ==
  /\ exec[e].pc = "input"
  /\ LET x == [exec[e] EXCEPT !.mem.wait = Cleared(@)]
     IN /\ Store(e, SetWait(Current(e), x.mem.wait), Invoke(x))
        /\ answered' = [answered EXCEPT ![x.run] = @ \union {x.mem.pos}]
  /\ UNCHANGED <<started, flag, timers, sched, due, handed, crashes, ran,
                 passed>>

(* POST resume-workflow, by the client that was told to.                   *)
Resume(e, p, r) ==
  /\ exec[e] = Idle
  /\ r \in handed /\ row[r] # NoRow
  /\ handed' = handed \ {r}
  /\ \E u \in Users :
       exec' = [exec EXCEPT ![e] =
                  Invoke([Object(p, r, row[r], u) EXCEPT !.inter = TRUE])]
  /\ UNCHANGED <<row, started, flag, timers, sched, due, crashes, hist>>

-----------------------------------------------------------------------------
(* The loop of runInner.                                                   *)

(* status becomes Running, unless the object says that it is already.      *)
Mark(e) ==
  /\ exec[e].pc = "mark"
  /\ LET x == [exec[e] EXCEPT !.pc = "enter", !.mem.status = "Running"]
     IN IF exec[e].mem.status = "Running"
        THEN exec' = [exec EXCEPT ![e] = x] /\ UNCHANGED row
        ELSE Store(e, SetStatus(Current(e), "Running"), x)
  /\ UNCHANGED <<started, flag, timers, sched, due, handed, crashes, hist>>

(* The current step is written at the top of every iteration.              *)
Enter(e) ==
  /\ exec[e].pc = "enter"
  /\ Store(e, SetPos(Current(e), exec[e].mem.pos),
           [exec[e] EXCEPT !.pc = "body"])
  /\ UNCHANGED <<started, flag, timers, sched, due, handed, crashes, hist>>

(* waiting_fulfilled: whatever the step is, its body is not executed.      *)
PassWait(e) ==
  /\ exec[e].pc = "body" /\ exec[e].ful
  /\ exec' = [exec EXCEPT ![e] = [@ EXCEPT !.pc = "advance", !.ful = FALSE]]
  /\ passed' = [passed EXCEPT ![exec[e].run] = @ \union {exec[e].mem.pos}]
  /\ UNCHANGED <<row, started, flag, timers, sched, due, handed, crashes, ran,
                 answered>>

(* Mutant of DoAction: the step is executed with or without a user.        *)
DoActionForAll(e) ==
  LET x == exec[e] IN
  /\ x.pc = "body" /\ ~x.ful /\ Kind(x) \notin WaitKinds
  /\ exec' = [exec EXCEPT ![e] =
                [x EXCEPT !.pc = "advance",
                          !.eff = IF x.tx THEN @ \union {x.mem.pos} ELSE @]]
  /\ ran' = IF x.tx THEN ran ELSE [ran EXCEPT ![x.run][x.mem.pos] = Capped(@)]
  /\ UNCHANGED <<row, started, flag, timers, sched, due, handed, crashes,
                 answered, passed>>

(* The body of an action step, which is executed only if there is a user.  *)
DoAction(e) ==
  LET x == exec[e] IN
  /\ x.pc = "body" /\ ~x.ful /\ Kind(x) \notin WaitKinds
  /\ exec' = [exec EXCEPT ![e] =
                [x EXCEPT !.pc = "advance",
                          !.eff = IF x.user /\ x.tx THEN @ \union {x.mem.pos}
                                  ELSE @]]
  /\ ran' = IF x.user /\ ~x.tx
            THEN [ran EXCEPT ![x.run][x.mem.pos] = Capped(@)] ELSE ran
  /\ UNCHANGED <<row, started, flag, timers, sched, due, handed, crashes,
                 answered, passed>>

(* The body of a step throws: the run is marked as failed (markAsError).   *)
Fail(e) ==
  LET x == [exec[e] EXCEPT !.mem.status = "Error"] IN
  /\ x.pc = "body" /\ ~x.ful /\ x.user /\ Kind(x) \notin WaitKinds
  /\ Store(e, SetStatus(Current(e), "Error"), Over(x))
  /\ UNCHANGED <<started, flag, timers, sched, due, handed, crashes, hist>>

WaitOf(kind) ==
  CASE kind = "UserForm" -> "form"
    [] kind = "Output" -> "output"
    [] kind = "WaitUntil" -> "until"
    [] OTHER -> "tick"

(* A pause: status and wait_info are written.  WaitUntil has raised the    *)
(* flag before (Announce), WaitNextTick raises it afterwards (Flag), and   *)
(* a background step leaves a timer holding the object.                    *)
Announce(e) ==
  /\ exec[e].pc = "body" /\ ~exec[e].ful /\ Kind(exec[e]) = "WaitUntil"
  /\ flag' = [flag EXCEPT ![exec[e].proc] = TRUE]
  /\ exec' = [exec EXCEPT ![e].pc = "park"]
  /\ UNCHANGED <<row, started, timers, sched, due, handed, crashes, hist>>

(* Mutants of Park: wait_info is forgotten; the loop is not left (no       *)
(* do_break).                                                              *)
ParkBlank(e) ==
  LET k == Kind(exec[e])
      x == [exec[e] EXCEPT !.mem.status = "Waiting"]
  IN
  /\ x.pc = "body" /\ ~x.ful /\ k \in WaitKinds
  /\ Store(e, SetStatus(Current(e), "Waiting"), Over(x))
  /\ UNCHANGED <<started, flag, timers, sched, due, handed, crashes, hist>>

ParkOn(e) ==
  LET k == Kind(exec[e])
      w == WaitOf(k)
      x == [exec[e] EXCEPT !.mem.status = "Waiting", !.mem.wait = w, !.pc = "enter"]
  IN
  /\ exec[e].pc \in {"body", "park"} /\ ~x.ful /\ k \in WaitKinds
  /\ Store(e, SetWait(SetStatus(Current(e), "Waiting"), w), x)
  /\ UNCHANGED <<started, flag, timers, sched, due, handed, crashes, hist>>

Park(e) ==
  LET k == Kind(exec[e])
      w == WaitOf(k)
      x == [exec[e] EXCEPT !.mem.status = "Waiting", !.mem.wait = w]
  IN
  /\ IF k = "WaitUntil" THEN x.pc = "park" ELSE x.pc = "body" /\ ~x.ful
  /\ k \in WaitKinds
  /\ Store(e, SetWait(SetStatus(Current(e), "Waiting"), w),
           IF k = "WaitNextTick" THEN [x EXCEPT !.pc = "flag"] ELSE Over(x))
  /\ timers' = IF k # "Background" THEN timers
               ELSE timers \union {[proc |-> x.proc, run |-> x.run,
                                    mem |-> x.mem, user |-> x.user]}
  /\ UNCHANGED <<started, flag, sched, due, handed, crashes, hist>>

Flag(e) ==
  /\ exec[e].pc = "flag"
  /\ flag' = [flag EXCEPT ![exec[e].proc] = TRUE]
  /\ exec' = [exec EXCEPT ![e] = Over(@)]
  /\ UNCHANGED <<row, started, timers, sched, due, handed, crashes, hist>>

(* Mutant of Advance: the end of the workflow is noticed one step late.    *)
AdvanceLate(e) ==
  LET x == exec[e]
      last == x.mem.pos > Len(Program[x.run])
      y == IF last THEN [x EXCEPT !.mem.status = "Finished"]
           ELSE [x EXCEPT !.pc = "enter", !.mem.pos = @ + 1]
  IN
  /\ x.pc = "advance"
  /\ Store(e, IF last THEN SetStatus(Current(e), "Finished")
              ELSE SetPos(Current(e), y.mem.pos),
           IF last THEN Over(y) ELSE y)
  /\ UNCHANGED <<started, flag, timers, sched, due, handed, crashes, hist>>

(* The next step, or the end of the run, is written.  A return directive   *)
(* is given to the client of an interactive call, which returns.           *)
Advance(e) ==
  LET x == exec[e]
      last == x.mem.pos = Len(Program[x.run])
      y == IF last THEN [x EXCEPT !.mem.status = "Finished"]
           ELSE [x EXCEPT !.pc = "enter", !.mem.pos = @ + 1]
      gives == x.inter /\ x.user /\ Kind(x) = "Directive"
  IN
  /\ x.pc = "advance"
  /\ Store(e, IF last THEN SetStatus(Current(e), "Finished")
              ELSE SetPos(Current(e), y.mem.pos),
           IF last \/ gives THEN Over(y) ELSE y)
  /\ IF gives /\ ~x.tx THEN HandOver(y) ELSE UNCHANGED handed
  /\ UNCHANGED <<started, flag, timers, sched, due, crashes, hist>>

(* COMMIT: the row and the effects of the transaction become visible.      *)
Commit(e) ==
  LET x == exec[e] IN
  /\ x.pc = "commit"
  /\ exec' = [exec EXCEPT ![e] = Idle]
  /\ row' = IF x.pend = NoRow THEN row ELSE [row EXCEPT ![x.run] = x.pend]
  /\ ran' = [ran EXCEPT ![x.run] =
               [i \in Steps(x.run) |-> IF i \in x.eff THEN Capped(@[i]) ELSE @[i]]]
  /\ HandOver(x)
  /\ UNCHANGED <<started, flag, timers, sched, due, crashes, answered, passed>>

-----------------------------------------------------------------------------
(* The scheduler: getResumableWorkflows and runResumableWorkflows.         *)

(* The rows that wait are read, if the flag of this process is set.        *)
Tick ==
  /\ sched.pc = "idle" /\ exec[SchedSlot] = Idle
  /\ flag[Primary]
  /\ sched' = [pc |-> "filter",
               queue |-> {[run |-> r, mem |-> row[r]] :
                            r \in {s \in Runs : row[s] # NoRow
                                                /\ row[s].status = "Waiting"}}]
  /\ UNCHANGED <<row, exec, started, flag, timers, due, handed, crashes, hist>>

(* None but unanswered forms: the flag is lowered.                         *)
Filter ==
  LET cand == {o \in sched.queue : o.mem.wait # "form"} IN
  /\ sched.pc = "filter"
  /\ flag' = IF cand = {} THEN [flag EXCEPT ![Primary] = FALSE] ELSE flag
  /\ sched' = IF cand = {} THEN [pc |-> "idle", queue |-> {}]
              ELSE [pc |-> "loop",
                    queue |-> {o \in cand : Fulfilled(o.run, o.mem)}]
  /\ UNCHANGED <<row, exec, started, timers, due, handed, crashes, hist>>

(* The objects read are run one after another, each in a transaction, and  *)
(* without a user.                                                         *)
RunNext ==
  /\ sched.pc = "loop" /\ exec[SchedSlot] = Idle
  /\ \E o \in sched.queue :
       /\ sched' = [sched EXCEPT !.queue = @ \ {o}]
       /\ exec' = [exec EXCEPT ![SchedSlot] =
             Invoke([Object(Primary, o.run, o.mem, FALSE) EXCEPT !.tx = TRUE])]
  /\ UNCHANGED <<row, started, flag, timers, due, handed, crashes, hist>>

EndTick ==
  /\ sched.pc = "loop" /\ sched.queue = {} /\ exec[SchedSlot] = Idle
  /\ sched' = [pc |-> "idle", queue |-> {}]
  /\ UNCHANGED <<row, exec, started, flag, timers, due, handed, crashes, hist>>

-----------------------------------------------------------------------------
(* Timers, time, deletion, crashes.                                        *)

(* The callback of a background step calls run() on the object that parked.*)
TimerFires(e) ==
  /\ exec[e] = Idle
  /\ \E tm \in timers :
       /\ timers' = timers \ {tm}
       /\ exec' = [exec EXCEPT ![e] =
             Invoke([Object(tm.proc, tm.run, tm.mem, tm.user) EXCEPT !.tx = TRUE])]
  /\ UNCHANGED <<row, started, flag, sched, due, handed, crashes, hist>>

TimePasses(r) ==
  /\ row[r] # NoRow /\ row[r].status = "Waiting" /\ row[r].wait = "until"
  /\ due' = due \union {<<r, row[r].pos>>}
  /\ due' # due
  /\ UNCHANGED <<row, exec, started, flag, timers, sched, handed, crashes, hist>>

(* delete-run or prune.  It waits for a transaction that changed the row.  *)
Delete(r) ==
  /\ CanDelete
  /\ row[r] # NoRow
  /\ \A e \in AllSlots : ~LockedBy(e, r)
  /\ row' = [row EXCEPT ![r] = NoRow]
  /\ UNCHANGED <<exec, started, flag, timers, sched, due, handed, crashes, hist>>

(* Mutant of Crash: the flag of a new process is FALSE.                    *)
CrashUnflagged(p) ==
  LET down == IF p = Primary THEN Procs ELSE {p} IN
  /\ crashes < MaxCrashes
  /\ crashes' = crashes + 1
  /\ exec' = [e \in AllSlots |-> IF exec[e].proc \in down THEN Idle ELSE exec[e]]
  /\ timers' = {tm \in timers : tm.proc \notin down}
  /\ flag' = [q \in Procs |-> flag[q] /\ q \notin down]
  /\ sched' = IF p = Primary THEN [pc |-> "idle", queue |-> {}] ELSE sched
  /\ UNCHANGED <<row, started, due, handed, hist>>

(* The primary takes its workers with it.  Transactions roll back; calls,  *)
(* timers and the scheduler's tick are lost; the flag starts as TRUE.      *)
Crash(p) ==
  LET down == IF p = Primary THEN Procs ELSE {p} IN
  /\ crashes < MaxCrashes
  /\ crashes' = crashes + 1
  /\ exec' = [e \in AllSlots |-> IF exec[e].proc \in down THEN Idle ELSE exec[e]]
  /\ timers' = {tm \in timers : tm.proc \notin down}
  /\ flag' = [q \in Procs |-> flag[q] \/ q \in down]
  /\ sched' = IF p = Primary THEN [pc |-> "idle", queue |-> {}] ELSE sched
  /\ UNCHANGED <<row, started, due, handed, hist>>

CallStep(e) ==
  \/ ProvideInput(e) \/ Mark(e) \/ Enter(e) \/ PassWait(e) \/ DoAction(e)
  \/ Fail(e) \/ Announce(e) \/ Park(e) \/ Flag(e) \/ Advance(e) \/ Commit(e)

Next ==
  \/ \E e \in Slots :
       \/ \E p \in RequestProcs, r \in Runs :
            Start(e, p, r) \/ FillForm(e, p, r) \/ Resume(e, p, r)
       \/ TimerFires(e)
  \/ \E e \in AllSlots : CallStep(e)
  \/ \E r \in Runs : StartScheduled(r) \/ TimePasses(r) \/ Delete(r)
  \/ Tick \/ Filter \/ RunNext \/ EndTick
  \/ \E p \in Procs : Crash(p)

(* Calls go on, statements return, the scheduler ticks and time passes.    *)
(* Users need not answer and clients need not resume.                      *)
Fairness ==
  /\ \A e \in AllSlots : WF_vars(CallStep(e))
  /\ WF_vars(Tick) /\ WF_vars(Filter) /\ WF_vars(RunNext) /\ WF_vars(EndTick)
  /\ \A r \in Runs : WF_vars(TimePasses(r))

Spec == Init /\ [][Next]_vars /\ Fairness

-----------------------------------------------------------------------------
(* Types; and every copy of a row is at a step that its workflow has.      *)
ObjectOK(r, m) == m \in Row /\ m.pos \in Steps(r)
RowOK(r, v) == v = NoRow \/ ObjectOK(r, v)
CallOK(x) == x \in Exec /\ ObjectOK(x.run, x.mem) /\ RowOK(x.run, x.pend)

Callbacks == [proc : Procs, run : Runs, mem : Row, user : BOOLEAN]
Objects == [run : Runs, mem : Row]

TypeOK ==
  /\ row \in [Runs -> Row \union {NoRow}]
  /\ \A r \in Runs : RowOK(r, row[r])
  /\ exec \in [AllSlots -> Exec]
  /\ \A e \in AllSlots : CallOK(exec[e])
  /\ started \subseteq Runs
  /\ flag \in [Procs -> BOOLEAN]
  /\ timers \subseteq Callbacks
  /\ \A tm \in timers : ObjectOK(tm.run, tm.mem)
  /\ sched \in [pc : {"idle", "filter", "loop"}, queue : SUBSET Objects]
  /\ \A o \in sched.queue : ObjectOK(o.run, o.mem)
  /\ due \subseteq Runs \X Nat
  /\ handed \subseteq Runs
  /\ crashes \in 0..MaxCrashes
  /\ DOMAIN ran = Runs /\ \A r \in Runs : ran[r] \in [Steps(r) -> 0..2]
  /\ answered \in [Runs -> SUBSET Nat]
  /\ passed \in [Runs -> SUBSET Nat]

PassedOf(r, kind) == {i \in passed[r] : Program[r][i] = kind}

(* A call goes past a form only after a user has answered it: "Ask a user  *)
(* one or more questions, pause until they are answered".                  *)
FormsAnswered == \A r \in Runs : PassedOf(r, "UserForm") \subseteq answered[r]

(* A call goes past WaitUntil only when the time has come, however stale   *)
(* the object it works on.                                                 *)
UntilReached ==
  \A r \in Runs : \A i \in PassedOf(r, "WaitUntil") : <<r, i>> \in due

(* No step of a run takes effect twice, whatever is crashed, resumed or    *)
(* retried.                                                                *)
AtMostOnce == \A r \in Runs : \A i \in Steps(r) : ran[r][i] <= 1

(* At most one call at a time executes the steps of a run.                 *)
Executing(e) == exec[e].pc \in {"mark", "enter", "body", "park", "advance"}
SingleExecutor ==
  \A d, e \in AllSlots :
    Executing(d) /\ Executing(e) /\ exec[d].run = exec[e].run => d = e

(* A run that has ended does not come back to life.                        *)
Ended(x) == x # NoRow /\ x.status \in {"Finished", "Error"}
EndIsFinal ==
  [][\A r \in Runs : Ended(row[r]) => row'[r] \in {row[r], NoRow}]_vars

(* A run is Finished only when each of its action steps was executed.      *)
StepsRun ==
  \A r \in Runs :
    row[r] # NoRow /\ row[r].status = "Finished" =>
      \A i \in Steps(r) : Program[r][i] \notin WaitKinds => ran[r][i] > 0

(* An answer is taken up: the run does not stay at the form or message     *)
(* that a user has answered, unless the process crashes before it goes on. *)
Answered(r) ==
  row[r] # NoRow /\ row[r].status = "Waiting" /\ row[r].wait = "answered"
AnswersTaken == \A r \in Runs : Answered(r) ~> ~Answered(r) \/ crashes > 0

(* A run that waits for the scheduler is resumed: "Pause until the next    *)
(* scheduler invocation (at most 5 minutes)".                              *)
Paused(r) ==
  row[r] # NoRow /\ row[r].status = "Waiting" /\ row[r].wait \in {"tick", "until"}
Resumes == \A r \in Runs : Paused(r) ~> ~Paused(r)

(* The same for the runs that a scheduled trigger starts: they are parked  *)
(* by the scheduler's own calls.                                           *)
ScheduledResumes == \A r \in TriggerRuns : Paused(r) ~> ~Paused(r)

=============================================================================
