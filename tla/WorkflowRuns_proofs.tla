------------------------ MODULE WorkflowRuns_proofs -------------------------
(***************************************************************************)
(* Proofs about WorkflowRuns for any set of runs, workflows, processes and *)
(* calls: the types; then RunsInv, which says that a run which no user has *)
(* answered is in one hand at a time; and, from it, the properties of runs *)
(* whose pauses are left to the scheduler or that ask one form.            *)
(***************************************************************************)
EXTENDS WorkflowRuns, TLAPS

(* The parts of TypeOK that every step disturbs or may disturb.            *)
RowsOK == row \in [Runs -> Row \union {NoRow}] /\ \A r \in Runs : RowOK(r, row[r])
CallsOK == exec \in [AllSlots -> Exec] /\ \A e \in AllSlots : CallOK(exec[e])
TimersOK == timers \subseteq Callbacks /\ \A tm \in timers : ObjectOK(tm.run, tm.mem)
SchedOK ==
  /\ sched \in [pc : {"idle", "filter", "loop"}, queue : SUBSET Objects]
  /\ \A o \in sched.queue : ObjectOK(o.run, o.mem)
HistoryOK ==
  /\ DOMAIN ran = Runs /\ \A r \in Runs : ran[r] \in [Steps(r) -> 0..2]
  /\ answered \in [Runs -> SUBSET Nat]
  /\ passed \in [Runs -> SUBSET Nat]
RestOK ==
  /\ started \subseteq Runs
  /\ flag \in [Procs -> BOOLEAN]
  /\ due \subseteq Runs \X Nat
  /\ handed \subseteq Runs
  /\ crashes \in 0..MaxCrashes

LEMMA TypeParts ==
  TypeOK <=> RowsOK /\ CallsOK /\ TimersOK /\ SchedOK /\ HistoryOK /\ RestOK
BY DEF TypeOK, RowsOK, CallsOK, TimersOK, SchedOK, HistoryOK, RestOK

-----------------------------------------------------------------------------
(* Records: what the operators of the model build from well-formed calls.  *)

LEMMA StepsFacts ==
  ASSUME NEW r \in Runs
  PROVE  Len(Program[r]) \in Nat \ {0} /\ 1 \in Steps(r) /\ Steps(r) \subseteq Nat
BY RunsAssumption DEF Steps

LEMMA FreshOK == ASSUME NEW r \in Runs PROVE ObjectOK(r, Fresh)
BY StepsFacts DEF ObjectOK, Fresh, Row, Statuses, Waits

LEMMA IdleOK == CallOK(Idle)
<1>1. \E r \in Runs : TRUE
  BY RunsAssumption
<1>2. Idle.run \in Runs
  BY <1>1 DEF Idle
<1>3. Idle \in Exec
  BY <1>1, StepsFacts, RunsAssumption DEF Idle, Exec, PCs, Fresh, Row, Statuses, Waits
<1>4. ObjectOK(Idle.run, Idle.mem)
  BY <1>2, FreshOK DEF Idle
<1> QED BY <1>3, <1>4 DEF CallOK, RowOK, Idle

LEMMA RowUpdateOK ==
  ASSUME NEW r \in Runs, NEW v, RowOK(r, v)
  PROVE  /\ \A s \in Statuses : RowOK(r, SetStatus(v, s))
         /\ \A i \in Steps(r) : RowOK(r, SetPos(v, i))
         /\ \A w \in Waits : RowOK(r, SetWait(v, w))
BY StepsFacts DEF RowOK, ObjectOK, SetStatus, SetPos, SetWait, Row

LEMMA OverOK ==
  ASSUME NEW x, CallOK(x)
  PROVE  CallOK(Over(x)) /\ (Over(x).run = x.run \/ ~x.tx)
<1>1. [x EXCEPT !.pc = "commit"].run = x.run
  BY DEF CallOK, Exec
<1>2. CallOK(Over(x))
  BY IdleOK DEF CallOK, Over, Exec, PCs
<1> QED BY <1>1, <1>2 DEF Over

LEMMA InvokeOK ==
  ASSUME NEW x, CallOK(x)
  PROVE  CallOK(Invoke(x)) /\ (Invoke(x).run = x.run \/ ~x.tx)
<1> DEFINE y == [x EXCEPT !.pc = "mark", !.ful = x.mem.status = "Waiting"]
<1>1. CallOK(y) /\ y.run = x.run
  BY DEF CallOK, Exec, PCs
<1>2. Invoke(x) = y \/ Invoke(x) = Over(x)
  BY DEF Invoke
<1> HIDE DEF y
<1> QED BY <1>1, <1>2, OverOK

LEMMA ObjectCallOK ==
  ASSUME NEW p \in Procs, NEW r \in Runs, NEW m, ObjectOK(r, m), NEW u \in BOOLEAN
  PROVE  CallOK(Object(p, r, m, u))
BY IdleOK DEF Object, Idle, CallOK, Exec, ObjectOK, RowOK

LEMMA CurrentOK ==
  ASSUME RowsOK, CallsOK, NEW e \in AllSlots
  PROVE  exec[e].run \in Runs /\ RowOK(exec[e].run, Current(e))
BY DEF RowsOK, CallsOK, CallOK, Exec, Current

LEMMA StoreOK ==
  ASSUME RowsOK, CallsOK, NEW e \in AllSlots, NEW v, RowOK(exec[e].run, v),
         NEW x, CallOK(x), x.run = exec[e].run \/ ~exec[e].tx, Store(e, v, x)
  PROVE  RowsOK' /\ CallsOK'
<1>1. exec[e].run \in Runs /\ v \in Row \union {NoRow}
  BY CurrentOK DEF RowOK, ObjectOK
<1>2. CASE exec[e].tx
  <2>1. exec' = [exec EXCEPT ![e] = [x EXCEPT !.pend = v]] /\ row' = row
    BY <1>2 DEF Store
  <2>2. CallOK([x EXCEPT !.pend = v])
    BY <1>1, <1>2 DEF CallOK, Exec
  <2> QED BY <2>1, <2>2 DEF RowsOK, CallsOK, CallOK
<1>3. CASE ~exec[e].tx
  <2>1. exec' = [exec EXCEPT ![e] = x] /\ row' = [row EXCEPT ![exec[e].run] = v]
    BY <1>3 DEF Store
  <2>2. CallsOK'
    BY <2>1 DEF CallsOK, CallOK
  <2>3. RowsOK'
    BY <2>1, <1>1 DEF RowsOK
  <2> QED BY <2>2, <2>3
<1> QED BY <1>2, <1>3

LEMMA ExecOK ==
  ASSUME RowsOK, CallsOK, NEW e \in AllSlots, NEW x, CallOK(x),
         exec' = [exec EXCEPT ![e] = x]
  PROVE  CallsOK'
BY DEF CallsOK, CallOK

-----------------------------------------------------------------------------
LEMMA InitTypeOK == Init => TypeOK
<1> SUFFICES ASSUME Init PROVE TypeOK
  OBVIOUS
<1>1. RowsOK
  BY DEF Init, RowsOK, RowOK
<1>2. CallsOK
  BY IdleOK DEF Init, CallsOK, CallOK
<1>3. HistoryOK
  BY DEF Init, HistoryOK
<1>4. TimersOK /\ SchedOK /\ RestOK
  BY RunsAssumption DEF Init, TimersOK, SchedOK, RestOK
<1> QED BY <1>1, <1>2, <1>3, <1>4, TypeParts

LEMMA NextTypeOK == TypeOK /\ [Next]_vars => TypeOK'
<1> SUFFICES ASSUME TypeOK, [Next]_vars PROVE TypeOK'
  OBVIOUS
<1>0. RowsOK /\ CallsOK /\ TimersOK /\ SchedOK /\ HistoryOK /\ RestOK
  BY TypeParts
<1>p. /\ Primary \in Procs /\ RequestProcs \subseteq Procs /\ Users \subseteq BOOLEAN
      /\ SchedSlot \in AllSlots /\ Slots \subseteq AllSlots
      /\ TriggerRuns \subseteq Runs /\ MaxCrashes \in Nat
  BY RunsAssumption DEF AllSlots
<1>t. (RowsOK /\ CallsOK /\ TimersOK /\ SchedOK /\ HistoryOK /\ RestOK)' => TypeOK'
  BY TypeParts, PTL
(* The call that e makes, when it goes on as a well-formed one.            *)
<1>c. ASSUME NEW e \in AllSlots
      PROVE  /\ CallOK(exec[e]) /\ exec[e].run \in Runs /\ exec[e].proc \in Procs
             /\ exec[e].mem \in Row /\ exec[e].mem.pos \in Steps(exec[e].run)
  BY <1>0 DEF CallsOK, CallOK, Exec, ObjectOK
<1> HIDE DEF TypeOK

<1>1. ASSUME NEW e \in Slots, NEW p \in RequestProcs, NEW r \in Runs, Start(e, p, r)
      PROVE  TypeOK'
  <2>1. PICK u \in Users, t \in BOOLEAN :
          LET x == [Object(p, r, Fresh, u) EXCEPT !.inter = TRUE, !.tx = t]
          IN IF t
             THEN /\ exec' = [exec EXCEPT ![e] = [Invoke(x) EXCEPT !.pend = Fresh]]
                  /\ UNCHANGED row
             ELSE /\ exec' = [exec EXCEPT ![e] = Invoke(x)]
                  /\ row' = [row EXCEPT ![r] = Fresh]
    BY <1>1 DEF Start
  <2> DEFINE x == [Object(p, r, Fresh, u) EXCEPT !.inter = TRUE, !.tx = t]
  <2>2. CallOK(x) /\ CallOK(Invoke(x)) /\ ObjectOK(r, Fresh)
    <3>1. CallOK(Object(p, r, Fresh, u))
      BY <1>p, FreshOK, ObjectCallOK
    <3>2. CallOK(x)
      BY <3>1 DEF CallOK, Exec
    <3> QED BY <3>2, InvokeOK, FreshOK
  <2>3. Invoke(x).run = r
    BY DEF Invoke, Runnable, Object, Fresh, Idle
  <2>4. CallOK([Invoke(x) EXCEPT !.pend = Fresh])
    BY <2>2, <2>3 DEF CallOK, Exec, RowOK, ObjectOK
  <2>5. RowsOK' /\ CallsOK'
    <3>1. CASE t
      BY <3>1, <2>1, <2>4, <1>0, <1>p, ExecOK DEF RowsOK
    <3>2. CASE ~t
      BY <3>2, <2>1, <2>2, <1>0, <1>p, ExecOK DEF RowsOK, RowOK, ObjectOK
    <3> QED BY <3>1, <3>2
  <2> QED
    BY <1>1, <1>0, <1>t, <2>5
    DEF Start, hist, TimersOK, SchedOK, HistoryOK, RestOK
<1>2. ASSUME NEW r \in Runs, StartScheduled(r) PROVE TypeOK'
  <2> DEFINE x == [Object(Primary, r, Fresh, TRUE) EXCEPT !.tx = TRUE]
  <2>1. CallOK(Object(Primary, r, Fresh, TRUE)) /\ ObjectOK(r, Fresh)
    BY <1>p, FreshOK, ObjectCallOK
  <2>2. CallOK(x)
    BY <2>1 DEF CallOK, Exec
  <2>3. Invoke(x).run = r
    BY DEF Invoke, Runnable, Object, Fresh, Idle
  <2>4. CallOK([Invoke(x) EXCEPT !.pend = Fresh])
    BY <2>1, <2>2, <2>3, InvokeOK DEF CallOK, Exec, RowOK, ObjectOK
  <2>5. CallsOK'
    BY <1>2, <1>0, <1>p, <2>4, ExecOK DEF StartScheduled
  <2> QED
    BY <1>2, <1>0, <1>t, <2>5
    DEF StartScheduled, hist, RowsOK, TimersOK, SchedOK, HistoryOK, RestOK
<1>3. ASSUME NEW e \in Slots, NEW p \in RequestProcs, NEW r \in Runs, FillForm(e, p, r)
      PROVE  TypeOK'
  <2>1. ObjectOK(r, row[r])
    BY <1>3, <1>0 DEF FillForm, RowsOK, RowOK
  <2>2. PICK u \in Users :
          exec' = [exec EXCEPT ![e] =
                     [Object(p, r, row[r], u) EXCEPT !.pc = "input", !.inter = TRUE]]
    BY <1>3 DEF FillForm
  <2>3. CallOK(Object(p, r, row[r], u))
    BY <1>p, <2>1, ObjectCallOK
  <2>4. CallOK([Object(p, r, row[r], u) EXCEPT !.pc = "input", !.inter = TRUE])
    BY <2>3 DEF CallOK, Exec, PCs
  <2>5. CallsOK'
    BY <1>0, <1>p, <2>2, <2>4, ExecOK
  <2> QED
    BY <1>3, <1>0, <1>t, <2>5
    DEF FillForm, hist, RowsOK, TimersOK, SchedOK, HistoryOK, RestOK
<1>4. ASSUME NEW e \in Slots, NEW p \in RequestProcs, NEW r \in Runs, Resume(e, p, r)
      PROVE  TypeOK'
  <2>1. ObjectOK(r, row[r])
    BY <1>4, <1>0 DEF Resume, RowsOK, RowOK
  <2>2. PICK u \in Users :
          exec' = [exec EXCEPT ![e] =
                     Invoke([Object(p, r, row[r], u) EXCEPT !.inter = TRUE])]
    BY <1>4 DEF Resume
  <2>3. CallOK(Object(p, r, row[r], u))
    BY <1>p, <2>1, ObjectCallOK
  <2>4. CallOK([Object(p, r, row[r], u) EXCEPT !.inter = TRUE])
    BY <2>3 DEF CallOK, Exec
  <2>5. CallsOK'
    BY <1>0, <1>p, <2>2, <2>4, InvokeOK, ExecOK
  <2> QED
    BY <1>4, <1>0, <1>t, <2>5
    DEF Resume, hist, RowsOK, TimersOK, SchedOK, HistoryOK, RestOK
<1>5. ASSUME NEW e \in Slots, TimerFires(e) PROVE TypeOK'
  <2>1. PICK tm \in timers :
          /\ timers' = timers \ {tm}
          /\ exec' = [exec EXCEPT ![e] =
               Invoke([Object(tm.proc, tm.run, tm.mem, tm.user) EXCEPT !.tx = TRUE])]
    BY <1>5 DEF TimerFires
  <2>2. CallOK(Object(tm.proc, tm.run, tm.mem, tm.user))
    BY <1>0, ObjectCallOK DEF TimersOK, Callbacks
  <2>3. CallOK([Object(tm.proc, tm.run, tm.mem, tm.user) EXCEPT !.tx = TRUE])
    BY <2>2 DEF CallOK, Exec
  <2>4. CallsOK'
    BY <1>0, <1>p, <2>1, <2>3, InvokeOK, ExecOK
  <2>5. TimersOK'
    BY <1>0, <2>1 DEF TimersOK
  <2> QED
    BY <1>5, <1>0, <1>t, <2>4, <2>5
    DEF TimerFires, hist, RowsOK, SchedOK, HistoryOK, RestOK
<1>6. ASSUME NEW e \in AllSlots, ProvideInput(e) PROVE TypeOK'
  <2> DEFINE x == [exec[e] EXCEPT !.mem.wait = Cleared(@)]
  <2>w. Cleared(exec[e].mem.wait) \in Waits
    BY <1>c DEF Cleared, Row, Waits
  <2>1. CallOK(x) /\ x.run = exec[e].run /\ x.tx = exec[e].tx
        /\ x.mem.wait \in Waits
    BY <1>c, <2>w DEF CallOK, Exec, ObjectOK, Row
  <2>p. x.mem.pos = exec[e].mem.pos
    BY <1>c DEF Row
  <2>2. CallOK(Invoke(x)) /\ (Invoke(x).run = exec[e].run \/ ~exec[e].tx)
    <3> HIDE DEF x
    <3> QED BY <2>1, InvokeOK
  <2>3. RowOK(exec[e].run, SetWait(Current(e), x.mem.wait))
    BY <1>0, <2>1, CurrentOK, RowUpdateOK
  <2>4. RowsOK' /\ CallsOK'
    BY <1>6, <1>0, <2>2, <2>3, StoreOK DEF ProvideInput
  <2>5. HistoryOK'
    BY <1>6, <1>0, <1>c, <2>1, <2>p, StepsFacts DEF ProvideInput, HistoryOK
  <2> QED
    BY <1>6, <1>0, <1>t, <2>4, <2>5 DEF ProvideInput, TimersOK, SchedOK, RestOK
<1>7. ASSUME NEW e \in AllSlots, Mark(e) PROVE TypeOK'
  <2> DEFINE x == [exec[e] EXCEPT !.pc = "enter", !.mem.status = "Running"]
  <2>1. CallOK(x) /\ x.run = exec[e].run
    BY <1>c, ZenonT(60) DEF CallOK, Exec, ObjectOK, Row, Statuses, PCs
  <2>2. RowOK(exec[e].run, SetStatus(Current(e), "Running"))
    BY <1>0, CurrentOK, RowUpdateOK DEF Statuses
  <2> HIDE DEF x
  <2>3. RowsOK' /\ CallsOK'
    <3>1. CASE exec' = [exec EXCEPT ![e] = x] /\ UNCHANGED row
      BY <2>1, <3>1, <1>0, ExecOK DEF RowsOK
    <3>2. CASE Store(e, SetStatus(Current(e), "Running"), x)
      BY <2>1, <2>2, <3>2, <1>0, StoreOK
    <3> QED BY <1>7, <3>1, <3>2 DEF Mark, x
  <2> QED
    BY <1>7, <1>0, <1>t, <2>3 DEF Mark, hist, TimersOK, SchedOK, HistoryOK, RestOK
<1>8. ASSUME NEW e \in AllSlots, Enter(e) PROVE TypeOK'
  <2>1. CallOK([exec[e] EXCEPT !.pc = "body"])
    BY <1>c DEF CallOK, Exec, PCs
  <2>2. RowOK(exec[e].run, SetPos(Current(e), exec[e].mem.pos))
    BY <1>0, <1>c, CurrentOK, RowUpdateOK
  <2>3. [exec[e] EXCEPT !.pc = "body"].run = exec[e].run
    BY <1>c DEF CallOK, Exec
  <2>4. RowsOK' /\ CallsOK'
    BY <1>8, <1>0, <2>1, <2>2, <2>3, StoreOK DEF Enter
  <2> QED
    BY <1>8, <1>0, <1>t, <2>4 DEF Enter, hist, TimersOK, SchedOK, HistoryOK, RestOK
<1>9. ASSUME NEW e \in AllSlots, PassWait(e) PROVE TypeOK'
  <2>1. CallOK([exec[e] EXCEPT !.pc = "advance", !.ful = FALSE])
    BY <1>c DEF CallOK, Exec, PCs
  <2>2. CallsOK'
    BY <1>9, <1>0, <2>1, ExecOK DEF PassWait
  <2>3. HistoryOK'
    BY <1>9, <1>0, <1>c, StepsFacts DEF PassWait, HistoryOK
  <2> QED
    BY <1>9, <1>0, <1>t, <2>2, <2>3 DEF PassWait, RowsOK, TimersOK, SchedOK, RestOK
<1>10. ASSUME NEW e \in AllSlots, DoAction(e) PROVE TypeOK'
  <2> DEFINE x == exec[e]
             y == [x EXCEPT !.pc = "advance",
                            !.eff = IF x.user /\ x.tx THEN @ \union {x.mem.pos} ELSE @]
  <2>1. x.mem.pos \in Nat
    BY <1>c, StepsFacts
  <2>2. CallOK(y)
    BY <1>c, <2>1 DEF CallOK, Exec, PCs
  <2>3. CallsOK'
    BY <1>10, <1>0, <2>2, ExecOK DEF DoAction
  <2>4. HistoryOK'
    <3>1. CASE ran' = ran
      BY <3>1, <1>10, <1>0 DEF DoAction, HistoryOK
    <3>2. CASE ran' = [ran EXCEPT ![x.run][x.mem.pos] = Capped(@)]
      <4>1. ran[x.run] \in [Steps(x.run) -> 0..2]
        BY <1>0, <1>c DEF HistoryOK
      <4>2. Capped(ran[x.run][x.mem.pos]) \in 0..2
        BY <4>1, <1>c DEF Capped
      <4>3. [ran[x.run] EXCEPT ![x.mem.pos] = Capped(@)] \in [Steps(x.run) -> 0..2]
        BY <4>1, <4>2
      <4>4. ran' = [ran EXCEPT ![x.run] = [ran[x.run] EXCEPT ![x.mem.pos] = Capped(@)]]
        BY <3>2
      <4>5. \A r \in Runs : ran'[r] \in [Steps(r) -> 0..2]
        BY <4>3, <4>4, <1>0 DEF HistoryOK
      <4> QED BY <4>5, <1>10, <1>0 DEF DoAction, HistoryOK
    <3> QED BY <1>10, <3>1, <3>2 DEF DoAction
  <2> QED
    BY <1>10, <1>0, <1>t, <2>3, <2>4 DEF DoAction, RowsOK, TimersOK, SchedOK, RestOK
<1>11. ASSUME NEW e \in AllSlots, Fail(e) PROVE TypeOK'
  <2> DEFINE x == [exec[e] EXCEPT !.mem.status = "Error"]
  <2>1. CallOK(x) /\ x.run = exec[e].run /\ x.tx = exec[e].tx
    BY <1>c DEF CallOK, Exec, ObjectOK, Row, Statuses
  <2>2. CallOK(Over(x)) /\ (Over(x).run = exec[e].run \/ ~exec[e].tx)
    <3> HIDE DEF x
    <3> QED BY <2>1, OverOK
  <2>3. RowOK(exec[e].run, SetStatus(Current(e), "Error"))
    BY <1>0, CurrentOK, RowUpdateOK DEF Statuses
  <2>4. RowsOK' /\ CallsOK'
    BY <1>11, <1>0, <2>2, <2>3, StoreOK DEF Fail
  <2> QED
    BY <1>11, <1>0, <1>t, <2>4 DEF Fail, hist, TimersOK, SchedOK, HistoryOK, RestOK
<1>12. ASSUME NEW e \in AllSlots, Announce(e) PROVE TypeOK'
  <2>1. CallOK([exec[e] EXCEPT !.pc = "park"])
    BY <1>c DEF CallOK, Exec, PCs
  <2>2. CallsOK'
    BY <1>12, <1>0, <2>1, ExecOK DEF Announce, CallsOK
  <2>3. RestOK'
    BY <1>12, <1>0, <1>c DEF Announce, RestOK
  <2> QED
    BY <1>12, <1>0, <1>t, <2>2, <2>3
    DEF Announce, hist, RowsOK, TimersOK, SchedOK, HistoryOK
<1>13. ASSUME NEW e \in AllSlots, Park(e) PROVE TypeOK'
  <2> DEFINE k == Kind(exec[e])
             w == WaitOf(k)
             x == [exec[e] EXCEPT !.mem.status = "Waiting", !.mem.wait = w]
             y == IF k = "WaitNextTick" THEN [x EXCEPT !.pc = "flag"] ELSE Over(x)
  <2>1. w \in Waits
    BY DEF WaitOf, Waits
  <2> HIDE DEF w
  <2>2. CallOK(x) /\ x.run = exec[e].run /\ x.tx = exec[e].tx /\ x.proc = exec[e].proc
    BY <1>c, <2>1 DEF CallOK, Exec, ObjectOK, Row, Statuses
  <2>3. CallOK(y) /\ (y.run = exec[e].run \/ ~exec[e].tx)
    <3>1. CallOK([x EXCEPT !.pc = "flag"]) /\ [x EXCEPT !.pc = "flag"].run = x.run
      BY <2>2 DEF CallOK, Exec, PCs
    <3> HIDE DEF x
    <3>2. CallOK(Over(x)) /\ (Over(x).run = x.run \/ ~x.tx)
      BY <2>2, OverOK
    <3> QED BY <2>2, <3>1, <3>2
  <2>4. RowOK(exec[e].run, SetWait(SetStatus(Current(e), "Waiting"), w))
    BY <1>0, <1>c, <2>1, CurrentOK, RowUpdateOK DEF Statuses
  <2>5. Store(e, SetWait(SetStatus(Current(e), "Waiting"), w), y)
    BY <1>13 DEF Park, w
  <2>6. RowsOK' /\ CallsOK'
    BY <1>0, <2>3, <2>4, <2>5, StoreOK
  <2>7. TimersOK'
    <3> DEFINE tm == [proc |-> x.proc, run |-> x.run, mem |-> x.mem, user |-> x.user]
    <3>1. tm \in Callbacks /\ ObjectOK(tm.run, tm.mem)
      BY <2>2, <1>c DEF CallOK, Exec, Callbacks
    <3>2. timers' = timers \/ timers' = timers \union {tm}
      BY <1>13 DEF Park, w
    <3> QED BY <1>0, <3>1, <3>2 DEF TimersOK
  <2> QED
    BY <1>13, <1>0, <1>t, <2>6, <2>7 DEF Park, hist, SchedOK, HistoryOK, RestOK
<1>14. ASSUME NEW e \in AllSlots, Flag(e) PROVE TypeOK'
  <2>1. CallsOK'
    BY <1>14, <1>0, <1>c, OverOK, ExecOK DEF Flag
  <2>2. RestOK'
    BY <1>14, <1>0, <1>c DEF Flag, RestOK
  <2> QED
    BY <1>14, <1>0, <1>t, <2>1, <2>2
    DEF Flag, hist, RowsOK, TimersOK, SchedOK, HistoryOK
<1>15. ASSUME NEW e \in AllSlots, Advance(e) PROVE TypeOK'
  <2> DEFINE x == exec[e]
             last == x.mem.pos = Len(Program[x.run])
             y == IF last THEN [x EXCEPT !.mem.status = "Finished"]
                  ELSE [x EXCEPT !.pc = "enter", !.mem.pos = @ + 1]
             gives == x.inter /\ x.user /\ Kind(x) = "Directive"
             v == IF last THEN SetStatus(Current(e), "Finished")
                  ELSE SetPos(Current(e), y.mem.pos)
             z == IF last \/ gives THEN Over(y) ELSE y
  <2>1. CallOK(y) /\ y.run = x.run /\ y.tx = x.tx
    <3>1. CASE last
      BY <3>1, <1>c DEF CallOK, Exec, ObjectOK, Row, Statuses
    <3>2. CASE ~last
      <4>1. x.mem.pos + 1 \in Steps(x.run) /\ x.mem.pos + 1 \in Nat
        BY <3>2, <1>c, StepsFacts DEF Steps
      <4> QED BY <3>2, <4>1, <1>c DEF CallOK, Exec, ObjectOK, Row, PCs
    <3> QED BY <3>1, <3>2
  <2>2. RowOK(x.run, v)
    BY <1>0, <2>1, CurrentOK, RowUpdateOK DEF CallOK, ObjectOK, Statuses
  <2>3. Store(e, v, z)
    BY <1>15 DEF Advance
  <2>4. CallOK(z) /\ (z.run = x.run \/ ~x.tx)
    <3> HIDE DEF y
    <3> QED BY <2>1, OverOK
  <2>5. y.run \in Runs
    BY <2>1, <1>c
  <2>6. handed' = handed \/ HandOver(y)
    BY <1>15 DEF Advance
  <2> HIDE DEF y, v, z
  <2>7. RowsOK' /\ CallsOK'
    BY <1>0, <2>2, <2>3, <2>4, StoreOK
  <2>8. RestOK'
    BY <1>15, <1>0, <2>5, <2>6 DEF Advance, HandOver, RestOK
  <2> QED
    BY <1>15, <1>0, <1>t, <2>7, <2>8 DEF Advance, hist, TimersOK, SchedOK, HistoryOK
<1>16. ASSUME NEW e \in AllSlots, Commit(e) PROVE TypeOK'
  <2> DEFINE x == exec[e]
  <2>1. CallsOK'
    BY <1>16, <1>0, IdleOK, ExecOK DEF Commit
  <2>2. RowsOK'
    BY <1>16, <1>0, <1>c DEF Commit, RowsOK, CallOK, RowOK, ObjectOK
  <2>3. HistoryOK'
    <3>1. \A i \in Steps(x.run) :
            ran[x.run][i] \in 0..2 /\ Capped(ran[x.run][i]) \in 0..2
      BY <1>0, <1>c DEF HistoryOK, Capped
    <3>2. ran' = [ran EXCEPT ![x.run] =
                    [i \in Steps(x.run) |-> IF i \in x.eff THEN Capped(ran[x.run][i])
                                            ELSE ran[x.run][i]]]
      BY <1>16 DEF Commit
    <3>3. \A r \in Runs : ran'[r] \in [Steps(r) -> 0..2]
      BY <3>1, <3>2, <1>0 DEF HistoryOK
    <3> QED BY <1>16, <1>0, <3>3 DEF Commit, HistoryOK
  <2>4. RestOK'
    BY <1>16, <1>0, <1>c DEF Commit, HandOver, RestOK
  <2> QED
    BY <1>16, <1>0, <1>t, <2>1, <2>2, <2>3, <2>4 DEF Commit, TimersOK, SchedOK
<1>17. ASSUME Tick PROVE TypeOK'
  <2>1. SchedOK'
    BY <1>17, <1>0 DEF Tick, SchedOK, RowsOK, RowOK, Objects
  <2> QED
    BY <1>17, <1>0, <1>t, <2>1
    DEF Tick, hist, RowsOK, CallsOK, TimersOK, HistoryOK, RestOK
<1>18. ASSUME Filter PROVE TypeOK'
  <2>1. SchedOK'
    BY <1>18, <1>0 DEF Filter, SchedOK
  <2>2. RestOK'
    BY <1>18, <1>0, <1>p DEF Filter, RestOK
  <2> QED
    BY <1>18, <1>0, <1>t, <2>1, <2>2
    DEF Filter, hist, RowsOK, CallsOK, TimersOK, HistoryOK
<1>19. ASSUME RunNext PROVE TypeOK'
  <2>1. PICK o \in sched.queue :
          /\ sched' = [sched EXCEPT !.queue = @ \ {o}]
          /\ exec' = [exec EXCEPT ![SchedSlot] =
               Invoke([Object(Primary, o.run, o.mem, FALSE) EXCEPT !.tx = TRUE])]
    BY <1>19 DEF RunNext
  <2>2. CallOK(Object(Primary, o.run, o.mem, FALSE))
    BY <1>0, <1>p, ObjectCallOK DEF SchedOK, Objects
  <2>3. CallOK([Object(Primary, o.run, o.mem, FALSE) EXCEPT !.tx = TRUE])
    BY <2>2 DEF CallOK, Exec
  <2>4. CallsOK'
    BY <1>0, <1>p, <2>1, <2>3, InvokeOK, ExecOK
  <2>5. SchedOK'
    BY <1>0, <2>1 DEF SchedOK
  <2> QED
    BY <1>19, <1>0, <1>t, <2>4, <2>5
    DEF RunNext, hist, RowsOK, TimersOK, HistoryOK, RestOK
<1>20. ASSUME EndTick PROVE TypeOK'
  BY <1>20, <1>0, <1>t
  DEF EndTick, hist, RowsOK, CallsOK, TimersOK, SchedOK, HistoryOK, RestOK
<1>21. ASSUME NEW r \in Runs, TimePasses(r) PROVE TypeOK'
  <2>1. row[r].pos \in Nat
    BY <1>21, <1>0 DEF TimePasses, RowsOK, RowOK, ObjectOK, Row
  <2>2. RestOK'
    BY <1>21, <1>0, <2>1 DEF TimePasses, RestOK
  <2> QED
    BY <1>21, <1>0, <1>t, <2>2
    DEF TimePasses, hist, RowsOK, CallsOK, TimersOK, SchedOK, HistoryOK
<1>22. ASSUME NEW r \in Runs, Delete(r) PROVE TypeOK'
  <2>1. RowsOK'
    BY <1>22, <1>0 DEF Delete, RowsOK, RowOK
  <2> QED
    BY <1>22, <1>0, <1>t, <2>1
    DEF Delete, hist, CallsOK, TimersOK, SchedOK, HistoryOK, RestOK
<1>23. ASSUME NEW p \in Procs, Crash(p) PROVE TypeOK'
  <2>1. CallsOK'
    BY <1>23, <1>0, IdleOK DEF Crash, CallsOK, CallOK
  <2>2. TimersOK' /\ SchedOK'
    BY <1>23, <1>0 DEF Crash, TimersOK, SchedOK
  <2>3. RestOK'
    BY <1>23, <1>0, <1>p DEF Crash, RestOK
  <2> QED
    BY <1>23, <1>0, <1>t, <2>1, <2>2, <2>3 DEF Crash, hist, RowsOK, HistoryOK
<1>24. CASE UNCHANGED vars
  BY <1>24 DEF vars, hist, TypeOK
<1> QED
  BY <1>1, <1>2, <1>3, <1>4, <1>5, <1>6, <1>7, <1>8, <1>9, <1>10, <1>11, <1>12,
     <1>13, <1>14, <1>15, <1>16, <1>17, <1>18, <1>19, <1>20, <1>21, <1>22, <1>23,
     <1>24 DEF Next, CallStep

(* Whatever calls, timers, requests and crashes come together, every copy  *)
(* of a row stays a row at a step of its workflow.                         *)
THEOREM WorkflowTypeCorrect == Spec => []TypeOK
BY InitTypeOK, NextTypeOK, PTL DEF Spec
-----------------------------------------------------------------------------
(* Runs that no user has answered yet.  Before its first form a workflow   *)
(* of Solo has no message and no background step, so that only the         *)
(* scheduler resumes its run.  Then the run is in one hand at a time: a    *)
(* call works on it, or the scheduler's list has it, or a browser was told *)
(* to resume it; and the object in that hand is what the row says.         *)

Reached(r, i) == \A j \in 1..(i - 1) : Program[r][j] # "UserForm"

Solo == {r \in Runs : \A i \in Steps(r) :
                        Program[r][i] \in {"Output", "Background"} => ~Reached(r, i)}

Works(e, r) ==
  /\ exec[e].run = r
  /\ exec[e].pc \notin {"idle", "input"}
  /\ exec[e].pc = "flag" => exec[e].tx

(* What a copy of the row may say: a run waits for what its step asks for. *)
CopyOK(r, m) ==
  /\ Reached(r, m.pos)
  /\ m.status = "Waiting" =>
       Program[r][m.pos] \in WaitKinds /\ m.wait = WaitOf(Program[r][m.pos])

Unrun(r, i) == \A k \in Steps(r) : k >= i => ran[r][k] = 0

(* The steps whose effect a call may still bring about.                    *)
Ahead(x, k) ==
  \/ k > x.mem.pos
  \/ k = x.mem.pos /\ x.pc # "advance" /\ ~(x.pc = "commit" /\ x.mem.status = "Finished")

CallFacts(e, r) ==
  LET x == exec[e] IN
  /\ Current(e) \in {NoRow, x.mem}
  /\ IF e = SchedSlot THEN row[r] = NoRow \/ row[r].status = "Waiting"
     ELSE IF x.tx THEN row[r] = NoRow
     ELSE x.mem.status \in {"Pending", "Running"}
  /\ CopyOK(r, x.mem)
  /\ x.pc \in {"enter", "body", "park", "advance"} => x.mem.status = "Running"
  /\ x.pc = "advance" => Kind(x) # "UserForm"
  /\ x.ful => /\ x.pc \in {"mark", "enter", "body"}
              /\ Kind(x) # "UserForm"
              /\ Kind(x) = "WaitUntil" => <<r, x.mem.pos>> \in due
  /\ \A k \in Steps(r) : /\ Ahead(x, k) => ran[r][k] = 0 /\ k \notin x.eff
                         /\ k \in x.eff => ran[r][k] = 0

ListFacts(o, r) ==
  /\ o.mem.status = "Waiting" /\ row[r] \in {NoRow, o.mem}
  /\ CopyOK(r, o.mem) /\ Unrun(r, o.mem.pos)
  /\ sched.pc = "loop" => Fulfilled(r, o.mem)

RowFacts(r) ==
  /\ row[r] # NoRow => CopyOK(r, row[r])
  /\ r \in handed => row[r] = NoRow \/ row[r].status = "Running"
  /\ row[r] # NoRow /\ (row[r].status = "Waiting" \/ r \in handed) => Unrun(r, row[r].pos)

PastFacts(r) ==
  /\ \A k \in Steps(r) : ran[r][k] <= 1
  /\ \A i \in passed[r] : /\ Program[r][i] # "UserForm"
                          /\ Program[r][i] = "WaitUntil" => <<r, i>> \in due

(* A form that was loaded, and not yet answered.                           *)
FormFacts(e, r) ==
  exec[e].pc = "input" /\ exec[e].run = r =>
    Reached(r, exec[e].mem.pos) /\ Kind(exec[e]) = "UserForm"

OneHand(r) ==
  /\ \A d, e \in AllSlots : Works(d, r) /\ Works(e, r) => d = e
  /\ \A e \in AllSlots : Works(e, r) => r \notin handed
  /\ \A o \in sched.queue : o.run = r =>
       /\ r \notin handed
       /\ \A e \in AllSlots : ~Works(e, r)
       /\ \A q \in sched.queue : q.run = r => q = o
  /\ \A tm \in timers : tm.run # r

InOneHand(r) ==
  /\ OneHand(r) /\ RowFacts(r) /\ PastFacts(r)
  /\ \A e \in AllSlots : (Works(e, r) => CallFacts(e, r)) /\ FormFacts(e, r)
  /\ \A o \in sched.queue : o.run = r => ListFacts(o, r)

(* True of all runs: nobody has a run that was not started, and what the   *)
(* fields of a call say together.                                          *)
NotStarted ==
  \A r \in Runs \ started :
    /\ row[r] = NoRow /\ r \notin handed
    /\ \A k \in Steps(r) : ran[r][k] = 0
    /\ \A e \in AllSlots : exec[e].run = r => exec[e].pc = "idle"
    /\ \A o \in sched.queue : o.run # r
    /\ \A tm \in timers : tm.run # r

CallShape ==
  \A e \in AllSlots :
    /\ ~exec[e].tx => exec[e].pend = NoRow /\ exec[e].pc # "commit"
    /\ exec[e].pc = "input" => ~exec[e].tx
    /\ e = SchedSlot => exec[e].pc = "idle" \/ exec[e].tx

PastSteps ==
  /\ \A r \in Runs : passed[r] \subseteq Steps(r)
  /\ \A r \in Solo : answered[r] # {} =>
       \E j \in answered[r] \cap Steps(r) : Program[r][j] = "UserForm" /\ Reached(r, j)

SoloInv == \A r \in Solo : answered[r] = {} => InOneHand(r)

RunsInv == TypeOK /\ NotStarted /\ CallShape /\ PastSteps /\ SoloInv

(* A step that does not concern run r: it gives nobody a hand in r.        *)
LeavesAlone(r) ==
  /\ row'[r] \in {row[r], NoRow}
  /\ \A e \in AllSlots : exec'[e].run = r /\ exec'[e].pc # "idle" => exec'[e] = exec[e]
  /\ r \in handed' => r \in handed
  /\ \A o \in sched'.queue : o.run = r =>
       /\ o \in sched.queue
       /\ sched'.pc = "loop" => sched.pc = "loop" \/ Fulfilled(r, o.mem)
  /\ \A tm \in timers' : tm.run = r => tm \in timers
  /\ due \subseteq due'
  /\ ran'[r] = ran[r] /\ passed'[r] = passed[r]

-----------------------------------------------------------------------------
LEMMA CallTyped ==
  ASSUME TypeOK, NEW e \in AllSlots
  PROVE  /\ exec[e] \in Exec /\ exec[e].run \in Runs /\ exec[e].mem \in Row
         /\ exec[e].mem.pos \in Steps(exec[e].run) /\ exec[e].mem.pos \in Nat
         /\ exec[e].pend \in Row \union {NoRow}
BY StepsFacts DEF TypeOK, CallOK, Exec, ObjectOK

LEMMA IdleFields ==
  Idle.pc = "idle" /\ Idle.pend = NoRow /\ Idle.tx = FALSE /\ Idle.eff = {}
BY DEF Idle

(* What others have of a run stays true when a step leaves the run alone.  *)
LEMMA LeftAlone ==
  ASSUME TypeOK, NEW r \in Runs, InOneHand(r), LeavesAlone(r)
  PROVE  InOneHand(r)'
<1>1. \A e \in AllSlots :
        /\ Works(e, r)' => Works(e, r) /\ exec'[e] = exec[e]
        /\ exec'[e].pc = "input" /\ exec'[e].run = r => exec'[e] = exec[e]
  BY DEF LeavesAlone, Works
<1>2. OneHand(r)'
  BY <1>1 DEF InOneHand, OneHand, LeavesAlone
<1>3. RowFacts(r)'
  BY DEF InOneHand, RowFacts, LeavesAlone, CopyOK, Unrun
<1>4. PastFacts(r)'
  BY DEF InOneHand, PastFacts, LeavesAlone
<1>5. ASSUME NEW e \in AllSlots, Works(e, r)' PROVE CallFacts(e, r)'
  <2>1. exec'[e] = exec[e] /\ CallFacts(e, r) /\ exec[e].run = r
    BY <1>1, <1>5 DEF InOneHand, Works
  <2>2. Current(e)' \in {NoRow, exec[e].mem}
    BY <2>1 DEF CallFacts, Current, LeavesAlone
  <2> QED
    BY <2>1, <2>2 DEF CallFacts, LeavesAlone, CopyOK, Kind, Ahead
<1>6. ASSUME NEW e \in AllSlots PROVE FormFacts(e, r)'
  BY <1>1 DEF InOneHand, FormFacts, Kind
<1>7. ASSUME NEW o \in sched'.queue, o.run = r PROVE ListFacts(o, r)'
  BY <1>7 DEF InOneHand, ListFacts, LeavesAlone, CopyOK, Unrun, Fulfilled
<1> QED BY <1>2, <1>3, <1>4, <1>5, <1>6, <1>7 DEF InOneHand

(* A step after which at most one hand, call e, has run r.                 *)
LEMMA OnlyHand ==
  ASSUME NEW r \in Runs, InOneHand(r), NEW e \in AllSlots,
         \A d \in AllSlots : d # e => exec'[d] = exec[d] /\ ~Works(d, r),
         \A o \in sched'.queue : o.run # r, due' = due,
         \A tm \in timers' : tm.run = r => tm \in timers,
         FormFacts(e, r)', Works(e, r)' => CallFacts(e, r)' /\ r \notin handed',
         RowFacts(r)', PastFacts(r)'
  PROVE  InOneHand(r)'
<1>1. \A d \in AllSlots : Works(d, r)' => d = e
  BY DEF Works
<1>2. OneHand(r)'
  BY <1>1 DEF InOneHand, OneHand
<1>3. \A d \in AllSlots : FormFacts(d, r)'
  BY DEF InOneHand, FormFacts, Kind
<1>4. \A d \in AllSlots : Works(d, r)' => CallFacts(d, r)'
  BY <1>1
<1> QED BY <1>2, <1>3, <1>4 DEF InOneHand

(* A step of the one call that works on run r.                             *)
LEMMA OwnStep ==
  ASSUME NEW r \in Runs, InOneHand(r), NEW e \in AllSlots, Works(e, r),
         \A d \in AllSlots : d # e => exec'[d] = exec[d],
         exec'[e].pc # "input", sched' = sched, due' = due,
         \A tm \in timers' : tm.run = r => tm \in timers,
         Works(e, r)' => CallFacts(e, r)' /\ r \notin handed',
         RowFacts(r)', PastFacts(r)'
  PROVE  InOneHand(r)'
<1>1. \A d \in AllSlots : d # e => ~Works(d, r)
  BY DEF InOneHand, OneHand
<1>2. \A o \in sched.queue : o.run # r
  BY DEF InOneHand, OneHand
<1>3. FormFacts(e, r)'
  BY DEF FormFacts
<1> QED BY <1>1, <1>2, <1>3, OnlyHand

(* The same when it stores the version v of the row, where m is what the   *)
(* object says now, and goes on as x.                                      *)
LEMMA StoreStep ==
  ASSUME TypeOK, CallShape, NEW r \in Runs, InOneHand(r), NEW e \in AllSlots, Works(e, r),
         NEW v, NEW x, NEW m \in Row, Store(e, v, x),
         x \in Exec,
         CopyOK(r, m), v = IF Current(e) = NoRow THEN NoRow ELSE m,
         \/ x = Idle /\ ~exec[e].tx
         \/ /\ x.run = r /\ x.mem = m /\ x.tx = exec[e].tx /\ x.eff = exec[e].eff
            /\ x.pend = exec[e].pend /\ x.pc \notin {"idle", "input", "advance"}
            /\ x.pc \in {"enter", "body", "park"} => m.status = "Running"
            /\ \A k \in Steps(r) : Ahead(x, k) => Ahead(exec[e], k)
            /\ x.ful => /\ x.pc \in {"mark", "enter", "body"} /\ exec[e].ful
                        /\ m.pos = exec[e].mem.pos
            /\ ~x.tx => x.pc = "flag" \/ m.status \in {"Pending", "Running"},
         ~exec[e].tx /\ m.status = "Waiting" => Unrun(r, m.pos),
         r \in handed' => x = Idle /\ ~exec[e].tx /\ m.status = "Running" /\ Unrun(r, m.pos),
         \A tm \in timers' : tm.run = r => tm \in timers,
         sched' = sched, due' = due, ran' = ran, passed' = passed
  PROVE  InOneHand(r)'
<1>0. exec[e].run = r /\ r \notin handed /\ CallFacts(e, r) /\ RowFacts(r) /\ PastFacts(r)
  BY DEF InOneHand, OneHand, Works
<1>t. exec \in [AllSlots -> Exec] /\ row \in [Runs -> Row \union {NoRow}]
  BY DEF TypeOK
<1>1. /\ \A d \in AllSlots : d # e => exec'[d] = exec[d]
      /\ exec[e].tx => exec'[e] = [x EXCEPT !.pend = v] /\ row' = row
      /\ ~exec[e].tx => exec'[e] = x /\ row'[r] = v
  BY <1>0, <1>t DEF Store
<1>2. PastFacts(r)'
  BY <1>0 DEF PastFacts
<1>3. RowFacts(r)'
  <2>1. CASE exec[e].tx
    BY <2>1, <1>0, <1>1 DEF RowFacts, CopyOK, Unrun
  <2>2. CASE ~exec[e].tx
    BY <2>2, <1>0, <1>1 DEF RowFacts, CopyOK, Unrun
  <2> QED BY <2>1, <2>2
<1>4. exec'[e].pc # "input"
  <2>1. CASE exec[e].tx
    BY <2>1, <1>1, IdleFields DEF Exec
  <2>2. CASE ~exec[e].tx
    BY <2>2, <1>1, IdleFields
  <2> QED BY <2>1, <2>2
<1>5. ASSUME Works(e, r)' PROVE CallFacts(e, r)' /\ r \notin handed'
  <2>1. x # Idle
    BY <1>5, <1>1, IdleFields DEF Works, CallShape
  <2> DEFINE y == exec'[e]
  <2>2. /\ y.run = r /\ y.mem = m /\ y.tx = x.tx /\ y.eff = x.eff /\ y.pc = x.pc
        /\ y.ful = x.ful
    <3>1. CASE exec[e].tx
      BY <3>1, <2>1, <1>1 DEF Exec
    <3>2. CASE ~exec[e].tx
      BY <3>2, <2>1, <1>1
    <3> QED BY <3>1, <3>2
  <2>3. Current(e)' \in {NoRow, m}
    <3>1. CASE exec[e].tx
      <4>1. exec'[e].pend = v
        BY <3>1, <1>1 DEF Exec
      <4>2. v = NoRow => row[r] = NoRow
        BY <1>0, NoRowAssumption DEF Current
      <4> QED BY <4>1, <4>2, <2>2, <3>1, <1>1 DEF Current
    <3>2. CASE ~exec[e].tx
      <4>1. exec'[e].pend = NoRow /\ row'[r] = v
        BY <3>2, <2>1, <1>1 DEF CallShape
      <4> QED BY <4>1, <2>2 DEF Current
    <3> QED BY <3>1, <3>2
  <2>4. IF e = SchedSlot THEN row'[r] = NoRow \/ row'[r].status = "Waiting"
        ELSE IF x.tx THEN row'[r] = NoRow ELSE m.status \in {"Pending", "Running"}
    <3>1. e = SchedSlot => exec[e].tx
      BY DEF CallShape, Works
    <3>2. CASE exec[e].tx
      BY <3>2, <1>0, <1>1, <2>1 DEF CallFacts
    <3>3. CASE ~exec[e].tx
      BY <3>3, <3>1, <2>1, <2>2, <1>5 DEF Works
    <3> QED BY <3>2, <3>3
  <2>5. x.ful => /\ x.pc \in {"mark", "enter", "body"}
                 /\ Program[r][m.pos] # "UserForm"
                 /\ Program[r][m.pos] = "WaitUntil" => <<r, m.pos>> \in due'
    BY <1>0, <2>1 DEF CallFacts, Kind
  <2>6. \A k \in Steps(r) : /\ Ahead(x, k) => ran'[r][k] = 0 /\ k \notin x.eff
                            /\ k \in x.eff => ran'[r][k] = 0
    BY <1>0, <2>1 DEF CallFacts
  <2>10. /\ x.pc \in {"enter", "body", "park", "advance"} => m.status = "Running"
         /\ x.pc # "advance"
    BY <2>1
  <2>7. \A k \in Steps(r) : Ahead(y, k) <=> Ahead(x, k)
    BY <2>1, <2>2 DEF Ahead
  <2>8. CopyOK(r, m)'
    BY DEF CopyOK
  <2> HIDE DEF y
  <2>9. CallFacts(e, r)'
    BY <2>2, <2>3, <2>4, <2>5, <2>6, <2>7, <2>8, <2>10 DEF CallFacts, Kind, y, CopyOK
  <2> QED BY <2>1, <2>9
<1> QED BY <1>1, <1>2, <1>3, <1>4, <1>5, OwnStep

-----------------------------------------------------------------------------
(* The steps of a call.                                                    *)

(* What a call stores is the row of its object, if the row is there.       *)
LEMMA StoredRow ==
  ASSUME TypeOK, NEW r \in Runs, NEW e \in AllSlots, CallFacts(e, r)
  PROVE  /\ \A s \in Statuses : SetStatus(Current(e), s) =
              IF Current(e) = NoRow THEN NoRow ELSE [exec[e].mem EXCEPT !.status = s]
         /\ \A i : SetPos(Current(e), i) =
              IF Current(e) = NoRow THEN NoRow ELSE [exec[e].mem EXCEPT !.pos = i]
<1>1. Current(e) \in {NoRow, exec[e].mem} /\ exec[e].mem \in Row
  BY CallTyped DEF CallFacts
<1> QED BY <1>1, NoRowAssumption DEF SetStatus, SetPos

LEMMA MarkSolo ==
  ASSUME TypeOK, CallShape, NEW r \in Runs, InOneHand(r), NEW e \in AllSlots,
         Works(e, r), Mark(e)
  PROVE  InOneHand(r)'
<1>1. CallFacts(e, r) /\ exec[e].run = r /\ r \notin handed /\ RowFacts(r) /\ PastFacts(r)
  BY DEF InOneHand, OneHand, Works
<1>2. exec[e] \in Exec /\ exec[e].mem \in Row
  BY CallTyped
<1> DEFINE m == [exec[e].mem EXCEPT !.status = "Running"]
           x == [exec[e] EXCEPT !.pc = "enter", !.mem.status = "Running"]
<1>3. m \in Row /\ m.status = "Running" /\ m.pos = exec[e].mem.pos
  BY <1>2 DEF Row, Statuses
<1>4. /\ x.run = r /\ x.mem = m /\ x.tx = exec[e].tx /\ x.eff = exec[e].eff
      /\ x.pend = exec[e].pend /\ x.pc = "enter" /\ x.ful = exec[e].ful /\ x \in Exec
  BY <1>1, <1>2 DEF Exec, PCs, Row, Statuses
<1>5. CopyOK(r, m)
  BY <1>1, <1>3 DEF CallFacts, CopyOK
<1>6. \A k \in Steps(r) : Ahead(x, k) => Ahead(exec[e], k)
  BY <1>3, <1>4 DEF Ahead, Mark
<1> HIDE DEF x, m
<1>7. CASE exec[e].mem.status = "Running"
  <2>1. m = exec[e].mem
    BY <1>7, <1>2 DEF m, Row
  <2>2. exec' = [exec EXCEPT ![e] = x] /\ row' = row
    BY <1>7 DEF Mark, x
  <2>3. exec'[e] = x /\ \A d \in AllSlots : d # e => exec'[d] = exec[d]
    BY <2>2 DEF TypeOK
  <2>4. CallFacts(e, r)'
    BY <1>1, <1>3, <1>4, <1>6, <2>1, <2>2, <2>3 DEF CallFacts, Mark, Current, CopyOK, Kind, hist, Ahead
  <2> QED
    BY <1>1, <1>4, <2>2, <2>3, <2>4, OwnStep
    DEF Mark, hist, RowFacts, PastFacts, CopyOK, Unrun
<1>8. CASE exec[e].mem.status # "Running"
  <2>1. Store(e, SetStatus(Current(e), "Running"), x)
    BY <1>8 DEF Mark, x
  <2>2. SetStatus(Current(e), "Running") = IF Current(e) = NoRow THEN NoRow ELSE m
    <3>1. "Running" \in Statuses
      BY DEF Statuses
    <3> QED BY <3>1, <1>1, StoredRow DEF m
  <2> QED
    BY <1>1, <1>3, <1>4, <1>5, <1>6, <2>1, <2>2, StoreStep DEF Mark, hist, CallFacts
<1> QED BY <1>7, <1>8

LEMMA EnterSolo ==
  ASSUME TypeOK, CallShape, NEW r \in Runs, InOneHand(r), NEW e \in AllSlots,
         Works(e, r), Enter(e)
  PROVE  InOneHand(r)'
<1>1. CallFacts(e, r) /\ exec[e].run = r /\ r \notin handed
  BY DEF InOneHand, OneHand, Works
<1>2. exec[e] \in Exec /\ exec[e].mem \in Row
  BY CallTyped
<1> DEFINE m == exec[e].mem
           x == [exec[e] EXCEPT !.pc = "body"]
<1>3. [m EXCEPT !.pos = m.pos] = m
  BY <1>2 DEF Row
<1>4. /\ x.run = r /\ x.mem = m /\ x.tx = exec[e].tx /\ x.eff = exec[e].eff
      /\ x.pend = exec[e].pend /\ x.pc = "body" /\ x.ful = exec[e].ful /\ x \in Exec
  BY <1>1, <1>2 DEF Exec, PCs
<1>5. \A k \in Steps(r) : Ahead(x, k) => Ahead(exec[e], k)
  BY <1>4 DEF Ahead, Enter
<1>6. Store(e, SetPos(Current(e), m.pos), x)
  BY DEF Enter
<1>7. SetPos(Current(e), m.pos) = IF Current(e) = NoRow THEN NoRow ELSE m
  BY <1>1, <1>3, StoredRow
<1>8. ~exec[e].tx => m.status \in {"Pending", "Running"}
  <2>1. e = SchedSlot => exec[e].tx
    BY DEF CallShape, Works
  <2> QED BY <1>1, <2>1 DEF CallFacts
<1>9. CopyOK(r, m)
  BY <1>1 DEF CallFacts
<1>10. m.status = "Running"
  BY <1>1 DEF CallFacts, Enter
<1> HIDE DEF x, m
<1> QED
  BY <1>1, <1>2, <1>4, <1>5, <1>6, <1>7, <1>8, <1>9, <1>10, StoreStep DEF Enter, hist, m

LEMMA PassWaitSolo ==
  ASSUME TypeOK, CallShape, NEW r \in Runs, InOneHand(r), NEW e \in AllSlots,
         Works(e, r), PassWait(e)
  PROVE  InOneHand(r)'
<1>1. CallFacts(e, r) /\ exec[e].run = r /\ r \notin handed /\ RowFacts(r) /\ PastFacts(r)
  BY DEF InOneHand, OneHand, Works
<1>2. exec[e] \in Exec
  BY CallTyped
<1> DEFINE x == [exec[e] EXCEPT !.pc = "advance", !.ful = FALSE]
<1>3. /\ x.run = r /\ x.mem = exec[e].mem /\ x.tx = exec[e].tx /\ x.eff = exec[e].eff
      /\ x.pend = exec[e].pend /\ x.pc = "advance" /\ x.ful = FALSE
  BY <1>1, <1>2 DEF Exec
<1> HIDE DEF x
<1>4. exec'[e] = x /\ \A d \in AllSlots : d # e => exec'[d] = exec[d]
  BY DEF PassWait, TypeOK, x
<1>5. CallFacts(e, r)'
  BY <1>1, <1>3, <1>4 DEF CallFacts, PassWait, Current, CopyOK, Ahead, Kind
<1>6. PastFacts(r)'
  <2>1. passed'[r] = passed[r] \union {exec[e].mem.pos}
    BY <1>1 DEF PassWait, TypeOK
  <2>2. /\ Program[r][exec[e].mem.pos] # "UserForm"
        /\ Program[r][exec[e].mem.pos] = "WaitUntil" => <<r, exec[e].mem.pos>> \in due
    BY <1>1 DEF CallFacts, PassWait, Kind
  <2> QED BY <1>1, <2>1, <2>2 DEF PastFacts, PassWait
<1> QED
  BY <1>1, <1>3, <1>4, <1>5, <1>6, OwnStep DEF PassWait, RowFacts, CopyOK, Unrun

LEMMA DoActionSolo ==
  ASSUME TypeOK, CallShape, NEW r \in Runs, InOneHand(r), NEW e \in AllSlots,
         Works(e, r), DoAction(e)
  PROVE  InOneHand(r)'
<1>1. CallFacts(e, r) /\ exec[e].run = r /\ r \notin handed /\ RowFacts(r) /\ PastFacts(r)
  BY DEF InOneHand, OneHand, Works
<1>2. exec[e] \in Exec /\ exec[e].mem \in Row /\ exec[e].mem.pos \in Steps(r) /\ exec[e].mem.pos \in Nat
  BY <1>1, CallTyped
<1> DEFINE p == exec[e].mem.pos
           x == exec'[e]
<1>3. /\ x.run = r /\ x.mem = exec[e].mem /\ x.tx = exec[e].tx
      /\ x.pend = exec[e].pend /\ x.pc = "advance" /\ x.ful = FALSE
      /\ x.eff = IF exec[e].user /\ exec[e].tx THEN exec[e].eff \union {p} ELSE exec[e].eff
  BY <1>1, <1>2 DEF DoAction, TypeOK, Exec
<1>4. \A d \in AllSlots : d # e => exec'[d] = exec[d]
  BY DEF DoAction, TypeOK
<1>5. ran[r] \in [Steps(r) -> 0..2]
  BY DEF TypeOK
<1>6. \A k \in Steps(r) : ran'[r][k] =
        IF exec[e].user /\ ~exec[e].tx /\ k = p THEN Capped(ran[r][k]) ELSE ran[r][k]
  <2>1. CASE exec[e].user /\ ~exec[e].tx
    <3>1. ran' = [ran EXCEPT ![r] = [ran[r] EXCEPT ![p] = Capped(@)]]
      BY <2>1, <1>1 DEF DoAction
    <3>2. ran'[r] = [ran[r] EXCEPT ![p] = Capped(@)]
      BY <3>1 DEF TypeOK
    <3> QED BY <2>1, <3>2, <1>5, <1>2
  <2>2. CASE ~(exec[e].user /\ ~exec[e].tx)
    BY <2>2 DEF DoAction
  <2> QED BY <2>1, <2>2
<1>7. \A k \in Steps(r) : Ahead(x, k) <=> k > p
  BY <1>2, <1>3 DEF Ahead, Steps
<1>8. \A k \in Steps(r) : k >= p => Ahead(exec[e], k)
  BY <1>2 DEF Ahead, DoAction, Steps
<1> HIDE DEF x
<1>9. CallFacts(e, r)'
  <2>1. Current(e)' = Current(e)
    BY <1>1, <1>3 DEF Current, DoAction, x
  <2>2. \A k \in Steps(r) : /\ Ahead(x, k) => ran'[r][k] = 0 /\ k \notin x.eff
                            /\ k \in x.eff => ran'[r][k] = 0
    BY <1>1, <1>2, <1>3, <1>6, <1>7, <1>8 DEF CallFacts, Steps
  <2> QED
    BY <2>1, <2>2, <1>1, <1>3 DEF CallFacts, DoAction, CopyOK, Kind, WaitKinds, Kinds, x
<1>10. PastFacts(r)'
  BY <1>1, <1>2, <1>5, <1>6, <1>8 DEF PastFacts, DoAction, Capped, CallFacts, Steps
<1>11. RowFacts(r)'
  <2>1. row[r] # NoRow /\ row[r].status = "Waiting" => exec[e].tx
    BY <1>1 DEF CallFacts, CallShape, Works, Current, RowFacts
  <2> QED
    BY <1>1, <1>6, <2>1 DEF RowFacts, DoAction, CopyOK, Unrun
<1> QED
  BY <1>1, <1>3, <1>4, <1>9, <1>10, <1>11, OwnStep DEF DoAction, x

LEMMA FailSolo ==
  ASSUME TypeOK, CallShape, NEW r \in Runs, InOneHand(r), NEW e \in AllSlots,
         Works(e, r), Fail(e)
  PROVE  InOneHand(r)'
<1>1. CallFacts(e, r) /\ exec[e].run = r /\ r \notin handed
  BY DEF InOneHand, OneHand, Works
<1>2. exec[e] \in Exec /\ exec[e].mem \in Row
  BY CallTyped
<1> DEFINE m == [exec[e].mem EXCEPT !.status = "Error"]
           y == [exec[e] EXCEPT !.mem.status = "Error"]
           x == Over(y)
<1>3. m \in Row /\ m.status = "Error" /\ m.pos = exec[e].mem.pos /\ "Error" \in Statuses
  BY <1>2 DEF Row, Statuses
<1>4. /\ y.run = r /\ y.mem = m /\ y.tx = exec[e].tx /\ y.eff = exec[e].eff
      /\ y.pend = exec[e].pend /\ y.pc = "body" /\ y.ful = FALSE /\ y \in Exec
  BY <1>1, <1>2, <1>3 DEF Exec, Fail
<1> HIDE DEF y
<1>5. /\ x \in Exec
      /\ \/ x = Idle /\ ~exec[e].tx
         \/ /\ x.run = r /\ x.mem = m /\ x.tx = exec[e].tx /\ x.eff = exec[e].eff
            /\ x.pend = exec[e].pend /\ x.pc = "commit" /\ x.ful = FALSE /\ x.tx
  BY <1>4, IdleOK DEF Over, CallOK, Exec, PCs
<1>6. CopyOK(r, m)
  BY <1>1, <1>3 DEF CallFacts, CopyOK
<1> HIDE DEF x, m
<1>10. exec[e].pc = "body"
  BY DEF Fail
<1>7. \A k \in Steps(r) : x.pc = "commit" /\ Ahead(x, k) => Ahead(exec[e], k)
  BY <1>3, <1>5, <1>10, IdleFields DEF Ahead
<1>8. Store(e, SetStatus(Current(e), "Error"), x)
  BY DEF Fail, y, x
<1>9. SetStatus(Current(e), "Error") = IF Current(e) = NoRow THEN NoRow ELSE m
  BY <1>1, <1>3, StoredRow DEF m
<1> QED
  BY <1>1, <1>3, <1>5, <1>6, <1>7, <1>8, <1>9, StoreStep DEF Fail, hist

LEMMA AnnounceSolo ==
  ASSUME TypeOK, CallShape, NEW r \in Runs, InOneHand(r), NEW e \in AllSlots,
         Works(e, r), Announce(e)
  PROVE  InOneHand(r)'
<1>1. CallFacts(e, r) /\ exec[e].run = r /\ r \notin handed /\ RowFacts(r) /\ PastFacts(r)
  BY DEF InOneHand, OneHand, Works
<1>2. exec[e] \in Exec
  BY CallTyped
<1> DEFINE x == [exec[e] EXCEPT !.pc = "park"]
<1>3. /\ x.run = r /\ x.mem = exec[e].mem /\ x.tx = exec[e].tx /\ x.eff = exec[e].eff
      /\ x.pend = exec[e].pend /\ x.pc = "park" /\ x.ful = FALSE
  BY <1>1, <1>2 DEF Exec, Announce
<1> HIDE DEF x
<1>4. exec'[e] = x /\ \A d \in AllSlots : d # e => exec'[d] = exec[d]
  BY DEF Announce, TypeOK, x
<1>5. CallFacts(e, r)'
  BY <1>1, <1>3, <1>4 DEF CallFacts, Announce, Current, CopyOK, Ahead, Kind, hist
<1> QED
  BY <1>1, <1>3, <1>4, <1>5, OwnStep DEF Announce, RowFacts, PastFacts, CopyOK, Unrun, hist

LEMMA FlagSolo ==
  ASSUME TypeOK, CallShape, NEW r \in Runs, InOneHand(r), NEW e \in AllSlots,
         Works(e, r), Flag(e)
  PROVE  InOneHand(r)'
<1>1. CallFacts(e, r) /\ exec[e].run = r /\ r \notin handed /\ RowFacts(r) /\ PastFacts(r)
  BY DEF InOneHand, OneHand, Works
<1>2. exec[e] \in Exec
  BY CallTyped
<1> DEFINE x == [exec[e] EXCEPT !.pc = "commit"]
<1>3. /\ x.run = r /\ x.mem = exec[e].mem /\ x.tx = exec[e].tx /\ x.eff = exec[e].eff
      /\ x.pend = exec[e].pend /\ x.pc = "commit" /\ x.ful = exec[e].ful
  BY <1>1, <1>2 DEF Exec
<1>4. x = Over(exec[e])
  BY DEF Over, Works, Flag
<1> HIDE DEF x
<1>5. exec'[e] = x /\ \A d \in AllSlots : d # e => exec'[d] = exec[d]
  BY <1>4 DEF Flag, TypeOK
<1>6. CallFacts(e, r)'
  BY <1>1, <1>3, <1>5 DEF CallFacts, Flag, Current, CopyOK, Ahead, Kind, hist
<1> QED
  BY <1>1, <1>3, <1>5, <1>6, OwnStep DEF Flag, RowFacts, PastFacts, CopyOK, Unrun, hist

LEMMA ParkSolo ==
  ASSUME TypeOK, CallShape, NEW r \in Solo, InOneHand(r), NEW e \in AllSlots,
         Works(e, r), Park(e)
  PROVE  InOneHand(r)'
<1>0. r \in Runs
  BY DEF Solo
<1>1. CallFacts(e, r) /\ exec[e].run = r /\ r \notin handed
  BY DEF InOneHand, OneHand, Works
<1>2. exec[e] \in Exec /\ exec[e].mem \in Row /\ exec[e].mem.pos \in Steps(r) /\ exec[e].mem.pos \in Nat
  BY <1>1, CallTyped
<1> DEFINE k == Program[r][exec[e].mem.pos]
           w == WaitOf(k)
           m == [exec[e].mem EXCEPT !.status = "Waiting", !.wait = w]
           y == [exec[e] EXCEPT !.mem.status = "Waiting", !.mem.wait = w]
           x == IF k = "WaitNextTick" THEN [y EXCEPT !.pc = "flag"] ELSE Over(y)
<1>3. k \in WaitKinds /\ k # "Background"
  BY <1>1, <1>2 DEF Park, Kind, Solo, CallFacts, CopyOK
<1>4. w \in Waits
  BY DEF WaitOf, Waits
<1>5. exec[e].pc \in {"body", "park"} /\ ~exec[e].ful
  BY <1>1 DEF Park, CallFacts
<1>6. Store(e, SetWait(SetStatus(Current(e), "Waiting"), w), x)
  BY <1>1 DEF Park, Kind
<1>7. timers' = timers
  BY <1>1, <1>3 DEF Park, Kind
<1> HIDE DEF k
<1>8. m \in Row /\ m.status = "Waiting" /\ m.wait = w /\ m.pos = exec[e].mem.pos
      /\ "Waiting" \in Statuses
  BY <1>2, <1>4 DEF Row, Statuses
<1>9. /\ y.run = r /\ y.mem = m /\ y.tx = exec[e].tx /\ y.eff = exec[e].eff
      /\ y.pend = exec[e].pend /\ y.ful = FALSE /\ y \in Exec
  BY <1>1, <1>2, <1>5, <1>8 DEF Exec
<1> HIDE DEF w, m, y
<1>10. /\ x \in Exec
       /\ \/ x = Idle /\ ~exec[e].tx
          \/ /\ x.run = r /\ x.mem = m /\ x.tx = exec[e].tx /\ x.eff = exec[e].eff
             /\ x.pend = exec[e].pend /\ x.pc \in {"commit", "flag"} /\ x.ful = FALSE
             /\ ~x.tx => x.pc = "flag"
  BY <1>9, IdleOK DEF Over, CallOK, Exec, PCs
<1> HIDE DEF x
<1>11. CopyOK(r, m)
  BY <1>1, <1>3, <1>8 DEF CallFacts, CopyOK, k, w
<1>12. \A i \in Steps(r) : i >= exec[e].mem.pos => Ahead(exec[e], i)
  BY <1>2, <1>5 DEF Ahead, Steps
<1>13. Unrun(r, m.pos)
  BY <1>1, <1>8, <1>12 DEF Unrun, CallFacts
<1>14. \A i \in Steps(r) : x.mem = m /\ Ahead(x, i) => Ahead(exec[e], i)
  BY <1>2, <1>8, <1>12 DEF Ahead, Steps
<1>15. SetWait(SetStatus(Current(e), "Waiting"), w) =
         IF Current(e) = NoRow THEN NoRow ELSE m
  <2>1. SetWait(SetStatus(Current(e), "Waiting"), w) =
          IF Current(e) = NoRow THEN NoRow
          ELSE [exec[e].mem EXCEPT !.status = "Waiting", !.wait = w]
    <3>1. Current(e) \in {NoRow, exec[e].mem}
      BY <1>1 DEF CallFacts
    <3>2. [exec[e].mem EXCEPT !.status = "Waiting"] \in Row
      BY <1>2, <1>8 DEF Row
    <3> QED BY <1>2, <3>1, <3>2, NoRowAssumption DEF SetStatus, SetWait
  <2> QED BY <2>1 DEF m
<1> QED
  BY <1>0, <1>1, <1>6, <1>7, <1>8, <1>10, <1>11, <1>13, <1>14, <1>15, StoreStep
  DEF Park, hist

LEMMA AdvanceSolo ==
  ASSUME TypeOK, CallShape, NEW r \in Runs, InOneHand(r), NEW e \in AllSlots,
         Works(e, r), Advance(e)
  PROVE  InOneHand(r)'
<1>1. CallFacts(e, r) /\ exec[e].run = r /\ r \notin handed
  BY DEF InOneHand, OneHand, Works
<1>2. exec[e] \in Exec /\ exec[e].mem \in Row /\ exec[e].mem.pos \in Steps(r) /\ exec[e].mem.pos \in Nat
  BY <1>1, CallTyped
<1> DEFINE p == exec[e].mem.pos
           last == p = Len(Program[r])
           m == IF last THEN [exec[e].mem EXCEPT !.status = "Finished"]
                ELSE [exec[e].mem EXCEPT !.pos = p + 1]
           y == IF last THEN [exec[e] EXCEPT !.mem.status = "Finished"]
                ELSE [exec[e] EXCEPT !.pc = "enter", !.mem.pos = @ + 1]
           gives == exec[e].inter /\ exec[e].user /\ Kind(exec[e]) = "Directive"
           x == IF last \/ gives THEN Over(y) ELSE y
           v == IF last THEN SetStatus(Current(e), "Finished")
                ELSE SetPos(Current(e), y.mem.pos)
<1>3. exec[e].pc = "advance" /\ exec[e].mem.status = "Running" /\ Kind(exec[e]) # "UserForm"
      /\ exec[e].ful = FALSE
  BY <1>1, <1>2 DEF Advance, CallFacts, Exec
<1>4. Store(e, v, x)
  BY <1>1 DEF Advance
<1>5. r \in handed' => gives /\ ~exec[e].tx /\ y.mem.status = "Running"
  <2>1. y.run = r
    BY <1>1, <1>2 DEF Exec
  <2> HIDE DEF y
  <2>2. IF gives /\ ~exec[e].tx THEN HandOver(y) ELSE UNCHANGED handed
    BY <1>1 DEF Advance, y
  <2> HIDE DEF gives
  <2> QED BY <1>1, <2>1, <2>2 DEF HandOver
<1>6. "Finished" \in Statuses /\ p + 1 \in Nat
  BY <1>2 DEF Statuses
<1>7. m \in Row /\ m.status = (IF last THEN "Finished" ELSE "Running")
      /\ m.pos = (IF last THEN p ELSE p + 1)
  BY <1>2, <1>3, <1>6 DEF Row
<1>8. /\ y.run = r /\ y.mem = m /\ y.tx = exec[e].tx /\ y.eff = exec[e].eff
      /\ y.pend = exec[e].pend /\ y.ful = FALSE /\ y \in Exec
      /\ ~last => y.pc = "enter"
  BY <1>1, <1>2, <1>3, <1>7 DEF Exec, PCs
<1>9. v = IF Current(e) = NoRow THEN NoRow ELSE m
  <2>1. CASE last
    BY <2>1, <1>1, <1>6, StoredRow
  <2>2. CASE ~last
    <3>1. y.mem.pos = p + 1
      BY <2>2, <1>7, <1>8
    <3>2. SetPos(Current(e), p + 1) =
            IF Current(e) = NoRow THEN NoRow ELSE [exec[e].mem EXCEPT !.pos = p + 1]
      BY <1>1, StoredRow
    <3> HIDE DEF y
    <3> QED BY <2>2, <3>1, <3>2
  <2> QED BY <2>1, <2>2
<1> HIDE DEF y, m, v, gives
<1>10. /\ x \in Exec
       /\ \/ x = Idle /\ ~exec[e].tx
          \/ /\ x.run = r /\ x.mem = m /\ x.tx = exec[e].tx /\ x.eff = exec[e].eff
             /\ x.pend = exec[e].pend /\ x.ful = FALSE
             /\ IF last THEN x.pc = "commit" /\ x.tx ELSE x.pc \in {"commit", "enter"}
             /\ x.pc = "commit" => x.tx
  BY <1>8, IdleOK DEF Over, CallOK, Exec, PCs
<1>11. CopyOK(r, m)
  BY <1>1, <1>2, <1>3, <1>7 DEF CallFacts, CopyOK, Reached, Kind
<1>12. \A k \in Steps(r) : Ahead(exec[e], k) <=> k > p
  BY <1>2, <1>3 DEF Ahead, Steps
<1>13. gives /\ ~exec[e].tx => x = Idle
  BY <1>8 DEF Over
<1> HIDE DEF x
<1>14. \A k \in Steps(r) : x # Idle /\ Ahead(x, k) => Ahead(exec[e], k)
  BY <1>2, <1>7, <1>10, <1>12 DEF Ahead, Steps
<1>15. Unrun(r, m.pos) \/ last
  BY <1>1, <1>2, <1>7, <1>12 DEF CallFacts, Unrun, Steps
<1>16. r \in handed' => x = Idle /\ ~exec[e].tx /\ m.status = "Running" /\ Unrun(r, m.pos)
  BY <1>5, <1>7, <1>8, <1>13, <1>15
<1> QED
  BY <1>1, <1>2, <1>4, <1>7, <1>9, <1>10, <1>11, <1>14, <1>16, IdleFields, StoreStep
  DEF Advance, hist

LEMMA CommitSolo ==
  ASSUME TypeOK, CallShape, NEW r \in Runs, InOneHand(r), NEW e \in AllSlots,
         Works(e, r), Commit(e)
  PROVE  InOneHand(r)'
<1>1. CallFacts(e, r) /\ exec[e].run = r /\ r \notin handed /\ RowFacts(r) /\ PastFacts(r)
  BY DEF InOneHand, OneHand, Works
<1>2. exec[e] \in Exec /\ exec[e].mem \in Row /\ exec[e].mem.pos \in Steps(r) /\ exec[e].mem.pos \in Nat
  BY <1>1, CallTyped
<1>3. exec'[e] = Idle /\ \A d \in AllSlots : d # e => exec'[d] = exec[d]
  BY DEF Commit, TypeOK
<1>4. row'[r] = Current(e) /\ row'[r] \in {NoRow, exec[e].mem}
  BY <1>1 DEF Commit, TypeOK, Current, CallFacts
<1>5. ran[r] \in [Steps(r) -> 0..2] /\ DOMAIN ran = Runs
  BY DEF TypeOK
<1>6. \A k \in Steps(r) : ran'[r][k] = IF k \in exec[e].eff THEN Capped(ran[r][k]) ELSE ran[r][k]
  BY <1>1, <1>5 DEF Commit
<1>7. r \in handed' => exec[e].mem.status = "Running"
  BY <1>1 DEF Commit, HandOver
<1>8. exec[e].mem.status # "Finished" => \A k \in Steps(r) : k >= exec[e].mem.pos => Ahead(exec[e], k)
  BY <1>2 DEF Ahead, Steps, Commit
<1>9. RowFacts(r)'
  <2>1. row'[r] # NoRow => CopyOK(r, row'[r])
    BY <1>1, <1>4 DEF CallFacts, CopyOK
  <2>2. exec[e].mem.status # "Finished" =>
          \A k \in Steps(r) : k >= exec[e].mem.pos => ran'[r][k] = 0
    BY <1>1, <1>6, <1>8 DEF CallFacts
  <2> QED
    BY <1>4, <1>7, <2>1, <2>2 DEF RowFacts, Unrun
<1>10. PastFacts(r)'
  BY <1>1, <1>5, <1>6 DEF PastFacts, CallFacts, Commit, Capped
<1> QED
  BY <1>3, <1>9, <1>10, IdleFields, OwnStep DEF Commit, Works

-----------------------------------------------------------------------------
(* The steps that leave a run alone: those of calls for other runs, of     *)
(* calls that only raise the flag, and those that start no call.           *)

LEMMA OverFields ==
  ASSUME NEW x \in Exec
  PROVE  \/ Over(x) = Idle /\ x.tx = FALSE
         \/ Over(x).run = x.run /\ Over(x).tx = x.tx /\ x.tx = TRUE /\ Over(x).pc = "commit"
<1>1. CASE x.tx
  <2>1. Over(x) = [x EXCEPT !.pc = "commit"]
    BY <1>1 DEF Over
  <2>2. Over(x).run = x.run /\ Over(x).pc = "commit" /\ Over(x).tx = x.tx
    BY <2>1 DEF Exec
  <2> QED BY <1>1, <2>2
<1>2. CASE ~x.tx
  <2>1. Over(x) = Idle /\ x.tx = FALSE
    BY <1>2 DEF Over, Exec
  <2> QED BY <2>1
<1> QED BY <1>1, <1>2

LEMMA InvokeFields ==
  ASSUME NEW x \in Exec
  PROVE  \/ Invoke(x) = Idle /\ x.tx = FALSE
         \/ /\ Invoke(x).run = x.run /\ Invoke(x).tx = x.tx
            /\ Invoke(x).pend = x.pend /\ Invoke(x).mem = x.mem
            /\ Invoke(x).eff = x.eff
            /\ Invoke(x).pc = "mark" \/ (Invoke(x).pc = "commit" /\ x.tx = TRUE)
<1>1. CASE Runnable(x.run, x.mem)
  <2>1. Invoke(x) = [x EXCEPT !.pc = "mark", !.ful = x.mem.status = "Waiting"]
    BY <1>1 DEF Invoke
  <2>2. /\ Invoke(x).run = x.run /\ Invoke(x).tx = x.tx /\ Invoke(x).pend = x.pend
        /\ Invoke(x).mem = x.mem /\ Invoke(x).eff = x.eff /\ Invoke(x).pc = "mark"
    BY <2>1 DEF Exec
  <2> QED BY <2>2
<1>2. CASE ~Runnable(x.run, x.mem) /\ x.tx
  <2>1. Invoke(x) = [x EXCEPT !.pc = "commit"]
    BY <1>2 DEF Invoke, Over
  <2>2. /\ Invoke(x).run = x.run /\ Invoke(x).tx = x.tx /\ Invoke(x).pend = x.pend
        /\ Invoke(x).mem = x.mem /\ Invoke(x).eff = x.eff /\ Invoke(x).pc = "commit"
    BY <2>1 DEF Exec
  <2> QED BY <1>2, <2>2
<1>3. CASE ~Runnable(x.run, x.mem) /\ ~x.tx
  <2>1. Invoke(x) = Idle /\ x.tx = FALSE
    BY <1>3 DEF Invoke, Over, Exec
  <2> QED BY <2>1
<1> QED BY <1>1, <1>2, <1>3

LEMMA StoreElsewhere ==
  ASSUME TypeOK, NEW e \in AllSlots, NEW v, NEW x, Store(e, v, x)
  PROVE  /\ \A q \in Runs : q # exec[e].run => row'[q] = row[q]
         /\ \A d \in AllSlots : d # e => exec'[d] = exec[d]
         /\ exec'[e] = IF exec[e].tx THEN [x EXCEPT !.pend = v] ELSE x
BY DEF Store, TypeOK

LEMMA StoredCall ==
  ASSUME TypeOK, NEW e \in AllSlots, NEW v, NEW x \in Exec, Store(e, v, x),
         exec[e].tx => x.tx, x.tx \/ (x.pend = NoRow /\ x.pc # "commit")
  PROVE  /\ exec'[e].pc = x.pc /\ exec'[e].run = x.run /\ exec'[e].tx = x.tx
         /\ exec'[e].tx \/ (exec'[e].pend = NoRow /\ exec'[e].pc # "commit")
<1>1. CASE exec[e].tx
  <2>1. exec'[e] = [x EXCEPT !.pend = v]
    BY <1>1, StoreElsewhere
  <2> QED BY <1>1, <2>1 DEF Exec
<1>2. CASE ~exec[e].tx
  BY <1>2, StoreElsewhere
<1> QED BY <1>1, <1>2

(* What a step of a call leaves in its slot: the call of the same run, or  *)
(* an idle slot.                                                           *)
LEMMA CallKeeps ==
  ASSUME TypeOK, CallShape, NEW e \in AllSlots, CallStep(e)
  PROVE  /\ exec'[e].tx \/ (exec'[e].pend = NoRow /\ exec'[e].pc # "commit")
         /\ \/ exec'[e].pc = "idle"
            \/ exec'[e].run = exec[e].run /\ exec'[e].tx = exec[e].tx
         /\ exec'[e].pc # "input" /\ exec[e].pc # "idle"
         /\ \A q \in Runs : q # exec[e].run => row'[q] = row[q]
         /\ \A d \in AllSlots : d # e => exec'[d] = exec[d]
         /\ sched' = sched /\ due' = due /\ started' = started
         /\ \A tm \in timers' : tm \in timers \/ tm.run = exec[e].run
         /\ handed' \subseteq handed \union {exec[e].run}
         /\ \A q \in Runs : q # exec[e].run =>
              ran'[q] = ran[q] /\ passed'[q] = passed[q] /\ answered'[q] = answered[q]
<1>1. exec[e] \in Exec /\ exec[e].run \in Runs /\ exec[e].mem \in Row
      /\ exec[e].mem.pos \in Steps(exec[e].run) /\ exec[e].mem.pos \in Nat
  BY CallTyped
<1>t. /\ exec \in [AllSlots -> Exec] /\ row \in [Runs -> Row \union {NoRow}]
      /\ answered \in [Runs -> SUBSET Nat] /\ passed \in [Runs -> SUBSET Nat]
      /\ DOMAIN ran = Runs
  BY DEF TypeOK
<1>i. Idle.pc = "idle" /\ Idle.pend = NoRow
  BY IdleFields
<1>s. exec[e].tx \/ (exec[e].pend = NoRow /\ exec[e].pc # "commit")
  BY DEF CallShape
<1>2. CASE ProvideInput(e)
  <2> DEFINE x == [exec[e] EXCEPT !.mem.wait = Cleared(@)]
  <2>1. /\ x \in Exec /\ x.run = exec[e].run /\ x.tx = exec[e].tx
        /\ x.pend = exec[e].pend
    BY <1>1 DEF Cleared, Exec, Row, Waits
  <2> HIDE DEF x
  <2>2. Store(e, SetWait(Current(e), x.mem.wait), Invoke(x))
    BY <1>2 DEF ProvideInput, x
  <2>3. Invoke(x) \in Exec
    BY <2>1, IdleOK DEF Invoke, Over, CallOK, Exec, PCs
  <2>4. \A q \in Runs : q # exec[e].run => answered'[q] = answered[q]
    BY <1>2, <1>t, <2>1 DEF ProvideInput, x
  <2>7. /\ x.tx => Invoke(x).tx
        /\ Invoke(x).tx \/ (Invoke(x).pend = NoRow /\ Invoke(x).pc # "commit")
    BY <1>i, <1>s, <2>1, InvokeFields
  <2>5. Invoke(x).pc # "input" /\ (Invoke(x).pc = "idle" \/ (Invoke(x).run = x.run /\ Invoke(x).tx = x.tx))
    BY <2>1, <1>i, InvokeFields
  <2>6. /\ exec'[e].pc = Invoke(x).pc /\ exec'[e].run = Invoke(x).run
        /\ exec'[e].tx = Invoke(x).tx
        /\ exec'[e].tx \/ (exec'[e].pend = NoRow /\ exec'[e].pc # "commit")
    BY <2>1, <2>2, <2>3, <2>7, StoredCall
  <2> QED
    BY <1>2, <2>1, <2>2, <2>4, <2>5, <2>6, StoreElsewhere DEF ProvideInput
<1>3. CASE Mark(e)
  <2> DEFINE x == [exec[e] EXCEPT !.pc = "enter", !.mem.status = "Running"]
  <2>1. /\ x \in Exec /\ x.run = exec[e].run /\ x.tx = exec[e].tx /\ x.pc = "enter"
        /\ x.pend = exec[e].pend
    BY <1>1 DEF Exec, PCs, Row, Statuses
  <2>2. \/ exec' = [exec EXCEPT ![e] = x] /\ UNCHANGED row
        \/ Store(e, SetStatus(Current(e), "Running"), x)
    BY <1>3 DEF Mark
  <2> HIDE DEF x
  <2>3. /\ exec'[e].pc = x.pc /\ exec'[e].run = x.run /\ exec'[e].tx = x.tx
        /\ exec'[e].tx \/ (exec'[e].pend = NoRow /\ exec'[e].pc # "commit")
    BY <1>s, <1>t, <2>1, <2>2, StoredCall
  <2>4. /\ \A q \in Runs : q # exec[e].run => row'[q] = row[q]
        /\ \A d \in AllSlots : d # e => exec'[d] = exec[d]
    BY <1>t, <2>2, StoreElsewhere
  <2>5. exec[e].pc = "mark" /\ UNCHANGED <<started, timers, sched, due, handed, hist>>
    BY <1>3 DEF Mark
  <2> QED BY <2>1, <2>3, <2>4, <2>5 DEF hist
<1>4. CASE Enter(e)
  <2> DEFINE x == [exec[e] EXCEPT !.pc = "body"]
  <2>1. /\ x \in Exec /\ x.run = exec[e].run /\ x.tx = exec[e].tx /\ x.pc = "body"
        /\ x.pend = exec[e].pend
    BY <1>1 DEF Exec, PCs
  <2>2. Store(e, SetPos(Current(e), exec[e].mem.pos), x)
    BY <1>4 DEF Enter
  <2> HIDE DEF x
  <2>3. /\ exec'[e].pc = x.pc /\ exec'[e].run = x.run /\ exec'[e].tx = x.tx
        /\ exec'[e].tx \/ (exec'[e].pend = NoRow /\ exec'[e].pc # "commit")
    BY <1>s, <2>1, <2>2, StoredCall
  <2>4. exec[e].pc = "enter" /\ UNCHANGED <<started, timers, sched, due, handed, hist>>
    BY <1>4 DEF Enter
  <2> QED BY <2>1, <2>2, <2>3, <2>4, StoreElsewhere DEF hist
<1>5. CASE PassWait(e)
  BY <1>5, <1>1, <1>s, <1>t DEF PassWait, Exec
<1>6. CASE DoAction(e)
  BY <1>6, <1>1, <1>s, <1>t DEF DoAction, Exec
<1>7. CASE Fail(e)
  <2> DEFINE y == [exec[e] EXCEPT !.mem.status = "Error"]
  <2>1. y \in Exec /\ y.run = exec[e].run /\ y.tx = exec[e].tx
    BY <1>1 DEF Exec, Row, Statuses
  <2>2. Store(e, SetStatus(Current(e), "Error"), Over(y))
    BY <1>7 DEF Fail
  <2> HIDE DEF y
  <2>3. Over(y) \in Exec
    BY <2>1, IdleOK DEF Over, CallOK, Exec, PCs
  <2>4. Over(y).pc # "input" /\ (Over(y).pc = "idle" \/ (Over(y).run = y.run /\ Over(y).tx = y.tx))
    BY <2>1, <1>i, OverFields
  <2>7. /\ y.tx => Over(y).tx
        /\ Over(y).tx \/ (Over(y).pend = NoRow /\ Over(y).pc # "commit")
    BY <1>i, <2>1, OverFields
  <2>5. /\ exec'[e].pc = Over(y).pc /\ exec'[e].run = Over(y).run /\ exec'[e].tx = Over(y).tx
        /\ exec'[e].tx \/ (exec'[e].pend = NoRow /\ exec'[e].pc # "commit")
    BY <2>1, <2>2, <2>3, <2>7, StoredCall
  <2>6. exec[e].pc = "body" /\ UNCHANGED <<started, timers, sched, due, handed, hist>>
    BY <1>7, <1>1 DEF Fail, Exec
  <2> QED
    BY <2>1, <2>2, <2>4, <2>5, <2>6, StoreElsewhere DEF hist
<1>8. CASE Announce(e)
  BY <1>8, <1>1, <1>s, <1>t DEF Announce, Exec, hist
<1>9. CASE Park(e)
  <2> DEFINE k == Kind(exec[e])
             w == WaitOf(k)
             y == [exec[e] EXCEPT !.mem.status = "Waiting", !.mem.wait = w]
             x == IF k = "WaitNextTick" THEN [y EXCEPT !.pc = "flag"] ELSE Over(y)
  <2>1. /\ y \in Exec /\ y.run = exec[e].run /\ y.tx = exec[e].tx
        /\ y.pend = exec[e].pend
    BY <1>1 DEF Exec, Row, Statuses, WaitOf, Waits
  <2>2. Store(e, SetWait(SetStatus(Current(e), "Waiting"), w), x)
    BY <1>9 DEF Park
  <2>3. \A tm \in timers' : tm \in timers \/ tm.run = y.run
    BY <1>9 DEF Park
  <2> HIDE DEF k, w, y
  <2>4. x \in Exec /\ (x.pc = "idle" \/ (x.run = y.run /\ x.tx = y.tx)) /\ x.pc # "input"
    BY <2>1, IdleOK, IdleFields DEF Over, CallOK, Exec, PCs
  <2>8. /\ y.tx => x.tx
        /\ x.tx \/ (x.pend = NoRow /\ x.pc # "commit")
    BY <1>i, <1>s, <2>1, OverFields DEF Exec
  <2> HIDE DEF x
  <2>5. exec[e].pc # "idle"
    BY <1>9 DEF Park
  <2>6. /\ exec'[e].pc = x.pc /\ exec'[e].run = x.run /\ exec'[e].tx = x.tx
        /\ exec'[e].tx \/ (exec'[e].pend = NoRow /\ exec'[e].pc # "commit")
    BY <2>1, <2>2, <2>4, <2>8, StoredCall
  <2>7. UNCHANGED <<started, sched, due, handed, hist>>
    BY <1>9 DEF Park
  <2> QED
    BY <2>1, <2>2, <2>3, <2>4, <2>5, <2>6, <2>7, StoreElsewhere DEF hist
<1>10. CASE Flag(e)
  <2>1. exec'[e] = Over(exec[e]) /\ \A d \in AllSlots : d # e => exec'[d] = exec[d]
    BY <1>10, <1>t DEF Flag
  <2>2. /\ Over(exec[e]).pc # "input"
        /\ \/ Over(exec[e]).pc = "idle"
           \/ Over(exec[e]).run = exec[e].run /\ Over(exec[e]).tx = exec[e].tx
    BY <1>1, <1>i, OverFields
  <2>3. /\ exec[e].pc = "flag"
        /\ UNCHANGED <<row, started, timers, sched, due, handed, hist>>
    BY <1>10 DEF Flag
  <2>4. /\ \/ exec'[e].pc = "idle"
           \/ exec'[e].run = exec[e].run /\ exec'[e].tx = exec[e].tx
        /\ exec'[e].pc # "input"
        /\ exec'[e].tx \/ (exec'[e].pend = NoRow /\ exec'[e].pc # "commit")
    BY <1>1, <1>i, <2>1, <2>2, OverFields
  <2>5. \A d \in AllSlots : d # e => exec'[d] = exec[d]
    BY <2>1
  <2> QED BY <2>3, <2>4, <2>5 DEF hist
<1>11. CASE Advance(e)
  <2> DEFINE last == exec[e].mem.pos = Len(Program[exec[e].run])
             y == IF last THEN [exec[e] EXCEPT !.mem.status = "Finished"]
                  ELSE [exec[e] EXCEPT !.pc = "enter", !.mem.pos = @ + 1]
             gives == exec[e].inter /\ exec[e].user /\ Kind(exec[e]) = "Directive"
             x == IF last \/ gives THEN Over(y) ELSE y
             v == IF last THEN SetStatus(Current(e), "Finished")
                  ELSE SetPos(Current(e), y.mem.pos)
  <2>1. exec[e].pc = "advance" /\ Store(e, v, x)
    BY <1>11 DEF Advance
  <2>2. handed' = handed \/ HandOver(y)
    BY <1>11 DEF Advance
  <2>3. /\ y \in Exec /\ y.run = exec[e].run /\ y.tx = exec[e].tx
        /\ y.pc \in {"advance", "enter"} /\ y.pend = exec[e].pend
    <3>1. CASE last
      BY <3>1, <1>1, <2>1 DEF Exec, Row, Statuses, PCs
    <3>2. CASE ~last
      <4>1. [exec[e].mem EXCEPT !.pos = @ + 1] \in Row
        BY <1>1 DEF Row
      <4>2. y = [exec[e] EXCEPT !.pc = "enter", !.mem = [exec[e].mem EXCEPT !.pos = @ + 1]]
        BY <3>2, <1>1 DEF Exec
      <4> HIDE DEF y
      <4> QED BY <1>1, <4>1, <4>2 DEF Exec, PCs
    <3> QED BY <3>1, <3>2
  <2> HIDE DEF y, v, gives, last
  <2>4. handed' \subseteq handed \union {exec[e].run}
    BY <2>2, <2>3 DEF HandOver
  <2>5. x \in Exec /\ (x.pc = "idle" \/ (x.run = y.run /\ x.tx = y.tx)) /\ x.pc # "input"
    BY <2>3, IdleOK, IdleFields DEF Over, CallOK, Exec, PCs
  <2>8. /\ y.tx => x.tx
        /\ x.tx \/ (x.pend = NoRow /\ x.pc # "commit")
    BY <1>i, <1>s, <2>3, OverFields
  <2> HIDE DEF x
  <2>6. /\ exec'[e].pc = x.pc /\ exec'[e].run = x.run /\ exec'[e].tx = x.tx
        /\ exec'[e].tx \/ (exec'[e].pend = NoRow /\ exec'[e].pc # "commit")
    BY <2>1, <2>3, <2>5, <2>8, StoredCall
  <2>7. UNCHANGED <<started, timers, sched, due, hist>>
    BY <1>11 DEF Advance
  <2> QED
    BY <2>1, <2>3, <2>4, <2>5, <2>6, <2>7, StoreElsewhere DEF hist
<1>12. CASE Commit(e)
  <2>1. handed' \subseteq handed \union {exec[e].run}
    BY <1>12 DEF Commit, HandOver
  <2>2. /\ exec'[e].pc = "idle" /\ exec'[e].pend = NoRow
        /\ \A d \in AllSlots : d # e => exec'[d] = exec[d]
    BY <1>12, <1>i, <1>t DEF Commit
  <2>3. \A q \in Runs : q # exec[e].run => row'[q] = row[q] /\ ran'[q] = ran[q]
    BY <1>12, <1>t DEF Commit
  <2>4. exec[e].pc = "commit" /\ UNCHANGED <<started, timers, sched, due, answered, passed>>
    BY <1>12 DEF Commit
  <2> QED BY <2>1, <2>2, <2>3, <2>4
<1> QED
  BY <1>2, <1>3, <1>4, <1>5, <1>6, <1>7, <1>8, <1>9, <1>10, <1>11, <1>12 DEF CallStep

LEMMA CallElsewhere ==
  ASSUME TypeOK, CallShape, NEW e \in AllSlots, CallStep(e), NEW r \in Runs, exec[e].run # r
  PROVE  LeavesAlone(r)
BY CallKeeps DEF LeavesAlone

LEMMA FlagElsewhere ==
  ASSUME TypeOK, NEW e \in AllSlots, Flag(e), ~exec[e].tx, NEW r \in Runs
  PROVE  LeavesAlone(r)
<1>1. exec'[e] = Idle /\ \A d \in AllSlots : d # e => exec'[d] = exec[d]
  BY DEF Flag, Over, TypeOK
<1> QED BY <1>1, IdleFields DEF LeavesAlone, Flag, hist

-----------------------------------------------------------------------------
(* The steps that start a call or fill the scheduler's list.               *)

(* Nobody has run r, and call e takes it on.                               *)
LEMMA NewCall ==
  ASSUME TypeOK, NEW r \in Runs, InOneHand(r), NEW e \in AllSlots,
         \A d \in AllSlots : ~Works(d, r),
         NEW x \in Exec, exec'[e] = x, \A d \in AllSlots : d # e => exec'[d] = exec[d],
         x.run = r, x.pc = "mark", x.eff = {}, x.mem.pos \in Steps(r),
         CopyOK(r, x.mem), Unrun(r, x.mem.pos), x.pend \in {NoRow, x.mem},
         x.pend = NoRow => row'[r] \in {NoRow, x.mem},
         IF e = SchedSlot THEN row'[r] = NoRow \/ row'[r].status = "Waiting"
         ELSE IF x.tx THEN row'[r] = NoRow
         ELSE x.mem.status \in {"Pending", "Running"},
         x.ful => /\ Program[r][x.mem.pos] # "UserForm"
                  /\ Program[r][x.mem.pos] = "WaitUntil" => <<r, x.mem.pos>> \in due,
         \A o \in sched'.queue : o.run # r, timers' \subseteq timers,
         due' = due, ran' = ran, passed' = passed, r \notin handed', RowFacts(r)'
  PROVE  InOneHand(r)'
<1>1. x.mem.pos \in Nat
  BY StepsFacts
<1>2. \A k \in Steps(r) : Ahead(x, k) => k >= x.mem.pos
  BY <1>1, StepsFacts DEF Ahead
<1>3. Current(e)' \in {NoRow, x.mem}
  BY DEF Current
<1>4. CallFacts(e, r)'
  <2>1. \A k \in Steps(r) : /\ Ahead(x, k) => ran'[r][k] = 0 /\ k \notin x.eff
                            /\ k \in x.eff => ran'[r][k] = 0
    BY <1>2 DEF Unrun
  <2> QED BY <1>3, <2>1 DEF CallFacts, CopyOK, Kind
<1>5. PastFacts(r)' /\ FormFacts(e, r)'
  BY DEF InOneHand, PastFacts, FormFacts
<1> QED BY <1>4, <1>5, OnlyHand

LEMMA FreshFields ==
  ASSUME NEW r \in Runs
  PROVE  /\ Fresh \in Row /\ Fresh.status = "Pending" /\ Fresh.pos = 1
         /\ Fresh # NoRow /\ 1 \in Steps(r) /\ CopyOK(r, Fresh)
BY NoRowAssumption, FreshOK DEF Fresh, Row, Statuses, Waits, CopyOK, Reached, ObjectOK

(* What invoke makes of an object that can be run.                         *)
LEMMA RunnableCall ==
  ASSUME NEW x \in Exec, Runnable(x.run, x.mem)
  PROVE  /\ Invoke(x) \in Exec /\ Invoke(x).pc = "mark"
         /\ Invoke(x).run = x.run /\ Invoke(x).mem = x.mem /\ Invoke(x).tx = x.tx
         /\ Invoke(x).pend = x.pend /\ Invoke(x).eff = x.eff
         /\ Invoke(x).ful <=> x.mem.status = "Waiting"
<1>1. Invoke(x) = [x EXCEPT !.pc = "mark", !.ful = x.mem.status = "Waiting"]
  BY DEF Invoke
<1> QED BY <1>1 DEF Exec, PCs

(* What the steps that start a call put into its slot.                     *)
LEMMA StartCall ==
  ASSUME TypeOK, NEW r \in Runs, NEW e \in Slots, NEW p \in RequestProcs, Start(e, p, r)
  PROVE  \E t \in BOOLEAN :
           /\ exec'[e] \in Exec /\ exec'[e].pc = "mark" /\ exec'[e].run = r
           /\ exec'[e].mem = Fresh /\ exec'[e].tx = t /\ exec'[e].eff = {}
           /\ ~exec'[e].ful /\ exec'[e].pend = (IF t THEN Fresh ELSE NoRow)
           /\ \A d \in AllSlots : d # e => exec'[d] = exec[d]
           /\ row' = IF t THEN row ELSE [row EXCEPT ![r] = Fresh]
<1>0. e \in AllSlots /\ p \in Procs
  BY RunsAssumption DEF AllSlots
<1>1. PICK u \in Users, t \in BOOLEAN :
        LET x == [Object(p, r, Fresh, u) EXCEPT !.inter = TRUE, !.tx = t]
        IN IF t
           THEN /\ exec' = [exec EXCEPT ![e] = [Invoke(x) EXCEPT !.pend = Fresh]]
                /\ UNCHANGED row
           ELSE /\ exec' = [exec EXCEPT ![e] = Invoke(x)]
                /\ row' = [row EXCEPT ![r] = Fresh]
  BY DEF Start
<1> DEFINE x == [Object(p, r, Fresh, u) EXCEPT !.inter = TRUE, !.tx = t]
           y == IF t THEN [Invoke(x) EXCEPT !.pend = Fresh] ELSE Invoke(x)
<1>2. u \in BOOLEAN
  BY RunsAssumption
<1>3. /\ x \in Exec /\ x.run = r /\ x.mem = Fresh /\ x.tx = t /\ x.pend = NoRow /\ x.eff = {}
  <2> DEFINE z == Object(p, r, Fresh, u)
  <2>1. z \in Exec /\ z.run = r /\ z.mem = Fresh /\ z.pend = NoRow /\ z.eff = {}
    BY <1>0, <1>2, FreshFields, IdleOK DEF Object, CallOK, Exec, Idle
  <2> HIDE DEF z
  <2>2. x = [z EXCEPT !.inter = TRUE, !.tx = t]
    BY DEF z
  <2> HIDE DEF x
  <2> QED BY <2>1, <2>2 DEF Exec
<1>4. exec'[e] = y /\ \A d \in AllSlots : d # e => exec'[d] = exec[d]
  BY <1>0, <1>1 DEF TypeOK
<1>5. row' = IF t THEN row ELSE [row EXCEPT ![r] = Fresh]
  BY <1>1
<1> HIDE DEF x
<1>6. /\ Invoke(x) \in Exec /\ Invoke(x).pc = "mark" /\ Invoke(x).run = r
      /\ Invoke(x).mem = Fresh /\ Invoke(x).tx = t /\ Invoke(x).pend = NoRow
      /\ Invoke(x).eff = {} /\ ~Invoke(x).ful
  BY <1>3, RunnableCall, FreshFields DEF Runnable
<1>7. /\ y \in Exec /\ y.pc = "mark" /\ y.run = r /\ y.mem = Fresh /\ y.tx = t
      /\ y.eff = {} /\ ~y.ful /\ y.pend = IF t THEN Fresh ELSE NoRow
  BY <1>6, FreshFields DEF Exec
<1> HIDE DEF y
<1> QED BY <1>4, <1>5, <1>7

LEMMA StartScheduledCall ==
  ASSUME TypeOK, NEW r \in Runs, StartScheduled(r)
  PROVE  LET x == exec'[SchedSlot]
         IN /\ x \in Exec /\ x.pc = "mark" /\ x.run = r /\ x.mem = Fresh /\ x.tx = TRUE
            /\ x.eff = {} /\ ~x.ful /\ x.pend = Fresh
            /\ \A d \in AllSlots : d # SchedSlot => exec'[d] = exec[d]
<1>0. SchedSlot \in AllSlots /\ Primary \in Procs
  BY RunsAssumption DEF AllSlots
<1> DEFINE x == [Object(Primary, r, Fresh, TRUE) EXCEPT !.tx = TRUE]
           y == [Invoke(x) EXCEPT !.pend = Fresh]
<1>1. /\ x \in Exec /\ x.run = r /\ x.mem = Fresh /\ x.tx = TRUE /\ x.pend = NoRow /\ x.eff = {}
  <2> DEFINE z == Object(Primary, r, Fresh, TRUE)
  <2>1. z \in Exec /\ z.run = r /\ z.mem = Fresh /\ z.pend = NoRow /\ z.eff = {}
    BY <1>0, FreshFields, IdleOK DEF Object, CallOK, Exec, Idle
  <2> HIDE DEF z
  <2>2. x = [z EXCEPT !.tx = TRUE]
    BY DEF z
  <2> HIDE DEF x
  <2> QED BY <2>1, <2>2 DEF Exec
<1>2. exec'[SchedSlot] = y /\ \A d \in AllSlots : d # SchedSlot => exec'[d] = exec[d]
  BY <1>0 DEF TypeOK, StartScheduled
<1> HIDE DEF x
<1>3. /\ Invoke(x) \in Exec /\ Invoke(x).pc = "mark" /\ Invoke(x).run = r
      /\ Invoke(x).mem = Fresh /\ Invoke(x).tx = TRUE /\ Invoke(x).pend = NoRow
      /\ Invoke(x).eff = {} /\ ~Invoke(x).ful
  BY <1>1, RunnableCall, FreshFields DEF Runnable
<1>4. /\ y \in Exec /\ y.pc = "mark" /\ y.run = r /\ y.mem = Fresh /\ y.tx = TRUE
      /\ y.eff = {} /\ ~y.ful /\ y.pend = Fresh
  BY <1>3, FreshFields DEF Exec
<1> HIDE DEF y
<1> QED BY <1>2, <1>4

LEMMA ResumeCall ==
  ASSUME TypeOK, NEW r \in Runs, NEW e \in Slots, NEW p \in RequestProcs, Resume(e, p, r)
  PROVE  \E x \in Exec :
           /\ x.run = r /\ x.mem = row[r] /\ x.tx = FALSE /\ x.pend = NoRow /\ x.eff = {}
           /\ exec'[e] = Invoke(x) /\ \A d \in AllSlots : d # e => exec'[d] = exec[d]
<1>0. e \in AllSlots /\ p \in Procs
  BY RunsAssumption DEF AllSlots
<1>1. PICK u \in Users :
        exec' = [exec EXCEPT ![e] = Invoke([Object(p, r, row[r], u) EXCEPT !.inter = TRUE])]
  BY DEF Resume
<1>2. u \in BOOLEAN /\ row[r] \in Row
  BY RunsAssumption DEF TypeOK, Resume
<1> DEFINE z == Object(p, r, row[r], u)
           x == [z EXCEPT !.inter = TRUE]
<1>3. /\ z \in Exec /\ z.run = r /\ z.mem = row[r] /\ z.tx = FALSE
      /\ z.pend = NoRow /\ z.eff = {}
  BY <1>0, <1>2, IdleOK DEF Object, CallOK, Exec, Idle
<1>4. exec' = [exec EXCEPT ![e] = Invoke(x)]
  BY <1>1
<1> HIDE DEF z
<1>5. /\ x \in Exec /\ x.run = r /\ x.mem = row[r] /\ x.tx = FALSE /\ x.pend = NoRow
      /\ x.eff = {}
  BY <1>3 DEF Exec
<1> HIDE DEF x
<1>6. exec'[e] = Invoke(x) /\ \A d \in AllSlots : d # e => exec'[d] = exec[d]
  BY <1>0, <1>4 DEF TypeOK
<1> QED BY <1>5, <1>6

LEMMA FillFormCall ==
  ASSUME TypeOK, NEW r \in Runs, NEW e \in Slots, NEW p \in RequestProcs, FillForm(e, p, r)
  PROVE  /\ exec'[e].pc = "input" /\ exec'[e].run = r /\ exec'[e].mem = row[r]
         /\ exec'[e].tx = FALSE /\ exec'[e].pend = NoRow
         /\ \A d \in AllSlots : d # e => exec'[d] = exec[d]
<1>0. e \in AllSlots /\ p \in Procs
  BY RunsAssumption DEF AllSlots
<1>1. PICK u \in Users :
        exec' = [exec EXCEPT ![e] =
                  [Object(p, r, row[r], u) EXCEPT !.pc = "input", !.inter = TRUE]]
  BY DEF FillForm
<1>2. u \in BOOLEAN /\ row[r] \in Row
  BY RunsAssumption DEF TypeOK, FillForm
<1> DEFINE z == Object(p, r, row[r], u)
<1>3. z \in Exec /\ z.run = r /\ z.mem = row[r] /\ z.tx = FALSE /\ z.pend = NoRow
  BY <1>0, <1>2, IdleOK DEF Object, CallOK, Exec, Idle
<1>4. exec' = [exec EXCEPT ![e] = [z EXCEPT !.pc = "input", !.inter = TRUE]]
  BY <1>1
<1> HIDE DEF z
<1> QED BY <1>0, <1>3, <1>4 DEF TypeOK, Exec

(* The scheduler and a timer call run() on an object that they hold.       *)
LEMMA HeldCall ==
  ASSUME TypeOK, NEW e \in AllSlots, NEW p \in Procs, NEW q \in Runs, NEW m \in Row,
         NEW u \in BOOLEAN,
         exec' = [exec EXCEPT ![e] = Invoke([Object(p, q, m, u) EXCEPT !.tx = TRUE])]
  PROVE  \E x \in Exec :
           /\ x.run = q /\ x.mem = m /\ x.tx = TRUE /\ x.pend = NoRow /\ x.eff = {}
           /\ exec'[e] = Invoke(x) /\ \A d \in AllSlots : d # e => exec'[d] = exec[d]
<1> DEFINE z == Object(p, q, m, u)
           x == [z EXCEPT !.tx = TRUE]
<1>1. z \in Exec /\ z.run = q /\ z.mem = m /\ z.pend = NoRow /\ z.eff = {}
  BY IdleOK DEF Object, CallOK, Exec, Idle
<1>2. exec' = [exec EXCEPT ![e] = Invoke(x)]
  OBVIOUS
<1> HIDE DEF z
<1>3. /\ x \in Exec /\ x.run = q /\ x.mem = m /\ x.tx = TRUE /\ x.pend = NoRow
      /\ x.eff = {}
  BY <1>1 DEF Exec
<1> HIDE DEF x
<1>4. exec'[e] = Invoke(x) /\ \A d \in AllSlots : d # e => exec'[d] = exec[d]
  BY <1>2 DEF TypeOK
<1> QED BY <1>3, <1>4

LEMMA RunNextCall ==
  ASSUME TypeOK, RunNext
  PROVE  \E o \in sched.queue, x \in Exec :
           /\ o.run \in Runs /\ o.mem \in Row /\ o.mem.pos \in Steps(o.run)
           /\ sched'.pc = "loop" /\ sched'.queue = sched.queue \ {o}
           /\ x.run = o.run /\ x.mem = o.mem /\ x.tx = TRUE /\ x.pend = NoRow /\ x.eff = {}
           /\ exec'[SchedSlot] = Invoke(x)
           /\ \A d \in AllSlots : d # SchedSlot => exec'[d] = exec[d]
<1>1. PICK o \in sched.queue :
        /\ sched' = [sched EXCEPT !.queue = @ \ {o}]
        /\ exec' = [exec EXCEPT ![SchedSlot] =
              Invoke([Object(Primary, o.run, o.mem, FALSE) EXCEPT !.tx = TRUE])]
  BY DEF RunNext
<1>2. /\ o.run \in Runs /\ o.mem \in Row /\ o.mem.pos \in Steps(o.run)
      /\ SchedSlot \in AllSlots /\ Primary \in Procs
  BY RunsAssumption DEF TypeOK, Objects, ObjectOK, AllSlots
<1>3. sched'.pc = "loop" /\ sched'.queue = sched.queue \ {o}
  BY <1>1 DEF TypeOK, RunNext
<1>4. \E x \in Exec :
        /\ x.run = o.run /\ x.mem = o.mem /\ x.tx = TRUE /\ x.pend = NoRow /\ x.eff = {}
        /\ exec'[SchedSlot] = Invoke(x)
        /\ \A d \in AllSlots : d # SchedSlot => exec'[d] = exec[d]
  BY <1>1, <1>2, HeldCall
<1> QED BY <1>2, <1>3, <1>4

LEMMA TimerCall ==
  ASSUME TypeOK, NEW e \in Slots, TimerFires(e)
  PROVE  \E tm \in timers, x \in Exec :
           /\ tm.run \in Runs /\ timers' = timers \ {tm}
           /\ x.run = tm.run /\ x.tx = TRUE /\ x.pend = NoRow
           /\ exec'[e] = Invoke(x) /\ \A d \in AllSlots : d # e => exec'[d] = exec[d]
<1>1. PICK tm \in timers :
        /\ timers' = timers \ {tm}
        /\ exec' = [exec EXCEPT ![e] =
              Invoke([Object(tm.proc, tm.run, tm.mem, tm.user) EXCEPT !.tx = TRUE])]
  BY DEF TimerFires
<1>2. /\ tm.proc \in Procs /\ tm.run \in Runs /\ tm.mem \in Row /\ tm.user \in BOOLEAN
      /\ e \in AllSlots
  BY DEF TypeOK, Callbacks, AllSlots
<1>3. \E x \in Exec :
        /\ x.run = tm.run /\ x.mem = tm.mem /\ x.tx = TRUE /\ x.pend = NoRow /\ x.eff = {}
        /\ exec'[e] = Invoke(x) /\ \A d \in AllSlots : d # e => exec'[d] = exec[d]
  BY <1>1, <1>2, HeldCall
<1> QED BY <1>1, <1>2, <1>3

-----------------------------------------------------------------------------
(* A run that nobody has gets into one hand.                               *)

LEMMA StartSolo ==
  ASSUME TypeOK, NotStarted, NEW r \in Runs, InOneHand(r),
         NEW e \in Slots, NEW p \in RequestProcs, Start(e, p, r)
  PROVE  InOneHand(r)'
<1>0. e \in AllSlots /\ e # SchedSlot
  BY RunsAssumption DEF AllSlots
<1>1. /\ row[r] = NoRow /\ r \notin handed /\ \A o \in sched.queue : o.run # r
      /\ \A d \in AllSlots : ~Works(d, r)
      /\ Unrun(r, 1)
  BY DEF Start, NotStarted, Works, Unrun
<1>2. PICK t \in BOOLEAN :
        /\ exec'[e] \in Exec /\ exec'[e].pc = "mark" /\ exec'[e].run = r
        /\ exec'[e].mem = Fresh /\ exec'[e].tx = t /\ exec'[e].eff = {}
        /\ ~exec'[e].ful /\ exec'[e].pend = (IF t THEN Fresh ELSE NoRow)
        /\ \A d \in AllSlots : d # e => exec'[d] = exec[d]
        /\ row' = IF t THEN row ELSE [row EXCEPT ![r] = Fresh]
  BY StartCall
<1>3. row'[r] = IF t THEN NoRow ELSE Fresh
  BY <1>1, <1>2 DEF TypeOK
<1>4. UNCHANGED <<timers, sched, due, handed, ran, passed>>
  BY DEF Start, hist
<1>5. RowFacts(r)'
  BY <1>1, <1>3, <1>4, FreshFields DEF RowFacts
<1> QED
  BY <1>0, <1>1, <1>2, <1>3, <1>4, <1>5, FreshFields, NewCall

LEMMA StartScheduledSolo ==
  ASSUME TypeOK, NotStarted, NEW r \in Runs, InOneHand(r), StartScheduled(r)
  PROVE  InOneHand(r)'
<1>0. SchedSlot \in AllSlots
  BY DEF AllSlots
<1>1. /\ row[r] = NoRow /\ r \notin handed /\ \A o \in sched.queue : o.run # r
      /\ \A d \in AllSlots : ~Works(d, r)
      /\ Unrun(r, 1)
  BY DEF StartScheduled, NotStarted, Works, Unrun
<1>2. UNCHANGED <<row, timers, sched, due, handed, ran, passed>>
  BY DEF StartScheduled, hist
<1>3. RowFacts(r)'
  BY <1>1, <1>2 DEF RowFacts
<1> QED
  BY <1>0, <1>1, <1>2, <1>3, StartScheduledCall, FreshFields, NewCall

LEMMA ResumeSolo ==
  ASSUME TypeOK, NEW r \in Runs, InOneHand(r),
         NEW e \in Slots, NEW p \in RequestProcs, Resume(e, p, r)
  PROVE  InOneHand(r)'
<1>0. e \in AllSlots /\ e # SchedSlot
  BY RunsAssumption DEF AllSlots
<1>1. /\ r \in handed /\ row[r] # NoRow /\ row[r].status = "Running"
      /\ CopyOK(r, row[r]) /\ Unrun(r, row[r].pos)
      /\ \A o \in sched.queue : o.run # r
      /\ \A d \in AllSlots : ~Works(d, r)
  BY DEF Resume, InOneHand, OneHand, RowFacts
<1>2. PICK x \in Exec :
        /\ x.run = r /\ x.mem = row[r] /\ x.tx = FALSE /\ x.pend = NoRow /\ x.eff = {}
        /\ exec'[e] = Invoke(x) /\ \A d \in AllSlots : d # e => exec'[d] = exec[d]
  BY ResumeCall, ZenonT(60)
<1>3. row[r].pos \in Steps(r)
  BY <1>1 DEF TypeOK, RowOK, ObjectOK
<1>4. /\ Invoke(x) \in Exec /\ Invoke(x).pc = "mark" /\ Invoke(x).run = r
      /\ Invoke(x).mem = row[r] /\ Invoke(x).tx = FALSE /\ Invoke(x).pend = NoRow
      /\ Invoke(x).eff = {} /\ ~Invoke(x).ful
  BY <1>1, <1>2, RunnableCall DEF Runnable
<1>5. /\ row' = row /\ handed' = handed \ {r}
      /\ UNCHANGED <<sched, timers, due, ran, passed>>
  BY DEF Resume, hist
<1>6. RowFacts(r)'
  BY <1>1, <1>5 DEF RowFacts
<1> QED
  BY <1>0, <1>1, <1>2, <1>3, <1>4, <1>5, <1>6, NewCall

(* A page with the form of the run is loaded.                              *)
LEMMA FillFormSolo ==
  ASSUME TypeOK, NEW r \in Solo, InOneHand(r), answered[r] = {},
         NEW e \in Slots, NEW p \in RequestProcs, FillForm(e, p, r)
  PROVE  InOneHand(r)'
<1>0. e \in AllSlots /\ r \in Runs
  BY DEF AllSlots, Solo
<1>1. row[r] # NoRow /\ row[r].status = "Waiting" /\ row[r].wait \in {"form", "output"}
  BY DEF FillForm
<1>2. row[r] \in Row /\ row[r].pos \in Steps(r)
  BY <1>0, <1>1 DEF TypeOK, RowOK, ObjectOK
<1>3. CopyOK(r, row[r])
  BY <1>1 DEF InOneHand, RowFacts
<1>4. Reached(r, row[r].pos) /\ Program[r][row[r].pos] = "UserForm"
  BY <1>0, <1>1, <1>2, <1>3 DEF CopyOK, Solo, WaitOf, WaitKinds, Kinds
<1>7. /\ exec'[e].pc = "input" /\ exec'[e].run = r /\ exec'[e].mem = row[r]
      /\ \A d \in AllSlots : d # e => exec'[d] = exec[d]
  BY <1>0, FillFormCall
<1>8. UNCHANGED <<row, timers, sched, due, handed, ran, passed>>
  BY DEF FillForm, hist
<1>9. \A d \in AllSlots : Works(d, r)' => Works(d, r) /\ exec'[d] = exec[d] /\ d # e
  BY <1>7 DEF Works
<1>10. OneHand(r)' /\ RowFacts(r)' /\ PastFacts(r)'
  BY <1>8, <1>9 DEF InOneHand, OneHand, RowFacts, PastFacts, CopyOK, Unrun
<1>11. ASSUME NEW d \in AllSlots, Works(d, r)' PROVE CallFacts(d, r)'
  <2>1. exec'[d] = exec[d] /\ CallFacts(d, r)
    BY <1>9, <1>11 DEF InOneHand
  <2> QED BY <1>8, <2>1 DEF CallFacts, Current, CopyOK, Kind, Ahead
<1>12. ASSUME NEW d \in AllSlots PROVE FormFacts(d, r)'
  BY <1>4, <1>7 DEF InOneHand, FormFacts, Kind
<1>13. ASSUME NEW o \in sched'.queue, o.run = r PROVE ListFacts(o, r)'
  BY <1>8, <1>13 DEF InOneHand, ListFacts, CopyOK, Unrun, Fulfilled
<1> QED BY <1>10, <1>11, <1>12, <1>13 DEF InOneHand

(* A run that waits is in no hand when the scheduler reads its row.        *)
LEMMA TickSolo ==
  ASSUME TypeOK, CallShape, NEW r \in Runs, InOneHand(r), Tick
  PROVE  InOneHand(r)'
<1>1. UNCHANGED <<row, exec, timers, due, handed, ran, passed>>
  BY DEF Tick, hist
<1>2. /\ sched'.pc = "filter"
      /\ \A o \in sched'.queue : row[o.run] # NoRow /\ row[o.run].status = "Waiting"
                                 /\ o = [run |-> o.run, mem |-> row[o.run]]
  BY DEF Tick
<1>3. CASE ~(row[r] # NoRow /\ row[r].status = "Waiting")
  <2>1. LeavesAlone(r)
    BY <1>1, <1>2, <1>3 DEF LeavesAlone
  <2> QED BY <2>1, LeftAlone
<1>4. CASE row[r] # NoRow /\ row[r].status = "Waiting"
  <2>1. \A e \in AllSlots : ~Works(e, r)
    <3> SUFFICES ASSUME NEW e \in AllSlots, Works(e, r) PROVE FALSE
      OBVIOUS
    <3>1. exec[e].run = r /\ CallFacts(e, r) /\ e # SchedSlot
      BY IdleFields DEF InOneHand, Works, Tick
    <3>2. ~exec[e].tx /\ exec[e].pend = NoRow
      BY <1>4, <3>1 DEF CallFacts, CallShape
    <3> QED BY <1>4, <3>1, <3>2 DEF CallFacts, Current
  <2>2. r \notin handed
    BY <1>4 DEF InOneHand, RowFacts
  <2>3. OneHand(r)'
    BY <1>1, <1>2, <2>1, <2>2 DEF InOneHand, OneHand, Works
  <2>4. RowFacts(r)' /\ PastFacts(r)'
    BY <1>1 DEF InOneHand, RowFacts, PastFacts, CopyOK, Unrun
  <2>5. ASSUME NEW e \in AllSlots PROVE ~Works(e, r)' /\ FormFacts(e, r)'
    BY <1>1, <2>1 DEF InOneHand, FormFacts, Kind, Works
  <2>6. ASSUME NEW o \in sched'.queue, o.run = r PROVE ListFacts(o, r)'
    <3>1. o.mem = row[r]
      BY <1>2, <2>6
    <3>2. CopyOK(r, row[r]) /\ Unrun(r, row[r].pos)
      BY <1>4 DEF InOneHand, RowFacts
    <3> QED BY <1>1, <1>2, <1>4, <3>1, <3>2 DEF ListFacts, CopyOK, Unrun
  <2> QED BY <2>3, <2>4, <2>5, <2>6 DEF InOneHand
<1> QED BY <1>3, <1>4

LEMMA RunNextSolo ==
  ASSUME TypeOK, CallShape, NEW r \in Runs, InOneHand(r), RunNext
  PROVE  InOneHand(r)'
<1>0. SchedSlot \in AllSlots
  BY DEF AllSlots
<1>1. PICK o \in sched.queue, x \in Exec :
        /\ o.run \in Runs /\ o.mem \in Row /\ o.mem.pos \in Steps(o.run)
        /\ sched'.pc = "loop" /\ sched'.queue = sched.queue \ {o}
        /\ x.run = o.run /\ x.mem = o.mem /\ x.tx = TRUE /\ x.pend = NoRow /\ x.eff = {}
        /\ exec'[SchedSlot] = Invoke(x)
        /\ \A d \in AllSlots : d # SchedSlot => exec'[d] = exec[d]
  BY RunNextCall
<1>2. sched.pc = "loop" /\ UNCHANGED <<row, timers, due, handed, ran, passed>>
  BY DEF RunNext, hist
<1> DEFINE y == Invoke(x)
<1>7. CASE o.run # r
  <2>1. exec'[SchedSlot].pc = "idle" \/ exec'[SchedSlot].run = o.run
    BY <1>1, InvokeFields, IdleFields
  <2>2. LeavesAlone(r)
    BY <1>1, <1>2, <1>7, <2>1 DEF LeavesAlone
  <2> QED BY <2>2, LeftAlone
<1>8. CASE o.run = r
  <2>1. ListFacts(o, r) /\ r \notin handed /\ \A d \in AllSlots : ~Works(d, r)
    BY <1>8 DEF InOneHand, OneHand
  <2>2. Fulfilled(r, o.mem) /\ o.mem.status = "Waiting"
    BY <1>2, <2>1 DEF ListFacts
  <2>3. /\ y \in Exec /\ y.pc = "mark" /\ y.run = r /\ y.mem = o.mem /\ y.tx = TRUE
        /\ y.pend = NoRow /\ y.eff = {} /\ exec'[SchedSlot] = y
    BY <1>1, <1>8, <2>2, RunnableCall DEF Runnable
  <2> HIDE DEF y
  <2>4. /\ Program[r][o.mem.pos] # "UserForm"
        /\ Program[r][o.mem.pos] = "WaitUntil" => <<r, o.mem.pos>> \in due
    BY <2>1, <2>2 DEF ListFacts, CopyOK, Fulfilled, WaitOf
  <2>5. \A q \in sched'.queue : q.run # r
    BY <1>1, <1>8 DEF InOneHand, OneHand
  <2>6. RowFacts(r)'
    BY <1>2 DEF InOneHand, RowFacts, CopyOK, Unrun
  <2>7. row[r] \in {NoRow, o.mem} /\ CopyOK(r, o.mem) /\ Unrun(r, o.mem.pos)
    BY <2>1 DEF ListFacts
  <2> QED
    BY <1>0, <1>1, <1>2, <1>8, <2>1, <2>2, <2>3, <2>4, <2>5, <2>6, <2>7, NewCall
<1> QED BY <1>7, <1>8

-----------------------------------------------------------------------------
(* Every step: which run it is about, and that it leaves the others alone. *)

(* Call e goes on with run q, or takes it on, and disturbs no other run.   *)
TakesOn(e, q) ==
  /\ q \in started' /\ started \subseteq started' /\ started' \subseteq started \union {q}
  /\ \A r \in Runs : r # q => LeavesAlone(r)
  /\ \A d \in AllSlots : d # e => exec'[d] = exec[d]
  /\ exec'[e].tx \/ (exec'[e].pend = NoRow /\ exec'[e].pc # "commit")
  /\ exec'[e].pc = "input" => ~exec'[e].tx
  /\ e = SchedSlot => exec'[e].pc = "idle" \/ exec'[e].tx

(* So it keeps what is true of runs that were not started, and of calls.   *)
LEMMA KeptByTaking ==
  ASSUME NotStarted, CallShape, NEW e \in AllSlots, NEW q \in Runs, TakesOn(e, q)
  PROVE  NotStarted' /\ CallShape'
<1>1. ASSUME NEW r \in Runs \ started'
      PROVE  /\ row'[r] = NoRow /\ r \notin handed'
             /\ \A k \in Steps(r) : ran'[r][k] = 0
             /\ \A d \in AllSlots : exec'[d].run = r => exec'[d].pc = "idle"
             /\ \A o \in sched'.queue : o.run # r
             /\ \A tm \in timers' : tm.run # r
  <2>1. LeavesAlone(r) /\ r \notin started
    BY <1>1 DEF TakesOn
  <2> QED BY <2>1 DEF NotStarted, LeavesAlone
<1>2. CallShape'
  BY DEF CallShape, TakesOn
<1> QED BY <1>1, <1>2 DEF NotStarted

LEMMA CallTakes ==
  ASSUME TypeOK, NotStarted, CallShape, NEW e \in AllSlots, CallStep(e)
  PROVE  TakesOn(e, exec[e].run) /\ exec[e].run \in Runs
<1>1. exec[e].run \in Runs
  BY CallTyped
<1>2. exec[e].pc # "idle" /\ exec'[e].pc # "input" /\ started' = started
      /\ \A d \in AllSlots : d # e => exec'[d] = exec[d]
  BY CallKeeps
<1>3. exec[e].run \in started
  BY <1>1, <1>2 DEF NotStarted
<1>4. \A r \in Runs : r # exec[e].run => LeavesAlone(r)
  BY CallElsewhere
<1>5. exec'[e].tx \/ (exec'[e].pend = NoRow /\ exec'[e].pc # "commit")
  BY CallKeeps
<1>6. e = SchedSlot => exec'[e].pc = "idle" \/ exec'[e].tx
  BY <1>2, CallKeeps DEF CallShape
<1> QED BY <1>1, <1>2, <1>3, <1>4, <1>5, <1>6 DEF TakesOn

LEMMA QuietSteps ==
  ASSUME TypeOK, NEW r \in Runs,
         \/ \E q \in Runs : TimePasses(q) \/ Delete(q)
         \/ Filter \/ EndTick \/ \E p \in Procs : Crash(p)
  PROVE  /\ LeavesAlone(r) /\ UNCHANGED <<started, answered, passed>>
         /\ \A d \in AllSlots : exec'[d] \in {exec[d], Idle}
<1>1. ASSUME NEW q \in Runs, TimePasses(q)
      PROVE  /\ LeavesAlone(r) /\ UNCHANGED <<started, answered, passed>>
             /\ \A d \in AllSlots : exec'[d] \in {exec[d], Idle}
  BY <1>1 DEF TimePasses, LeavesAlone, hist
<1>2. ASSUME NEW q \in Runs, Delete(q)
      PROVE  /\ LeavesAlone(r) /\ UNCHANGED <<started, answered, passed>>
             /\ \A d \in AllSlots : exec'[d] \in {exec[d], Idle}
  <2>1. row'[r] \in {row[r], NoRow}
    BY <1>2 DEF Delete, TypeOK
  <2> QED BY <1>2, <2>1 DEF Delete, LeavesAlone, hist
<1>3. CASE Filter
  <2>1. \A o \in sched'.queue :
          /\ o \in sched.queue
          /\ sched'.pc = "loop" => Fulfilled(o.run, o.mem)
    BY <1>3 DEF Filter
  <2> QED BY <1>3, <2>1 DEF Filter, LeavesAlone, hist
<1>4. CASE EndTick
  BY <1>4 DEF EndTick, LeavesAlone, hist
<1>5. ASSUME NEW p \in Procs, Crash(p)
      PROVE  /\ LeavesAlone(r) /\ UNCHANGED <<started, answered, passed>>
             /\ \A d \in AllSlots : exec'[d] \in {exec[d], Idle}
  <2>1. \A d \in AllSlots : exec'[d] \in {exec[d], Idle}
    BY <1>5 DEF Crash
  <2>2. timers' \subseteq timers /\ (sched' = sched \/ sched'.queue = {})
    BY <1>5 DEF Crash
  <2>3. UNCHANGED <<row, started, due, handed, hist>>
    BY <1>5 DEF Crash
  <2> QED BY <2>1, <2>2, <2>3, IdleFields DEF LeavesAlone, hist
<1> QED BY <1>1, <1>2, <1>3, <1>4, <1>5

LEMMA StartTakes ==
  ASSUME TypeOK, NotStarted, NEW q \in Runs,
         NEW e \in Slots, NEW p \in RequestProcs, Start(e, p, q)
  PROVE  TakesOn(e, q)
<1>1. PICK t \in BOOLEAN :
        /\ exec'[e] \in Exec /\ exec'[e].pc = "mark" /\ exec'[e].run = q
        /\ exec'[e].mem = Fresh /\ exec'[e].tx = t /\ exec'[e].eff = {}
        /\ ~exec'[e].ful /\ exec'[e].pend = (IF t THEN Fresh ELSE NoRow)
        /\ \A d \in AllSlots : d # e => exec'[d] = exec[d]
        /\ row' = IF t THEN row ELSE [row EXCEPT ![q] = Fresh]
  BY StartCall
<1>2. /\ UNCHANGED <<timers, sched, due, handed, ran, passed>>
      /\ started' = started \union {q} /\ e # SchedSlot
  BY RunsAssumption DEF Start, hist
<1>3. \A r \in Runs : r # q => row'[r] = row[r]
  BY <1>1 DEF TypeOK
<1>4. \A r \in Runs : r # q => LeavesAlone(r)
  BY <1>1, <1>2, <1>3 DEF LeavesAlone
<1> QED BY <1>1, <1>2, <1>4 DEF TakesOn

LEMMA StartScheduledTakes ==
  ASSUME TypeOK, NotStarted, NEW q \in Runs, StartScheduled(q)
  PROVE  TakesOn(SchedSlot, q)
<1>1. /\ exec'[SchedSlot].pc = "mark" /\ exec'[SchedSlot].run = q
      /\ exec'[SchedSlot].tx = TRUE
      /\ \A d \in AllSlots : d # SchedSlot => exec'[d] = exec[d]
  BY StartScheduledCall
<1>2. /\ UNCHANGED <<row, timers, sched, due, handed, ran, passed>>
      /\ started' = started \union {q}
  BY DEF StartScheduled, hist
<1>3. \A r \in Runs : r # q => LeavesAlone(r)
  BY <1>1, <1>2 DEF LeavesAlone
<1> QED BY <1>1, <1>2, <1>3 DEF TakesOn

LEMMA ResumeTakes ==
  ASSUME TypeOK, NotStarted, NEW q \in Runs,
         NEW e \in Slots, NEW p \in RequestProcs, Resume(e, p, q)
  PROVE  TakesOn(e, q)
<1>1. PICK x \in Exec :
        /\ x.run = q /\ x.mem = row[q] /\ x.tx = FALSE /\ x.pend = NoRow /\ x.eff = {}
        /\ exec'[e] = Invoke(x) /\ \A d \in AllSlots : d # e => exec'[d] = exec[d]
  BY ResumeCall, ZenonT(60)
<1>2. /\ UNCHANGED <<row, timers, sched, due, ran, passed, started>>
      /\ handed' \subseteq handed /\ e # SchedSlot /\ row[q] # NoRow
  BY RunsAssumption DEF Resume, hist
<1>3. /\ exec'[e].pc = "idle" \/ exec'[e].run = q
      /\ exec'[e].pend = NoRow /\ exec'[e].pc \notin {"commit", "input"}
  BY <1>1, InvokeFields, IdleFields
<1>4. \A r \in Runs : r # q => LeavesAlone(r)
  BY <1>1, <1>2, <1>3 DEF LeavesAlone
<1>5. q \in started
  BY <1>2 DEF NotStarted
<1> QED BY <1>1, <1>2, <1>3, <1>4, <1>5 DEF TakesOn

LEMMA FillFormTakes ==
  ASSUME TypeOK, NotStarted, NEW q \in Runs,
         NEW e \in Slots, NEW p \in RequestProcs, FillForm(e, p, q)
  PROVE  TakesOn(e, q)
<1>1. /\ exec'[e].pc = "input" /\ exec'[e].run = q
      /\ exec'[e].tx = FALSE /\ exec'[e].pend = NoRow
      /\ \A d \in AllSlots : d # e => exec'[d] = exec[d]
  BY FillFormCall, ZenonT(60)
<1>2. /\ UNCHANGED <<row, timers, sched, due, handed, ran, passed, started>>
      /\ e # SchedSlot /\ row[q] # NoRow
  BY RunsAssumption DEF FillForm, hist
<1>3. \A r \in Runs : r # q => LeavesAlone(r)
  BY <1>1, <1>2 DEF LeavesAlone
<1>4. q \in started
  BY <1>2 DEF NotStarted
<1> QED BY <1>1, <1>2, <1>3, <1>4 DEF TakesOn

LEMMA RunNextTakes ==
  ASSUME TypeOK, NotStarted, RunNext
  PROVE  \E q \in Runs : TakesOn(SchedSlot, q)
<1>1. PICK o \in sched.queue, x \in Exec :
        /\ o.run \in Runs /\ o.mem \in Row /\ o.mem.pos \in Steps(o.run)
        /\ sched'.pc = "loop" /\ sched'.queue = sched.queue \ {o}
        /\ x.run = o.run /\ x.mem = o.mem /\ x.tx = TRUE /\ x.pend = NoRow /\ x.eff = {}
        /\ exec'[SchedSlot] = Invoke(x)
        /\ \A d \in AllSlots : d # SchedSlot => exec'[d] = exec[d]
  BY RunNextCall
<1>2. sched.pc = "loop" /\ UNCHANGED <<row, timers, due, handed, ran, passed, started>>
  BY DEF RunNext, hist
<1>3. /\ exec'[SchedSlot].tx = TRUE /\ exec'[SchedSlot].run = o.run
      /\ exec'[SchedSlot].pc # "input"
  BY <1>1, InvokeFields, ZenonT(60)
<1>4. \A r \in Runs : r # o.run => LeavesAlone(r)
  BY <1>1, <1>2, <1>3 DEF LeavesAlone
<1>5. o.run \in started
  BY <1>1 DEF NotStarted
<1> QED BY <1>1, <1>2, <1>3, <1>4, <1>5 DEF TakesOn

LEMMA TimerTakes ==
  ASSUME TypeOK, NotStarted, NEW e \in Slots, TimerFires(e)
  PROVE  \E tm \in timers : tm.run \in Runs /\ TakesOn(e, tm.run)
<1>1. PICK tm \in timers, x \in Exec :
        /\ tm.run \in Runs /\ timers' = timers \ {tm}
        /\ x.run = tm.run /\ x.tx = TRUE /\ x.pend = NoRow
        /\ exec'[e] = Invoke(x) /\ \A d \in AllSlots : d # e => exec'[d] = exec[d]
  BY TimerCall
<1>2. /\ UNCHANGED <<row, sched, due, handed, ran, passed, started>> /\ e # SchedSlot
  BY RunsAssumption DEF TimerFires, hist
<1>3. exec'[e].tx = TRUE /\ exec'[e].run = tm.run /\ exec'[e].pc # "input"
  BY <1>1, InvokeFields
<1>4. \A r \in Runs : r # tm.run => LeavesAlone(r)
  BY <1>1, <1>2, <1>3 DEF LeavesAlone
<1>5. tm.run \in started
  BY <1>1 DEF NotStarted
<1> QED BY <1>1, <1>2, <1>3, <1>4, <1>5 DEF TakesOn

(* The answers and the pauses gone past only grow, by steps of calls.      *)
LEMMA OtherHistory ==
  ASSUME \/ \E e \in Slots :
              \/ \E p \in RequestProcs, r \in Runs :
                   Start(e, p, r) \/ FillForm(e, p, r) \/ Resume(e, p, r)
              \/ TimerFires(e)
         \/ \E r \in Runs : StartScheduled(r) \/ TimePasses(r) \/ Delete(r)
         \/ Tick \/ Filter \/ RunNext \/ EndTick
         \/ \E p \in Procs : Crash(p)
  PROVE  UNCHANGED <<answered, passed>>
<1>1. ASSUME NEW e \in Slots, NEW p \in RequestProcs, NEW r \in Runs,
             Start(e, p, r) \/ FillForm(e, p, r) \/ Resume(e, p, r)
      PROVE  UNCHANGED <<answered, passed>>
  BY <1>1 DEF Start, FillForm, Resume, hist
<1>2. ASSUME NEW e \in Slots, TimerFires(e) PROVE UNCHANGED <<answered, passed>>
  BY <1>2 DEF TimerFires, hist
<1>3. ASSUME NEW r \in Runs, StartScheduled(r) \/ TimePasses(r) \/ Delete(r)
      PROVE  UNCHANGED <<answered, passed>>
  BY <1>3 DEF StartScheduled, TimePasses, Delete, hist
<1>4. CASE Tick \/ Filter \/ RunNext \/ EndTick
  BY <1>4 DEF Tick, Filter, RunNext, EndTick, hist
<1>5. ASSUME NEW p \in Procs, Crash(p) PROVE UNCHANGED <<answered, passed>>
  BY <1>5 DEF Crash, hist
<1> QED BY <1>1, <1>2, <1>3, <1>4, <1>5

LEMMA CallHistory ==
  ASSUME TypeOK, NEW e \in AllSlots, CallStep(e)
  PROVE  LET r == exec[e].run
             i == exec[e].mem.pos
         IN /\ passed' \in {passed, [passed EXCEPT ![r] = @ \union {i}]}
            /\ IF exec[e].pc = "input"
               THEN ProvideInput(e) /\ answered' = [answered EXCEPT ![r] = @ \union {i}]
               ELSE answered' = answered
<1>1. CASE ProvideInput(e)
  <2> DEFINE x == [exec[e] EXCEPT !.mem.wait = Cleared(@)]
  <2>1. x.run = exec[e].run /\ x.mem.pos = exec[e].mem.pos
    BY CallTyped DEF Exec, Row
  <2>2. /\ exec[e].pc = "input" /\ passed' = passed
        /\ answered' = [answered EXCEPT ![x.run] = @ \union {x.mem.pos}]
    BY <1>1 DEF ProvideInput
  <2> HIDE DEF x
  <2> QED BY <1>1, <2>1, <2>2
<1>2. CASE PassWait(e)
  BY <1>2 DEF PassWait
<1>3. CASE Mark(e) \/ Enter(e) \/ DoAction(e) \/ Announce(e) \/ Flag(e) \/ Commit(e)
  BY <1>3 DEF Mark, Enter, DoAction, Announce, Flag, Commit, hist
<1>4. CASE Fail(e)
  <2>1. exec[e].pc = "body" /\ UNCHANGED hist
    BY <1>4, CallTyped DEF Fail, Exec
  <2> QED BY <2>1 DEF hist
<1>5. CASE Park(e)
  <2>1. exec[e].pc # "input" /\ UNCHANGED hist
    BY <1>5 DEF Park
  <2> QED BY <2>1 DEF hist
<1>6. CASE Advance(e)
  <2>1. exec[e].pc = "advance" /\ UNCHANGED hist
    BY <1>6 DEF Advance
  <2> QED BY <2>1 DEF hist
<1> QED BY <1>1, <1>2, <1>3, <1>4, <1>5, <1>6 DEF CallStep

-----------------------------------------------------------------------------
LEMMA InitRunsInv == Init => RunsInv
<1> SUFFICES ASSUME Init PROVE RunsInv
  OBVIOUS
<1>1. TypeOK
  BY InitTypeOK
<1>2. \A e \in AllSlots : exec[e] = Idle
  BY DEF Init
<1>3. NotStarted /\ CallShape /\ PastSteps
  BY <1>2, IdleFields DEF Init, NotStarted, CallShape, PastSteps, Solo
<1>4. SoloInv
  BY <1>2, IdleFields
  DEF Init, SoloInv, InOneHand, OneHand, RowFacts, PastFacts, Works, FormFacts, Solo
<1> QED BY <1>1, <1>3, <1>4 DEF RunsInv

(* NotStarted and CallShape.                                               *)
LEMMA NextShape ==
  ASSUME TypeOK, NotStarted, CallShape, [Next]_vars
  PROVE  NotStarted' /\ CallShape'
<1>1. ASSUME NEW e \in Slots, NEW p \in RequestProcs, NEW r \in Runs,
             Start(e, p, r) \/ FillForm(e, p, r) \/ Resume(e, p, r)
      PROVE  NotStarted' /\ CallShape'
  <2>1. e \in AllSlots
    BY DEF AllSlots
  <2>2. TakesOn(e, r)
    BY <1>1, StartTakes, FillFormTakes, ResumeTakes
  <2> QED BY <2>1, <2>2, KeptByTaking
<1>2. ASSUME NEW e \in Slots, TimerFires(e) PROVE NotStarted' /\ CallShape'
  BY <1>2, TimerTakes, KeptByTaking DEF AllSlots
<1>3. ASSUME NEW e \in AllSlots, CallStep(e) PROVE NotStarted' /\ CallShape'
  BY <1>3, CallTakes, KeptByTaking
<1>4. ASSUME NEW r \in Runs, StartScheduled(r) PROVE NotStarted' /\ CallShape'
  BY <1>4, StartScheduledTakes, KeptByTaking DEF AllSlots
<1>5. CASE RunNext
  BY <1>5, RunNextTakes, KeptByTaking DEF AllSlots
<1>6. CASE Tick
  <2>1. /\ UNCHANGED <<row, exec, started, timers, handed, ran>>
        /\ \A o \in sched'.queue : o.run \in Runs /\ row[o.run] # NoRow
    BY <1>6 DEF Tick, hist
  <2> QED BY <2>1 DEF NotStarted, CallShape
<1>7. CASE \/ \E q \in Runs : TimePasses(q) \/ Delete(q)
           \/ Filter \/ EndTick \/ \E p \in Procs : Crash(p)
  <2>1. \A r \in Runs : LeavesAlone(r)
    BY <1>7, QuietSteps
  <2>2. started' = started /\ \A d \in AllSlots : exec'[d] \in {exec[d], Idle}
    BY <1>7, QuietSteps, RunsAssumption
  <2>3. NotStarted'
    BY <2>1, <2>2 DEF NotStarted, LeavesAlone
  <2> QED BY <2>2, <2>3, IdleFields DEF CallShape
<1>8. CASE UNCHANGED vars
  BY <1>8 DEF vars, NotStarted, CallShape
<1> QED BY <1>1, <1>2, <1>3, <1>4, <1>5, <1>6, <1>7, <1>8 DEF Next

(* PastSteps: an answer to the run comes for its first form.               *)
LEMMA NextPast ==
  ASSUME RunsInv, [Next]_vars
  PROVE  PastSteps'
<1>1. ASSUME UNCHANGED <<answered, passed>> PROVE PastSteps'
  BY <1>1 DEF RunsInv, PastSteps
<1>2. ASSUME NEW e \in AllSlots, CallStep(e) PROVE PastSteps'
  <2> DEFINE q == exec[e].run
             i == exec[e].mem.pos
  <2>t. TypeOK
    BY DEF RunsInv
  <2>1. q \in Runs /\ i \in Steps(q)
    BY <2>t, CallTyped
  <2>2. passed' \in {passed, [passed EXCEPT ![q] = @ \union {i}]}
    BY <1>2, <2>t, CallHistory
  <2>3. \A r \in Runs : passed'[r] \subseteq Steps(r)
    BY <2>t, <2>1, <2>2 DEF RunsInv, PastSteps, TypeOK
  <2>4. CASE exec[e].pc # "input"
    BY <1>2, <2>t, <2>3, <2>4, CallHistory DEF RunsInv, PastSteps
  <2>5. CASE exec[e].pc = "input"
    <3>1. answered' = [answered EXCEPT ![q] = @ \union {i}]
      BY <1>2, <2>t, <2>5, CallHistory
    <3>2. \A r \in Runs : answered'[r] = IF r = q THEN answered[r] \union {i} ELSE answered[r]
      BY <3>1, <2>t DEF TypeOK
    <3>3. q \in Solo /\ answered[q] = {} => Reached(q, i) /\ Program[q][i] = "UserForm"
      BY <2>1, <2>5 DEF RunsInv, SoloInv, InOneHand, FormFacts, Kind
    <3> HIDE DEF q, i
    <3>4. ASSUME NEW r \in Solo, answered'[r] # {}
          PROVE  \E j \in answered'[r] \cap Steps(r) :
                   Program[r][j] = "UserForm" /\ Reached(r, j)
      <4>1. r \in Runs
        BY DEF Solo
      <4>2. CASE answered[r] # {}
        BY <3>2, <4>1, <4>2 DEF RunsInv, PastSteps
      <4>3. CASE answered[r] = {}
        <5>1. r = q
          BY <3>2, <3>4, <4>1, <4>3
        <5>2. i \in answered'[r] \cap Steps(r)
          BY <2>1, <3>2, <4>1, <5>1
        <5> QED BY <3>3, <4>3, <5>1, <5>2
      <4> QED BY <4>2, <4>3
    <3> QED BY <2>3, <3>4 DEF PastSteps
  <2> QED BY <2>4, <2>5
<1>3. CASE UNCHANGED vars
  BY <1>1, <1>3 DEF vars
<1> QED BY <1>1, <1>2, <1>3, OtherHistory DEF Next

LEMMA AnsweredGrows ==
  ASSUME TypeOK, [Next]_vars, NEW r \in Runs
  PROVE  answered[r] \subseteq answered'[r]
<1>1. ASSUME NEW e \in AllSlots, CallStep(e) PROVE answered[r] \subseteq answered'[r]
  BY <1>1, CallHistory, CallTyped, SMTT(30) DEF TypeOK
<1>2. CASE UNCHANGED vars
  BY <1>2 DEF vars
<1> QED BY <1>1, <1>2, OtherHistory DEF Next

(* A call that has still to raise the flag does nothing else.              *)
LEMMA OnlyFlag ==
  ASSUME TypeOK, NEW e \in AllSlots, CallStep(e), exec[e].pc = "flag"
  PROVE  Flag(e)
<1>1. ~(Mark(e) \/ Enter(e) \/ PassWait(e) \/ DoAction(e) \/ Announce(e) \/ Commit(e)
        \/ ProvideInput(e))
  BY DEF Mark, Enter, PassWait, DoAction, Announce, Commit, ProvideInput
<1>2. ~Fail(e)
  BY CallTyped DEF Fail, Exec
<1>3. ~Park(e)
  BY CallTyped DEF Park, Exec
<1>4. ~Advance(e)
  BY DEF Advance
<1> QED BY <1>1, <1>2, <1>3, <1>4 DEF CallStep

(* One hand, as long as no user has answered.                              *)
LEMMA NextSolo ==
  ASSUME RunsInv, [Next]_vars, NEW r \in Solo, answered'[r] = {}
  PROVE  InOneHand(r)'
<1>t. TypeOK /\ NotStarted /\ CallShape /\ r \in Runs
  BY DEF RunsInv, Solo
<1>a. answered[r] = {}
  BY <1>t, AnsweredGrows
<1>h. InOneHand(r)
  BY <1>a DEF RunsInv, SoloInv
<1>1. ASSUME NEW e \in Slots, NEW p \in RequestProcs, NEW q \in Runs,
             Start(e, p, q) \/ FillForm(e, p, q) \/ Resume(e, p, q)
      PROVE  InOneHand(r)'
  <2>1. CASE q = r
    BY <1>1, <1>t, <1>a, <1>h, <2>1, StartSolo, FillFormSolo, ResumeSolo
  <2>2. CASE q # r
    <3>1. TakesOn(e, q)
      BY <1>1, <1>t, StartTakes, FillFormTakes, ResumeTakes
    <3> QED BY <1>t, <1>h, <2>2, <3>1, LeftAlone DEF TakesOn
  <2> QED BY <2>1, <2>2
<1>2. ASSUME NEW e \in Slots, TimerFires(e) PROVE InOneHand(r)'
  <2>1. PICK tm \in timers : TakesOn(e, tm.run)
    BY <1>2, <1>t, TimerTakes
  <2>2. tm.run # r
    BY <1>h DEF InOneHand, OneHand
  <2> QED BY <1>t, <1>h, <2>1, <2>2, LeftAlone DEF TakesOn
<1>3. ASSUME NEW e \in AllSlots, CallStep(e) PROVE InOneHand(r)'
  <2>1. CASE exec[e].run # r
    <3>1. TakesOn(e, exec[e].run)
      BY <1>3, <1>t, CallTakes
    <3> QED BY <1>t, <1>h, <2>1, <3>1, LeftAlone DEF TakesOn
  <2>2. CASE exec[e].run = r
    <3>1. exec[e].pc \notin {"idle", "input"}
      <4>1. exec[e].pc # "idle"
        BY <1>3, <1>t, CallKeeps
      <4>2. exec[e].pc # "input"
        <5>1. answered \in [Runs -> SUBSET Nat]
          BY <1>t DEF TypeOK
        <5>2. exec[e].pc = "input" => answered' = [answered EXCEPT ![r] = @ \union {exec[e].mem.pos}]
          BY <1>3, <1>t, <2>2, CallHistory
        <5> QED BY <1>t, <5>1, <5>2
      <4> QED BY <4>1, <4>2
    <3>2. CASE Works(e, r)
      <4>1. ~ProvideInput(e)
        BY <3>1 DEF ProvideInput
      <4> QED
        BY <1>3, <1>t, <1>h, <3>2, <4>1, MarkSolo, EnterSolo, PassWaitSolo, DoActionSolo,
           FailSolo, AnnounceSolo, ParkSolo, FlagSolo, AdvanceSolo, CommitSolo DEF CallStep
    <3>3. CASE ~Works(e, r)
      <4>1. exec[e].pc = "flag" /\ ~exec[e].tx
        BY <2>2, <3>1, <3>3 DEF Works
      <4>2. Flag(e)
        BY <1>3, <1>t, <4>1, OnlyFlag
      <4> QED BY <1>t, <1>h, <4>1, <4>2, FlagElsewhere, LeftAlone
    <3> QED BY <3>2, <3>3
  <2> QED BY <2>1, <2>2
<1>4. ASSUME NEW q \in Runs, StartScheduled(q) PROVE InOneHand(r)'
  <2>1. CASE q = r
    BY <1>4, <1>t, <1>h, <2>1, StartScheduledSolo
  <2>2. CASE q # r
    <3>1. TakesOn(SchedSlot, q)
      BY <1>4, <1>t, StartScheduledTakes
    <3> QED BY <1>t, <1>h, <2>2, <3>1, LeftAlone DEF TakesOn
  <2> QED BY <2>1, <2>2
<1>5. CASE RunNext
  BY <1>5, <1>t, <1>h, RunNextSolo
<1>6. CASE Tick
  BY <1>6, <1>t, <1>h, TickSolo
<1>7. CASE \/ \E q \in Runs : TimePasses(q) \/ Delete(q)
           \/ Filter \/ EndTick \/ \E p \in Procs : Crash(p)
  BY <1>7, <1>t, <1>h, QuietSteps, LeftAlone
<1>8. CASE UNCHANGED vars
  <2>1. LeavesAlone(r)
    BY <1>8 DEF vars, LeavesAlone
  <2> QED BY <1>t, <1>h, <2>1, LeftAlone
<1> QED BY <1>1, <1>2, <1>3, <1>4, <1>5, <1>6, <1>7, <1>8 DEF Next

LEMMA NextRunsInv == RunsInv /\ [Next]_vars => RunsInv'
<1> SUFFICES ASSUME RunsInv, [Next]_vars PROVE RunsInv'
  OBVIOUS
<1>1. TypeOK'
  BY NextTypeOK DEF RunsInv
<1>2. NotStarted' /\ CallShape'
  BY NextShape DEF RunsInv
<1>3. PastSteps'
  BY NextPast
<1>4. SoloInv'
  <2>1. \A r \in Solo : (answered[r] = {} => InOneHand(r))'
    BY NextSolo
  <2> QED BY <2>1 DEF SoloInv
<1> QED BY <1>1, <1>2, <1>3, <1>4 DEF RunsInv

(* In a behaviour of the system every run that no user has answered is in  *)
(* one hand at a time.                                                     *)
THEOREM RunsInOneHand == Spec => []RunsInv
<1>1. Init => RunsInv
  BY InitRunsInv
<1>2. RunsInv /\ [Next]_vars => RunsInv'
  BY NextRunsInv
<1> QED BY <1>1, <1>2, PTL DEF Spec

-----------------------------------------------------------------------------
(* The properties, for workflows whose every pause is left to the          *)
(* scheduler: however many runs, calls, users, crashes and deletions.      *)

LeftToScheduler ==
  \A r \in Runs : \A i \in Steps(r) :
    Program[r][i] \notin {"UserForm", "Output", "Background"}

LEMMA AllInOneHand ==
  ASSUME LeftToScheduler, RunsInv, NEW r \in Runs
  PROVE  r \in Solo /\ answered[r] = {} /\ InOneHand(r)
<1>1. r \in Solo
  BY DEF LeftToScheduler, Solo
<1>2. answered[r] = {}
  BY <1>1 DEF RunsInv, PastSteps, LeftToScheduler
<1> QED BY <1>1, <1>2 DEF RunsInv, SoloInv

(* No step of such a run takes effect twice.                               *)
THEOREM StepsAtMostOnce == ASSUME LeftToScheduler PROVE Spec => []AtMostOnce
<1>1. RunsInv => AtMostOnce
  BY AllInOneHand DEF AtMostOnce, InOneHand, PastFacts
<1> QED BY <1>1, RunsInOneHand, PTL

(* At most one call at a time executes the steps of such a run.            *)
THEOREM OneExecutor == ASSUME LeftToScheduler PROVE Spec => []SingleExecutor
<1>1. ASSUME RunsInv, NEW d \in AllSlots, NEW e \in AllSlots,
             Executing(d), Executing(e), exec[d].run = exec[e].run
      PROVE  d = e
  <2>1. exec[e].run \in Runs
    BY <1>1, CallTyped DEF RunsInv
  <2>2. OneHand(exec[e].run)
    BY <1>1, <2>1, AllInOneHand DEF InOneHand
  <2> QED BY <1>1, <2>2 DEF OneHand, Works, Executing
<1>2. RunsInv => SingleExecutor
  BY <1>1 DEF SingleExecutor
<1> QED BY <1>2, RunsInOneHand, PTL

(* No call goes past WaitUntil before the time has come.                   *)
THEOREM NeverEarly == ASSUME LeftToScheduler PROVE Spec => []UntilReached
<1>1. RunsInv => UntilReached
  BY AllInOneHand DEF UntilReached, PassedOf, InOneHand, PastFacts
<1> QED BY <1>1, RunsInOneHand, PTL

(* A run that has ended does not come back to life.                        *)
LEMMA NextEnd ==
  ASSUME RunsInv, [Next]_vars, NEW r \in Solo, answered'[r] = {}, Ended(row[r])
  PROVE  row'[r] \in {row[r], NoRow}
<1>t. TypeOK /\ NotStarted /\ CallShape /\ r \in Runs
  BY DEF RunsInv, Solo
<1>a. answered[r] = {}
  BY <1>t, AnsweredGrows
<1>h. InOneHand(r)
  BY <1>a DEF RunsInv, SoloInv
<1>1. ASSUME NEW e \in Slots, NEW p \in RequestProcs, NEW q \in Runs,
             Start(e, p, q) \/ FillForm(e, p, q) \/ Resume(e, p, q)
      PROVE  row'[r] \in {row[r], NoRow}
  <2>1. CASE q = r
    <3>1. ~Start(e, p, q)
      BY <1>t, <2>1 DEF Start, NotStarted, Ended
    <3> QED BY <1>1, <3>1 DEF FillForm, Resume
  <2>2. CASE q # r
    <3>1. TakesOn(e, q)
      BY <1>1, <1>t, StartTakes, FillFormTakes, ResumeTakes
    <3> QED BY <1>t, <2>2, <3>1 DEF TakesOn, LeavesAlone
  <2> QED BY <2>1, <2>2
<1>2. ASSUME NEW e \in Slots, TimerFires(e) PROVE row'[r] \in {row[r], NoRow}
  BY <1>2 DEF TimerFires
<1>3. ASSUME NEW e \in AllSlots, CallStep(e) PROVE row'[r] \in {row[r], NoRow}
  <2>1. CASE exec[e].run # r
    BY <1>3, <1>t, <2>1, CallElsewhere DEF LeavesAlone
  <2>2. CASE exec[e].run = r /\ Works(e, r)
    <3>1. CallFacts(e, r) /\ row[r] # NoRow /\ row[r].status \in {"Finished", "Error"}
      BY <1>h, <2>2 DEF InOneHand, Ended
    <3>2. ~exec[e].tx /\ e # SchedSlot
      BY <3>1, <2>2, <1>t DEF CallFacts, CallShape, Works
    <3> QED BY <1>t, <2>2, <3>1, <3>2 DEF CallFacts, Current, CallShape
  <2>3. CASE exec[e].run = r /\ ~Works(e, r)
    <3>1. exec[e].pc # "idle"
      BY <1>3, <1>t, CallKeeps
    <3>2. exec[e].pc # "input"
      <4>1. answered \in [Runs -> SUBSET Nat]
        BY <1>t DEF TypeOK
      <4>2. exec[e].pc = "input" => answered' = [answered EXCEPT ![r] = @ \union {exec[e].mem.pos}]
        BY <1>3, <1>t, <2>3, CallHistory
      <4> QED BY <1>t, <4>1, <4>2
    <3>3. exec[e].pc = "flag" /\ ~exec[e].tx
      BY <2>3, <3>1, <3>2 DEF Works
    <3>4. Flag(e)
      BY <1>3, <1>t, <3>3, OnlyFlag
    <3> QED BY <3>4 DEF Flag
  <2> QED BY <2>1, <2>2, <2>3
<1>4. ASSUME NEW q \in Runs, StartScheduled(q) PROVE row'[r] \in {row[r], NoRow}
  BY <1>4 DEF StartScheduled
<1>5. CASE RunNext \/ Tick
  BY <1>5 DEF RunNext, Tick
<1>6. CASE \/ \E q \in Runs : TimePasses(q) \/ Delete(q)
           \/ Filter \/ EndTick \/ \E p \in Procs : Crash(p)
  BY <1>6, <1>t, QuietSteps DEF LeavesAlone
<1>7. CASE UNCHANGED vars
  BY <1>7 DEF vars
<1> QED BY <1>1, <1>2, <1>3, <1>4, <1>5, <1>6, <1>7 DEF Next

(* EndIsFinal: what has ended stays as it is, until it is deleted.         *)
THEOREM EndsForGood == ASSUME LeftToScheduler PROVE Spec => EndIsFinal
<1>1. RunsInv /\ RunsInv' /\ [Next]_vars =>
        [\A r \in Runs : Ended(row[r]) => row'[r] \in {row[r], NoRow}]_vars
  <2> SUFFICES ASSUME RunsInv, RunsInv', [Next]_vars, NEW r \in Runs, Ended(row[r])
               PROVE  row'[r] \in {row[r], NoRow}
    OBVIOUS
  <2>1. r \in Solo
    BY AllInOneHand
  <2>2. answered'[r] = {}
    BY <2>1 DEF RunsInv, PastSteps, LeftToScheduler
  <2> QED BY <2>1, <2>2, NextEnd
<1> QED BY <1>1, RunsInOneHand, PTL DEF Spec, EndIsFinal

(* Forms: a run of a workflow with one form, and neither a message nor a   *)
(* background step before it, goes past the form only after an answer.     *)
OneForm ==
  \A r \in Runs :
    /\ r \in Solo
    /\ \A i, j \in Steps(r) : Program[r][i] = "UserForm" /\ Program[r][j] = "UserForm" => i = j

THEOREM FormsWait == ASSUME OneForm PROVE Spec => []FormsAnswered
<1>1. RunsInv => FormsAnswered
  <2> SUFFICES ASSUME RunsInv, NEW r \in Runs, NEW i \in PassedOf(r, "UserForm")
               PROVE  i \in answered[r]
    BY DEF FormsAnswered
  <2>1. r \in Solo /\ i \in passed[r] /\ Program[r][i] = "UserForm" /\ i \in Steps(r)
    BY DEF OneForm, PassedOf, RunsInv, PastSteps
  <2>2. answered[r] # {}
    BY <2>1 DEF RunsInv, SoloInv, InOneHand, PastFacts
  <2> QED BY <2>1, <2>2 DEF RunsInv, PastSteps, OneForm
<1> QED BY <1>1, RunsInOneHand, PTL
=============================================================================
