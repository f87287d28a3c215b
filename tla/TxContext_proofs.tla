--------------------------- MODULE TxContext_proofs ---------------------------
(*****************************************************************************)
(* Proofs about TxContext for a request with one transaction and one piece   *)
(* of work left for after it (OneEach), whatever their statements and their  *)
(* savepoints.  They fail for two of either: a second withTransaction does   *)
(* not look at the context, and a second waiter that polls before the first  *)
(* one has its connection finds the context free, too.                       *)
(*                                                                           *)
(* The invariant says whose turn it is (InTurn): work polls only after its   *)
(* transaction has begun and finds the context free only after it has ended. *)
(* So the client of the context is always that of the flow in its body, and  *)
(* its statements and callbacks stay its own (WritesOf, CallbackOf).         *)
(*****************************************************************************)
EXTENDS TxContext, TLAPS

(* A request with one transaction, and one piece of work left for after it.*)
OneEach ==
  /\ \A m, n \in Main : m = n
  /\ \A v, w \in Waiters : v = w

PC(f) == flow[f].pc

FlowPC == {"idle", "poll", "client", "failed", "body", "finally", "callbacks", "end"}
FlowRec ==
  [pc : FlowPC, n : 0..MaxWrites, written : SUBSET Writes, deferred : BOOLEAN,
   sp : [on : BOOLEAN, kept : SUBSET Writes], queue : SUBSET Flows]

(* The work waits for its transaction and comes after it; so the flow that *)
(* has a transaction, or is about to have one, is alone.                   *)
InTurn ==
  \A w \in Waiters, m \in Main :
    /\ PC(w) # "idle" => PC(m) \notin {"idle", "client", "failed"}
    /\ PC(w) \in {"client", "failed", "body", "finally", "callbacks"} => PC(m) \in {"callbacks", "end"}

MainAsks == \A m \in Main : PC(m) # "poll"

(* The context is that of the flow whose transaction is open, or whose     *)
(* BEGIN has failed.                                                       *)
Context ==
  /\ ctx.inTransaction = TRUE <=> ctx.client # None
  /\ \A f \in Flows : ctx.client = f <=> PC(f) \in {"failed", "body", "finally"}
  /\ ctx.afterCommit \subseteq {ctx.client}

Ends ==
  \A f \in Flows :
    /\ PC(f) \in {"idle", "poll", "client", "failed", "body"} => end[f] = "open"
    /\ PC(f) \in {"finally", "callbacks"} => end[f] # "open"
    /\ PC(f) = "end" => end[f] # "open" \/ f \in Waiters

(* What is uncommitted in a connection is what its flow has written.       *)
WritesOf(f) ==
  /\ \A w \in flow[f].written : w[1] = f
  /\ flow[f].sp.kept \subseteq flow[f].written
  /\ conn[f] = IF PC(f) = "body" THEN flow[f].written ELSE {}
  /\ PC(f) \in {"idle", "poll", "client", "failed"} => flow[f].written = {}

Uncommitted == \A f \in Flows : WritesOf(f)

(* A callback is in the context until its transaction ends, then in the    *)
(* queue of the flow, then it has run.                                     *)
CallbackOf(f) ==
  /\ PC(f) \in {"idle", "poll", "client", "failed"} => flow[f].deferred = FALSE
  /\ PC(f) \in {"body", "finally"} /\ flow[f].deferred = TRUE => f \in ctx.afterCommit
  /\ PC(f) \in {"callbacks", "end"} /\ flow[f].deferred = TRUE /\ end[f] = "committed"
       => f \in flow[f].queue \/ <<f, "committed">> \in ran
  /\ flow[f].queue \subseteq {f}
  /\ flow[f].queue # {} => PC(f) = "callbacks" /\ end[f] = "committed"

Deferred == \A f \in Flows : CallbackOf(f)

RanCommitted == \A r \in ran : r[2] = "committed"

TxInv ==
  /\ TypeOK /\ InTurn /\ MainAsks /\ Context /\ Ends /\ Uncommitted /\ Deferred
  /\ RanCommitted /\ WritesFollow

-----------------------------------------------------------------------------
(* One field of a flow is set.                                             *)
LEMMA RecordUpdates ==
  ASSUME NEW r \in FlowRec
  PROVE  /\ \A p \in FlowPC : [r EXCEPT !.pc = p] \in FlowRec
         /\ \A n \in 0..MaxWrites : [r EXCEPT !.n = n] \in FlowRec
         /\ \A w \in SUBSET Writes : [r EXCEPT !.written = w] \in FlowRec
         /\ \A b \in BOOLEAN : [r EXCEPT !.deferred = b] \in FlowRec
         /\ \A s \in [on : BOOLEAN, kept : SUBSET Writes] : [r EXCEPT !.sp = s] \in FlowRec
         /\ \A q \in SUBSET Flows : [r EXCEPT !.queue = q] \in FlowRec
BY DEF FlowRec

LEMMA Fields ==
  ASSUME TypeOK
  PROVE  /\ flow \in [Flows -> FlowRec]
         /\ \A f \in Flows :
              /\ flow[f].n \in 0..MaxWrites /\ flow[f].written \in SUBSET Writes
              /\ flow[f].sp.kept \in SUBSET Writes /\ flow[f].queue \in SUBSET Flows
              /\ flow[f].deferred \in BOOLEAN /\ flow[f].pc \in FlowPC
BY DEF TypeOK, FlowRec, FlowPC

(* A step that only moves the control of one flow.                         *)
LEMMA PcStep ==
  ASSUME TypeOK, NEW f \in Flows, NEW p \in FlowPC, Goto(f, p)
  PROVE  /\ flow' \in [Flows -> FlowRec]
         /\ \A g \in Flows : g # f => flow'[g] = flow[g]
         /\ flow'[f].pc = p
         /\ \A g \in Flows :
              /\ flow'[g].n = flow[g].n /\ flow'[g].written = flow[g].written
              /\ flow'[g].sp = flow[g].sp /\ flow'[g].deferred = flow[g].deferred
              /\ flow'[g].queue = flow[g].queue
<1>1. flow \in [Flows -> FlowRec]
  BY Fields
<1>2. flow' \in [Flows -> FlowRec]
  BY <1>1, RecordUpdates DEF Goto
<1>3. /\ flow'[f] = [flow[f] EXCEPT !.pc = p]
      /\ \A g \in Flows : g # f => flow'[g] = flow[g]
  BY <1>1 DEF Goto
<1>4. /\ flow'[f].pc = p
      /\ flow'[f].n = flow[f].n /\ flow'[f].written = flow[f].written
      /\ flow'[f].sp = flow[f].sp /\ flow'[f].deferred = flow[f].deferred
      /\ flow'[f].queue = flow[f].queue
  BY <1>1, <1>3 DEF FlowRec
<1> QED BY <1>2, <1>3, <1>4

(* The flow that has a transaction, or is about to, is alone.              *)
LEMMA Alone ==
  ASSUME FlowsAssumption, OneEach, InTurn, MainAsks, NEW f \in Flows, NEW g \in Flows,
         PC(f) \in {"client", "failed", "body", "finally"},
         PC(g) \in {"client", "failed", "body", "finally"}
  PROVE  f = g
BY DEF FlowsAssumption, OneEach, InTurn, Flows

LEMMA AskStep ==
  ASSUME FlowsAssumption, OneEach, TxInv, NEW f \in Flows,
         Begin(f) \/ Spawn(f) \/ Poll(f) \/ GiveUp(f) \/ Return(f)
  PROVE  TxInv'
<1> USE DEF TxInv
<1>1. PICK p \in {"client", "poll", "end"} :
        /\ Goto(f, p) /\ UNCHANGED <<ctx, conn, db, end, ran>>
        /\ \/ p = "client" /\ f \in Main /\ PC(f) = "idle"
           \/ p = "poll" /\ f \in Waiters /\ PC(f) = "idle" /\ \E m \in Main : PC(m) = "body"
           \/ p = "client" /\ PC(f) = "poll" /\ ~ctx.inTransaction
           \/ p = "end" /\ PC(f) = "poll"
           \/ p = "end" /\ PC(f) = "callbacks" /\ flow[f].queue = {}
  BY DEF Begin, Spawn, Poll, Free, GiveUp, Return, PC
<1>p. p \in FlowPC
  BY DEF FlowPC
<1>2. /\ flow'[f].pc = p
      /\ \A g \in Flows : g # f => flow'[g] = flow[g]
      /\ \A g \in Flows :
           /\ flow'[g].n = flow[g].n /\ flow'[g].written = flow[g].written
           /\ flow'[g].sp = flow[g].sp /\ flow'[g].deferred = flow[g].deferred
           /\ flow'[g].queue = flow[g].queue
  BY <1>1, <1>p, PcStep
<1>3. TypeOK'
  BY <1>1, <1>p, PcStep, ZenonT(120) DEF TypeOK, FlowRec, FlowPC
<1>4. InTurn'
  <2>1. \A m \in Main : PC(m) \in FlowPC
    BY Fields DEF PC, Flows
  <2>2. ctx.inTransaction = FALSE => \A m \in Main : PC(m) \notin {"failed", "body", "finally"}
    BY DEF Context, FlowsAssumption, Flows
  <2>3. ctx.inTransaction \in BOOLEAN
    BY DEF TypeOK
  <2> SUFFICES ASSUME NEW w \in Waiters, NEW m \in Main
               PROVE  /\ PC(w)' # "idle" => PC(m)' \notin {"idle", "client", "failed"}
                      /\ PC(w)' \in {"client", "failed", "body", "finally", "callbacks"}
                           => PC(m)' \in {"callbacks", "end"}
    BY DEF InTurn
  <2>4. w \in Flows /\ m \in Flows /\ w # m
    BY DEF Flows, FlowsAssumption
  <2>5. CASE f = w
    <3>1. PC(m)' = PC(m) /\ PC(w)' = p
      BY <1>2, <2>4, <2>5 DEF PC
    <3> QED BY <1>1, <2>1, <2>2, <2>3, <2>4, <2>5, <3>1
               DEF InTurn, MainAsks, OneEach, FlowsAssumption, FlowPC
  <2>6. CASE f # w
    <3>1. PC(w)' = PC(w) /\ (f = m => PC(m)' = p) /\ (f # m => PC(m)' = PC(m))
      BY <1>2, <2>4, <2>6 DEF PC
    <3> QED BY <1>1, <2>4, <2>6, <3>1 DEF InTurn, MainAsks
  <2> QED BY <2>5, <2>6
<1>5. MainAsks'
  BY <1>1, <1>2 DEF MainAsks, FlowsAssumption, PC, Flows
<1>6. Context'
  BY <1>1, <1>2 DEF Context, PC
<1>7. Ends'
  BY <1>1, <1>2 DEF Ends, MainAsks, PC, Flows
<1>8. Uncommitted'
  BY <1>1, <1>2 DEF Uncommitted, WritesOf, PC
<1>9. Deferred'
  <2>1. CallbackOf(f)'
    BY <1>1, <1>2 DEF Deferred, CallbackOf, PC
  <2>2. ASSUME NEW g \in Flows, g # f PROVE CallbackOf(g)'
    BY <1>1, <1>2, <2>2 DEF Deferred, CallbackOf, PC
  <2> QED BY <2>1, <2>2 DEF Deferred
<1>10. RanCommitted' /\ WritesFollow'
  BY <1>1, <1>2 DEF RanCommitted, WritesFollow, Own
<1> QED BY <1>3, <1>4, <1>5, <1>6, <1>7, <1>8, <1>9, <1>10

(* The flow whose turn it is goes on.                                      *)
LEMMA TurnStep ==
  ASSUME FlowsAssumption, InTurn, MainAsks, NEW f \in Flows,
         \A g \in Flows : g # f => flow'[g] = flow[g],
         <<PC(f), PC(f)'>> \in {<<"client", "body">>, <<"client", "failed">>,
                               <<"body", "finally">>, <<"finally", "callbacks">>}
  PROVE  InTurn' /\ MainAsks'
<1>1. MainAsks'
  BY DEF MainAsks, PC, Flows
<1>2. ASSUME NEW w \in Waiters, NEW m \in Main
      PROVE  /\ PC(w)' # "idle" => PC(m)' \notin {"idle", "client", "failed"}
             /\ PC(w)' \in {"client", "failed", "body", "finally", "callbacks"}
                  => PC(m)' \in {"callbacks", "end"}
  <2>1. w \in Flows /\ m \in Flows /\ w # m
    BY DEF Flows, FlowsAssumption
  <2>2. /\ f # w => PC(w)' = PC(w)
        /\ f # m => PC(m)' = PC(m)
    BY <2>1 DEF PC
  <2>3. CASE f = w
    BY <2>1, <2>2, <2>3 DEF InTurn
  <2>4. CASE f # w
    BY <2>1, <2>2, <2>4 DEF InTurn
  <2> QED BY <2>3, <2>4
<1> QED BY <1>1, <1>2 DEF InTurn

LEMMA ClientStep ==
  ASSUME FlowsAssumption, OneEach, TxInv, NEW f \in Flows, Client(f) \/ BeginFails(f)
  PROVE  TxInv'
<1> USE DEF TxInv
<1>1. PICK p \in {"body", "failed"} :
        /\ Goto(f, p) /\ UNCHANGED <<conn, db, end, ran>> /\ PC(f) = "client"
        /\ ctx' = [ctx EXCEPT !.client = f, !.inTransaction = TRUE]
  BY DEF Client, BeginFails, PC
<1>p. p \in FlowPC
  BY DEF FlowPC
<1>2. /\ flow'[f].pc = p
      /\ \A g \in Flows : g # f => flow'[g] = flow[g]
      /\ \A g \in Flows :
           /\ flow'[g].n = flow[g].n /\ flow'[g].written = flow[g].written
           /\ flow'[g].sp = flow[g].sp /\ flow'[g].deferred = flow[g].deferred
           /\ flow'[g].queue = flow[g].queue
  BY <1>1, <1>p, PcStep
<1>3. \A g \in Flows : g # f => PC(g) \notin {"client", "failed", "body", "finally"}
  BY <1>1, Alone
<1>4. ctx.client = None /\ ctx.afterCommit = {} /\ f # None
  <2>1. ctx.client \in Flows => FALSE
    BY <1>1, <1>3 DEF Context
  <2>2. ctx.client \in Flows \cup {None} /\ ctx.afterCommit \in SUBSET Flows /\ None \notin Flows
    BY DEF TypeOK, FlowsAssumption, Flows
  <2> QED BY <2>1, <2>2 DEF Context
<1>5. /\ ctx'.client = f /\ ctx'.inTransaction = TRUE /\ ctx'.afterCommit = {}
      /\ ctx' \in [client : Flows \cup {None}, inTransaction : BOOLEAN,
                   afterCommit : SUBSET Flows]
  BY <1>1, <1>4 DEF TypeOK
<1>6. TypeOK'
  <2>1. flow' \in [Flows -> FlowRec]
    BY <1>1, <1>p, PcStep
  <2>2. UNCHANGED <<conn, db, end, ran>>
    BY <1>1
  <2> QED BY <1>5, <2>1, <2>2, ZenonT(60) DEF TypeOK, FlowRec, FlowPC
<1>7. InTurn' /\ MainAsks'
  BY <1>1, <1>2, TurnStep DEF PC
<1>8. Context'
  BY <1>2, <1>3, <1>4, <1>5 DEF Context, PC
<1>9. Ends'
  BY <1>1, <1>2 DEF Ends, PC
<1>10. Uncommitted'
  BY <1>1, <1>2, ZenonT(120) DEF Uncommitted, WritesOf, PC
<1>11. Deferred'
  <2>1. CallbackOf(f)'
    BY <1>1, <1>2, <1>5, ZenonT(120) DEF Deferred, CallbackOf, PC
  <2>2. ASSUME NEW g \in Flows, g # f PROVE CallbackOf(g)'
    BY <1>1, <1>2, <1>3, <1>5, <2>2 DEF Deferred, CallbackOf, PC
  <2> QED BY <2>1, <2>2 DEF Deferred
<1>12. RanCommitted' /\ WritesFollow'
  BY <1>1, <1>2 DEF RanCommitted, WritesFollow, Own
<1> QED BY <1>6, <1>7, <1>8, <1>9, <1>10, <1>11, <1>12

(* A step that only changes what is written, or the savepoint.             *)
LEMMA DataStep ==
  ASSUME InTurn, MainAsks, Context, Ends, Deferred, RanCommitted,
         UNCHANGED <<ctx, end, ran>>,
         \A g \in Flows : /\ flow'[g].pc = flow[g].pc
                          /\ flow'[g].deferred = flow[g].deferred
                          /\ flow'[g].queue = flow[g].queue
  PROVE  InTurn' /\ MainAsks' /\ Context' /\ Ends' /\ Deferred' /\ RanCommitted'
<1>1. InTurn' /\ MainAsks'
  BY DEF InTurn, MainAsks, PC, Flows
<1>2. Context'
  BY DEF Context, PC
<1>3. Ends' /\ RanCommitted'
  BY DEF Ends, RanCommitted, PC
<1>4. ASSUME NEW g \in Flows PROVE CallbackOf(g)'
  BY DEF Deferred, CallbackOf, PC
<1> QED BY <1>1, <1>2, <1>3, <1>4 DEF Deferred

(* The steps of the body: the context is the flow's own, in a transaction. *)
LEMMA BodyStep ==
  ASSUME FlowsAssumption, OneEach, TxInv, NEW f \in Flows,
         Write(f) \/ Save(f) \/ Undo(f) \/ Release(f) \/ Defer(f)
  PROVE  TxInv'
<1> USE DEF TxInv
<1>1. /\ PC(f) = "body" /\ ctx.client = f /\ ctx.inTransaction = TRUE
      /\ end[f] = "open" /\ conn[f] = flow[f].written /\ f # None
  <2>1. PC(f) = "body"
    BY DEF Write, Save, Undo, Release, Defer, PC
  <2> QED BY <2>1 DEF Context, Ends, Uncommitted, WritesOf, FlowsAssumption, Flows, TypeOK
<1>2. flow \in [Flows -> FlowRec] /\ flow[f] \in FlowRec /\ flow[f].sp.kept \in SUBSET Writes
  BY Fields
<1>w. CASE Write(f)
  <2> DEFINE w == <<f, flow[f].n + 1>>
             F == [flow EXCEPT ![f].n = @ + 1]
  <2>1. /\ flow' = [flow EXCEPT ![f].n = @ + 1, ![f].written = @ \cup {w}]
        /\ conn' = [conn EXCEPT ![f] = @ \cup {w}]
        /\ UNCHANGED <<ctx, db, end, ran>> /\ flow[f].n < MaxWrites
    BY <1>1, <1>w DEF Write
  <2>2. flow[f].n + 1 \in 1..MaxWrites /\ w \in Writes /\ w[1] = f
    BY <2>1, Fields DEF Writes, FlowsAssumption
  <2>a. F \in [Flows -> FlowRec] /\ flow' = [F EXCEPT ![f].written = @ \cup {w}]
    BY <1>2, <2>1, <2>2, RecordUpdates
  <2>b. F[f].written \in SUBSET Writes
    BY <2>a DEF FlowRec
  <2>c. flow' \in [Flows -> FlowRec]
    <3> HIDE DEF F, w
    <3> QED BY <2>2, <2>a, <2>b, RecordUpdates, ZenonT(60)
  <2>d. /\ flow'[f] = [flow[f] EXCEPT !.n = @ + 1, !.written = @ \cup {w}]
        /\ \A g \in Flows : g # f => flow'[g] = flow[g]
    BY <1>2, <2>1
  <2> HIDE DEF w, F
  <2>3. TypeOK'
    BY <2>1, <2>2, <2>c, ZenonT(120) DEF TypeOK, FlowRec, FlowPC
  <2>4. /\ \A g \in Flows : g # f => flow'[g] = flow[g] /\ conn'[g] = conn[g]
        /\ flow'[f].pc = flow[f].pc /\ flow'[f].sp = flow[f].sp
        /\ flow'[f].deferred = flow[f].deferred /\ flow'[f].queue = flow[f].queue
        /\ flow'[f].written = flow[f].written \cup {w}
        /\ conn'[f] = conn[f] \cup {w}
    BY <1>2, <2>1, <2>d DEF TypeOK, FlowRec
  <2>5. InTurn' /\ MainAsks' /\ Context' /\ Ends' /\ Deferred' /\ RanCommitted'
    BY <2>1, <2>4, DataStep
  <2>6. Uncommitted'
    <3>1. WritesOf(f)'
      BY <1>1, <2>2, <2>4 DEF Uncommitted, WritesOf, PC
    <3>2. ASSUME NEW g \in Flows, g # f PROVE WritesOf(g)'
      BY <2>4, <3>2 DEF Uncommitted, WritesOf, PC
    <3> QED BY <3>1, <3>2 DEF Uncommitted
  <2>7. WritesFollow'
    BY <1>1, <2>1, <2>4, ZenonT(60) DEF WritesFollow, Own
  <2> QED BY <2>3, <2>5, <2>6, <2>7
<1>s. CASE Save(f) \/ Release(f)
  <2>1. PICK s \in [on : BOOLEAN, kept : SUBSET Writes] :
          /\ flow' = [flow EXCEPT ![f].sp = s] /\ s.kept \in {{}, conn[f]}
    <3>1. conn[f] \in SUBSET Writes
      BY DEF TypeOK
    <3>2. CASE Save(f)
      <4> DEFINE s == [on |-> TRUE, kept |-> conn[f]]
      <4>1. s \in [on : BOOLEAN, kept : SUBSET Writes] /\ s.kept = conn[f]
        BY <3>1
      <4>2. flow' = [flow EXCEPT ![f].sp = s]
        BY <1>1, <3>2 DEF Save
      <4> QED BY <4>1, <4>2
    <3>3. CASE Release(f)
      <4>1. NoSave \in [on : BOOLEAN, kept : SUBSET Writes] /\ NoSave.kept = {}
        BY DEF NoSave
      <4>2. flow' = [flow EXCEPT ![f].sp = NoSave]
        BY <3>3 DEF Release
      <4> QED BY <4>1, <4>2
    <3> QED BY <1>s, <3>2, <3>3
  <2>2. UNCHANGED <<ctx, conn, db, end, ran>>
    BY <1>s DEF Save, Release
  <2>c. flow' \in [Flows -> FlowRec]
    BY <1>2, <2>1, RecordUpdates
  <2>d. /\ flow'[f] = [flow[f] EXCEPT !.sp = s]
        /\ \A g \in Flows : g # f => flow'[g] = flow[g]
    BY <1>2, <2>1
  <2>3. TypeOK'
    BY <2>2, <2>c DEF TypeOK, FlowRec, FlowPC
  <2>4. /\ \A g \in Flows : g # f => flow'[g] = flow[g]
        /\ flow'[f].pc = flow[f].pc /\ flow'[f].sp = s
        /\ flow'[f].deferred = flow[f].deferred /\ flow'[f].queue = flow[f].queue
        /\ flow'[f].written = flow[f].written
    BY <1>2, <2>d DEF FlowRec
  <2>5. InTurn' /\ MainAsks' /\ Context' /\ Ends' /\ Deferred' /\ RanCommitted' /\ WritesFollow'
    BY <2>2, <2>4, DataStep DEF WritesFollow, Own
  <2>6. Uncommitted'
    BY <1>1, <2>1, <2>2, <2>4 DEF Uncommitted, WritesOf, PC
  <2> QED BY <2>3, <2>5, <2>6
<1>u. CASE Undo(f)
  <2> DEFINE k == flow[f].sp.kept
             F == [flow EXCEPT ![f].sp = NoSave]
  <2>1. /\ conn' = [conn EXCEPT ![f] = k] /\ UNCHANGED <<ctx, db, end, ran>>
        /\ flow' = [flow EXCEPT ![f].sp = NoSave, ![f].written = @ \cap k]
    BY <1>u DEF Undo, Undone
  <2>2. k \subseteq flow[f].written /\ k \in SUBSET Writes
    BY <1>2 DEF Uncommitted, WritesOf
  <2> HIDE DEF k
  <2>n. NoSave \in [on : BOOLEAN, kept : SUBSET Writes] /\ NoSave.kept = {}
    BY DEF NoSave
  <2>a. F \in [Flows -> FlowRec] /\ flow' = [F EXCEPT ![f].written = @ \cap k]
    BY <1>2, <2>1, <2>n, RecordUpdates
  <2>b. F[f].written \in SUBSET Writes
    BY <2>a DEF FlowRec
  <2>c. flow' \in [Flows -> FlowRec]
    <3> HIDE DEF F
    <3> QED BY <2>2, <2>a, <2>b, RecordUpdates
  <2>d. /\ flow'[f] = [flow[f] EXCEPT !.sp = NoSave, !.written = @ \cap k]
        /\ \A g \in Flows : g # f => flow'[g] = flow[g]
    BY <1>2, <2>1
  <2> HIDE DEF F
  <2>3. TypeOK'
    BY <2>1, <2>2, <2>c DEF TypeOK, FlowRec, FlowPC
  <2>4. /\ \A g \in Flows : g # f => flow'[g] = flow[g] /\ conn'[g] = conn[g]
        /\ flow'[f].pc = flow[f].pc /\ flow'[f].sp.kept = {}
        /\ flow'[f].deferred = flow[f].deferred /\ flow'[f].queue = flow[f].queue
        /\ flow'[f].written = k
        /\ conn'[f] = k
    BY <1>2, <2>1, <2>2, <2>d, <2>n DEF TypeOK, FlowRec
  <2>5. InTurn' /\ MainAsks' /\ Context' /\ Ends' /\ Deferred' /\ RanCommitted'
    BY <2>1, <2>4, DataStep
  <2>6. Uncommitted'
    <3>1. WritesOf(f)'
      BY <1>1, <2>2, <2>4 DEF Uncommitted, WritesOf, PC
    <3>2. ASSUME NEW g \in Flows, g # f PROVE WritesOf(g)'
      BY <2>4, <3>2 DEF Uncommitted, WritesOf, PC
    <3> QED BY <3>1, <3>2 DEF Uncommitted
  <2>7. WritesFollow'
    BY <1>1, <2>1, <2>4 DEF WritesFollow, Own
  <2> QED BY <2>3, <2>5, <2>6, <2>7
<1>d. CASE Defer(f)
  <2>1. /\ flow' = [flow EXCEPT ![f].deferred = TRUE] /\ UNCHANGED <<conn, db, end, ran>>
        /\ ctx' = [ctx EXCEPT !.afterCommit = @ \cup {f}]
    BY <1>1, <1>d DEF Defer
  <2>c. flow' \in [Flows -> FlowRec]
    BY <1>2, <2>1, RecordUpdates
  <2>d. /\ flow'[f] = [flow[f] EXCEPT !.deferred = TRUE]
        /\ \A g \in Flows : g # f => flow'[g] = flow[g]
    BY <1>2, <2>1
  <2>e. /\ ctx' \in [client : Flows \cup {None}, inTransaction : BOOLEAN,
                     afterCommit : SUBSET Flows]
        /\ ctx'.client = ctx.client /\ ctx'.inTransaction = TRUE
        /\ ctx'.afterCommit = ctx.afterCommit \cup {f}
    BY <1>1, <2>1 DEF TypeOK
  <2>2. TypeOK'
    BY <2>1, <2>c, <2>e DEF TypeOK, FlowRec, FlowPC
  <2>3. /\ \A g \in Flows : g # f => flow'[g] = flow[g]
        /\ flow'[f].pc = flow[f].pc /\ flow'[f].sp = flow[f].sp
        /\ flow'[f].queue = flow[f].queue /\ flow'[f].written = flow[f].written
    BY <1>2, <2>d DEF FlowRec
  <2>4. InTurn' /\ MainAsks' /\ Ends' /\ Uncommitted' /\ RanCommitted' /\ WritesFollow'
    BY <2>1, <2>3 DEF InTurn, MainAsks, Ends, Uncommitted, WritesOf, RanCommitted, WritesFollow, Own,
                      PC, Flows
  <2>5. Context'
    BY <1>1, <2>3, <2>e DEF Context, PC
  <2>6. Deferred'
    <3>1. CallbackOf(f)'
      BY <1>1, <2>1, <2>3, <2>e DEF Deferred, CallbackOf, PC
    <3>2. ASSUME NEW g \in Flows, g # f PROVE CallbackOf(g)'
      BY <2>1, <2>3, <2>e, <3>2 DEF Deferred, CallbackOf, PC
    <3> QED BY <3>1, <3>2 DEF Deferred
  <2> QED BY <2>2, <2>4, <2>5, <2>6
<1> QED BY <1>w, <1>s, <1>u, <1>d

(* COMMIT or ROLLBACK.                                                     *)
LEMMA CloseStep ==
  ASSUME FlowsAssumption, OneEach, TxInv, NEW f \in Flows,
         NEW how \in {"committed", "rolled back"}, Close(f, how)
  PROVE  TxInv'
<1> USE DEF TxInv
<1>1. /\ PC(f) = "body" /\ Goto(f, "finally") /\ UNCHANGED <<ctx, ran>>
      /\ end' = [end EXCEPT ![f] = how] /\ conn' = [conn EXCEPT ![f] = {}]
      /\ db' = IF how = "committed" THEN db \cup conn[f] ELSE db
  BY DEF Close, PC
<1>p. "finally" \in FlowPC
  BY DEF FlowPC
<1>2. /\ flow'[f].pc = "finally"
      /\ \A g \in Flows : g # f => flow'[g] = flow[g]
      /\ \A g \in Flows :
           /\ flow'[g].n = flow[g].n /\ flow'[g].written = flow[g].written
           /\ flow'[g].sp = flow[g].sp /\ flow'[g].deferred = flow[g].deferred
           /\ flow'[g].queue = flow[g].queue
  BY <1>1, <1>p, PcStep
<1>3. /\ end'[f] = how /\ conn'[f] = {}
      /\ \A g \in Flows : g # f => end'[g] = end[g] /\ conn'[g] = conn[g]
  BY <1>1 DEF TypeOK
<1>4. end[f] = "open" /\ conn[f] = flow[f].written /\ \A w \in conn[f] : w[1] = f
  BY <1>1 DEF Ends, Uncommitted, WritesOf
<1>5. TypeOK'
  BY <1>1, <1>p, PcStep DEF TypeOK, FlowRec, FlowPC
<1>6. InTurn' /\ MainAsks'
  BY <1>1, <1>2, TurnStep DEF PC
<1>7. Context'
  BY <1>1, <1>2 DEF Context, PC
<1>8. Ends'
  BY <1>1, <1>2, <1>3 DEF Ends, PC
<1>9. Uncommitted'
  <2>1. WritesOf(f)'
    BY <1>1, <1>2, <1>3 DEF Uncommitted, WritesOf, PC
  <2>2. ASSUME NEW g \in Flows, g # f PROVE WritesOf(g)'
    BY <1>2, <1>3, <2>2, ZenonT(120) DEF Uncommitted, WritesOf, PC
  <2> QED BY <2>1, <2>2 DEF Uncommitted
<1>10. Deferred'
  <2>1. CallbackOf(f)'
    BY <1>1, <1>2, <1>3 DEF Deferred, CallbackOf, PC
  <2>2. ASSUME NEW g \in Flows, g # f PROVE CallbackOf(g)'
    <3>1. UNCHANGED <<ctx, ran>> /\ flow'[g] = flow[g] /\ end'[g] = end[g]
      BY <1>1, <1>2, <1>3, <2>2
    <3> QED BY <3>1 DEF Deferred, CallbackOf, PC
  <2> QED BY <2>1, <2>2 DEF Deferred
<1>11. RanCommitted'
  BY <1>1 DEF RanCommitted
<1>12. WritesFollow'
  <2>1. Own(f) = {}
    BY <1>4 DEF WritesFollow
  <2>2. ASSUME NEW g \in Flows, g # f PROVE Own(g)' = Own(g)
    BY <1>1, <1>4, <2>2 DEF Own
  <2>3. Own(f)' = IF how = "committed" THEN flow[f].written ELSE {}
    BY <1>1, <1>4, <2>1 DEF Own
  <2> QED BY <1>2, <1>3, <2>2, <2>3, ZenonT(60) DEF WritesFollow
<1> QED BY <1>5, <1>6, <1>7, <1>8, <1>9, <1>10, <1>11, <1>12

(* The finally block takes the callbacks out of the context.               *)
LEMMA FinallyStep ==
  ASSUME FlowsAssumption, OneEach, TxInv, NEW f \in Flows, Finally(f)
  PROVE  TxInv'
<1> USE DEF TxInv
<1> DEFINE q == IF end[f] = "committed" THEN ctx.afterCommit ELSE {}
<1>1. /\ PC(f) = "finally" /\ UNCHANGED <<conn, db, end, ran>>
      /\ ctx' = [client |-> None, inTransaction |-> FALSE, afterCommit |-> {}]
      /\ flow' = [flow EXCEPT ![f].pc = "callbacks", ![f].queue = q]
  BY DEF Finally, Cleared, PC
<1>2. /\ ctx.client = f /\ q \in SUBSET Flows /\ q \subseteq {f}
      /\ q # {} => end[f] = "committed"
      /\ end[f] = "committed" /\ flow[f].deferred = TRUE => f \in q
      /\ end[f] # "open" /\ flow[f].queue = {}
  BY <1>1 DEF Context, Deferred, CallbackOf, Ends, TypeOK, PC
<1> HIDE DEF q
<1> DEFINE F == [flow EXCEPT ![f].pc = "callbacks"]
<1>f. flow \in [Flows -> FlowRec] /\ flow[f] \in FlowRec /\ "callbacks" \in FlowPC
  BY Fields DEF FlowPC
<1>a. F \in [Flows -> FlowRec] /\ flow' = [F EXCEPT ![f].queue = q]
  BY <1>f, <1>1, RecordUpdates
<1>c. flow' \in [Flows -> FlowRec]
  <2> HIDE DEF F
  <2> QED BY <1>2, <1>a, RecordUpdates
<1>d. /\ flow'[f] = [flow[f] EXCEPT !.pc = "callbacks", !.queue = q]
      /\ \A g \in Flows : g # f => flow'[g] = flow[g]
  BY <1>f, <1>1
<1> HIDE DEF F
<1>e. ctx' \in [client : Flows \cup {None}, inTransaction : BOOLEAN, afterCommit : SUBSET Flows]
  BY <1>1
<1>3. TypeOK'
  BY <1>1, <1>c, <1>e DEF TypeOK, FlowRec, FlowPC
<1>4. /\ flow'[f].pc = "callbacks" /\ flow'[f].queue = q
      /\ flow'[f].written = flow[f].written
      /\ flow'[f].sp = flow[f].sp /\ flow'[f].deferred = flow[f].deferred
      /\ \A g \in Flows : g # f => flow'[g] = flow[g]
  BY <1>f, <1>d DEF FlowRec
<1>5. InTurn' /\ MainAsks'
  BY <1>1, <1>4, TurnStep DEF PC
<1>6. \A g \in Flows : g # f => PC(g) \notin {"client", "failed", "body", "finally"}
  BY <1>1, Alone
<1>7. Context'
  BY <1>1, <1>4, <1>6 DEF Context, PC, FlowsAssumption, Flows
<1>8. Ends' /\ RanCommitted' /\ WritesFollow'
  <2>1. UNCHANGED <<db, end, ran>>
    BY <1>1
  <2>2. Ends'
    BY <1>2, <1>4, <2>1 DEF Ends, PC
  <2>3. RanCommitted'
    BY <2>1 DEF RanCommitted
  <2>4. WritesFollow'
    BY <1>4, <2>1 DEF WritesFollow, Own
  <2> QED BY <2>2, <2>3, <2>4
<1>10. Uncommitted'
  <2>1. WritesOf(f)'
    BY <1>1, <1>4 DEF Uncommitted, WritesOf, PC
  <2>2. ASSUME NEW g \in Flows, g # f PROVE WritesOf(g)'
    BY <1>1, <1>4, <2>2 DEF Uncommitted, WritesOf, PC
  <2> QED BY <2>1, <2>2 DEF Uncommitted
<1>9. Deferred'
  <2>1. CallbackOf(f)'
    BY <1>1, <1>2, <1>4 DEF Deferred, CallbackOf, PC
  <2>2. ASSUME NEW g \in Flows, g # f PROVE CallbackOf(g)'
    <3>1. UNCHANGED <<end, ran>> /\ flow'[g] = flow[g] /\ PC(g) \notin {"body", "finally"}
      BY <1>1, <1>4, <1>6, <2>2
    <3> QED BY <3>1 DEF Deferred, CallbackOf, PC
  <2> QED BY <2>1, <2>2 DEF Deferred
<1> QED BY <1>3, <1>5, <1>7, <1>8, <1>9, <1>10

LEMMA CallbackStep ==
  ASSUME FlowsAssumption, OneEach, TxInv, NEW f \in Flows, Callback(f)
  PROVE  TxInv'
<1> USE DEF TxInv
<1>1. PICK g \in flow[f].queue : /\ flow' = [flow EXCEPT ![f].queue = @ \ {g}]
                                 /\ ran' = ran \cup {<<g, end[g]>>}
  BY DEF Callback
<1>2. /\ PC(f) = "callbacks" /\ UNCHANGED <<ctx, conn, db, end>>
      /\ g = f /\ end[f] = "committed"
  BY DEF Callback, PC, Deferred, CallbackOf
<1>f. flow \in [Flows -> FlowRec] /\ flow[f] \in FlowRec /\ flow[f].queue \in SUBSET Flows
  BY Fields
<1>c. flow' \in [Flows -> FlowRec]
  BY <1>1, <1>f, RecordUpdates
<1>d. /\ flow'[f] = [flow[f] EXCEPT !.queue = @ \ {f}]
      /\ \A h \in Flows : h # f => flow'[h] = flow[h]
  BY <1>1, <1>2, <1>f
<1>r. ran' \in SUBSET (Flows \X {"open", "committed", "rolled back"})
  <2>1. ran \in SUBSET (Flows \X {"open", "committed", "rolled back"})
    BY DEF TypeOK
  <2>2. ran' = ran \cup {<<f, "committed">>}
    BY <1>1, <1>2
  <2>3. <<f, "committed">> \in Flows \X {"open", "committed", "rolled back"}
    OBVIOUS
  <2> QED BY <2>1, <2>2, <2>3
<1>3. TypeOK'
  BY <1>2, <1>c, <1>r DEF TypeOK, FlowRec, FlowPC
<1>4. /\ flow'[f].queue = flow[f].queue \ {f}
      /\ flow'[f].pc = flow[f].pc /\ flow'[f].written = flow[f].written
      /\ flow'[f].sp = flow[f].sp /\ flow'[f].deferred = flow[f].deferred
      /\ \A h \in Flows : h # f => flow'[h] = flow[h]
  BY <1>d, <1>f DEF FlowRec
<1>5. InTurn' /\ MainAsks' /\ Context' /\ Ends' /\ Uncommitted' /\ WritesFollow'
  BY <1>2, <1>4 DEF InTurn, MainAsks, Context, Ends, Uncommitted, WritesOf, WritesFollow, Own, PC, Flows
<1>6. Deferred'
  <2>1. CallbackOf(f)'
    BY <1>1, <1>2, <1>4 DEF Deferred, CallbackOf, PC
  <2>2. ASSUME NEW h \in Flows, h # f PROVE CallbackOf(h)'
    BY <1>1, <1>2, <1>4, <2>2 DEF Deferred, CallbackOf, PC
  <2> QED BY <2>1, <2>2 DEF Deferred
<1>7. RanCommitted'
  BY <1>1, <1>2 DEF RanCommitted
<1> QED BY <1>3, <1>5, <1>6, <1>7

LEMMA TxInvHolds == ASSUME FlowsAssumption, OneEach PROVE Spec => []TxInv
<1>1. Init => TxInv
  <2> SUFFICES ASSUME Init PROVE TxInv
    OBVIOUS
  <2>1. TypeOK
    BY DEF Init, Idle, NoSave, TypeOK, FlowsAssumption
  <2> QED
    BY <2>1 DEF Init, Idle, NoSave, TxInv, InTurn, MainAsks, Context, Ends, Uncommitted, WritesOf,
                Deferred, CallbackOf, RanCommitted, WritesFollow, Own, PC, Flows, FlowsAssumption
<1>2. TxInv /\ [Next]_vars => TxInv'
  <2> SUFFICES ASSUME TxInv, [Next]_vars PROVE TxInv'
    OBVIOUS
  <2>1. CASE Next
    <3>1. PICK f \in Flows :
            \/ Begin(f) \/ Spawn(f) \/ Poll(f) \/ GiveUp(f) \/ Client(f)
            \/ BeginFails(f) \/ Write(f) \/ Save(f) \/ Undo(f) \/ Release(f) \/ Defer(f)
            \/ Close(f, "committed") \/ Close(f, "rolled back")
            \/ Finally(f) \/ Callback(f) \/ Return(f)
      BY <2>1 DEF Next
    <3> QED
      BY <3>1, AskStep, ClientStep, BodyStep, CloseStep, FinallyStep, CallbackStep
  <2>2. CASE UNCHANGED vars
    BY <2>2, ZenonT(60) DEF vars, TxInv, TypeOK, InTurn, MainAsks, Context, Ends, Uncommitted, WritesOf,
                Deferred, CallbackOf, RanCommitted, WritesFollow, Own, PC
  <2> QED BY <2>1, <2>2
<1> QED BY <1>1, <1>2, PTL DEF Spec

-----------------------------------------------------------------------------
(* The context, the connections and the flows keep their types.            *)
THEOREM TxTypeCorrect ==
  ASSUME FlowsAssumption, OneEach PROVE Spec => []TypeOK
BY TxInvHolds, PTL DEF TxInv

(* The statements of a transaction are committed by its own COMMIT, but    *)
(* those that a savepoint undid, however many there are.                   *)
THEOREM TxWritesFollow ==
  ASSUME FlowsAssumption, OneEach PROVE Spec => []WritesFollow
BY TxInvHolds, PTL DEF TxInv

(* What is deferred runs after the commit of the transaction that deferred *)
(* it, and not at all after its rollback.                                  *)
THEOREM TxCallbacksFollow ==
  ASSUME FlowsAssumption, OneEach PROVE Spec => []CallbacksFollow
<1>1. TxInv => CallbacksFollow
  BY Fields DEF TxInv, Deferred, CallbackOf, RanCommitted, CallbacksFollow, PC
<1> QED BY <1>1, TxInvHolds, PTL
===============================================================================
