--------------------------- MODULE GoOutbox_proofs ---------------------------
(***************************************************************************)
(* Proofs about GoOutbox for any requests, keys, records and workers, and  *)
(* any number of attempts and faults.  The server and the workers share    *)
(* the outbox only, so there is an inductive invariant for each.           *)
(***************************************************************************)
EXTENDS GoOutbox, TLAPS

-------------------------------------------------------------------------------
\* The server.

Tries == [pc : {"idle", "key", "update", "enqueue", "commit", "end"},
          req : Requests \cup {NoBody}, answer : Answers \cup {NoBody}]

ServerTypes ==
  /\ version \in [Records -> Nat]
  /\ wants \in [Requests -> Nat \cup {NoBody}]
  /\ hash \in [Keys \cup Records -> Requests \cup Nat \cup {NoBody}]
  /\ tries \in [Attempts -> Tries]

Key(a) == KeyOf[tries[a].req]
Rec(a) == RecOf[tries[a].req]
KeyLocked(a) == tries[a].pc \in {"update", "enqueue", "commit"}
RowLocked(a) == tries[a].pc \in {"enqueue", "commit"}

\* A request that has arrived asks for a version that there has been.
Composed ==
  /\ \A q \in Requests : wants[q] # NoBody => wants[q] <= version[RecOf[q]]
  /\ \A a \in Attempts : tries[a].pc # "idle" =>
       tries[a].req \in Requests /\ wants[tries[a].req] # NoBody

\* The holder of the lock of a key is alone and has found the key unused.
KeyLocks == \A a \in Attempts : KeyLocked(a) =>
  /\ hash[Key(a)] = NoBody
  /\ \A b \in Attempts \ {a} : KeyLocked(b) => Key(b) # Key(a)

\* The holder of the lock of a row is alone and has found its version there.
RowLocks == \A a \in Attempts : RowLocked(a) =>
  /\ version[Rec(a)] = wants[tries[a].req]
  /\ \A b \in Attempts \ {a} : RowLocked(b) => Rec(b) # Rec(a)

\* A key that is used has a request that was composed with it.
Stored == \A k \in Keys : hash[k] # NoBody =>
  hash[k] \in Requests /\ KeyOf[hash[k]] = k /\ wants[hash[k]] # NoBody

\* A request with this key and this payload has been committed.
Replayable(q) == hash[KeyOf[q]] # NoBody /\ SamePayload(hash[KeyOf[q]], q)

\* An attempt that is about to commit has found the key of its event unused.
EventFresh == \A a \in Attempts : tries[a].pc = "commit" => hash[Rec(a)] = NoBody

Replays(a) == Replayable(tries[a].req)
Done(a) == Committed(tries[a].req)

\* What an answer says, and why a refusal stays true: the version has passed,
\* or a key is taken and stays taken.
Told == \A a \in Attempts : tries[a].answer # NoBody =>
  /\ tries[a].pc = "end"
  /\ tries[a].answer = "ok" => Replays(a)
  /\ tries[a].answer = "version_conflict" => ~Done(a) /\ version[Rec(a)] # wants[tries[a].req]
  /\ tries[a].answer = "key_conflict" =>
       /\ ~Done(a)
       /\ hash[Key(a)] # NoBody \/ hash[Rec(a)] # NoBody

ServerInv ==
  ServerTypes /\ Composed /\ Stored /\ KeyLocks /\ RowLocks /\ EventFresh /\ Told

LEMMA Names ==
  /\ NoBody \notin Requests /\ NoBody \notin Nat
  /\ NoBody \notin Answers
  /\ \A q \in Requests : KeyOf[q] \in Keys /\ RecOf[q] \in Records
  /\ \A k \in Keys, r \in Records : k # r
  /\ Attempts \subseteq Nat
  BY OutboxAssumption DEF Answers, Attempts

LEMMA ServerInit == Init => ServerInv
  BY Names DEF Init, ServerInv, ServerTypes, Tries, Fresh, Unsent, Composed, Stored, KeyLocks,
     RowLocks, EventFresh, Told, KeyLocked, RowLocked

\* The other attempts keep what they have.
LEMMA OneMoves ==
  ASSUME ServerInv, NEW a \in Attempts, NEW t \in Tries, tries' = [tries EXCEPT ![a] = t]
  PROVE  /\ tries' \in [Attempts -> Tries]
         /\ tries'[a] = t
         /\ \A b \in Attempts \ {a} : tries'[b] = tries[b]
  BY DEF ServerInv, ServerTypes

LEMMA ArriveInv ==
  ASSUME ServerInv, NEW a \in Attempts, NEW q \in Requests, Arrive(a, q)
  PROVE  ServerInv'
  <1> DEFINE t == [Fresh EXCEPT !.pc = "key", !.req = q]
  <1>1. t \in Tries /\ t.pc = "key" /\ t.req = q /\ t.answer = NoBody
    BY DEF Tries, Fresh
  <1>2. tries' = [tries EXCEPT ![a] = t]
    BY DEF Arrive
  <1> HIDE DEF t
  <1>3. /\ tries' \in [Attempts -> Tries]
        /\ tries'[a] = t
        /\ \A b \in Attempts \ {a} : tries'[b] = tries[b]
    BY <1>1, <1>2, OneMoves
  <1>4. UNCHANGED <<version, hash>>
    BY DEF Arrive
  <1>5. /\ wants' \in [Requests -> Nat \cup {NoBody}]
        /\ wants'[q] \in Nat /\ wants'[q] <= version[RecOf[q]]
        /\ \A p \in Requests : wants[p] # NoBody => wants'[p] = wants[p]
    <2>1. CASE wants[q] = NoBody
      BY <2>1, Names DEF Arrive, ServerInv, ServerTypes, Unsent
    <2>2. CASE wants[q] # NoBody
      <3>1. wants' = wants
        BY <2>2 DEF Arrive, Unsent
      <3>2. wants[q] \in Nat
        BY <2>2 DEF ServerInv, ServerTypes
      <3>3. wants[q] <= version[RecOf[q]]
        BY <2>2 DEF ServerInv, Composed
      <3> QED
        BY <3>1, <3>2, <3>3 DEF ServerInv, ServerTypes
    <2> QED
      BY <2>1, <2>2
  <1>6. ServerTypes'
    BY <1>3, <1>4, <1>5 DEF ServerInv, ServerTypes
  <1>7. Composed'
    <2>1. \A p \in Requests : wants'[p] # NoBody => wants'[p] <= version'[RecOf[p]]
      BY <1>4, <1>5 DEF Arrive, ServerInv, ServerTypes, Composed
    <2>2. \A b \in Attempts : tries'[b].pc # "idle" =>
            tries'[b].req \in Requests /\ wants'[tries'[b].req] # NoBody
      BY <1>1, <1>3, <1>5, Names DEF ServerInv, Composed
    <2> QED
      BY <2>1, <2>2 DEF Composed
  <1>8. KeyLocks' /\ EventFresh'
    BY <1>1, <1>3, <1>4 DEF ServerInv, KeyLocks, EventFresh, KeyLocked, Key, Rec
  <1>9. RowLocks'
    BY <1>1, <1>3, <1>4, <1>5 DEF ServerInv, Composed, RowLocks, RowLocked, Rec
  <1>10. Stored'
    BY <1>4, <1>5 DEF ServerInv, Stored
  <1>11. Told'
    <2> SUFFICES ASSUME NEW b \in Attempts, tries'[b].answer # NoBody
                 PROVE
          /\ tries'[b].pc = "end"
          /\ tries'[b].answer = "ok" => Replays(b)'
          /\ tries'[b].answer = "version_conflict" =>
               ~Done(b)' /\ version'[Rec(b)'] # wants'[tries'[b].req]
          /\ tries'[b].answer = "key_conflict" =>
               ~Done(b)' /\ (hash'[Key(b)'] # NoBody \/ hash'[Rec(b)'] # NoBody)
      BY DEF Told
    <2> DEFINE p == tries[b].req
    <2>1. b # a /\ tries'[b] = tries[b] /\ Key(b)' = Key(b) /\ Rec(b)' = Rec(b)
      BY <1>1, <1>3 DEF Key, Rec
    <2>2. p \in Requests /\ wants[p] # NoBody /\ wants'[p] = wants[p] /\ KeyOf[p] \in Keys
      BY <1>5, <2>1, Names DEF ServerInv, Composed, Told
    <2>3. hash[KeyOf[p]] # NoBody => wants'[hash[KeyOf[p]]] = wants[hash[KeyOf[p]]]
      BY <1>5, <2>2 DEF ServerInv, Stored
    <2>4. Replays(b) => Replays(b)'
      BY <1>4, <2>1, <2>2, <2>3 DEF Replays, Replayable, SamePayload
    <2>5. Done(b)' => Done(b)
      BY <1>4, <2>1, <2>2, <2>3, Names DEF Done, Committed, SamePayload
    <2> QED
      BY <1>4, <2>1, <2>2, <2>4, <2>5 DEF ServerInv, Told
  <1> QED
    BY <1>6, <1>7, <1>8, <1>9, <1>10, <1>11 DEF ServerInv

\* An attempt gets on or is answered; what the locks guard is unchanged.
LEMMA MoveInv ==
  ASSUME ServerInv, NEW a \in Attempts, tries[a].pc # "idle",
         NEW t \in Tries, tries' = [tries EXCEPT ![a] = t],
         t.req = tries[a].req, t.pc # "idle",
         UNCHANGED <<version, wants, hash>>,
         t.pc \in {"update", "enqueue", "commit"} =>
           hash[Key(a)] = NoBody /\ (KeyLocked(a) \/ KeyFree(a)),
         t.pc \in {"enqueue", "commit"} =>
           version[Rec(a)] = wants[tries[a].req] /\ (RowLocked(a) \/ RowFree(a)),
         t.pc = "commit" => hash[Rec(a)] = NoBody,
         t.answer # NoBody => t.pc = "end",
         t.answer = "ok" => Replays(a),
         t.answer = "version_conflict" =>
           ~Done(a) /\ version[Rec(a)] # wants[tries[a].req],
         t.answer = "key_conflict" =>
           ~Done(a) /\ (hash[Key(a)] # NoBody \/ hash[Rec(a)] # NoBody)
  PROVE  ServerInv'
  <1>1. /\ tries' \in [Attempts -> Tries]
        /\ tries'[a] = t
        /\ \A b \in Attempts \ {a} : tries'[b] = tries[b]
    BY OneMoves
  <1>2. ServerTypes' /\ Composed' /\ Stored'
    BY <1>1 DEF ServerInv, ServerTypes, Composed, Stored
  <1>3. \A b \in Attempts : Key(b)' = Key(b) /\ Rec(b)' = Rec(b)
    BY <1>1 DEF Key, Rec
  <1>4. KeyLocks'
    BY <1>1, <1>3 DEF ServerInv, KeyLocks, KeyLocked, KeyFree, Key
  <1>5. RowLocks'
    BY <1>1, <1>3 DEF ServerInv, RowLocks, RowLocked, RowFree, Rec
  <1>6. EventFresh'
    BY <1>1, <1>3 DEF ServerInv, EventFresh
  <1>7. Told'
    <2>1. \A b \in Attempts : tries'[b].req = tries[b].req
      BY <1>1
    <2>2. \A b \in Attempts : Replays(b)' = Replays(b) /\ Done(b)' = Done(b)
      BY <2>1 DEF Replays, Done, Replayable, Committed, SamePayload
    <2> QED
      BY <1>1, <1>3, <2>1, <2>2 DEF ServerInv, Told
  <1> QED
    BY <1>2, <1>4, <1>5, <1>6, <1>7 DEF ServerInv

LEMMA StepInv ==
  ASSUME ServerInv, NEW a \in Attempts, tries[a].pc \notin {"idle", "end"},
         NEW pc \in {"update", "enqueue", "commit"}, Step(a, pc),
         UNCHANGED <<version, wants, hash>>,
         hash[Key(a)] = NoBody, KeyLocked(a) \/ KeyFree(a),
         pc # "update" => /\ version[Rec(a)] = wants[tries[a].req]
                          /\ RowLocked(a) \/ RowFree(a),
         pc = "commit" => hash[Rec(a)] = NoBody
  PROVE  ServerInv'
  <1> DEFINE t == [tries[a] EXCEPT !.pc = pc]
  <1>1. tries[a] \in Tries /\ tries[a].answer = NoBody
    BY DEF ServerInv, ServerTypes, Told
  <1>2. t \in Tries /\ t.pc = pc /\ t.req = tries[a].req /\ t.answer = NoBody
    BY <1>1 DEF Tries
  <1>3. tries' = [tries EXCEPT ![a] = t]
    BY DEF Step
  <1> HIDE DEF t
  <1> QED
    BY <1>2, <1>3, MoveInv, Names DEF Answers

LEMMA AnswerInv ==
  ASSUME ServerInv, NEW a \in Attempts, tries[a].pc # "idle",
         NEW what \in Answers \cup {NoBody}, Answer(a, what),
         UNCHANGED <<version, wants, hash>>,
         what = "ok" => Replays(a),
         what \in {"version_conflict", "key_conflict"} => ~Done(a),
         what = "version_conflict" => version[Rec(a)] # wants[tries[a].req],
         what = "key_conflict" => hash[Key(a)] # NoBody \/ hash[Rec(a)] # NoBody
  PROVE  ServerInv'
  <1> DEFINE t == [tries[a] EXCEPT !.pc = "end", !.answer = what]
  <1>1. tries[a] \in Tries
    BY DEF ServerInv, ServerTypes
  <1>2. t \in Tries /\ t.pc = "end" /\ t.req = tries[a].req /\ t.answer = what
    BY <1>1 DEF Tries
  <1>3. tries' = [tries EXCEPT ![a] = t]
    BY DEF Answer
  <1> HIDE DEF t
  <1> QED
    BY <1>2, <1>3, MoveInv

LEMMA LookupInv ==
  ASSUME ServerInv, NEW a \in Attempts, Lookup(a)
  PROVE  ServerInv'
  <1> DEFINE q == tries[a].req
  <1>1. /\ tries[a].pc = "key" /\ KeyFree(a) /\ q \in Requests
        /\ UNCHANGED <<version, wants, hash>>
    BY DEF Lookup, ServerInv, Composed
  <1>2. CASE hash[KeyOf[q]] = NoBody
    <2>1. Step(a, "update")
      BY <1>2, <1>1, Names DEF Lookup
    <2> QED
      BY <1>1, <1>2, <2>1, StepInv DEF Key
  <1>3. CASE Replays(a)
    <2>1. Answer(a, "ok")
      BY <1>3, <1>1 DEF Lookup, Replays, Replayable
    <2> QED
      BY <1>1, <1>3, <2>1, AnswerInv DEF Answers
  <1>4. CASE hash[KeyOf[q]] # NoBody /\ ~SamePayload(hash[KeyOf[q]], q)
    <2>1. Answer(a, "key_conflict")
      BY <1>4, <1>1 DEF Lookup
    <2>2. ~Done(a)
      BY <1>4 DEF Done, Committed
    <2> QED
      BY <1>1, <1>4, <2>1, <2>2, AnswerInv DEF Key, Answers
  <1> QED
    BY <1>2, <1>3, <1>4 DEF Replays, Replayable

LEMMA UpdateInv ==
  ASSUME ServerInv, NEW a \in Attempts, Update(a)
  PROVE  ServerInv'
  <1> DEFINE q == tries[a].req
  <1>1. /\ tries[a].pc = "update" /\ RowFree(a) /\ q \in Requests
        /\ UNCHANGED <<version, wants, hash>> /\ KeyLocked(a) /\ hash[Key(a)] = NoBody
    BY DEF Update, ServerInv, Composed, KeyLocks, KeyLocked
  <1>2. CASE version[RecOf[q]] = wants[q]
    BY <1>1, <1>2, StepInv DEF Update, Rec
  <1>3. CASE version[RecOf[q]] # wants[q]
    <2>1. Answer(a, "version_conflict")
      BY <1>3 DEF Update
    <2> QED
      BY <1>1, <1>3, <2>1, AnswerInv, Names DEF Done, Committed, Key, Rec, Answers
  <1> QED
    BY <1>2, <1>3

LEMMA EnqueueInv ==
  ASSUME ServerInv, NEW a \in Attempts, Enqueue(a)
  PROVE  ServerInv'
  <1>1. /\ tries[a].pc = "enqueue" /\ RowLocked(a) /\ tries[a].req \in Requests
        /\ UNCHANGED <<version, wants, hash>> /\ KeyLocked(a) /\ hash[Key(a)] = NoBody
        /\ version[Rec(a)] = wants[tries[a].req]
    BY DEF Enqueue, ServerInv, Composed, KeyLocks, KeyLocked, RowLocks, RowLocked
  <1>2. CASE hash[Rec(a)] = NoBody
    BY <1>1, <1>2, StepInv DEF Enqueue, Rec
  <1>3. CASE hash[Rec(a)] # NoBody
    <2>1. Answer(a, "key_conflict")
      BY <1>3 DEF Enqueue, Rec
    <2> QED
      BY <1>1, <1>3, <2>1, AnswerInv, Names DEF Done, Committed, Key, Answers
  <1> QED
    BY <1>2, <1>3

LEMMA AbortTryInv ==
  ASSUME ServerInv, NEW a \in Attempts, AbortTry(a)
  PROVE  ServerInv'
  BY AnswerInv, Names DEF AbortTry, Answers

LEMMA CommitInv ==
  ASSUME ServerInv, NEW a \in Attempts, Commit(a)
  PROVE  ServerInv'
  <1> DEFINE q == tries[a].req
             r == RecOf[q]
             k == KeyOf[q]
  <1>1. /\ tries[a].pc = "commit" /\ q \in Requests /\ r \in Records /\ k \in Keys
        /\ hash[k] = NoBody /\ hash[r] = NoBody /\ version[r] = wants[q]
        /\ version[r] \in Nat /\ wants' = wants
    BY Names DEF Commit, ServerInv, ServerTypes, Composed, RowLocks, RowLocked, EventFresh, Rec
  <1>2. PICK t \in Tries : /\ t.pc = "end" /\ t.req = q /\ t.answer \in {"ok", NoBody}
                          /\ tries' = [tries EXCEPT ![a] = t]
    <2>1. tries[a] \in Tries
      BY DEF ServerInv, ServerTypes
    <2>2. PICK what \in {"ok", NoBody} : Answer(a, what)
      BY DEF Commit
    <2> DEFINE t == [tries[a] EXCEPT !.pc = "end", !.answer = what]
    <2>3. t \in Tries /\ t.pc = "end" /\ t.req = q /\ t.answer = what
      BY <2>1 DEF Tries, Answers
    <2>4. tries' = [tries EXCEPT ![a] = t]
      BY <2>2 DEF Answer
    <2> HIDE DEF t
    <2> QED
      BY <2>3, <2>4
  <1>3. /\ tries' \in [Attempts -> Tries]
        /\ tries'[a] = t
        /\ \A b \in Attempts \ {a} : tries'[b] = tries[b]
    BY <1>2, OneMoves
  <1>4. /\ version' \in [Records -> Nat]
        /\ version'[r] = version[r] + 1
        /\ \A s \in Records \ {r} : version'[s] = version[s]
    BY <1>1 DEF Commit, ServerInv, ServerTypes
  <1>5. /\ hash' \in [Keys \cup Records -> Requests \cup Nat \cup {NoBody}]
        /\ hash'[k] = q /\ hash'[r] # NoBody
        /\ \A x \in (Keys \cup Records) \ {k, r} : hash'[x] = hash[x]
    BY <1>1, Names DEF Commit, ServerInv, ServerTypes
  <1>6. \A b \in Attempts : tries[b].pc # "idle" => tries[b].req \in Requests
    BY DEF ServerInv, Composed
  <1>7. \A b \in Attempts \ {a} : KeyLocked(b) => Key(b) # k
    BY <1>1 DEF ServerInv, KeyLocks, KeyLocked, Key
  <1>8. \A b \in Attempts \ {a} : RowLocked(b) => Rec(b) # r
    BY <1>1 DEF ServerInv, RowLocks, RowLocked, Rec
  <1>9. ServerTypes' /\ Stored'
    <2>1. wants[q] # NoBody
      BY <1>1 DEF ServerInv, Composed
    <2> QED
      BY <1>1, <1>3, <1>4, <1>5, <2>1, Names DEF ServerInv, ServerTypes, Stored
  <1>10. Composed'
    <2>1. \A p \in Requests : wants[p] # NoBody => wants[p] <= version'[RecOf[p]]
      <3> SUFFICES ASSUME NEW p \in Requests, wants[p] # NoBody
                   PROVE  wants[p] <= version'[RecOf[p]]
        OBVIOUS
      <3>1. wants[p] \in Nat /\ wants[p] <= version[RecOf[p]] /\ RecOf[p] \in Records
        BY Names DEF ServerInv, ServerTypes, Composed
      <3> QED
        BY <1>1, <1>4, <3>1 DEF ServerInv, ServerTypes
    <2> QED
      BY <1>1, <1>2, <1>3, <2>1 DEF ServerInv, Composed
  <1>11. KeyLocks'
    <2> SUFFICES ASSUME NEW b \in Attempts, KeyLocked(b)' PROVE
          /\ hash'[Key(b)'] = NoBody
          /\ \A c \in Attempts \ {b} : KeyLocked(c)' => Key(c)' # Key(b)'
      BY DEF KeyLocks
    <2>1. b # a /\ KeyLocked(b) /\ Key(b)' = Key(b) /\ Key(b) \in Keys
      BY <1>2, <1>3, <1>6, Names DEF KeyLocked, Key
    <2>2. hash'[Key(b)] = NoBody
      BY <1>1, <1>5, <1>7, <2>1, Names DEF ServerInv, KeyLocks
    <2>3. \A c \in Attempts \ {b} : KeyLocked(c)' => KeyLocked(c) /\ Key(c)' = Key(c)
      BY <1>2, <1>3 DEF KeyLocked, Key
    <2> QED
      BY <2>1, <2>2, <2>3 DEF ServerInv, KeyLocks
  <1>12. RowLocks'
    <2> SUFFICES ASSUME NEW b \in Attempts, RowLocked(b)' PROVE
          /\ version'[Rec(b)'] = wants'[tries'[b].req]
          /\ \A c \in Attempts \ {b} : RowLocked(c)' => Rec(c)' # Rec(b)'
      BY DEF RowLocks
    <2>1. b # a /\ RowLocked(b) /\ Rec(b)' = Rec(b) /\ Rec(b) \in Records /\ tries'[b] = tries[b]
      BY <1>2, <1>3, <1>6, Names DEF RowLocked, Rec
    <2>2. version'[Rec(b)] = wants[tries[b].req]
      BY <1>4, <1>8, <2>1 DEF ServerInv, RowLocks
    <2>3. \A c \in Attempts \ {b} : RowLocked(c)' => RowLocked(c) /\ Rec(c)' = Rec(c)
      BY <1>2, <1>3 DEF RowLocked, Rec
    <2> QED
      BY <1>1, <2>1, <2>2, <2>3 DEF ServerInv, RowLocks
  <1>13. EventFresh'
    <2> SUFFICES ASSUME NEW b \in Attempts, tries'[b].pc = "commit" PROVE hash'[Rec(b)'] = NoBody
      BY DEF EventFresh
    <2>1. b # a /\ tries[b].pc = "commit" /\ Rec(b)' = Rec(b) /\ Rec(b) \in Records /\ RowLocked(b)
      BY <1>2, <1>3, <1>6, Names DEF Rec, RowLocked
    <2>2. hash'[Rec(b)] = hash[Rec(b)]
      BY <1>1, <1>5, <1>8, <2>1, Names
    <2> QED
      BY <2>1, <2>2 DEF ServerInv, EventFresh
  <1>14. Told'
    <2> SUFFICES ASSUME NEW b \in Attempts, tries'[b].answer # NoBody
                 PROVE
          /\ tries'[b].pc = "end"
          /\ tries'[b].answer = "ok" => Replays(b)'
          /\ tries'[b].answer = "version_conflict" =>
               ~Done(b)' /\ version'[Rec(b)'] # wants'[tries'[b].req]
          /\ tries'[b].answer = "key_conflict" =>
               ~Done(b)' /\ (hash'[Key(b)'] # NoBody \/ hash'[Rec(b)'] # NoBody)
      BY DEF Told
    <2>1. CASE b = a
      <3>1. Replays(a)'
        BY <1>1, <1>2, <1>3, <1>5, Names DEF Replays, Replayable, SamePayload
      <3> QED
        BY <2>1, <3>1, <1>2, <1>3, Names DEF Answers
    <2>2. CASE b # a
      <3> DEFINE p == tries[b].req
      <3>1. tries'[b] = tries[b] /\ Key(b)' = Key(b) /\ Rec(b)' = Rec(b)
        BY <1>3, <2>2 DEF Key, Rec
      <3>2. /\ tries[b].pc = "end" /\ p \in Requests /\ Key(b) \in Keys /\ Rec(b) \in Records
            /\ wants[p] \in Nat /\ wants[p] <= version[Rec(b)]
        BY <3>1, <1>6, Names DEF ServerInv, ServerTypes, Composed, Told, Key, Rec
      <3>3. \A x \in Keys \cup Records : hash[x] # NoBody => hash'[x] = hash[x]
        BY <1>1, <1>5
      <3>4. Replays(b) => Replays(b)'
        BY <1>1, <3>1, <3>2, <3>3 DEF Replays, Replayable, SamePayload, Key
      <3>5. ASSUME Done(b)', ~Done(b)
            PROVE  KeyOf[p] = k /\ RecOf[p] = r /\ wants[p] = wants[q]
        <4>1. PICK x \in Requests : /\ hash'[KeyOf[p]] = x /\ RecOf[x] = RecOf[p]
                                  /\ BodyOf[x] = BodyOf[p] /\ wants[x] = wants[p]
          BY <1>1, <3>1, <3>5 DEF Done, Committed, SamePayload
        <4>2. hash'[KeyOf[p]] # hash[KeyOf[p]]
          BY <3>5, <4>1 DEF Done, Committed, SamePayload
        <4>3. KeyOf[p] = k
          BY <1>1, <1>5, <3>2, <4>2, Names DEF Key
        <4> QED
          BY <1>5, <4>1, <4>3
      <3>6. tries[b].answer = "version_conflict" => ~Done(b)'
        BY <1>1, <3>1, <3>5 DEF ServerInv, Told, Rec
      <3>7. tries[b].answer = "key_conflict" => ~Done(b)'
        BY <1>1, <3>1, <3>5 DEF ServerInv, Told, Key, Rec
      <3>8. version[Rec(b)] # wants[p] => version'[Rec(b)] # wants[p]
        BY <1>4, <3>2 DEF ServerInv, ServerTypes
      <3>9. hash[Key(b)] # NoBody \/ hash[Rec(b)] # NoBody
              => hash'[Key(b)] # NoBody \/ hash'[Rec(b)] # NoBody
        BY <3>2, <3>3
      <3> QED
        BY <1>1, <3>1, <3>2, <3>4, <3>6, <3>7, <3>8, <3>9 DEF ServerInv, Told
    <2> QED
      BY <2>1, <2>2
  <1> QED
    BY <1>9, <1>10, <1>11, <1>12, <1>13, <1>14 DEF ServerInv

\* The workers change nothing that the server looks at.
LEMMA ServerSame ==
  ASSUME ServerInv, UNCHANGED <<version, wants, hash, tries>>
  PROVE  ServerInv'
  BY DEF ServerInv, ServerTypes, Composed, Stored, KeyLocks, RowLocks, EventFresh, Told,
     KeyLocked, RowLocked, Key, Rec, Replays, Done, Replayable, Committed, SamePayload

LEMMA ServerNext == ServerInv /\ [Next]_vars => ServerInv'
  <1> SUFFICES ASSUME ServerInv, [Next]_vars PROVE ServerInv'
    OBVIOUS
  <1>1. ASSUME NEW a \in Attempts, Serve(a) PROVE ServerInv'
    BY <1>1, ArriveInv, LookupInv, UpdateInv, EnqueueInv, CommitInv, AbortTryInv DEF Serve
  <1>2. ASSUME NEW w \in Workers, Fetch(w) \/ Work(w) \/ AbortBatch(w) PROVE ServerInv'
    BY <1>2, ServerSame DEF Fetch, Work, HandleOk, HandleError, CommitBatch, AbortBatch
  <1>3. CASE UNCHANGED vars
    BY <1>3, ServerSame DEF vars
  <1> QED
    BY <1>1, <1>2, <1>3 DEF Next

\* What the answers say for any requests, keys and bodies, retries, overlaps and
\* faults: who is told "ok" has sent the key and the body of a committed request,
\* and who is refused sent a request that has not been done.
THEOREM OutboxAnswersMean ==
  Spec => [](\A a \in Attempts :
    /\ tries[a].answer = "ok" => Replayable(tries[a].req)
    /\ tries[a].answer \in {"version_conflict", "key_conflict"} => ~Committed(tries[a].req))
  <1>1. ServerInv => \A a \in Attempts :
          /\ tries[a].answer = "ok" => Replayable(tries[a].req)
          /\ tries[a].answer \in {"version_conflict", "key_conflict"} => ~Committed(tries[a].req)
    BY Names DEF ServerInv, Told, Replays, Done, Answers
  <1> QED
    BY <1>1, ServerInit, ServerNext, PTL DEF Spec

\* The answers to all attempts at one request agree with each other and with
\* the database (AnswersAgree), for any retries, overlaps and faults, when no
\* key is used with one body for two records; the code does not see to that.
THEOREM OutboxAnswersAgree ==
  ASSUME KeysTellRecords
  PROVE  Spec => []AnswersAgree
  <1>1. ServerInv => AnswersAgree
    <2> SUFFICES ASSUME ServerInv, NEW a \in Attempts PROVE
          LET q == tries[a].req IN
          /\ tries[a].answer = "ok" => Committed(q)
          /\ tries[a].answer \in {"version_conflict", "key_conflict"} => ~Committed(q)
      BY DEF AnswersAgree, OkMeansDone
    <2> DEFINE q == tries[a].req
    <2>1. tries[a].answer \in {"version_conflict", "key_conflict"} => ~Committed(q)
      BY Names DEF ServerInv, Told, Replays, Done, Answers
    <2>2. ASSUME tries[a].answer = "ok" PROVE Committed(q)
      <3>1. Replayable(q) /\ q \in Requests /\ KeyOf[q] \in Keys
        BY <2>2, Names DEF ServerInv, Told, Replays, Composed, Answers
      <3>2. hash[KeyOf[q]] \in Requests /\ KeyOf[hash[KeyOf[q]]] = KeyOf[q]
        BY <3>1 DEF ServerInv, Stored, Replayable
      <3>3. RecOf[hash[KeyOf[q]]] = RecOf[q]
        BY <3>1, <3>2 DEF KeysTellRecords, Replayable, SamePayload
      <3> QED
        BY <3>1, <3>2, <3>3 DEF Committed, Replayable
    <2> QED
      BY <2>1, <2>2
  <1> QED
    BY <1>1, ServerInit, ServerNext, PTL DEF Spec

-------------------------------------------------------------------------------
\* The workers.

Events == [rec : Records, status : {"pending", "done", "failed"},
           attempts : Nat, sent : Nat, effects : Nat]

WorkerTypes ==
  /\ outbox \in Seq(Events)
  /\ job \in [Workers -> [todo : SUBSET Nat, ok : SUBSET Nat, failed : SUBSET Nat]]
  /\ faults \in Nat

\* A job has locked the events of its batch: they stay pending, and no other
\* job has one of them.
BatchLocks == \A w \in Workers :
  /\ \A i \in Held(w) : i \in DOMAIN outbox /\ outbox[i].status = "pending"
  /\ job[w].todo \cap Handled(w) = {}
  /\ \A v \in Workers \ {w} : Held(v) \cap Held(w) = {}

InDoubt(i) == \E w \in Workers : i \in Handled(w)

\* SendsAccounted, where only an event that has been handled may be in doubt.
SendsExplained == \A i \in DOMAIN outbox :
  outbox[i].sent <= outbox[i].attempts + outbox[i].effects + faults + (IF InDoubt(i) THEN 1 ELSE 0)

WorkerInv == WorkerTypes /\ BatchLocks /\ EffectOnce /\ SendsExplained

LEMMA WorkerInit == Init => WorkerInv
  <1> SUFFICES ASSUME Init PROVE WorkerInv
    OBVIOUS
  <1>1. outbox = <<>> /\ faults = 0 /\ job = [w \in Workers |-> NoJob]
    BY DEF Init
  <1>2. outbox \in Seq(Events) /\ DOMAIN outbox = {}
    BY <1>1
  <1> QED
    BY <1>1, <1>2 DEF WorkerInv, WorkerTypes, BatchLocks, EffectOnce, SendsExplained, NoJob,
       Held, Handled

\* The server appends events that nobody has handled; a fault makes room.
LEMMA ServerKeeps ==
  ASSUME WorkerInv, UNCHANGED job, faults' \in Nat, faults' >= faults,
         \/ UNCHANGED outbox
         \/ \E r \in Records : outbox' = Append(outbox, Event(r))
  PROVE  WorkerInv'
  <1> DEFINE
    grown == /\ outbox' \in Seq(Events) /\ DOMAIN outbox \subseteq DOMAIN outbox'
             /\ \A i \in DOMAIN outbox : outbox'[i] = outbox[i]
             /\ \A i \in DOMAIN outbox' \ DOMAIN outbox : outbox'[i].status = "pending"
                  /\ outbox'[i].sent = 0 /\ outbox'[i].effects = 0 /\ outbox'[i].attempts = 0
  <1>1. grown
    <2>1. CASE UNCHANGED outbox
      BY <2>1 DEF WorkerInv, WorkerTypes
    <2>2. ASSUME NEW r \in Records, outbox' = Append(outbox, Event(r)) PROVE grown
      <3>1. /\ Event(r) \in Events /\ Event(r).status = "pending" /\ Event(r).sent = 0
            /\ Event(r).effects = 0 /\ Event(r).attempts = 0
        BY DEF Event, Events
      <3> QED
        BY <2>2, <3>1 DEF WorkerInv, WorkerTypes
    <2> QED
      BY <2>1, <2>2
  <1>2. \A w \in Workers : Held(w)' = Held(w) /\ Handled(w)' = Handled(w)
    BY DEF Held, Handled
  <1>3. WorkerTypes' /\ BatchLocks' /\ EffectOnce'
    BY <1>1, <1>2 DEF WorkerInv, WorkerTypes, BatchLocks, EffectOnce
  <1>4. SendsExplained'
    <2> SUFFICES ASSUME NEW i \in DOMAIN outbox'
                 PROVE  outbox'[i].sent <= outbox'[i].attempts + outbox'[i].effects + faults'
                          + (IF InDoubt(i) THEN 1 ELSE 0)
      BY <1>2 DEF SendsExplained, InDoubt
    <2>1. CASE i \in DOMAIN outbox
      <3> DEFINE d == IF InDoubt(i) THEN 1 ELSE 0
      <3>1. /\ outbox[i].sent \in Nat /\ outbox[i].attempts \in Nat /\ outbox[i].effects \in Nat
            /\ faults \in Nat /\ d \in Nat
        <4>1. outbox[i] \in Events
          BY <2>1 DEF WorkerInv, WorkerTypes
        <4> QED
          BY <4>1 DEF WorkerInv, WorkerTypes, Events
      <3>2. outbox[i].sent <= outbox[i].attempts + outbox[i].effects + faults + d
        BY <2>1 DEF WorkerInv, SendsExplained
      <3>3. outbox'[i] = outbox[i]
        BY <1>1, <2>1
      <3> HIDE DEF d, grown
      <3>4. outbox'[i].sent <= outbox'[i].attempts + outbox'[i].effects + faults' + d
        BY <3>1, <3>2, <3>3
      <3> QED
        BY <3>4 DEF d
    <2>2. CASE i \notin DOMAIN outbox
      BY <1>1, <2>2
    <2> QED
      BY <2>1, <2>2
  <1> QED
    BY <1>3, <1>4 DEF WorkerInv

\* The transactions of the other jobs go on as before.
LEMMA OneJob ==
  ASSUME WorkerInv, NEW w \in Workers,
         NEW j \in [todo : SUBSET Nat, ok : SUBSET Nat, failed : SUBSET Nat],
         job' = [job EXCEPT ![w] = j]
  PROVE  /\ job' \in [Workers -> [todo : SUBSET Nat, ok : SUBSET Nat, failed : SUBSET Nat]]
         /\ job'[w] = j
         /\ \A v \in Workers \ {w} : Held(v)' = Held(v) /\ Handled(v)' = Handled(v)
                                     /\ job'[v] = job[v]
  BY DEF WorkerInv, WorkerTypes, Held, Handled

LEMMA FetchInv ==
  ASSUME WorkerInv, NEW w \in Workers, Fetch(w)
  PROVE  WorkerInv'
  <1>1. PICK batch \in SUBSET Pending(w) : job' = [job EXCEPT ![w].todo = batch]
    BY DEF Fetch
  <1> DEFINE j == [job[w] EXCEPT !.todo = batch]
  <1>2. job[w] = NoJob /\ UNCHANGED <<outbox, faults>>
    BY DEF Fetch
  <1>3. \A i \in batch : /\ i \in DOMAIN outbox /\ i \in Nat /\ outbox[i].status = "pending"
                         /\ \A v \in Workers \ {w} : i \notin Held(v)
    BY DEF Pending, WorkerInv, WorkerTypes
  <1>4. /\ j \in [todo : SUBSET Nat, ok : SUBSET Nat, failed : SUBSET Nat]
        /\ j.todo = batch /\ j.ok = {} /\ j.failed = {} /\ job' = [job EXCEPT ![w] = j]
    BY <1>1, <1>2, <1>3 DEF NoJob
  <1> HIDE DEF j
  <1>5. /\ job' \in [Workers -> [todo : SUBSET Nat, ok : SUBSET Nat, failed : SUBSET Nat]]
        /\ Held(w)' = batch /\ Handled(w)' = {} /\ job'[w].todo = batch
        /\ \A v \in Workers \ {w} : Held(v)' = Held(v) /\ Handled(v)' = Handled(v)
                                    /\ job'[v] = job[v]
    BY <1>4, OneJob DEF Held, Handled
  <1>6. Handled(w) = {}
    BY <1>2 DEF Handled, NoJob
  <1>7. WorkerTypes' /\ EffectOnce'
    BY <1>2, <1>5 DEF WorkerInv, WorkerTypes, EffectOnce
  <1>8. BatchLocks'
    BY <1>2, <1>3, <1>5 DEF WorkerInv, BatchLocks
  <1>9. \A i : InDoubt(i)' <=> InDoubt(i)
    BY <1>5, <1>6 DEF InDoubt
  <1>10. SendsExplained'
    BY <1>2, <1>9 DEF WorkerInv, SendsExplained
  <1> QED
    BY <1>7, <1>8, <1>10 DEF WorkerInv

\* A handler has run: its event is in doubt, and may have been sent.
LEMMA HandledInv ==
  ASSUME WorkerInv, NEW w \in Workers, NEW i \in job[w].todo, i \in DOMAIN outbox,
         NEW n \in {0, 1}, Sent(i, n), UNCHANGED faults,
         NEW j \in [todo : SUBSET Nat, ok : SUBSET Nat, failed : SUBSET Nat],
         job' = [job EXCEPT ![w] = j],
         j.todo = job[w].todo \ {i}, j.ok \cup j.failed = Handled(w) \cup {i}
  PROVE  WorkerInv'
  <1>1. /\ job' \in [Workers -> [todo : SUBSET Nat, ok : SUBSET Nat, failed : SUBSET Nat]]
        /\ Held(w)' = Held(w) /\ Handled(w)' = Handled(w) \cup {i}
        /\ job'[w].todo = job[w].todo \ {i}
        /\ \A v \in Workers \ {w} : Held(v)' = Held(v) /\ Handled(v)' = Handled(v)
                                    /\ job'[v] = job[v]
    <2>1. /\ job' \in [Workers -> [todo : SUBSET Nat, ok : SUBSET Nat, failed : SUBSET Nat]]
          /\ job'[w] = j
          /\ \A v \in Workers \ {w} : Held(v)' = Held(v) /\ Handled(v)' = Handled(v)
                                      /\ job'[v] = job[v]
      BY OneJob
    <2>2. Handled(w)' = Handled(w) \cup {i} /\ job'[w].todo = job[w].todo \ {i}
      BY <2>1 DEF Handled
    <2>3. Held(w)' = Held(w)
      BY <2>2 DEF Held
    <2> QED
      BY <2>1, <2>2, <2>3
  <1>2. \A k \in DOMAIN outbox : outbox[k] \in Events
    BY DEF WorkerInv, WorkerTypes
  <1>3. /\ outbox' \in Seq(Events) /\ DOMAIN outbox' = DOMAIN outbox
        /\ \A k \in DOMAIN outbox :
             /\ outbox'[k].status = outbox[k].status /\ outbox'[k].effects = outbox[k].effects
             /\ outbox'[k].attempts = outbox[k].attempts
             /\ outbox'[k].sent = IF k = i THEN outbox[k].sent + n ELSE outbox[k].sent
    <2> DEFINE e == [outbox[i] EXCEPT !.sent = @ + n]
    <2>1. /\ e \in Events /\ e.status = outbox[i].status /\ e.effects = outbox[i].effects
          /\ e.attempts = outbox[i].attempts /\ e.sent = outbox[i].sent + n
      BY <1>2 DEF Events
    <2>2. outbox' = [outbox EXCEPT ![i] = e]
      BY DEF Sent
    <2> HIDE DEF e
    <2> QED
      BY <2>1, <2>2 DEF WorkerInv, WorkerTypes
  <1>4. WorkerTypes' /\ EffectOnce'
    BY <1>1, <1>3 DEF WorkerInv, WorkerTypes, EffectOnce
  <1>5. BatchLocks'
    BY <1>1, <1>3 DEF WorkerInv, BatchLocks
  <1>6. ~InDoubt(i) /\ InDoubt(i)' /\ \A k : k # i => (InDoubt(k)' <=> InDoubt(k))
    BY <1>1 DEF WorkerInv, BatchLocks, InDoubt, Held
  <1>7. SendsExplained'
    <2> SUFFICES ASSUME NEW k \in DOMAIN outbox
                 PROVE  outbox'[k].sent <= outbox'[k].attempts + outbox'[k].effects + faults
                          + (IF InDoubt(k)' THEN 1 ELSE 0)
      BY <1>3 DEF SendsExplained
    <2>1. /\ outbox[k].sent \in Nat /\ outbox[k].attempts \in Nat /\ outbox[k].effects \in Nat
          /\ faults \in Nat
      BY <1>2 DEF Events, WorkerInv, WorkerTypes
    <2>2. outbox[k].sent <= outbox[k].attempts + outbox[k].effects + faults
                              + (IF InDoubt(k) THEN 1 ELSE 0)
      BY DEF WorkerInv, SendsExplained
    <2>3. CASE k = i
      BY <1>3, <1>6, <2>1, <2>2, <2>3
    <2>4. CASE k # i
      BY <1>3, <1>6, <2>1, <2>2, <2>4
    <2> QED
      BY <2>3, <2>4
  <1> QED
    BY <1>4, <1>5, <1>7 DEF WorkerInv

LEMMA HandleInv ==
  ASSUME WorkerInv, NEW w \in Workers, HandleOk(w) \/ HandleError(w)
  PROVE  WorkerInv'
  <1>1. job[w] \in [todo : SUBSET Nat, ok : SUBSET Nat, failed : SUBSET Nat]
    BY DEF WorkerInv, WorkerTypes
  <1>2. DOMAIN outbox \subseteq Nat
    BY DEF WorkerInv, WorkerTypes
  <1>3. CASE HandleOk(w)
    <2>1. PICK i \in DOMAIN outbox : /\ Turn(w, i) /\ Sent(i, 1) /\ UNCHANGED faults
            /\ job' = [job EXCEPT ![w].todo = @ \ {i}, ![w].ok = @ \cup {i}]
      BY <1>3 DEF HandleOk
    <2> DEFINE j == [job[w] EXCEPT !.todo = @ \ {i}, !.ok = @ \cup {i}]
    <2>2. /\ j \in [todo : SUBSET Nat, ok : SUBSET Nat, failed : SUBSET Nat]
          /\ j.todo = job[w].todo \ {i} /\ j.ok \cup j.failed = Handled(w) \cup {i}
      BY <1>1, <1>2 DEF Handled
    <2>3. job' = [job EXCEPT ![w] = j]
      BY <1>1, <2>1 DEF WorkerInv, WorkerTypes
    <2> HIDE DEF j
    <2> QED
      BY <2>1, <2>2, <2>3, HandledInv DEF Turn
  <1>4. CASE HandleError(w)
    <2>1. PICK i \in DOMAIN outbox, n \in {0, 1} : /\ Turn(w, i) /\ Sent(i, n) /\ UNCHANGED faults
            /\ job' = [job EXCEPT ![w].todo = @ \ {i}, ![w].failed = @ \cup {i}]
      BY <1>4 DEF HandleError
    <2> DEFINE j == [job[w] EXCEPT !.todo = @ \ {i}, !.failed = @ \cup {i}]
    <2>2. /\ j \in [todo : SUBSET Nat, ok : SUBSET Nat, failed : SUBSET Nat]
          /\ j.todo = job[w].todo \ {i} /\ j.ok \cup j.failed = Handled(w) \cup {i}
      BY <1>1, <1>2 DEF Handled
    <2>3. job' = [job EXCEPT ![w] = j]
      BY <1>1, <2>1 DEF WorkerInv, WorkerTypes
    <2> HIDE DEF j
    <2> QED
      BY <2>1, <2>2, <2>3, HandledInv DEF Turn
  <1> QED
    BY <1>3, <1>4

\* A job has ended: its locks are gone.
LEMMA JobEnds ==
  ASSUME WorkerInv, NEW w \in Workers, job' = [job EXCEPT ![w] = NoJob]
  PROVE  /\ job' \in [Workers -> [todo : SUBSET Nat, ok : SUBSET Nat, failed : SUBSET Nat]]
         /\ Held(w)' = {} /\ Handled(w)' = {} /\ job'[w].todo = {}
         /\ \A v \in Workers \ {w} : Held(v)' = Held(v) /\ Handled(v)' = Handled(v)
                                     /\ job'[v] = job[v]
         /\ \A i : InDoubt(i)' <=> InDoubt(i) /\ i \notin Handled(w)
  <1>1. NoJob \in [todo : SUBSET Nat, ok : SUBSET Nat, failed : SUBSET Nat]
    BY DEF NoJob
  <1>2. /\ job' \in [Workers -> [todo : SUBSET Nat, ok : SUBSET Nat, failed : SUBSET Nat]]
        /\ job'[w] = NoJob
        /\ \A v \in Workers \ {w} : Held(v)' = Held(v) /\ Handled(v)' = Handled(v)
                                    /\ job'[v] = job[v]
    BY <1>1, OneJob
  <1>3. Held(w)' = {} /\ Handled(w)' = {} /\ job'[w].todo = {}
    BY <1>2 DEF Held, Handled, NoJob
  <1>4. \A v \in Workers \ {w} : Handled(v) \cap Handled(w) = {}
    BY DEF WorkerInv, BatchLocks, Held
  <1>5. \A i : InDoubt(i)' <=> InDoubt(i) /\ i \notin Handled(w)
    BY <1>2, <1>3, <1>4 DEF InDoubt
  <1> QED
    BY <1>2, <1>3, <1>5

LEMMA AbortBatchInv ==
  ASSUME WorkerInv, NEW w \in Workers, AbortBatch(w)
  PROVE  WorkerInv'
  <1>1. /\ job' = [job EXCEPT ![w] = NoJob] /\ UNCHANGED outbox
        /\ faults \in Nat /\ faults' = faults + 1
    BY DEF AbortBatch, Fault, WorkerInv, WorkerTypes
  <1>2. /\ job' \in [Workers -> [todo : SUBSET Nat, ok : SUBSET Nat, failed : SUBSET Nat]]
        /\ Held(w)' = {} /\ Handled(w)' = {} /\ job'[w].todo = {}
        /\ \A v \in Workers \ {w} : Held(v)' = Held(v) /\ Handled(v)' = Handled(v)
                                    /\ job'[v] = job[v]
    BY <1>1, JobEnds
  <1>3. WorkerTypes' /\ EffectOnce' /\ BatchLocks'
    BY <1>1, <1>2 DEF WorkerInv, WorkerTypes, EffectOnce, BatchLocks
  <1>4. SendsExplained'
    <2> SUFFICES ASSUME NEW i \in DOMAIN outbox
                 PROVE  outbox[i].sent <= outbox[i].attempts + outbox[i].effects + faults'
                          + (IF InDoubt(i)' THEN 1 ELSE 0)
      BY <1>1 DEF SendsExplained
    <2>1. outbox[i] \in Events
      BY DEF WorkerInv, WorkerTypes
    <2>2. /\ outbox[i].sent \in Nat /\ outbox[i].attempts \in Nat /\ outbox[i].effects \in Nat
      BY <2>1 DEF Events
    <2>3. outbox[i].sent <= outbox[i].attempts + outbox[i].effects + faults
                              + (IF InDoubt(i) THEN 1 ELSE 0)
      BY DEF WorkerInv, SendsExplained
    <2> QED
      BY <1>1, <2>2, <2>3, JobEnds
  <1> QED
    BY <1>3, <1>4 DEF WorkerInv

LEMMA MarkDone ==
  ASSUME NEW e \in Events, NEW m, m = [e EXCEPT !.status = "done", !.effects = @ + 1]
  PROVE  /\ m \in Events /\ m.sent = e.sent /\ m.attempts = e.attempts
         /\ m.effects = e.effects + 1 /\ m.status = "done"
  <1>1. m = [rec |-> e.rec, status |-> "done", attempts |-> e.attempts, sent |-> e.sent,
             effects |-> e.effects + 1]
    BY DEF Events
  <1> QED
    BY <1>1 DEF Events

LEMMA MarkFailed ==
  ASSUME NEW e \in Events, NEW m, NEW st \in {"pending", "failed"},
         m = [e EXCEPT !.attempts = @ + 1, !.status = st]
  PROVE  /\ m \in Events /\ m.sent = e.sent /\ m.attempts = e.attempts + 1
         /\ m.effects = e.effects /\ m.status = st
  <1>1. m = [rec |-> e.rec, status |-> st, attempts |-> e.attempts + 1, sent |-> e.sent,
             effects |-> e.effects]
    BY DEF Events
  <1> QED
    BY <1>1 DEF Events

LEMMA CommitBatchInv ==
  ASSUME WorkerInv, NEW w \in Workers, CommitBatch(w)
  PROVE  WorkerInv'
  <1>1. /\ job' = [job EXCEPT ![w] = NoJob] /\ UNCHANGED faults /\ faults \in Nat
        /\ Held(w) = Handled(w)
        /\ outbox' = [i \in DOMAIN outbox |->
             IF i \in Handled(w) THEN Marked(outbox[i], i \in job[w].ok) ELSE outbox[i]]
    BY DEF CommitBatch, WorkerInv, WorkerTypes, Held
  <1>2. \A i \in DOMAIN outbox : outbox[i] \in Events
    BY DEF WorkerInv, WorkerTypes
  <1>3. \A i \in DOMAIN outbox \ Handled(w) : outbox'[i] = outbox[i]
    BY <1>1
  <1>4. ASSUME NEW i \in DOMAIN outbox, i \in Handled(w)
        PROVE  /\ outbox'[i] \in Events /\ outbox'[i].sent = outbox[i].sent
               /\ outbox'[i].attempts + outbox'[i].effects
                    = outbox[i].attempts + outbox[i].effects + 1
               /\ outbox'[i].effects = IF outbox'[i].status = "done" THEN outbox[i].effects + 1
                                                                     ELSE outbox[i].effects
    <2>1. CASE i \in job[w].ok
      <3>1. outbox'[i] = [outbox[i] EXCEPT !.status = "done", !.effects = @ + 1]
        BY <1>1, <1>4, <2>1 DEF Marked
      <3>2. outbox[i] \in Events
        BY <1>2
      <3>3. outbox[i].attempts \in Nat /\ outbox[i].effects \in Nat
        BY <3>2 DEF Events
      <3>4. /\ outbox'[i] \in Events /\ outbox'[i].sent = outbox[i].sent
            /\ outbox'[i].attempts = outbox[i].attempts
            /\ outbox'[i].effects = outbox[i].effects + 1 /\ outbox'[i].status = "done"
        BY <3>1, <3>2, MarkDone
      <3> QED
        BY <3>3, <3>4
    <2>2. CASE i \notin job[w].ok
      <3>1. PICK st \in {"pending", "failed"} :
              outbox'[i] = [outbox[i] EXCEPT !.attempts = @ + 1, !.status = st]
        BY <1>1, <1>4, <2>2 DEF Marked
      <3>2. outbox[i] \in Events
        BY <1>2
      <3>3. outbox[i].attempts \in Nat /\ outbox[i].effects \in Nat
        BY <3>2 DEF Events
      <3> DEFINE e == outbox[i]
                 m == outbox'[i]
      <3> HIDE DEF e, m
      <3>4. e \in Events /\ m = [e EXCEPT !.attempts = @ + 1, !.status = st]
        BY <3>1, <3>2 DEF e, m
      <3>5. /\ m \in Events /\ m.sent = e.sent /\ m.attempts = e.attempts + 1
            /\ m.effects = e.effects /\ m.status = st
        BY <3>4, MarkFailed
      <3> QED
        BY <3>3, <3>5 DEF e, m
    <2> QED
      BY <2>1, <2>2
  <1>5. outbox' \in Seq(Events) /\ DOMAIN outbox' = DOMAIN outbox
    <2>1. DOMAIN outbox' = DOMAIN outbox
      BY <1>1
    <2>2. \A i \in DOMAIN outbox : outbox'[i] \in Events
      BY <1>2, <1>3, <1>4
    <2>3. PICK n \in Nat : DOMAIN outbox = 1..n
      BY DEF WorkerInv, WorkerTypes
    <2>4. outbox' \in [1..n -> Events]
      BY <1>1, <2>2, <2>3
    <2> QED
      BY <2>1, <2>4
  <1>6. WorkerTypes'
    BY <1>1, <1>5, JobEnds DEF WorkerTypes
  <1>7. BatchLocks'
    <2>1. \A v \in Workers \ {w} : Held(v) \cap Handled(w) = {}
      BY <1>1 DEF WorkerInv, BatchLocks
    <2>2. /\ Held(w)' = {} /\ Handled(w)' = {} /\ job'[w].todo = {}
          /\ \A v \in Workers \ {w} : Held(v)' = Held(v) /\ Handled(v)' = Handled(v)
                                      /\ job'[v] = job[v]
      BY <1>1, JobEnds
    <2> QED
      BY <1>3, <1>5, <2>1, <2>2 DEF WorkerInv, BatchLocks
  <1>8. EffectOnce'
    <2> SUFFICES ASSUME NEW i \in DOMAIN outbox
                 PROVE  outbox'[i].effects = IF outbox'[i].status = "done" THEN 1 ELSE 0
      BY <1>5 DEF EffectOnce
    <2>1. CASE i \in Handled(w)
      <3>1. outbox[i].effects = 0
        BY <1>1, <2>1 DEF WorkerInv, BatchLocks, EffectOnce
      <3> QED
        BY <1>4, <2>1, <3>1
    <2>2. CASE i \notin Handled(w)
      BY <1>3, <2>2 DEF WorkerInv, EffectOnce
    <2> QED
      BY <2>1, <2>2
  <1>9. SendsExplained'
    <2> SUFFICES ASSUME NEW i \in DOMAIN outbox
                 PROVE  outbox'[i].sent <= outbox'[i].attempts + outbox'[i].effects + faults
                          + (IF InDoubt(i)' THEN 1 ELSE 0)
      BY <1>1, <1>5 DEF SendsExplained
    <2>1. outbox[i].sent <= outbox[i].attempts + outbox[i].effects + faults
                              + (IF InDoubt(i) THEN 1 ELSE 0)
      BY DEF WorkerInv, SendsExplained
    <2>2. /\ outbox[i].sent \in Nat /\ outbox[i].attempts \in Nat /\ outbox[i].effects \in Nat
          /\ outbox'[i].attempts \in Nat /\ outbox'[i].effects \in Nat
      <3>1. outbox[i] \in Events /\ outbox'[i] \in Events
        BY <1>2, <1>3, <1>4
      <3> QED
        BY <3>1 DEF Events
    <2>3. InDoubt(i)' <=> InDoubt(i) /\ i \notin Handled(w)
      BY <1>1, JobEnds
    <2>4. CASE i \in Handled(w)
      <3>1. /\ outbox'[i].sent = outbox[i].sent
            /\ outbox'[i].attempts + outbox'[i].effects = outbox[i].attempts + outbox[i].effects + 1
        BY <1>4, <2>4
      <3> QED
        BY <1>1, <2>1, <2>2, <2>3, <2>4, <3>1
    <2>5. CASE i \notin Handled(w)
      BY <1>3, <2>1, <2>3, <2>5
    <2> QED
      BY <2>4, <2>5
  <1> QED
    BY <1>6, <1>7, <1>8, <1>9 DEF WorkerInv

LEMMA WorkerNext == ServerInv /\ WorkerInv /\ [Next]_vars => WorkerInv'
  <1> SUFFICES ASSUME ServerInv, WorkerInv, [Next]_vars PROVE WorkerInv'
    OBVIOUS
  <1>1. ASSUME NEW a \in Attempts, Serve(a) PROVE WorkerInv'
    <2>1. faults \in Nat
      BY DEF WorkerInv, WorkerTypes
    <2>2. CASE Commit(a)
      <3>1. RecOf[tries[a].req] \in Records
        BY <2>2, Names DEF Commit, ServerInv, Composed
      <3>2. /\ UNCHANGED job
            /\ outbox' = Append(outbox, Event(RecOf[tries[a].req]))
            /\ faults' \in Nat /\ faults' >= faults
        BY <2>1, <2>2 DEF Commit, Fault
      <3> QED
        BY <3>1, <3>2, ServerKeeps
    <2>3. CASE \E q \in Requests : Arrive(a, q)
      BY <2>1, <2>3, ServerKeeps DEF Arrive
    <2>4. CASE Lookup(a) \/ Update(a) \/ Enqueue(a)
      BY <2>1, <2>4, ServerKeeps DEF Lookup, Update, Enqueue
    <2>5. CASE AbortTry(a)
      BY <2>1, <2>5, ServerKeeps DEF AbortTry, Fault
    <2> QED
      BY <1>1, <2>2, <2>3, <2>4, <2>5 DEF Serve
  <1>2. ASSUME NEW w \in Workers, Fetch(w) \/ Work(w) \/ AbortBatch(w) PROVE WorkerInv'
    BY <1>2, FetchInv, HandleInv, CommitBatchInv, AbortBatchInv DEF Work
  <1>3. CASE UNCHANGED vars
    <2>1. UNCHANGED <<outbox, job, faults>> /\ faults \in Nat
      BY <1>3 DEF vars, WorkerInv, WorkerTypes
    <2> QED
      BY <2>1, ServerKeeps
  <1> QED
    BY <1>1, <1>2, <1>3 DEF Next

\* What the handler of an event wrote is there once when the event is done,
\* and not otherwise (EffectOnce), for any workers, batches and faults.
THEOREM OutboxEffectOnce == Spec => []EffectOnce
  <1>1. WorkerInv => EffectOnce
    BY DEF WorkerInv
  <1> QED
    BY <1>1, ServerInit, ServerNext, WorkerInit, WorkerNext, PTL DEF Spec

\* An event is sent no more often than its attempts, its success and the
\* batches that were rolled back explain (SendsAccounted).
THEOREM OutboxSendsAccounted == Spec => []SendsAccounted
  <1>1. WorkerInv => SendsAccounted
    <2> SUFFICES ASSUME WorkerInv, NEW i \in DOMAIN outbox
                 PROVE  outbox[i].sent <= outbox[i].attempts + outbox[i].effects + faults
                          + (IF \E w \in Workers : i \in Held(w) THEN 1 ELSE 0)
      BY DEF SendsAccounted
    <2>1. outbox[i] \in Events /\ faults \in Nat
      BY DEF WorkerInv, WorkerTypes
    <2>2. outbox[i].sent \in Nat /\ outbox[i].attempts \in Nat /\ outbox[i].effects \in Nat
      BY <2>1 DEF Events
    <2>3. outbox[i].sent <= outbox[i].attempts + outbox[i].effects + faults
                              + (IF InDoubt(i) THEN 1 ELSE 0)
      BY DEF WorkerInv, SendsExplained
    <2>4. InDoubt(i) => \E w \in Workers : i \in Held(w)
      BY DEF InDoubt, Held
    <2> QED
      BY <2>1, <2>2, <2>3, <2>4
  <1> QED
    BY <1>1, ServerInit, ServerNext, WorkerInit, WorkerNext, PTL DEF Spec

-------------------------------------------------------------------------------
\* The limits.

\* No event is tried more often than MaxAttempts, and a pending one has an
\* attempt left.
AttemptsLeft == \A i \in DOMAIN outbox :
  /\ outbox[i].attempts <= MaxAttempts
  /\ outbox[i].status = "pending" => outbox[i].attempts < MaxAttempts

Limits == AttemptsLeft /\ faults \in 0..MaxFaults

\* Events that keep their attempts, beside new ones.
LEMMA AttemptsKept ==
  ASSUME AttemptsLeft,
         \A i \in DOMAIN outbox' :
           \/ i \in DOMAIN outbox /\ outbox'[i].attempts = outbox[i].attempts
                /\ outbox'[i].status = outbox[i].status
           \/ outbox'[i].attempts = 0
  PROVE  AttemptsLeft'
  BY OutboxAssumption DEF AttemptsLeft

LEMMA LimitsStep ==
  ASSUME ServerInv, WorkerInv, Limits, Next
  PROVE  Limits'
  <1>1. \A i \in DOMAIN outbox : outbox[i] \in Events
    BY DEF WorkerInv, WorkerTypes
  <1>2. ASSUME Fault \/ UNCHANGED faults PROVE faults' \in 0..MaxFaults
    BY <1>2, OutboxAssumption DEF Fault, Limits
  <1>3. CASE UNCHANGED outbox /\ (Fault \/ UNCHANGED faults)
    BY <1>2, <1>3, AttemptsKept DEF Limits
  <1>4. ASSUME NEW a \in Attempts, Commit(a) PROVE Limits'
    <2>1. PICK r : outbox' = Append(outbox, Event(r))
      BY <1>4 DEF Commit
    <2>2. Event(r).attempts = 0
      BY DEF Event
    <2> DEFINE e == Event(r)
    <2> HIDE DEF e
    <2>3. \A i \in DOMAIN outbox' :
            \/ i \in DOMAIN outbox /\ outbox'[i] = outbox[i]
            \/ outbox'[i] = e
      BY <2>1 DEF WorkerInv, WorkerTypes, e
    <2> QED
      BY <1>2, <1>4, <2>2, <2>3, AttemptsKept DEF Commit, Limits, e
  <1>5. ASSUME NEW i \in DOMAIN outbox, NEW n \in {0, 1}, Sent(i, n), UNCHANGED faults
        PROVE  Limits'
    <2>1. \A j \in DOMAIN outbox' :
            /\ j \in DOMAIN outbox
            /\ outbox'[j].attempts = outbox[j].attempts /\ outbox'[j].status = outbox[j].status
      BY <1>1, <1>5 DEF Sent, Events
    <2> QED
      BY <1>2, <1>5, <2>1, AttemptsKept DEF Limits
  <1>6. ASSUME NEW w \in Workers, CommitBatch(w) PROVE Limits'
    <2>1. ASSUME NEW i \in DOMAIN outbox
          PROVE  /\ outbox'[i].attempts <= MaxAttempts
                 /\ outbox'[i].status = "pending" => outbox'[i].attempts < MaxAttempts
      <3> DEFINE e == outbox[i]
                 m == outbox'[i]
      <3>1. /\ e \in Events /\ MaxAttempts \in Nat /\ e.attempts \in Nat
            /\ e.attempts <= MaxAttempts /\ (e.status = "pending" => e.attempts < MaxAttempts)
        BY <1>1, OutboxAssumption DEF Limits, AttemptsLeft, Events
      <3>2. \/ m = e
            \/ m = [e EXCEPT !.status = "done", !.effects = @ + 1]
            \/ /\ e.status = "pending"
               /\ m = [e EXCEPT !.attempts = @ + 1,
                                !.status = IF e.attempts + 1 >= MaxAttempts THEN "failed" ELSE "pending"]
        <4>1. i \in Handled(w) => e.status = "pending"
          BY DEF WorkerInv, BatchLocks, Held
        <4>2. m = IF i \in Handled(w) THEN Marked(e, i \in job[w].ok) ELSE e
          BY <1>6 DEF CommitBatch
        <4> QED
          BY <4>1, <4>2 DEF Marked
      <3> HIDE DEF e, m
      <3>3. CASE m = e
        BY <3>1, <3>3 DEF e, m
      <3>4. CASE m = [e EXCEPT !.status = "done", !.effects = @ + 1]
        BY <3>1, <3>4, MarkDone DEF e, m
      <3>5. ASSUME e.status = "pending",
                   m = [e EXCEPT !.attempts = @ + 1,
                                 !.status = IF e.attempts + 1 >= MaxAttempts THEN "failed" ELSE "pending"]
            PROVE  m.attempts <= MaxAttempts /\ (m.status = "pending" => m.attempts < MaxAttempts)
        <4> DEFINE st == IF e.attempts + 1 >= MaxAttempts THEN "failed" ELSE "pending"
        <4>1. st \in {"pending", "failed"} /\ (st = "pending" => e.attempts + 1 < MaxAttempts)
          BY <3>1
        <4>2. m = [e EXCEPT !.attempts = @ + 1, !.status = st]
          BY <3>5
        <4> HIDE DEF st
        <4>3. m.attempts = e.attempts + 1 /\ m.status = st
          BY <3>1, <4>1, <4>2, MarkFailed
        <4> QED
          BY <3>1, <3>5, <4>1, <4>3
      <3> QED
        BY <3>2, <3>3, <3>4, <3>5 DEF e, m
    <2>2. DOMAIN outbox' = DOMAIN outbox
      BY <1>6 DEF CommitBatch
    <2>3. UNCHANGED faults
      BY <1>6 DEF CommitBatch
    <2> QED
      BY <1>2, <2>1, <2>2, <2>3 DEF Limits, AttemptsLeft
  <1>7. ASSUME NEW a \in Attempts, Serve(a) PROVE Limits'
    <2>1. CASE Commit(a)
      BY <1>4, <2>1
    <2>2. CASE (\E q \in Requests : Arrive(a, q)) \/ Lookup(a) \/ Update(a) \/ Enqueue(a) \/ AbortTry(a)
      BY <1>3, <2>2 DEF Arrive, Lookup, Update, Enqueue, AbortTry
    <2> QED
      BY <1>7, <2>1, <2>2 DEF Serve
  <1>8. ASSUME NEW w \in Workers, Fetch(w) \/ Work(w) \/ AbortBatch(w) PROVE Limits'
    <2>1. CASE Fetch(w) \/ AbortBatch(w)
      BY <1>3, <2>1 DEF Fetch, AbortBatch
    <2>2. CASE HandleOk(w) \/ HandleError(w)
      BY <1>5, <2>2 DEF HandleOk, HandleError
    <2>3. CASE CommitBatch(w)
      BY <1>6, <2>3
    <2> QED
      BY <1>8, <2>1, <2>2, <2>3 DEF Work
  <1> QED
    BY <1>7, <1>8 DEF Next

\* The variables keep their types: no job holds an event that is not there, and
\* no event has more than MaxAttempts attempts (markFailed).
THEOREM OutboxTypeCorrect == Spec => []TypeOK
  <1>1. ServerInv /\ WorkerInv /\ Limits => TypeOK
    <2> SUFFICES ASSUME ServerInv, WorkerInv, Limits PROVE TypeOK
      OBVIOUS
    <2> DEFINE Kept == [rec : Records, status : {"pending", "done", "failed"},
                        attempts : 0..MaxAttempts, sent : Nat, effects : Nat]
    <2>1. outbox \in Seq(Kept)
      <3>1. \A i \in DOMAIN outbox : outbox[i] \in Kept
        <4> SUFFICES ASSUME NEW i \in DOMAIN outbox PROVE outbox[i] \in Kept
          OBVIOUS
        <4>1. outbox[i] \in Events /\ outbox[i].attempts <= MaxAttempts
          BY DEF WorkerInv, WorkerTypes, Limits, AttemptsLeft
        <4>2. outbox[i].attempts \in 0..MaxAttempts
          BY <4>1, OutboxAssumption DEF Events
        <4> QED
          BY <4>1, <4>2 DEF Events
      <3>2. outbox \in Seq(Events)
        BY DEF WorkerInv, WorkerTypes
      <3> HIDE DEF Kept
      <3> QED
        BY <3>1, <3>2
    <2>2. job \in [Workers -> [todo : SUBSET DOMAIN outbox, ok : SUBSET DOMAIN outbox,
                               failed : SUBSET DOMAIN outbox]]
      <3>1. \A w \in Workers : /\ job[w].todo \subseteq DOMAIN outbox
                               /\ job[w].ok \subseteq DOMAIN outbox
                               /\ job[w].failed \subseteq DOMAIN outbox
        BY DEF WorkerInv, BatchLocks, Held, Handled
      <3> QED
        BY <3>1 DEF WorkerInv, WorkerTypes
    <2> HIDE DEF Kept
    <2> QED
      BY <2>1, <2>2 DEF TypeOK, ServerInv, ServerTypes, Tries, Unsent, Limits, Kept
  <1>2. Init => Limits
    BY OutboxAssumption DEF Init, Limits, AttemptsLeft
  <1>3. ServerInv /\ WorkerInv /\ Limits /\ [Next]_vars => Limits'
    <2>1. ASSUME Limits, UNCHANGED vars PROVE Limits'
      BY <2>1 DEF vars, Limits, AttemptsLeft
    <2> QED
      BY <2>1, LimitsStep
  <1> QED
    BY <1>1, <1>2, <1>3, ServerInit, ServerNext, WorkerInit, WorkerNext, PTL DEF Spec

===============================================================================
