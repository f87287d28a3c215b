------------------------ MODULE WorkflowEngine_proofs ------------------------
(***************************************************************************)
(* Proofs about WorkflowEngine.                                            *)
(***************************************************************************)
EXTENDS WorkflowEngine, WellFoundedInduction, SequenceTheorems, TLAPS

LEMMA LeastNatural ==
  ASSUME NEW S, S \subseteq Nat, S # {}
  PROVE  \E m \in S : \A n \in S : m <= n
  <1>1. PICK m \in S : \A n \in S : ~(<<n, m>> \in OpToRel(<, Nat))
    BY WFMin, NatLessThanWellFounded, Zenon
  <1>2. \A n \in S : ~(n < m)
    BY <1>1, Zenon DEF OpToRel
  <1> QED
    BY <1>2

-------------------------------------------------------------------------------
(* The recursive definition of Meaning has a solution for every workflow   *)
(* whose steps lead forward.                                               *)

Leads(p) == \A s \in DOMAIN p :
  /\ p[s].next # 0 => p[s].next \in DOMAIN p /\ s < p[s].next
  /\ p[s].kind = "ForLoop" => p[s].body \in DOMAIN p /\ s < p[s].body

Rank(p, s) == IF s = 0 THEN 0 ELSE IF s = Handler THEN 1 ELSE Len(p) + 2 - s

\* The items that a loop still has to do.
Left(p, s, i) == IF s \in DOMAIN p /\ p[s].kind = "ForLoop" /\ i < p[s].len
                 THEN p[s].len - i ELSE 0

\* The point y is reached from x at the earliest after another step or item.
After(p, y, x) == \/ Rank(p, y[1]) < Rank(p, x[1])
                  \/ y[1] = x[1] /\ Left(p, y[1], y[3]) < Left(p, x[1], x[3])

At4(p, M, x) == Unfold(p, M, x[1], x[2], x[3], x[4])

LEMMA OutcomesClosed ==
  ASSUME NEW s \in Nat, NEW ix \in Seq(Nat), NEW one \in Outcomes, NEW more \in Outcomes
  PROVE  First(s, ix, more) \in Outcomes /\ Then(one, more) \in Outcomes
  <1>1. <<<<s, ix>>>> \o more.log \in Seq(Nat \X Seq(Nat))
    BY DEF Outcomes
  <1>2. one.log \o more.log \in Seq(Nat \X Seq(Nat))
    BY DEF Outcomes
  <1> QED
    BY <1>1, <1>2 DEF First, Then, Outcomes

LEMMA NothingOutcome ==
  ASSUME NEW h \in BOOLEAN, NEW end \in {"on", "Finished", "Error"}
  PROVE  Nothing(h, end) \in Outcomes
  BY DEF Nothing, Outcomes

\* What a point leads to, and nothing else, decides what is done from it on.
LEMMA UnfoldUses ==
  ASSUME NEW p \in Seq(Step), Handler \notin DOMAIN p, Leads(p), NEW x \in Points(p), NEW M, NEW N,
         \A y \in Points(p) : After(p, y, x) => M[y] = N[y] /\ M[y] \in Outcomes
  PROVE  At4(p, M, x) = At4(p, N, x) /\ At4(p, M, x) \in Outcomes
  <1> DEFINE s == x[1]
             ix == x[2]
             i == x[3]
             h == x[4]
  <1>0. /\ x = <<s, ix, i, h>>
        /\ s \in {0, Handler} \cup DOMAIN p /\ ix \in Seq(Nat) /\ i \in Nat /\ h \in BOOLEAN
        /\ Handler \in Nat \ {0} /\ Len(p) \in Nat /\ DOMAIN p = 1..Len(p) /\ s \in Nat
    BY ProgramsAssumption DEF Points
  <1> HIDE DEF s, ix, i, h
  <1>1. ASSUME NEW t \in {0, Handler} \cup DOMAIN p, NEW jx \in Seq(Nat), NEW j \in Nat,
               NEW g \in BOOLEAN, After(p, <<t, jx, j, g>>, <<s, ix, i, h>>)
        PROVE  M[<<t, jx, j, g>>] = N[<<t, jx, j, g>>] /\ M[<<t, jx, j, g>>] \in Outcomes
    BY <1>0, <1>1 DEF Points
  <1>2. CASE s = 0
    BY <1>0, <1>2, NothingOutcome DEF At4, Unfold, s, h
  <1>3. ASSUME s # 0, NEW g \in BOOLEAN
        PROVE  /\ M[<<NextOf(p, s), ix, 0, g>>] = N[<<NextOf(p, s), ix, 0, g>>]
               /\ M[<<NextOf(p, s), ix, 0, g>>] \in Outcomes
    <2>1. NextOf(p, s) \in {0, Handler} \cup DOMAIN p
      BY <1>0, <1>3 DEF NextOf, Leads
    <2>2. Rank(p, NextOf(p, s)) < Rank(p, s)
      BY <1>0, <1>3 DEF NextOf, Leads, Rank
    <2> QED
      BY <1>0, <1>1, <2>1, <2>2 DEF After
  <1>4. CASE s # 0 /\ Kind(p, s) = "Stop"
    BY <1>0, <1>4, NothingOutcome, OutcomesClosed DEF At4, Unfold
  <1>5. CASE s # 0 /\ Kind(p, s) = "Throws"
    <2>1. s \in DOMAIN p
      BY <1>0, <1>5 DEF Kind
    <2>2. After(p, <<Handler, ix, 0, h>>, <<s, ix, i, h>>)
      BY <1>0, <2>1 DEF After, Rank
    <2>3. /\ M[<<Handler, ix, 0, h>>] = N[<<Handler, ix, 0, h>>]
          /\ M[<<Handler, ix, 0, h>>] \in Outcomes
      BY <1>0, <1>1, <2>2
    <2> QED
      BY <1>0, <1>5, <2>3, NothingOutcome DEF At4, Unfold
  <1>6. CASE s # 0 /\ Kind(p, s) = "ForLoop"
    <2>1. s \in DOMAIN p /\ p[s].kind = "ForLoop" /\ p[s].len \in Nat /\ p[s].body \in DOMAIN p
      <3>1. s \in DOMAIN p /\ p[s].kind = "ForLoop"
        BY <1>0, <1>6 DEF Kind
      <3>2. p[s] \in Step
        BY <3>1
      <3> QED
        BY <3>1, <3>2 DEF Leads, Step
    <2>2. CASE i >= p[s].len
      BY <1>0, <1>3, <1>6, <2>1, <2>2 DEF At4, Unfold
    <2>3. CASE ~(i >= p[s].len)
      <3>1. After(p, <<p[s].body, Append(ix, i), 0, h>>, <<s, ix, i, h>>)
        BY <1>0, <2>1, SMTT(30) DEF After, Rank, Leads
      <3> DEFINE one == M[<<p[s].body, Append(ix, i), 0, h>>]
                 more == M[<<s, ix, i + 1, one.handler>>]
      <3>2. one \in Outcomes /\ one = N[<<p[s].body, Append(ix, i), 0, h>>]
        <4>1. Append(ix, i) \in Seq(Nat)
          BY <1>0
        <4> QED
          BY <1>0, <1>1, <2>1, <3>1, <4>1, ZenonT(60)
      <3>3. one.handler \in BOOLEAN
        BY <3>2 DEF Outcomes
      <3>4. After(p, <<s, ix, i + 1, one.handler>>, <<s, ix, i, h>>)
        BY <1>0, <2>1, <2>3 DEF After, Left
      <3>5. more \in Outcomes /\ more = N[<<s, ix, i + 1, one.handler>>]
        <4>1. i + 1 \in Nat
          BY <1>0
        <4> HIDE DEF one
        <4> QED
          BY <1>0, <1>1, <3>3, <3>4, <4>1
      <3>6. At4(p, M, x) = Then(one, more) /\ At4(p, N, x) = Then(one, more)
        BY <1>0, <1>6, <2>3, <3>2, <3>5 DEF At4, Unfold
      <3> QED
        BY <3>2, <3>5, <3>6, <1>0, OutcomesClosed
    <2> QED
      BY <2>2, <2>3
  <1>7. CASE s # 0 /\ Kind(p, s) \notin {"Stop", "Throws", "ForLoop"}
    <2>1. (h \/ Kind(p, s) = "SetErrorHandler") \in BOOLEAN
      OBVIOUS
    <2> DEFINE g == h \/ Kind(p, s) = "SetErrorHandler"
               rest == M[<<NextOf(p, s), ix, 0, g>>]
    <2>2. rest \in Outcomes /\ rest = N[<<NextOf(p, s), ix, 0, g>>]
      BY <1>3, <1>7, <2>1
    <2>3. At4(p, M, x) = First(s, ix, rest) /\ At4(p, N, x) = First(s, ix, rest)
      BY <1>0, <1>7, <2>2 DEF At4, Unfold
    <2> QED
      BY <2>2, <2>3, <1>0, OutcomesClosed
  <1> QED
    BY <1>0, <1>2, <1>4, <1>5, <1>6, <1>7

LEMMA EarliestPoint ==
  ASSUME NEW p \in Seq(Step), Handler \notin DOMAIN p, NEW T, T \subseteq Points(p), T # {}
  PROVE  \E x \in T : \A y \in T : ~After(p, y, x)
  <1>0. /\ Handler \in Nat \ {0} /\ Len(p) \in Nat /\ DOMAIN p = 1..Len(p)
        /\ \A x \in T : x[1] \in {0, Handler} \cup DOMAIN p /\ x[3] \in Nat
    BY ProgramsAssumption DEF Points
  <1>1. /\ \A s \in {0, Handler} \cup DOMAIN p : Rank(p, s) \in Nat
        /\ \A s, t \in {0, Handler} \cup DOMAIN p : Rank(p, s) = Rank(p, t) => s = t
    BY <1>0 DEF Rank
  <1>2. \A x \in T : Left(p, x[1], x[3]) \in Nat
    <2> SUFFICES ASSUME NEW x \in T, x[1] \in DOMAIN p, p[x[1]].kind = "ForLoop", x[3] < p[x[1]].len
                 PROVE  p[x[1]].len - x[3] \in Nat
      BY <1>0 DEF Left
    <2>1. p[x[1]] \in Step
      OBVIOUS
    <2> QED
      BY <1>0, <2>1 DEF Step
  <1> DEFINE Ranks == {Rank(p, x[1]) : x \in T}
  <1>3. PICK m \in Ranks : \A n \in Ranks : m <= n
    <2>1. Ranks \subseteq Nat /\ Ranks # {}
      BY <1>0, <1>1
    <2> QED
      BY <2>1, LeastNatural
  <1> DEFINE Lefts == {Left(p, x[1], x[3]) : x \in {y \in T : Rank(p, y[1]) = m}}
  <1>4. PICK k \in Lefts : \A n \in Lefts : k <= n
    <2>1. Lefts \subseteq Nat /\ Lefts # {}
      BY <1>2, <1>3
    <2> QED
      BY <2>1, LeastNatural
  <1>5. PICK x \in T : Rank(p, x[1]) = m /\ Left(p, x[1], x[3]) = k
    BY <1>4
  <1>6. ASSUME NEW y \in T PROVE ~After(p, y, x)
    <2>1. Rank(p, y[1]) \in Nat /\ m \in Nat /\ m <= Rank(p, y[1])
      BY <1>0, <1>1, <1>3
    <2>2. y[1] = x[1] => k <= Left(p, y[1], y[3])
      BY <1>4, <1>5
    <2>3. k \in Nat /\ Left(p, y[1], y[3]) \in Nat
      BY <1>2, <1>5
    <2> QED
      BY <1>5, <2>1, <2>2, <2>3 DEF After
  <1> QED
    BY <1>6

\* A solution for some of the points, and all that they lead to.
Solves(p, A, g) ==
  /\ A \subseteq Points(p)
  /\ \A x \in A : \A y \in Points(p) : After(p, y, x) => y \in A
  /\ \A x \in A : g[x] = At4(p, g, x) /\ g[x] \in Outcomes

LEMMA SolutionsAgree ==
  ASSUME NEW p \in Seq(Step), Handler \notin DOMAIN p, Leads(p),
         NEW A, NEW g, Solves(p, A, g), NEW B, NEW f, Solves(p, B, f)
  PROVE  \A x \in A \cap B : g[x] = f[x]
  <1> DEFINE T == {x \in A \cap B : g[x] # f[x]}
  <1> SUFFICES ASSUME T # {} PROVE FALSE
    OBVIOUS
  <1>1. T \subseteq Points(p)
    BY DEF Solves
  <1>2. PICK x \in T : \A y \in T : ~After(p, y, x)
    BY <1>1, EarliestPoint
  <1>3. \A y \in Points(p) : After(p, y, x) => g[y] = f[y] /\ g[y] \in Outcomes
    BY <1>2 DEF Solves
  <1>4. At4(p, g, x) = At4(p, f, x)
    BY <1>1, <1>2, <1>3, UnfoldUses
  <1> QED
    BY <1>2, <1>4 DEF Solves

LEMMA MeaningSolves ==
  ASSUME NEW p \in Seq(Step), Handler \notin DOMAIN p, Leads(p)
  PROVE  Solves(p, Points(p), Meaning(p))
  <1> DEFINE Solved == {x \in Points(p) : \E A, g : Solves(p, A, g) /\ x \in A}
             By(x) == CHOOSE g : \E A : Solves(p, A, g) /\ x \in A
             U == [x \in Points(p) |-> By(x)[x]]
  <1>1. ASSUME NEW A, NEW g, Solves(p, A, g) PROVE \A x \in A : U[x] = g[x]
    <2> SUFFICES ASSUME NEW x \in A PROVE U[x] = g[x]
      OBVIOUS
    <2>1. x \in Points(p)
      BY <1>1 DEF Solves
    <2>2. \E B : Solves(p, B, By(x)) /\ x \in B
      <3>1. \E f : \E B : Solves(p, B, f) /\ x \in B
        BY <1>1
      <3> QED
        BY <3>1, Zenon
    <2> HIDE DEF By
    <2>3. PICK B : Solves(p, B, By(x)) /\ x \in B
      BY <2>2
    <2>4. By(x)[x] = g[x]
      <3> DEFINE f == By(x)
      <3>1. Solves(p, B, f) /\ x \in B
        BY <2>3
      <3> HIDE DEF f
      <3>2. \A y \in A \cap B : g[y] = f[y]
        BY <1>1, <3>1, SolutionsAgree
      <3> QED
        BY <3>1, <3>2 DEF f
    <2> QED
      BY <2>1, <2>4
  <1>2. ASSUME NEW A, NEW g, Solves(p, A, g), NEW x \in A
        PROVE  U[x] = At4(p, U, x) /\ U[x] \in Outcomes
    <2>1. x \in Points(p) /\ g[x] = At4(p, g, x) /\ g[x] \in Outcomes
      BY <1>2 DEF Solves
    <2>2. \A y \in Points(p) : After(p, y, x) => g[y] = U[y] /\ g[y] \in Outcomes
      BY <1>1, <1>2, ZenonT(60) DEF Solves
    <2> HIDE DEF U
    <2>3. At4(p, g, x) = At4(p, U, x)
      BY <2>1, <2>2, UnfoldUses
    <2> QED
      BY <1>1, <1>2, <2>1, <2>3
  <1> HIDE DEF U
  <1>3. Solves(p, Solved, U)
    BY <1>2 DEF Solves
  <1>4. Solved = Points(p)
    <2> DEFINE T == Points(p) \ Solved
    <2> SUFFICES ASSUME T # {} PROVE FALSE
      OBVIOUS
    <2>1. PICK x \in T : \A y \in T : ~After(p, y, x)
      <3>1. T \subseteq Points(p)
        OBVIOUS
      <3> HIDE DEF T
      <3> QED
        BY <3>1, EarliestPoint
    <2>2. \A y \in Points(p) : After(p, y, x) => y \in Solved
      BY <2>1
    <2>3. x \in Points(p) /\ x \notin Solved
      OBVIOUS
    <2> HIDE DEF Solved
    <2> DEFINE V == [y \in Points(p) |-> IF y = x THEN At4(p, U, x) ELSE U[y]]
    <2>4. \A y \in Solved : V[y] = U[y] /\ U[y] \in Outcomes /\ U[y] = At4(p, U, y)
      BY <1>3, <2>3 DEF Solves
    <2>5. V[x] = At4(p, U, x)
      BY <2>3
    <2> HIDE DEF V
    <2>6. ASSUME NEW z \in Solved \cup {x} PROVE At4(p, U, z) = At4(p, V, z) /\ At4(p, U, z) \in Outcomes
      <3>1. z \in Points(p) /\ \A y \in Points(p) : After(p, y, z) => U[y] = V[y] /\ U[y] \in Outcomes
        BY <1>3, <2>2, <2>3, <2>4 DEF Solves
      <3> QED
        BY <3>1, UnfoldUses
    <2>7. Solves(p, Solved \cup {x}, V)
      BY <1>3, <2>2, <2>3, <2>4, <2>5, <2>6 DEF Solves
    <2>8. x \in Solved
      BY <2>3, <2>7 DEF Solved
    <2> QED
      BY <2>3, <2>8
  <1>5. U = [x \in Points(p) |-> At4(p, U, x)]
    <2>1. \E f : U = [x \in Points(p) |-> f[x]]
      <3>1. U = [x \in Points(p) |-> By(x)[x]]
        BY DEF U
      <3>2. U = [x \in Points(p) |-> U[x]]
        BY <3>1
      <3> QED
        BY <3>2
    <2> HIDE DEF Solved
    <2>2. \A x \in Points(p) : U[x] = At4(p, U, x)
      BY <1>3, <1>4 DEF Solves
    <2>3. U = [x \in Points(p) |-> U[x]]
      BY <2>1
    <2> DEFINE V == [x \in Points(p) |-> At4(p, U, x)]
    <2>4. \A x \in Points(p) : U[x] = V[x]
      BY <2>2
    <2>5. V = [x \in Points(p) |-> V[x]]
      OBVIOUS
    <2> HIDE DEF V
    <2>6. U = V
      BY <2>3, <2>4, <2>5
    <2> QED
      BY <2>6 DEF V
  <1>6. Meaning(p) = [x \in Points(p) |-> At4(p, Meaning(p), x)]
    <2> DEFINE Good(f) == f = [x \in Points(p) |-> Unfold(p, f, x[1], x[2], x[3], x[4])]
    <2>1. Good(U)
      BY <1>5 DEF At4
    <2>2. Good(CHOOSE f : Good(f))
      BY <2>1, Zenon
    <2> QED
      BY <2>2, Zenon DEF Meaning, At4
  <1> DEFINE T == {x \in Points(p) : Meaning(p)[x] \notin Outcomes}
  <1>7. T = {}
    <2> SUFFICES ASSUME T # {} PROVE FALSE
      OBVIOUS
    <2>1. PICK x \in T : \A y \in T : ~After(p, y, x)
      <3>1. T \subseteq Points(p)
        OBVIOUS
      <3> HIDE DEF T
      <3> QED
        BY <3>1, EarliestPoint
    <2>2. \A y \in Points(p) : After(p, y, x) => Meaning(p)[y] \in Outcomes
      BY <2>1
    <2>3. At4(p, Meaning(p), x) \in Outcomes
      BY <2>1, <2>2, UnfoldUses
    <2>4. Meaning(p)[x] = At4(p, Meaning(p), x)
      BY <1>6, <2>1
    <2> QED
      BY <2>1, <2>3, <2>4
  <1> QED
    BY <1>6, <1>7 DEF Solves

-------------------------------------------------------------------------------
(* The stack.                                                              *)

Size(st) == Len(st) \div 2
Top(st) == IF st = <<>> THEN 1 ELSE Last(st)
Loops(st, k) == {st[2 * j - 1] : j \in 1..k}
Around(p) == CHOOSE around : Nests(p, around) /\ (Structured(p) => Forward(p, around))

\* A stack of steps and indices, the step at its top included.
Shape(st) == st \in Seq(Nat) /\ (st = <<>> \/ Len(st) = 2 * Size(st) + 1)

StackOK(p, st) ==
  /\ Shape(st)
  /\ \A k \in 1..Size(st) :
       /\ st[2 * k - 1] \in DOMAIN p /\ p[st[2 * k - 1]].kind = "ForLoop"
       /\ st[2 * k] < p[st[2 * k - 1]].len
       /\ Around(p)[st[2 * k - 1]] = Loops(st, k - 1)
  /\ Top(st) # Handler => Top(st) \in DOMAIN p /\ Around(p)[Top(st)] = Loops(st, Size(st))

ItemsOK(p, o) ==
  /\ o.item \in [DOMAIN p -> Nat \cup {NoItem}]
  /\ \A k \in 1..Size(o.stack) : o.item[o.stack[2 * k - 1]] = o.stack[2 * k]

LEMMA SizeOf ==
  ASSUME NEW st \in Seq(Nat), NEW d \in Nat, Len(st) = 2 * d + 1
  PROVE  Size(st) = d /\ Shape(st) /\ st # <<>> /\ Top(st) = st[2 * d + 1]
  <1>1. Size(st) = d
    BY DEF Size
  <1> QED
    BY <1>1 DEF Shape, Top, Last

LEMMA SizeIn ==
  ASSUME NEW st, Shape(st)
  PROVE  /\ Size(st) \in Nat
         /\ st # <<>> => Len(st) = 2 * Size(st) + 1
         /\ st = <<>> => Size(st) = 0
         /\ \A k \in 1..Size(st) : st[2 * k - 1] \in Nat /\ st[2 * k] \in Nat
         /\ Top(st) \in Nat
  <1>1. Len(st) \in Nat /\ Size(st) \in Nat
    BY DEF Shape, Size
  <1>2. st = <<>> => Size(st) = 0
    BY DEF Size
  <1>3. st # <<>> => Len(st) = 2 * Size(st) + 1
    BY DEF Shape
  <1>4. ASSUME NEW k \in 1..Size(st) PROVE st[2 * k - 1] \in Nat /\ st[2 * k] \in Nat
    BY <1>1, <1>2, <1>3, SMTT(30) DEF Shape
  <1>5. Top(st) \in Nat
    BY <1>1, <1>3 DEF Shape, Top, Last
  <1> QED
    BY <1>1, <1>2, <1>3, <1>4, <1>5

\* The stack n is st with the step s at its top, with the index x of its last
\* loop, or without that loop.
Topped(st, s, n) ==
  /\ n \in Seq(Nat) /\ Shape(n) /\ n # <<>> /\ Len(n) = 2 * Size(st) + 1 /\ Size(n) = Size(st)
  /\ Top(n) = s /\ n[2 * Size(st) + 1] = s
  /\ \A j \in 1..(2 * Size(st)) : n[j] = st[j]

Indexed(st, x, n) ==
  /\ n \in Seq(Nat) /\ Shape(n) /\ Len(n) = Len(st) /\ Size(n) = Size(st)
  /\ n[2 * Size(st)] = x
  /\ \A j \in 1..(2 * Size(st) - 1) : n[j] = st[j]

Popped(st, n) ==
  /\ n \in Seq(Nat) /\ Shape(n) /\ n # <<>> /\ Size(n) = Size(st) - 1
  /\ \A j \in 1..(2 * Size(st) - 1) : n[j] = st[j]

LEMMA SetTopStack ==
  ASSUME NEW st, Shape(st), NEW s \in Nat
  PROVE  Topped(st, s, SetTop(st, s))
  <1> DEFINE n == SetTop(st, s)
  <1>1. Size(st) \in Nat /\ (st = <<>> => Size(st) = 0) /\ (st # <<>> => Len(st) = 2 * Size(st) + 1)
    BY SizeIn
  <1>2. /\ n \in Seq(Nat) /\ Len(n) = 2 * Size(st) + 1 /\ n[2 * Size(st) + 1] = s
        /\ \A j \in 1..(2 * Size(st)) : n[j] = st[j]
    BY <1>1 DEF SetTop, Shape
  <1> HIDE DEF n
  <1>3. Size(n) = Size(st) /\ Shape(n) /\ n # <<>> /\ Top(n) = n[2 * Size(st) + 1]
    BY <1>1, <1>2, SizeOf
  <1> QED
    BY <1>2, <1>3 DEF n, Topped

LEMMA IndexStack ==
  ASSUME NEW st, Shape(st), Size(st) >= 1, NEW x \in Nat
  PROVE  Indexed(st, x, [st EXCEPT ![Len(st) - 1] = x])
  <1> DEFINE n == [st EXCEPT ![Len(st) - 1] = x]
  <1>1. Size(st) \in Nat /\ Len(st) = 2 * Size(st) + 1 /\ st \in Seq(Nat)
    BY SizeIn DEF Shape
  <1>2. 2 * Size(st) \in 1..Len(st) /\ Len(st) - 1 = 2 * Size(st)
    BY <1>1
  <1>3. /\ n \in Seq(Nat) /\ Len(n) = Len(st) /\ n[2 * Size(st)] = x
        /\ \A j \in 1..(2 * Size(st) - 1) : n[j] = st[j]
    BY <1>1, <1>2
  <1> HIDE DEF n
  <1>4. Size(n) = Size(st) /\ Shape(n)
    BY <1>1, <1>3, SizeOf
  <1> QED
    BY <1>3, <1>4 DEF n, Indexed

LEMMA PopStack ==
  ASSUME NEW st, Shape(st), Size(st) >= 1
  PROVE  Popped(st, SubSeq(st, 1, Len(st) - 2))
  <1> DEFINE n == SubSeq(st, 1, Len(st) - 2)
  <1>1. Size(st) \in Nat /\ Len(st) = 2 * Size(st) + 1 /\ st \in Seq(Nat)
    BY SizeIn DEF Shape
  <1>2. /\ n \in Seq(Nat) /\ Len(n) = 2 * (Size(st) - 1) + 1
        /\ \A j \in 1..(2 * Size(st) - 1) : n[j] = st[j]
    BY <1>1, SMTT(30)
  <1> HIDE DEF n
  <1>3. Size(n) = Size(st) - 1 /\ Shape(n) /\ n # <<>>
    BY <1>1, <1>2, SizeOf
  <1> QED
    BY <1>2, <1>3 DEF n, Popped

LEMMA LoopsSame ==
  ASSUME NEW st, NEW n, NEW d \in Nat, \A j \in 1..d : n[2 * j - 1] = st[2 * j - 1]
  PROVE  \A k \in 0..d : Loops(n, k) = Loops(st, k)
  BY DEF Loops

\* A stack stays well-formed when loops are taken from it, indices counted
\* within the arrays, and the top replaced by a step inside of the loops left.
LEMMA FramesKept ==
  ASSUME NEW p, NEW st, StackOK(p, st), NEW d \in 0..Size(st),
         NEW n \in Seq(Nat), Len(n) = 2 * d + 1,
         \A j \in 1..d : n[2 * j - 1] = st[2 * j - 1] /\ n[2 * j] < p[st[2 * j - 1]].len,
         n[2 * d + 1] # Handler =>
           n[2 * d + 1] \in DOMAIN p /\ Around(p)[n[2 * d + 1]] = Loops(st, d)
  PROVE  StackOK(p, n) /\ Size(n) = d
  <1>1. Size(st) \in Nat /\ d \in Nat
    BY SizeIn DEF StackOK
  <1>2. Size(n) = d /\ Shape(n) /\ Top(n) = n[2 * d + 1]
    BY <1>1, SizeOf
  <1>3. \A k \in 0..d : Loops(n, k) = Loops(st, k)
    BY <1>1, LoopsSame
  <1>4. \A k \in 1..d : k \in 1..Size(st) /\ k - 1 \in 0..d
    BY <1>1
  <1>5. Loops(n, d) = Loops(st, d)
    <2>1. d \in 0..d
      BY <1>1
    <2> QED
      BY <1>3, <2>1
  <1>6. ASSUME NEW k \in 1..Size(n)
        PROVE  /\ n[2 * k - 1] \in DOMAIN p /\ p[n[2 * k - 1]].kind = "ForLoop"
               /\ n[2 * k] < p[n[2 * k - 1]].len
               /\ Around(p)[n[2 * k - 1]] = Loops(n, k - 1)
    BY <1>2, <1>3, <1>4 DEF StackOK
  <1>7. Top(n) # Handler => Top(n) \in DOMAIN p /\ Around(p)[Top(n)] = Loops(n, Size(n))
    BY <1>2, <1>5
  <1> QED
    BY <1>2, <1>6, <1>7 DEF StackOK

\* And when a loop is entered.
LEMMA FramePushed ==
  ASSUME NEW p, NEW st, StackOK(p, st), st # <<>>, Nests(p, Around(p)),
         Top(st) \in DOMAIN p, Handler \notin DOMAIN p, p[Top(st)].kind = "ForLoop", p[Top(st)].len > 0,
         p[Top(st)].body \in Nat
  PROVE  LET n == st \o <<0, p[Top(st)].body>> IN
         /\ StackOK(p, n) /\ Size(n) = Size(st) + 1
         /\ \A j \in 1..(2 * Size(st) + 1) : n[j] = st[j]
         /\ n[2 * Size(st) + 1] = Top(st) /\ n[2 * Size(st) + 2] = 0 /\ Top(n) = p[Top(st)].body
  <1> DEFINE f == Top(st)
             d == Size(st)
             n == st \o <<0, p[f].body>>
  <1> HIDE DEF f
  <1>0. d \in Nat /\ Len(st) = 2 * d + 1 /\ st \in Seq(Nat) /\ f = st[2 * d + 1]
    BY SizeIn DEF StackOK, Shape, Top, Last, f
  <1> HIDE DEF d
  <1>1. /\ n \in Seq(Nat) /\ Len(n) = 2 * (d + 1) + 1
        /\ \A j \in 1..(2 * d + 1) : n[j] = st[j]
        /\ n[2 * d + 2] = 0 /\ n[2 * d + 3] = p[f].body
    BY <1>0 DEF f
  <1> HIDE DEF n
  <1>2. Size(n) = d + 1 /\ Shape(n) /\ Top(n) = p[f].body
    <2>1. d + 1 \in Nat /\ 2 * (d + 1) + 1 = 2 * d + 3
      BY <1>0
    <2> QED
      BY <1>1, <2>1, SizeOf
  <1>3. /\ \A k \in 0..d : Loops(n, k) = Loops(st, k)
        /\ \A k \in 1..d : n[2 * k - 1] = st[2 * k - 1] /\ n[2 * k] = st[2 * k] /\ k - 1 \in 0..d
    <2>1. ASSUME NEW k \in 1..d
          PROVE  n[2 * k - 1] = st[2 * k - 1] /\ n[2 * k] = st[2 * k] /\ k - 1 \in 0..d
      <3>1. 2 * k - 1 \in 1..(2 * d + 1) /\ 2 * k \in 1..(2 * d + 1)
        BY <1>0
      <3> QED
        BY <1>0, <1>1, <3>1
    <2> QED
      BY <1>0, <2>1, LoopsSame
  <1>4. Around(p)[f] = Loops(st, d)
    BY DEF StackOK, f, d
  <1>5. n[2 * (d + 1) - 1] = f /\ n[2 * (d + 1)] = 0 /\ n[2 * d + 1] = f
    <2>1. 2 * (d + 1) - 1 = 2 * d + 1 /\ 2 * (d + 1) = 2 * d + 2 /\ 2 * d + 1 \in 1..(2 * d + 1)
      BY <1>0
    <2> QED
      BY <1>0, <1>1, <2>1
  <1>6. p[f].body \in DOMAIN p /\ Around(p)[p[f].body] = Loops(n, d + 1)
    <2>1. Loops(n, d + 1) = Loops(n, d) \cup {f}
      <3>1. 1..(d + 1) = 1..d \cup {d + 1}
        BY <1>0
      <3> QED
        BY <1>5, <3>1 DEF Loops
    <2>2. d \in 0..d
      BY <1>0
    <2> QED
      BY <1>3, <1>4, <2>1, <2>2, ZenonT(120) DEF Nests, f
  <1>7. ASSUME NEW k \in 1..(d + 1)
        PROVE  /\ n[2 * k - 1] \in DOMAIN p /\ p[n[2 * k - 1]].kind = "ForLoop"
               /\ n[2 * k] < p[n[2 * k - 1]].len
               /\ Around(p)[n[2 * k - 1]] = Loops(n, k - 1)
    <2>1. CASE k = d + 1
      <3>1. k - 1 = d /\ d \in 0..d
        BY <1>0, <2>1
      <3> QED
        BY <1>3, <1>4, <1>5, <2>1, <3>1 DEF f
    <2>2. CASE k \in 1..d
      BY <1>3, <2>2 DEF StackOK, d
    <2> QED
      BY <1>0, <2>1, <2>2
  <1>8. StackOK(p, n)
    BY <1>2, <1>6, <1>7 DEF StackOK
  <1>9. /\ StackOK(p, n) /\ Size(n) = d + 1
        /\ \A j \in 1..(2 * d + 1) : n[j] = st[j]
        /\ n[2 * d + 1] = f /\ n[2 * d + 2] = 0 /\ Top(n) = p[f].body
    BY <1>1, <1>2, <1>5, <1>8
  <1> QED
    BY <1>9, Zenon DEF n, f, d

\* No loop is inside of itself, so no loop is on the stack twice.
LEMMA LoopsApart ==
  ASSUME NEW p, NEW st, StackOK(p, st), Nests(p, Around(p)),
         NEW k \in 1..Size(st), NEW j \in 1..(k - 1)
  PROVE  st[2 * j - 1] # st[2 * k - 1]
  <1>1. Size(st) \in Nat
    BY SizeIn DEF StackOK
  <1>2. st[2 * j - 1] \in Loops(st, k - 1)
    BY <1>1 DEF Loops
  <1> QED
    BY <1>2 DEF StackOK, Nests

Statuses == Ended \cup {"Pending", "Running", "Waiting"}
Runs(p) == [status : Statuses, stack : Seq(Nat), item : [DOMAIN p -> Nat \cup {NoItem}], handler : BOOLEAN]

RunOK(p, o) == o \in Runs(p) /\ StackOK(p, o.stack) /\ ItemsOK(p, o)

\* The facts about a workflow that are used below.
LEMMA ProgramFacts ==
  ASSUME NEW p \in Programs, Nested(p)
  PROVE  /\ p \in Seq(Step) /\ Handler \notin DOMAIN p /\ 0 \notin DOMAIN p /\ DOMAIN p \subseteq Nat
         /\ Handler \in Nat \ {0}
         /\ Nests(p, Around(p)) /\ (Structured(p) => Forward(p, Around(p)))
         /\ \A s \in DOMAIN p : p[s] \in Step
  <1>1. \E around : Nests(p, around) /\ (Structured(p) => Forward(p, around))
    BY Zenon DEF Nested, Structured
  <1>2. Nests(p, Around(p)) /\ (Structured(p) => Forward(p, Around(p)))
    BY <1>1, Zenon DEF Around
  <1> QED
    BY <1>2, ProgramsAssumption

\* Where Advance leads to: to the step t, with the stack n.
Reaches(a, o, t, n) ==
  /\ a.step = t /\ a.run.stack = n /\ a.run.status = o.status /\ a.run.handler = o.handler
  /\ RunOK(prog, a.run) /\ n # <<>> /\ Top(n) = t

\* The innermost loop, its item, and the stacks of the next item and after it.
InLoop(o) == o.stack[2 * Size(o.stack) - 1]
AtItem(o) == o.stack[2 * Size(o.stack)]
NextStack(o) == SetTop([o.stack EXCEPT ![Len(o.stack) - 1] = AtItem(o) + 1], prog[InLoop(o)].body)
OutStack(o) == SetTop(SubSeq(o.stack, 1, Len(o.stack) - 2), prog[InLoop(o)].next)

LEMMA NextInChain ==
  ASSUME prog \in Programs, Nested(prog), NEW o, RunOK(prog, o), o.stack # <<>>,
         NEW s, s = Top(o.stack), NextOf(prog, s) # 0
  PROVE  /\ Reaches(Advance(o, s), o, NextOf(prog, s), SetTop(o.stack, NextOf(prog, s)))
         /\ Topped(o.stack, NextOf(prog, s), SetTop(o.stack, NextOf(prog, s)))
  <1> DEFINE st == o.stack
             d == Size(st)
             t == NextOf(prog, s)
             n == SetTop(st, t)
  <1>0. /\ o \in Runs(prog) /\ StackOK(prog, st) /\ ItemsOK(prog, o) /\ Shape(st) /\ d \in Nat
        /\ s \in DOMAIN prog /\ t = prog[s].next /\ s # Handler
    BY SizeIn, ProgramFacts DEF RunOK, StackOK, NextOf
  <1>1. t \in DOMAIN prog /\ t \in Nat /\ Around(prog)[t] = Loops(st, d)
    BY <1>0, ProgramFacts DEF Nests, StackOK
  <1>2. /\ n \in Seq(Nat) /\ Len(n) = 2 * d + 1 /\ Size(n) = d /\ n # <<>> /\ Top(n) = t
        /\ n[2 * d + 1] = t
        /\ \A j \in 1..(2 * d) : n[j] = st[j]
        /\ Topped(st, t, n)
    <2> HIDE DEF n
    <2>1. Topped(st, t, n)
      BY <1>0, <1>1, SetTopStack DEF n
    <2> QED
      BY <2>1, Zenon DEF Topped
  <1>3. Advance(o, s) = [step |-> t, run |-> [o EXCEPT !.stack = n]]
    BY DEF Advance, Go
  <1> HIDE DEF n, t
  <1>4. \A j \in 1..d : n[2 * j - 1] = st[2 * j - 1] /\ n[2 * j] = st[2 * j]
    <2> SUFFICES ASSUME NEW j \in 1..d PROVE n[2 * j - 1] = st[2 * j - 1] /\ n[2 * j] = st[2 * j]
      OBVIOUS
    <2>1. 2 * j - 1 \in 1..(2 * d) /\ 2 * j \in 1..(2 * d)
      BY <1>0
    <2> QED
      BY <1>2, <2>1
  <1>5. StackOK(prog, n)
    <2>1. \A j \in 1..d : st[2 * j] < prog[st[2 * j - 1]].len
      BY <1>0 DEF StackOK
    <2>2. d \in 0..Size(st)
      BY <1>0
    <2>3. \A j \in 1..d : n[2 * j - 1] = st[2 * j - 1] /\ n[2 * j] < prog[st[2 * j - 1]].len
      BY <1>4, <2>1
    <2> QED
      BY <1>0, <1>1, <1>2, <2>2, <2>3, FramesKept
  <1>6. ItemsOK(prog, [o EXCEPT !.stack = n])
    BY <1>0, <1>2, <1>4 DEF ItemsOK, Runs
  <1>7. [o EXCEPT !.stack = n] \in Runs(prog)
    BY <1>0, <1>2 DEF Runs
  <1>8. RunOK(prog, [o EXCEPT !.stack = n])
    <2>1. [o EXCEPT !.stack = n].stack = n
      BY <1>0 DEF Runs
    <2> QED
      BY <1>5, <1>6, <1>7, <2>1 DEF RunOK
  <1>9. Reaches(Advance(o, s), o, t, n)
    <2> DEFINE r == [o EXCEPT !.stack = n]
    <2>1. r.stack = n /\ r.status = o.status /\ r.handler = o.handler
      BY <1>0 DEF Runs
    <2> HIDE DEF r
    <2>2. Advance(o, s).step = t /\ Advance(o, s).run = r /\ RunOK(prog, r)
      BY <1>3, <1>8 DEF r
    <2> QED
      BY <1>2, <2>1, <2>2, Zenon DEF Reaches
  <1> QED
    BY <1>2, <1>9 DEF n, t

\* The innermost loop.
LEMMA InnerLoop ==
  ASSUME prog \in Programs, Nested(prog), NEW o, RunOK(prog, o), Size(o.stack) # 0
  PROVE  LET st == o.stack
             d == Size(st)
             f == st[2 * d - 1]
             i == st[2 * d]
         IN /\ d \in Nat /\ d >= 1 /\ Len(st) = 2 * d + 1 /\ Len(st) > 1 /\ Shape(st)
            /\ f = st[Len(st) - 2] /\ i = st[Len(st) - 1]
            /\ f \in DOMAIN prog /\ f \in Nat /\ f # Handler /\ prog[f] \in Step
            /\ prog[f].kind = "ForLoop" /\ prog[f].len \in Nat
            /\ i \in Nat /\ i < prog[f].len
            /\ \A j \in 1..(d - 1) : st[2 * j - 1] # f
  <1> DEFINE st == o.stack
             d == Size(st)
  <1>1. Shape(st) /\ StackOK(prog, st)
    BY DEF RunOK, StackOK
  <1>2. d \in Nat /\ st # <<>> /\ Len(st) = 2 * d + 1
    BY <1>1, SizeIn
  <1> HIDE DEF st
  <1>3. d >= 1 /\ Len(st) > 1 /\ Len(st) - 2 = 2 * d - 1 /\ Len(st) - 1 = 2 * d /\ d \in 1..Size(st)
    BY <1>2 DEF st
  <1>4. st[2 * d] \in Nat
    BY <1>1, <1>3, SizeIn
  <1>5. /\ st[2 * d - 1] \in DOMAIN prog /\ prog[st[2 * d - 1]].kind = "ForLoop"
        /\ st[2 * d] < prog[st[2 * d - 1]].len
    BY <1>1, <1>3 DEF StackOK
  <1>6. \A j \in 1..(d - 1) : st[2 * j - 1] # st[2 * d - 1]
    BY <1>1, <1>3, ProgramFacts, LoopsApart
  <1>7. LET f == st[2 * d - 1]
        IN f \in Nat /\ f # Handler /\ prog[f] \in Step /\ prog[f].len \in Nat
    BY <1>5, ProgramFacts DEF Step
  <1> QED
    BY <1>1, <1>2, <1>3, <1>4, <1>5, <1>6, <1>7 DEF st

LEMMA UpTo ==
  ASSUME NEW d \in Nat, d >= 1
  PROVE  1..d = 1..(d - 1) \cup {d}
OBVIOUS

HasItem(p, f, i) == p[f].kind = "ForLoop" /\ i < p[f].len

LEMMA NotLast ==
  ASSUME NEW f, NEW i \in Nat, prog[f].len \in Nat, MoreItems(f, i)
  PROVE  i + 1 < prog[f].len
  <1> DEFINE len == prog[f].len
  <1>1. len \in Nat /\ i < len - 1
    BY DEF MoreItems
  <1> HIDE DEF len
  <1>2. i + 1 < len
    BY <1>1
  <1> QED
    BY <1>2 DEF len

LEMMA LastItem ==
  ASSUME NEW f, NEW i \in Nat, prog[f].len \in Nat, i < prog[f].len, ~MoreItems(f, i)
  PROVE  i + 1 = prog[f].len
  <1> DEFINE len == prog[f].len
  <1>1. len \in Nat /\ i < len /\ ~(i < len - 1)
    BY DEF MoreItems
  <1> HIDE DEF len
  <1>2. i + 1 = len
    BY <1>1
  <1> QED
    BY <1>2 DEF len

\* The stack of a loop f that goes on with its item i, and the one of a loop that
\* is left for the step after it.
OnItem(p, st, f, i, n) ==
  /\ n \in Seq(Nat) /\ StackOK(p, n) /\ Size(n) = Size(st) /\ n # <<>> /\ Top(n) = p[f].body
  /\ \A j \in 1..(2 * Size(st)) : n[j] = IF j = 2 * Size(st) THEN i ELSE st[j]

AfterLoop(p, st, f, n) ==
  /\ n \in Seq(Nat) /\ StackOK(p, n) /\ Size(n) = Size(st) - 1 /\ n # <<>> /\ Top(n) = p[f].next
  /\ \A j \in 1..(2 * Size(st) - 2) : n[j] = st[j]

LEMMA StackNext ==
  ASSUME NEW p, NEW st, StackOK(p, st), Nests(p, Around(p)), DOMAIN p \subseteq Nat,
         NEW d \in Nat, d = Size(st), d >= 1, NEW i \in Nat,
         NEW f \in DOMAIN p, f = st[2 * d - 1], HasItem(p, f, i),
         NEW m, Indexed(st, i, m), NEW n, Topped(m, p[f].body, n)
  PROVE  OnItem(p, st, f, i, n)
  <1>1. /\ Size(m) = d /\ m[2 * d] = i
        /\ \A j \in 1..(2 * d - 1) : m[j] = st[j]
    BY Zenon DEF Indexed
  <1>2. /\ n \in Seq(Nat) /\ Len(n) = 2 * d + 1 /\ Size(n) = d /\ n # <<>> /\ Top(n) = p[f].body
        /\ n[2 * d + 1] = p[f].body
        /\ \A j \in 1..(2 * d) : n[j] = m[j]
    BY <1>1, Zenon DEF Topped
  <1>3. /\ p[f].body \in DOMAIN p
        /\ Around(p)[p[f].body] = Around(p)[f] \cup {f}
    BY DEF Nests, HasItem
  <1>4. Loops(st, d) = Around(p)[f] \cup {f}
    <2>1. Around(p)[f] = Loops(st, d - 1)
      BY DEF StackOK
    <2>2. 1..d = 1..(d - 1) \cup {d}
      BY UpTo
    <2> QED
      BY <2>1, <2>2 DEF Loops
  <1>5. \A j \in 1..(2 * d) : n[j] = IF j = 2 * d THEN i ELSE st[j]
    BY <1>1, <1>2, SMTT(30)
  <1>6. \A j \in 1..d : n[2 * j - 1] = st[2 * j - 1] /\ n[2 * j] < p[st[2 * j - 1]].len
    <2> SUFFICES ASSUME NEW j \in 1..d
                 PROVE  n[2 * j - 1] = st[2 * j - 1] /\ n[2 * j] < p[st[2 * j - 1]].len
      OBVIOUS
    <2>1. 2 * j - 1 \in 1..(2 * d) /\ 2 * j \in 1..(2 * d) /\ 2 * j - 1 # 2 * d
      OBVIOUS
    <2>2. st[2 * j] < p[st[2 * j - 1]].len
      BY DEF StackOK
    <2>3. 2 * j = 2 * d => j = d
      OBVIOUS
    <2> QED
      BY <1>5, <2>1, <2>2, <2>3 DEF HasItem
  <1>7. StackOK(p, n)
    <2>1. d \in 0..Size(st)
      OBVIOUS
    <2> QED
      BY <1>2, <1>3, <1>4, <1>6, <2>1, FramesKept
  <1> QED
    BY <1>2, <1>5, <1>7, Zenon DEF OnItem

LEMMA StackPop ==
  ASSUME NEW p, NEW st, StackOK(p, st), Nests(p, Around(p)), DOMAIN p \subseteq Nat,
         NEW d \in Nat, d = Size(st), d >= 1,
         NEW f \in DOMAIN p, f = st[2 * d - 1], p[f].next # 0,
         NEW m, Popped(st, m), NEW n, Topped(m, p[f].next, n)
  PROVE  AfterLoop(p, st, f, n)
  <1>1. /\ Size(m) = d - 1
        /\ \A j \in 1..(2 * d - 1) : m[j] = st[j]
    BY Zenon DEF Popped
  <1>2. /\ n \in Seq(Nat) /\ Len(n) = 2 * (d - 1) + 1 /\ Size(n) = d - 1 /\ n # <<>> /\ Top(n) = p[f].next
        /\ n[2 * (d - 1) + 1] = p[f].next
        /\ \A j \in 1..(2 * (d - 1)) : n[j] = m[j]
    BY <1>1, Zenon DEF Topped
  <1>3. p[f].next \in DOMAIN p /\ Around(p)[p[f].next] = Loops(st, d - 1)
    BY DEF Nests, StackOK
  <1>4. \A j \in 1..(2 * d - 2) : n[j] = st[j]
    <2> SUFFICES ASSUME NEW j \in 1..(2 * d - 2) PROVE n[j] = st[j]
      OBVIOUS
    <2>1. j \in 1..(2 * (d - 1)) /\ j \in 1..(2 * d - 1)
      OBVIOUS
    <2> QED
      BY <1>1, <1>2, <2>1
  <1>5. \A j \in 1..(d - 1) : n[2 * j - 1] = st[2 * j - 1] /\ n[2 * j] < p[st[2 * j - 1]].len
    <2> SUFFICES ASSUME NEW j \in 1..(d - 1)
                 PROVE  n[2 * j - 1] = st[2 * j - 1] /\ n[2 * j] < p[st[2 * j - 1]].len
      OBVIOUS
    <2>1. 2 * j - 1 \in 1..(2 * d - 2) /\ 2 * j \in 1..(2 * d - 2) /\ j \in 1..d
      OBVIOUS
    <2>2. st[2 * j] < p[st[2 * j - 1]].len
      BY <2>1 DEF StackOK
    <2> QED
      BY <1>4, <2>1, <2>2
  <1>6. StackOK(p, n)
    <2>1. d - 1 \in 0..Size(st)
      OBVIOUS
    <2> QED
      BY <1>2, <1>3, <1>5, <2>1, FramesKept
  <1> QED
    BY <1>2, <1>4, <1>6, Zenon DEF AfterLoop

LEMMA NextOfLoop ==
  ASSUME prog \in Programs, Nested(prog), NEW o, RunOK(prog, o), NEW s, NextOf(prog, s) = 0,
         Size(o.stack) # 0, MoreItems(InLoop(o), AtItem(o))
  PROVE  /\ Reaches(Advance(o, s), o, prog[InLoop(o)].body, NextStack(o))
         /\ OnItem(prog, o.stack, InLoop(o), AtItem(o) + 1, NextStack(o))
         /\ AtItem(o) + 1 < prog[InLoop(o)].len
  <1> DEFINE st == o.stack
             d == Size(st)
             f == st[2 * d - 1]
             i == st[2 * d]
             m == [st EXCEPT ![Len(st) - 1] = i + 1]
             n == SetTop(m, prog[f].body)
             item == [o.item EXCEPT ![f] = i + 1]
             next == [o EXCEPT !.stack = n, !.item = item]
  <1>0. /\ d \in Nat /\ d >= 1 /\ Len(st) = 2 * d + 1 /\ Len(st) > 1 /\ Shape(st)
        /\ f = st[Len(st) - 2] /\ i = st[Len(st) - 1]
        /\ f \in DOMAIN prog /\ prog[f].kind = "ForLoop" /\ prog[f].len \in Nat
        /\ i \in Nat /\ i < prog[f].len
        /\ \A j \in 1..(d - 1) : st[2 * j - 1] # f
    BY InnerLoop
  <1>1. o \in Runs(prog) /\ StackOK(prog, st) /\ ItemsOK(prog, o)
    BY DEF RunOK
  <1>c. MoreItems(f, i)
    BY DEF InLoop, AtItem
  <1>2. Advance(o, s) = [step |-> prog[f].body, run |-> next]
    <2>1. Advance(o, s) = NextItem(o, f, i)
      BY <1>0, <1>c DEF Advance
    <2>2. [o EXCEPT !.stack[Len(o.stack) - 1] = i + 1, !.item[f] = i + 1]
            = [o EXCEPT !.stack = m, !.item = item]
      BY <1>1 DEF Runs
    <2>3. [[o EXCEPT !.stack = m, !.item = item] EXCEPT !.stack = n] = next
      BY <1>1 DEF Runs
    <2>4. [o EXCEPT !.stack = m, !.item = item].stack = m
      BY <1>1 DEF Runs
    <2> QED
      <3>1. NextItem(o, f, i) = Go([o EXCEPT !.stack = m, !.item = item], prog[f].body)
        BY <2>2, Zenon DEF NextItem
      <3> HIDE DEF m, item, n
      <3>2. Go([o EXCEPT !.stack = m, !.item = item], prog[f].body) = [step |-> prog[f].body, run |-> next]
        BY <2>3, <2>4 DEF Go, n
      <3> QED
        BY <2>1, <3>1, <3>2, Zenon
  <1>3. i + 1 < prog[f].len /\ HasItem(prog, f, i + 1)
    BY <1>0, <1>c, NotLast DEF HasItem
  <1>4. /\ n \in Seq(Nat) /\ StackOK(prog, n) /\ Size(n) = d /\ n # <<>> /\ Top(n) = prog[f].body
        /\ \A j \in 1..(2 * d) : n[j] = IF j = 2 * d THEN i + 1 ELSE st[j]
        /\ OnItem(prog, st, f, i + 1, n)
    <2> HIDE DEF n, m, st, f, i, d
    <2>1. DOMAIN prog \subseteq Nat /\ Nests(prog, Around(prog))
      BY ProgramFacts
    <2>2. StackOK(prog, st) /\ d = Size(st) /\ i = st[2 * d] /\ f = st[2 * d - 1]
      BY <1>1 DEF st, d, i, f
    <2>3. i + 1 \in Nat /\ Indexed(st, i + 1, m)
      <3>1. i + 1 \in Nat /\ Shape(st) /\ Size(st) >= 1
        BY <1>0, <2>2, SMTT(30)
      <3> QED
        BY <3>1, IndexStack DEF m
    <2>4. prog[f].body \in Nat
      BY <1>0, <2>1 DEF Nests
    <2>5. Topped(m, prog[f].body, n)
      BY <2>3, <2>4, SetTopStack DEF n, Indexed
    <2> QED
      <3> DEFINE x == i + 1
      <3>1. d \in Nat /\ d >= 1 /\ f \in DOMAIN prog /\ HasItem(prog, f, x)
        BY <1>0, <1>3
      <3>2. x \in Nat /\ Indexed(st, x, m)
        BY <2>3
      <3> HIDE DEF x
      <3>3. OnItem(prog, st, f, x, n)
        BY <2>1, <2>2, <2>5, <3>1, <3>2, StackNext
      <3> QED
        BY <2>2, <3>3 DEF x, OnItem
  <1> HIDE DEF n
  <1>5. \A j \in 1..d : st[2 * j - 1] \in DOMAIN prog /\ o.item[st[2 * j - 1]] = st[2 * j]
    BY <1>1 DEF StackOK, ItemsOK
  <1>6. o.item \in [DOMAIN prog -> Nat \cup {NoItem}]
    BY <1>1 DEF Runs
  <1> HIDE DEF st, f, i, d
  <1>7. \A j \in 1..d : item[n[2 * j - 1]] = n[2 * j]
    <2> SUFFICES ASSUME NEW j \in 1..d PROVE item[n[2 * j - 1]] = n[2 * j]
      OBVIOUS
    <2>1. 2 * j - 1 \in 1..(2 * d) /\ 2 * j \in 1..(2 * d) /\ 2 * j - 1 # 2 * d /\ (2 * j = 2 * d <=> j = d)
      BY <1>0
    <2>2. n[2 * j - 1] = st[2 * j - 1] /\ n[2 * j] = IF j = d THEN i + 1 ELSE st[2 * j]
      BY <1>4, <2>1
    <2>3. CASE j = d
      <3>1. n[2 * j - 1] = f
        BY <2>2, <2>3 DEF f
      <3> QED
        BY <1>0, <1>6, <2>2, <2>3, <3>1
    <2>4. CASE j # d
      <3>1. j \in 1..(d - 1)
        BY <1>0, <2>4
      <3> QED
        BY <1>0, <1>5, <1>6, <2>2, <2>4, <3>1
    <2> QED
      BY <2>3, <2>4
  <1>8. item \in [DOMAIN prog -> Nat \cup {NoItem}]
    BY <1>0, <1>6
  <1> HIDE DEF item
  <1>9. next \in Runs(prog) /\ next.stack = n /\ next.item = item
    BY <1>1, <1>4, <1>8 DEF Runs
  <1>10. RunOK(prog, next)
    BY <1>4, <1>7, <1>8, <1>9 DEF RunOK, ItemsOK
  <1>11. Reaches(Advance(o, s), o, prog[f].body, n)
    <2>1. next.status = o.status /\ next.handler = o.handler
      BY <1>1 DEF Runs
    <2> HIDE DEF next
    <2>2. Advance(o, s).step = prog[f].body /\ Advance(o, s).run = next
      BY <1>2
    <2> QED
      BY <1>4, <1>9, <1>10, <2>1, <2>2, Zenon DEF Reaches
  <1> QED
    BY <1>3, <1>4, <1>11, Zenon DEF n, m, f, i, d, st, InLoop, AtItem, NextStack

LEMMA NextAfterLoop ==
  ASSUME prog \in Programs, Nested(prog), NEW o, RunOK(prog, o), NEW s, NextOf(prog, s) = 0,
         Size(o.stack) # 0, ~MoreItems(InLoop(o), AtItem(o)), prog[InLoop(o)].next # 0
  PROVE  /\ Reaches(Advance(o, s), o, prog[InLoop(o)].next, OutStack(o))
         /\ AfterLoop(prog, o.stack, InLoop(o), OutStack(o))
         /\ AtItem(o) + 1 = prog[InLoop(o)].len
  <1> DEFINE st == o.stack
             d == Size(st)
             f == st[2 * d - 1]
             i == st[2 * d]
             m == SubSeq(st, 1, Len(st) - 2)
             n == SetTop(m, prog[f].next)
             item == [o.item EXCEPT ![f] = NoItem]
             next == [o EXCEPT !.stack = n, !.item = item]
  <1>0. /\ d \in Nat /\ d >= 1 /\ Len(st) = 2 * d + 1 /\ Len(st) > 1 /\ Shape(st)
        /\ f = st[Len(st) - 2] /\ i = st[Len(st) - 1]
        /\ f \in DOMAIN prog /\ f # Handler /\ prog[f].kind = "ForLoop" /\ prog[f].len \in Nat
        /\ i \in Nat /\ i < prog[f].len
        /\ \A j \in 1..(d - 1) : st[2 * j - 1] # f
    BY InnerLoop
  <1>1. o \in Runs(prog) /\ StackOK(prog, st) /\ ItemsOK(prog, o)
    BY DEF RunOK
  <1>c. ~MoreItems(f, i) /\ prog[f].next # 0
    BY DEF InLoop, AtItem
  <1>2. Advance(o, s) = [step |-> prog[f].next, run |-> next]
    <2>1. Advance(o, s) = LeaveLoop(o, f)
      BY <1>0, <1>c DEF Advance
    <2>2. NextOf(prog, f) = prog[f].next
      BY <1>0 DEF NextOf
    <2>3. [[o EXCEPT !.stack = m, !.item = item] EXCEPT !.stack = n] = next
      BY <1>1 DEF Runs
    <2>4. [o EXCEPT !.stack = m, !.item = item].stack = m
      BY <1>1 DEF Runs
    <2>5. LeaveLoop(o, f) = Go([o EXCEPT !.stack = m, !.item = item], prog[f].next)
      BY <1>c, <2>2 DEF LeaveLoop
    <2> HIDE DEF m, item, n
    <2>6. Go([o EXCEPT !.stack = m, !.item = item], prog[f].next) = [step |-> prog[f].next, run |-> next]
      BY <2>3, <2>4 DEF Go, n
    <2> QED
      BY <2>1, <2>5, <2>6, Zenon
  <1>3. i + 1 = prog[f].len
    BY <1>0, <1>c, LastItem
  <1>4. /\ n \in Seq(Nat) /\ StackOK(prog, n) /\ Size(n) = d - 1 /\ n # <<>> /\ Top(n) = prog[f].next
        /\ \A j \in 1..(2 * d - 2) : n[j] = st[j]
        /\ AfterLoop(prog, st, f, n)
    <2> HIDE DEF n, m, st, f, i, d
    <2>1. DOMAIN prog \subseteq Nat /\ Nests(prog, Around(prog))
      BY ProgramFacts
    <2>2. StackOK(prog, st) /\ d = Size(st) /\ f = st[2 * d - 1]
      BY <1>1 DEF st, d, f
    <2>3. Popped(st, m)
      <3>1. Shape(st) /\ Size(st) >= 1
        BY <1>0, <2>2
      <3> QED
        BY <3>1, PopStack DEF m
    <2>4. prog[f].next \in Nat
      BY <1>0, <2>1 DEF Nests
    <2>5. Topped(m, prog[f].next, n)
      BY <2>3, <2>4, SetTopStack DEF n, Popped
    <2>6. AfterLoop(prog, st, f, n)
      BY <1>0, <1>c, <2>1, <2>2, <2>3, <2>5, StackPop
    <2> QED
      BY <2>2, <2>6 DEF AfterLoop
  <1> HIDE DEF n
  <1>5. \A j \in 1..d : st[2 * j - 1] \in DOMAIN prog /\ o.item[st[2 * j - 1]] = st[2 * j]
    BY <1>1 DEF StackOK, ItemsOK
  <1>6. o.item \in [DOMAIN prog -> Nat \cup {NoItem}]
    BY <1>1 DEF Runs
  <1> HIDE DEF st, f, i, d
  <1>7. \A j \in 1..(d - 1) : item[n[2 * j - 1]] = n[2 * j]
    <2> SUFFICES ASSUME NEW j \in 1..(d - 1) PROVE item[n[2 * j - 1]] = n[2 * j]
      OBVIOUS
    <2>1. 2 * j - 1 \in 1..(2 * d - 2) /\ 2 * j \in 1..(2 * d - 2) /\ j \in 1..d
      BY <1>0
    <2>2. n[2 * j - 1] = st[2 * j - 1] /\ n[2 * j] = st[2 * j]
      BY <1>4, <2>1
    <2> QED
      BY <1>0, <1>5, <1>6, <2>1, <2>2
  <1>8. item \in [DOMAIN prog -> Nat \cup {NoItem}]
    BY <1>0, <1>6
  <1> HIDE DEF item
  <1>9. next \in Runs(prog) /\ next.stack = n /\ next.item = item
    BY <1>1, <1>4, <1>8 DEF Runs
  <1>10. RunOK(prog, next)
    BY <1>4, <1>7, <1>8, <1>9 DEF RunOK, ItemsOK
  <1>11. Reaches(Advance(o, s), o, prog[f].next, n)
    <2>1. next.status = o.status /\ next.handler = o.handler
      BY <1>1 DEF Runs
    <2> HIDE DEF next
    <2>2. Advance(o, s).step = prog[f].next /\ Advance(o, s).run = next
      BY <1>2
    <2> QED
      BY <1>4, <1>9, <1>10, <2>1, <2>2, Zenon DEF Reaches
  <1> QED
    BY <1>3, <1>4, <1>11, Zenon DEF n, m, f, i, d, st, InLoop, AtItem, OutStack

LEMMA FinishTyped ==
  ASSUME NEW o \in Runs(prog)
  PROVE  Finish(o).step = 0 /\ Finish(o).run \in Runs(prog) /\ Finish(o).run.status = "Finished"
BY DEF Finish, Runs, Statuses, Ended

\* The workflow ends when the last step outside of all loops is done, or the
\* last item of a loop that has no next step.
LEMMA NextFinishes ==
  ASSUME prog \in Programs, Nested(prog), NEW o, RunOK(prog, o), NEW s, NextOf(prog, s) = 0,
         \/ Size(o.stack) = 0
         \/ ~MoreItems(InLoop(o), AtItem(o)) /\ prog[InLoop(o)].next = 0
  PROVE  LET a == Advance(o, s) IN
         /\ a.step = 0 /\ a.run \in Runs(prog) /\ a.run.status = "Finished"
         /\ Size(o.stack) # 0 => /\ InLoop(o) \in DOMAIN prog /\ prog[InLoop(o)].kind = "ForLoop"
                                 /\ AtItem(o) + 1 = prog[InLoop(o)].len
  <1> USE DEF InLoop, AtItem
  <1> DEFINE st == o.stack
             d == Size(st)
             f == st[2 * d - 1]
             i == st[2 * d]
             a == Advance(o, s)
  <1>1. o \in Runs(prog) /\ st \in Seq(Nat) /\ Shape(st)
    BY DEF RunOK, StackOK, Shape
  <1>2. CASE d = 0
    <2>1. Len(st) <= 1
      BY <1>1, <1>2, SizeIn
    <2>2. a = Finish(o)
      BY <1>1, <2>1 DEF Advance
    <2> QED
      BY <1>1, <1>2, <2>2, FinishTyped
  <1>3. CASE d # 0
    <2>1. /\ Len(st) > 1 /\ f = st[Len(st) - 2] /\ i = st[Len(st) - 1]
          /\ f \in DOMAIN prog /\ f # Handler /\ prog[f].kind = "ForLoop" /\ prog[f].len \in Nat
          /\ i \in Nat /\ i < prog[f].len
      BY <1>3, InnerLoop
    <2>c. ~MoreItems(f, i) /\ prog[f].next = 0
      BY <1>3
    <2>2. a = LeaveLoop(o, f)
      BY <2>1, <2>c DEF Advance
    <2> DEFINE m == SubSeq(st, 1, Len(st) - 2)
               item == [o.item EXCEPT ![f] = NoItem]
    <2>3. a = Finish([o EXCEPT !.stack = m, !.item = item])
      BY <2>1, <2>2, <2>c DEF LeaveLoop, NextOf
    <2>4. m \in Seq(Nat) /\ item \in [DOMAIN prog -> Nat \cup {NoItem}]
      BY <1>1, <2>1, SMTT(30) DEF Runs
    <2>5. i + 1 = prog[f].len
      BY <2>1, <2>c, LastItem
    <2> HIDE DEF m, item
    <2>6. a.step = 0 /\ a.run \in Runs(prog) /\ a.run.status = "Finished"
      <3> DEFINE r == [o EXCEPT !.stack = m, !.item = item]
      <3>1. r \in Runs(prog)
        BY <1>1, <2>4 DEF Runs
      <3> HIDE DEF r
      <3>2. a = Finish(r)
        BY <2>3 DEF r
      <3> QED
        BY <3>1, <3>2, FinishTyped
    <2> QED
      BY <2>1, <2>5, <2>6
  <1> QED
    BY <1>2, <1>3

-------------------------------------------------------------------------------
(* The invariant of the run: what is kept of it in the row, and where the  *)
(* call is.                                                                *)

\* The run o is executed and has come to the step s.
GoodAt(p, o, s) == RunOK(p, o) /\ o.status = "Running" /\ o.stack # <<>> /\ s = Top(o.stack)

RowOK(p, o) == o \in Runs(p) /\ (o.status \notin Ended => RunOK(p, o))

Logs == Seq(Nat \X Seq(Nat))
Rows(p) == [run : Runs(p), log : Logs]
Calls == [on : BOOLEAN, tx : BOOLEAN, inter : BOOLEAN, step : Nat, fulfilled : BOOLEAN]

EngineInv ==
  /\ prog \in Programs
  /\ obj \in Runs(prog)
  /\ row \in Rows(prog) /\ RowOK(prog, row.run)
  /\ kept \in Rows(prog) /\ RowOK(prog, kept.run)
  /\ call \in Calls
  /\ call.on => obj = row.run /\ GoodAt(prog, obj, call.step)
  /\ crashes \in 0..MaxCrashes

LEMMA AdvanceOK ==
  ASSUME prog \in Programs, Nested(prog), NEW o, NEW s, GoodAt(prog, o, s)
  PROVE  LET a == Advance(o, s) IN
         /\ RowOK(prog, a.run) /\ a.step \in Nat
         /\ a.step = 0 => a.run.status = "Finished"
         /\ a.step # 0 => GoodAt(prog, a.run, a.step)
  <1> DEFINE a == Advance(o, s)
  <1> SUFFICES /\ RowOK(prog, a.run) /\ a.step \in Nat
               /\ a.step = 0 => a.run.status = "Finished"
               /\ a.step # 0 => GoodAt(prog, a.run, a.step)
    OBVIOUS
  <1>1. RunOK(prog, o) /\ o.status = "Running" /\ o.stack # <<>> /\ s = Top(o.stack)
    BY DEF GoodAt
  <1>2. \/ \E t, n : Reaches(a, o, t, n)
        \/ a.step = 0 /\ a.run \in Runs(prog) /\ a.run.status = "Finished"
    <2>1. CASE NextOf(prog, s) # 0
      <3>1. Reaches(Advance(o, s), o, NextOf(prog, s), SetTop(o.stack, NextOf(prog, s)))
        BY <1>1, <2>1, NextInChain, Zenon
      <3> HIDE DEF a
      <3> QED
        BY <3>1 DEF a
    <2>2. CASE NextOf(prog, s) = 0 /\ Size(o.stack) # 0 /\ MoreItems(InLoop(o), AtItem(o))
      <3>1. Reaches(Advance(o, s), o, prog[InLoop(o)].body, NextStack(o))
        BY <1>1, <2>2, NextOfLoop, Zenon
      <3> HIDE DEF a
      <3> QED
        BY <3>1 DEF a
    <2>3. CASE /\ NextOf(prog, s) = 0 /\ Size(o.stack) # 0
               /\ ~MoreItems(InLoop(o), AtItem(o)) /\ prog[InLoop(o)].next # 0
      <3>1. Reaches(Advance(o, s), o, prog[InLoop(o)].next, OutStack(o))
        BY <1>1, <2>3, NextAfterLoop, Zenon
      <3> HIDE DEF a
      <3> QED
        BY <3>1 DEF a
    <2>4. CASE /\ NextOf(prog, s) = 0
               /\ \/ Size(o.stack) = 0
                  \/ ~MoreItems(InLoop(o), AtItem(o)) /\ prog[InLoop(o)].next = 0
      BY <1>1, <2>4, NextFinishes, Zenon
    <2> QED
      BY <2>1, <2>2, <2>3, <2>4, Zenon
  <1> HIDE DEF a
  <1>3. ASSUME NEW t, NEW n, Reaches(a, o, t, n)
        PROVE  RowOK(prog, a.run) /\ a.step \in Nat /\ a.step # 0 /\ GoodAt(prog, a.run, a.step)
    <2>1. Top(n) \in Nat /\ Top(n) # 0
      BY <1>3, ProgramFacts DEF Reaches, RunOK, StackOK
    <2> QED
      BY <1>1, <1>3, <2>1 DEF RowOK, GoodAt, RunOK, Reaches
  <1>4. ASSUME a.step = 0, a.run \in Runs(prog), a.run.status = "Finished"
        PROVE  RowOK(prog, a.run) /\ a.step \in Nat
    BY <1>4 DEF RowOK, Ended
  <1> QED
    BY <1>2, <1>3, <1>4

LEMMA CallAt ==
  ASSUME EngineInv, call.on
  PROVE  /\ obj = row.run /\ GoodAt(prog, obj, call.step) /\ RunOK(prog, obj) /\ obj \in Runs(prog)
         /\ obj.status = "Running" /\ call.step \in Nat /\ row.log \in Logs
         /\ call.step # Handler => call.step \in DOMAIN prog
         /\ Done(call.step) \in Logs
  <1>1. /\ obj = row.run /\ GoodAt(prog, obj, call.step) /\ RunOK(prog, obj) /\ obj \in Runs(prog)
        /\ obj.status = "Running" /\ call.step \in Nat /\ row.log \in Logs
    BY DEF EngineInv, GoodAt, Rows, Calls
  <1>2. call.step # Handler => call.step \in DOMAIN prog
    BY <1>1 DEF GoodAt, RunOK, StackOK
  <1>3. Indices(obj.stack) \in Seq(Nat)
    <2>1. Shape(obj.stack) /\ Size(obj.stack) \in Nat
      BY <1>1, SizeIn DEF RunOK, StackOK
    <2>2. \A k \in 1..Size(obj.stack) : obj.stack[2 * k] \in Nat
      BY <2>1, SizeIn
    <2>3. Indices(obj.stack) = [k \in 1..Size(obj.stack) |-> obj.stack[2 * k]]
      BY DEF Indices, Size
    <2> QED
      BY <2>1, <2>2, <2>3
  <1>4. Done(call.step) \in Logs
    BY <1>1, <1>3 DEF Done, Logs
  <1> QED
    BY <1>1, <1>2, <1>4

\* The run r and the log are written, and the call goes on with it or ends.
LEMMA Written ==
  ASSUME EngineInv, NEW r, RowOK(prog, r), NEW log \in Logs,
         obj' = r, row' = [run |-> r, log |-> log],
         call' \in Calls, call'.on => GoodAt(prog, r, call'.step),
         UNCHANGED <<prog, kept, crashes>>
  PROVE  EngineInv'
  <1>1. row' \in Rows(prog) /\ row'.run = r /\ r \in Runs(prog)
    BY DEF Rows, RowOK
  <1> QED
    BY <1>1 DEF EngineInv

LEMMA ContinueOK ==
  ASSUME EngineInv, call.on, NEW next, NEW log \in Logs, Continue(next, log),
         RowOK(prog, next.run), next.step \in Nat,
         next.step # 0 => GoodAt(prog, next.run, next.step),
         UNCHANGED <<prog, kept, crashes>>
  PROVE  EngineInv'
  <1>1. call' \in Calls /\ (call'.on => GoodAt(prog, next.run, call'.step))
    BY DEF Continue, EngineInv, Calls, NoCall
  <1> QED
    BY <1>1, Written DEF Continue

LEMMA ReturnOK ==
  ASSUME EngineInv, NEW r, RowOK(prog, r), NEW log \in Logs, Return(r, log),
         UNCHANGED <<prog, kept, crashes>>
  PROVE  EngineInv'
  <1>1. call' \in Calls /\ ~call'.on
    BY DEF Return, Calls, NoCall
  <1> QED
    BY <1>1, Written DEF Return

\* The stack keeps its loops when another step of theirs is put at its top.
LEMMA StackTop ==
  ASSUME NEW p, NEW st, StackOK(p, st), NEW s \in Nat,
         s # Handler => s \in DOMAIN p /\ Around(p)[s] = Loops(st, Size(st))
  PROVE  StackOK(p, SetTop(st, s)) /\ Topped(st, s, SetTop(st, s))
  <1> DEFINE n == SetTop(st, s)
             d == Size(st)
  <1>1. Topped(st, s, n)
    BY SetTopStack DEF StackOK
  <1>2. d \in Nat /\ d \in 0..Size(st) /\ \A j \in 1..d : st[2 * j] < p[st[2 * j - 1]].len
    BY SizeIn DEF StackOK
  <1> HIDE DEF n
  <1>3. /\ n \in Seq(Nat) /\ Len(n) = 2 * d + 1 /\ n[2 * d + 1] = s
        /\ \A j \in 1..(2 * d) : n[j] = st[j]
    BY <1>1, Zenon DEF Topped
  <1> HIDE DEF d
  <1>4. \A j \in 1..d : n[2 * j - 1] = st[2 * j - 1] /\ n[2 * j] < p[st[2 * j - 1]].len
    <2> SUFFICES ASSUME NEW j \in 1..d
                 PROVE  n[2 * j - 1] = st[2 * j - 1] /\ n[2 * j] < p[st[2 * j - 1]].len
      OBVIOUS
    <2>1. 2 * j - 1 \in 1..(2 * d) /\ 2 * j \in 1..(2 * d)
      BY <1>2
    <2> QED
      BY <1>2, <1>3, <2>1
  <1>5. StackOK(p, n)
    <2>1. s # Handler => s \in DOMAIN p /\ Around(p)[s] = Loops(st, d)
      BY DEF d
    <2> QED
      BY <1>2, <1>3, <1>4, <2>1, FramesKept
  <1> QED
    BY <1>1, <1>5 DEF n

\* And the run its items.
LEMMA RunTop ==
  ASSUME NEW p, NEW o, RunOK(p, o), NEW n, StackOK(p, n), NEW s, Topped(o.stack, s, n), NEW r,
         r \in Runs(p), r.stack = n, r.item = o.item
  PROVE  RunOK(p, r)
  <1> DEFINE st == o.stack
             d == Size(st)
  <1>1. d \in Nat /\ Size(n) = d /\ \A j \in 1..(2 * d) : n[j] = st[j]
    BY SizeIn DEF RunOK, StackOK, Topped
  <1>2. o.item \in [DOMAIN p -> Nat \cup {NoItem}] /\ \A k \in 1..d : o.item[st[2 * k - 1]] = st[2 * k]
    BY DEF RunOK, ItemsOK
  <1> HIDE DEF d, st
  <1>3. \A k \in 1..d : r.item[n[2 * k - 1]] = n[2 * k]
    <2> SUFFICES ASSUME NEW k \in 1..d PROVE r.item[n[2 * k - 1]] = n[2 * k]
      OBVIOUS
    <2>1. 2 * k - 1 \in 1..(2 * d) /\ 2 * k \in 1..(2 * d)
      BY <1>1
    <2> QED
      BY <1>1, <1>2, <2>1
  <1> QED
    BY <1>1, <1>2, <1>3 DEF RunOK, ItemsOK

LEMMA RunChanged ==
  ASSUME NEW o, RunOK(prog, o), NEW status \in Statuses, NEW handler \in BOOLEAN
  PROVE  /\ RunOK(prog, [o EXCEPT !.status = status]) /\ [o EXCEPT !.status = status].status = status
         /\ [o EXCEPT !.status = status].stack = o.stack
         /\ [o EXCEPT !.status = status].handler = o.handler
         /\ RunOK(prog, [o EXCEPT !.handler = handler])
         /\ [o EXCEPT !.handler = handler].status = o.status
         /\ [o EXCEPT !.handler = handler].stack = o.stack
         /\ [o EXCEPT !.handler = handler].handler = handler
  <1>1. o \in Runs(prog)
    BY DEF RunOK
  <1> DEFINE q == [o EXCEPT !.status = status]
             r == [o EXCEPT !.handler = handler]
  <1>2. q \in Runs(prog) /\ q.status = status /\ q.stack = o.stack /\ q.item = o.item /\ q.handler = o.handler
    BY <1>1 DEF Runs
  <1>3. r \in Runs(prog) /\ r.status = o.status /\ r.stack = o.stack /\ r.item = o.item /\ r.handler = handler
    BY <1>1 DEF Runs
  <1> HIDE DEF q, r
  <1>4. RunOK(prog, q) /\ RunOK(prog, r)
    BY <1>2, <1>3 DEF RunOK, ItemsOK
  <1> QED
    BY <1>2, <1>3, <1>4 DEF q, r

LEMMA RunningAgain ==
  ASSUME EngineInv, Nested(prog), RunOK(prog, row.run)
  PROVE  LET o == row.run
             s == Top(o.stack)
             r == [o EXCEPT !.status = "Running", !.stack = SetTop(o.stack, s)]
         IN GoodAt(prog, r, s) /\ r.handler = o.handler /\ Topped(o.stack, s, r.stack)
  <1> DEFINE o == row.run
             st == o.stack
             s == Top(st)
             n == SetTop(st, s)
             r == [o EXCEPT !.status = "Running", !.stack = n]
  <1>1. RunOK(prog, o) /\ o \in Runs(prog) /\ StackOK(prog, st) /\ s \in Nat
    BY SizeIn DEF RunOK, StackOK
  <1>2. s # Handler => s \in DOMAIN prog /\ Around(prog)[s] = Loops(st, Size(st))
    BY <1>1 DEF StackOK
  <1>3. StackOK(prog, n) /\ Topped(st, s, n)
    <2> HIDE DEF s, st
    <2> QED
      BY <1>1, <1>2, StackTop
  <1>4. n \in Seq(Nat) /\ n # <<>> /\ Top(n) = s
    BY <1>3, Zenon DEF Topped
  <1> HIDE DEF n, s
  <1>5. r \in Runs(prog) /\ r.stack = n /\ r.item = o.item /\ r.status = "Running" /\ r.handler = o.handler
    BY <1>1, <1>4 DEF Runs, Statuses
  <1> HIDE DEF r
  <1>6. RunOK(prog, r)
    BY <1>1, <1>3, <1>5, RunTop
  <1>7. GoodAt(prog, r, s)
    BY <1>4, <1>5, <1>6 DEF GoodAt
  <1>8. GoodAt(prog, r, s) /\ r.handler = o.handler /\ Topped(st, s, r.stack)
    BY <1>3, <1>5, <1>7
  <1> QED
    BY <1>8, Zenon DEF r, n, s

LEMMA CallKeeps ==
  ASSUME EngineInv, Nested(prog), NEW tx \in BOOLEAN, NEW inter \in BOOLEAN, Call(tx, inter)
  PROVE  EngineInv' /\ GoodAt(prog, obj', call'.step)
  <1> DEFINE o == row.run
             s == Top(o.stack)
             r == [o EXCEPT !.status = "Running", !.stack = SetTop(o.stack, s)]
  <1>1. RunOK(prog, o) /\ row \in Rows(prog)
    BY DEF EngineInv, RowOK, Call
  <1>2. GoodAt(prog, r, s)
    BY <1>1, RunningAgain
  <1>3. r \in Runs(prog) /\ s \in Nat /\ RowOK(prog, r)
    <2> HIDE DEF r, s
    <2>1. RunOK(prog, r)
      BY <1>2 DEF GoodAt
    <2>2. Top(o.stack) \in Nat
      BY <1>1, SizeIn DEF RunOK, StackOK
    <2> QED
      BY <2>1, <2>2 DEF RunOK, RowOK, s
  <1>4. /\ obj' = r /\ row' = [row EXCEPT !.run = r] /\ kept' = row
        /\ call' = [on |-> TRUE, tx |-> tx, inter |-> inter, step |-> s, fulfilled |-> o.status = "Waiting"]
        /\ UNCHANGED <<prog, crashes>>
    BY DEF Call, Top
  <1> HIDE DEF r, s
  <1>5. row' \in Rows(prog) /\ row'.run = r
    BY <1>1, <1>3, <1>4 DEF Rows
  <1>6. call' \in Calls /\ call'.step = s
    BY <1>3, <1>4 DEF Calls
  <1>7. kept' \in Rows(prog)' /\ RowOK(prog, kept'.run)
    BY <1>4 DEF EngineInv
  <1>8. GoodAt(prog, obj', call'.step)
    BY <1>2, <1>4, <1>6
  <1> QED
    BY <1>3, <1>4, <1>5, <1>6, <1>7, <1>8 DEF EngineInv

\* A step that stops the run, or the call, in another state.
LEMMA StatusKept ==
  ASSUME EngineInv, call.on, NEW status \in Statuses, NEW log \in Logs,
         Return([obj EXCEPT !.status = status], log), UNCHANGED <<prog, kept, crashes>>
  PROVE  EngineInv'
  <1> DEFINE r == [obj EXCEPT !.status = status]
  <1>1. RunOK(prog, r)
    BY CallAt, RunChanged
  <1> HIDE DEF r
  <1>2. RowOK(prog, r)
    BY <1>1 DEF RowOK, RunOK
  <1> QED
    BY <1>2, ReturnOK DEF r

LEMMA ActionKeeps ==
  ASSUME EngineInv, Nested(prog), Action
  PROVE  EngineInv'
  <1> DEFINE o == IF Kind(prog, call.step) = "SetErrorHandler" THEN [obj EXCEPT !.handler = TRUE] ELSE obj
             a == Advance(o, call.step)
  <1>1. call.on /\ Continue(a, Done(call.step)) /\ UNCHANGED <<prog, kept, crashes>>
    BY DEF Action, At
  <1>2. RunOK(prog, obj) /\ GoodAt(prog, obj, call.step) /\ Done(call.step) \in Logs /\ prog \in Programs
    BY <1>1, CallAt DEF EngineInv
  <1>3. GoodAt(prog, o, call.step)
    <2> DEFINE q == [obj EXCEPT !.handler = TRUE]
    <2>1. RunOK(prog, q) /\ q.status = obj.status /\ q.stack = obj.stack
      BY <1>2, RunChanged DEF Statuses
    <2> HIDE DEF q
    <2>2. GoodAt(prog, q, call.step)
      BY <1>2, <2>1 DEF GoodAt
    <2> QED
      BY <1>2, <2>2 DEF q
  <1> HIDE DEF o
  <1>4. RowOK(prog, a.run) /\ a.step \in Nat /\ (a.step # 0 => GoodAt(prog, a.run, a.step))
    BY <1>2, <1>3, AdvanceOK
  <1> HIDE DEF a
  <1> QED
    BY <1>1, <1>2, <1>4, ContinueOK

LEMMA DirectiveKeeps ==
  ASSUME EngineInv, Nested(prog), Directive
  PROVE  EngineInv'
  <1> DEFINE a == Advance(obj, call.step)
  <1>1. call.on /\ UNCHANGED <<prog, kept, crashes>>
    BY DEF Directive, At
  <1>2. IF call.inter THEN Return(a.run, Done(call.step)) ELSE Continue(a, Done(call.step))
    BY DEF Directive
  <1>3. GoodAt(prog, obj, call.step) /\ Done(call.step) \in Logs /\ prog \in Programs
    BY <1>1, CallAt DEF EngineInv
  <1>4. RowOK(prog, a.run) /\ a.step \in Nat /\ (a.step # 0 => GoodAt(prog, a.run, a.step))
    BY <1>3, AdvanceOK
  <1> HIDE DEF a
  <1> QED
    BY <1>1, <1>2, <1>3, <1>4, ContinueOK, ReturnOK

LEMMA ResumedKeeps ==
  ASSUME EngineInv, Nested(prog), Resumed
  PROVE  EngineInv'
  <1> DEFINE a == Advance(obj, call.step)
             log == IF Kind(prog, call.step) = "Pause" THEN Done(call.step) ELSE row.log
  <1>1. /\ call.on /\ obj' = a.run /\ row' = [run |-> a.run, log |-> log]
        /\ call' = IF a.step = 0 THEN NoCall ELSE [call EXCEPT !.step = a.step, !.fulfilled = FALSE]
        /\ UNCHANGED <<prog, kept, crashes>>
    BY DEF Resumed, At
  <1>2. GoodAt(prog, obj, call.step) /\ log \in Logs /\ prog \in Programs /\ call \in Calls
    BY <1>1, CallAt DEF EngineInv
  <1>3. RowOK(prog, a.run) /\ a.step \in Nat /\ (a.step # 0 => GoodAt(prog, a.run, a.step))
    BY <1>2, AdvanceOK
  <1> HIDE DEF a, log
  <1>4. call' \in Calls /\ (call'.on => GoodAt(prog, a.run, call'.step))
    BY <1>1, <1>2, <1>3 DEF Calls, NoCall
  <1> QED
    BY <1>1, <1>2, <1>3, <1>4, Written

\* The run that has entered the loop s.
Pushed(o, s) == [o EXCEPT !.stack = @ \o <<0, prog[s].body>>, !.item[s] = 0]

LEMMA EnterLoop ==
  ASSUME prog \in Programs, Nested(prog), NEW o, NEW s, GoodAt(prog, o, s), s \in DOMAIN prog,
         prog[s].kind = "ForLoop", prog[s].len # 0
  PROVE  /\ GoodAt(prog, Pushed(o, s), prog[s].body) /\ prog[s].body \in Nat
         /\ Pushed(o, s).stack = o.stack \o <<0, prog[s].body>>
         /\ Pushed(o, s).handler = o.handler /\ Pushed(o, s).status = "Running"
  <1> DEFINE st == o.stack
             d == Size(st)
             b == prog[s].body
             n == st \o <<0, b>>
             item == [o.item EXCEPT ![s] = 0]
             r == [o EXCEPT !.stack = n, !.item = item]
  <1>1. o \in Runs(prog) /\ RunOK(prog, o) /\ StackOK(prog, st) /\ st # <<>> /\ s = Top(st) /\ o.status = "Running"
    BY DEF GoodAt, RunOK
  <1>2. b \in DOMAIN prog /\ b \in Nat /\ prog[s].len > 0 /\ s \in Nat /\ Around(prog)[s] = Loops(st, d)
    <2>1. prog[s] \in Step /\ s # Handler /\ s \in Nat /\ b \in DOMAIN prog /\ b \in Nat
      BY ProgramFacts DEF Nests
    <2>2. prog[s].len > 0
      <3>1. prog[s].len \in Nat
        BY <2>1 DEF Step
      <3> QED
        BY <3>1
    <2> QED
      BY <1>1, <2>1, <2>2 DEF StackOK
  <1>3. /\ StackOK(prog, n) /\ Size(n) = d + 1
        /\ \A j \in 1..(2 * d + 1) : n[j] = st[j]
        /\ n[2 * d + 1] = s /\ n[2 * d + 2] = 0 /\ Top(n) = b
    <2>1. /\ Top(st) \in DOMAIN prog /\ prog[Top(st)].kind = "ForLoop" /\ prog[Top(st)].len > 0
          /\ prog[Top(st)].body \in Nat /\ Handler \notin DOMAIN prog /\ Nests(prog, Around(prog))
      BY <1>1, <1>2, ProgramFacts
    <2> HIDE DEF st
    <2>2. LET m == st \o <<0, prog[Top(st)].body>> IN
          /\ StackOK(prog, m) /\ Size(m) = Size(st) + 1
          /\ \A j \in 1..(2 * Size(st) + 1) : m[j] = st[j]
          /\ m[2 * Size(st) + 1] = Top(st) /\ m[2 * Size(st) + 2] = 0 /\ Top(m) = prog[Top(st)].body
      BY <1>1, <2>1, FramePushed, Zenon
    <2> QED
      BY <1>1, <2>2, Zenon
  <1>4. st \in Seq(Nat) /\ n \in Seq(Nat) /\ n # <<>> /\ d \in Nat
    BY <1>1, <1>2, SizeIn DEF StackOK, Shape
  <1>5. o.item \in [DOMAIN prog -> Nat \cup {NoItem}] /\ \A k \in 1..d : o.item[st[2 * k - 1]] = st[2 * k]
    BY <1>1 DEF RunOK, ItemsOK
  <1>6. \A k \in 1..d : st[2 * k - 1] \in DOMAIN prog /\ st[2 * k - 1] # s
    <2>1. s \notin Loops(st, d)
      BY <1>2, ProgramFacts DEF Nests
    <2> QED
      BY <1>1, <2>1 DEF StackOK, Loops
  <1>7. Pushed(o, s) = r
    BY <1>1 DEF Pushed, Runs
  <1>8. item \in [DOMAIN prog -> Nat \cup {NoItem}]
    BY <1>5
  <1>9. r \in Runs(prog) /\ r.stack = n /\ r.item = item /\ r.status = "Running" /\ r.handler = o.handler
    <2> HIDE DEF item, n
    <2> QED
      BY <1>1, <1>4, <1>8 DEF Runs
  <1>10. \A k \in 1..Size(n) : item[n[2 * k - 1]] = n[2 * k]
    <2> HIDE DEF n, st, d
    <2> SUFFICES ASSUME NEW k \in 1..(d + 1) PROVE item[n[2 * k - 1]] = n[2 * k]
      BY <1>3
    <2>1. CASE k = d + 1
      <3>1. 2 * k - 1 = 2 * d + 1 /\ 2 * k = 2 * d + 2
        BY <1>4, <2>1
      <3> QED
        BY <1>3, <1>5, <3>1
    <2>2. CASE k # d + 1
      <3>1. k \in 1..d /\ 2 * k - 1 \in 1..(2 * d + 1) /\ 2 * k \in 1..(2 * d + 1)
        BY <1>4, <2>2
      <3>2. n[2 * k - 1] = st[2 * k - 1] /\ n[2 * k] = st[2 * k]
        BY <1>3, <3>1
      <3> QED
        BY <1>5, <1>6, <3>1, <3>2
    <2> QED
      BY <2>1, <2>2
  <1> HIDE DEF r, n, item
  <1>11. RunOK(prog, r)
    BY <1>3, <1>9, <1>8, <1>10 DEF RunOK, ItemsOK
  <1>12. GoodAt(prog, r, b)
    BY <1>3, <1>4, <1>9, <1>11 DEF GoodAt
  <1> QED
    BY <1>2, <1>7, <1>9, <1>12 DEF n

LEMMA ForLoopKeeps ==
  ASSUME EngineInv, Nested(prog), ForLoop
  PROVE  EngineInv'
  <1> DEFINE s == call.step
             a == Advance(obj, s)
             q == Pushed(obj, s)
  <1>1. call.on /\ Kind(prog, s) = "ForLoop" /\ UNCHANGED <<prog, kept, crashes>>
    BY DEF ForLoop, At
  <1>2. Continue(IF prog[s].len = 0 THEN a ELSE [step |-> prog[s].body, run |-> q], row.log)
    BY DEF ForLoop, Pushed
  <1>3. GoodAt(prog, obj, s) /\ row.log \in Logs /\ prog \in Programs /\ s \in DOMAIN prog /\ prog[s].kind = "ForLoop"
    BY <1>1, CallAt DEF EngineInv, Kind
  <1>4. RowOK(prog, a.run) /\ a.step \in Nat /\ (a.step # 0 => GoodAt(prog, a.run, a.step))
    BY <1>3, AdvanceOK
  <1>5. CASE prog[s].len = 0
    <2> HIDE DEF a
    <2> QED
      BY <1>1, <1>2, <1>3, <1>4, <1>5, ContinueOK
  <1>6. CASE prog[s].len # 0
    <2>1. GoodAt(prog, q, prog[s].body) /\ prog[s].body \in Nat
      BY <1>3, <1>6, EnterLoop
    <2>2. RowOK(prog, q)
      BY <2>1 DEF RowOK, GoodAt, RunOK
    <2> DEFINE next == [step |-> prog[s].body, run |-> q]
    <2>3. next.step = prog[s].body /\ next.run = q
      OBVIOUS
    <2>4. Continue(next, row.log)
      BY <1>2, <1>6
    <2> HIDE DEF next, q
    <2> QED
      BY <1>1, <1>3, <2>1, <2>2, <2>3, <2>4, ContinueOK
  <1> QED
    BY <1>5, <1>6

LEMMA GoHandler ==
  ASSUME prog \in Programs, Nested(prog), NEW o, NEW s, GoodAt(prog, o, s)
  PROVE  LET a == Go(o, Handler) IN
         /\ GoodAt(prog, a.run, a.step) /\ a.step = Handler /\ a.run.handler = o.handler
         /\ Topped(o.stack, Handler, a.run.stack)
  <1> DEFINE n == SetTop(o.stack, Handler)
             r == [o EXCEPT !.stack = n]
  <1>1. RunOK(prog, o) /\ o \in Runs(prog) /\ o.status = "Running" /\ StackOK(prog, o.stack)
    BY DEF GoodAt, RunOK
  <1>2. StackOK(prog, n) /\ Topped(o.stack, Handler, n)
    BY <1>1, ProgramsAssumption, StackTop
  <1>3. n \in Seq(Nat) /\ n # <<>> /\ Top(n) = Handler
    BY <1>2, Zenon DEF Topped
  <1>4. Go(o, Handler).step = Handler /\ Go(o, Handler).run = r
    BY DEF Go
  <1> HIDE DEF n
  <1>5. r \in Runs(prog) /\ r.stack = n /\ r.item = o.item /\ r.status = "Running" /\ r.handler = o.handler
    BY <1>1, <1>3 DEF Runs
  <1> HIDE DEF r
  <1>6. RunOK(prog, r)
    BY <1>1, <1>2, <1>5, RunTop
  <1> QED
    BY <1>2, <1>3, <1>4, <1>5, <1>6 DEF GoodAt

LEMMA ThrowsKeeps ==
  ASSUME EngineInv, Nested(prog), Throws
  PROVE  EngineInv'
  <1>1. call.on /\ UNCHANGED <<prog, kept, crashes>>
    BY DEF Throws, At
  <1>2. GoodAt(prog, obj, call.step) /\ row.log \in Logs /\ prog \in Programs
    BY <1>1, CallAt DEF EngineInv
  <1>3. CASE obj.handler
    <2> DEFINE a == Go(obj, Handler)
    <2>1. Continue(a, row.log)
      BY <1>3 DEF Throws
    <2>2. GoodAt(prog, a.run, a.step) /\ a.step = Handler
      BY <1>2, GoHandler
    <2> HIDE DEF a
    <2>3. RowOK(prog, a.run) /\ a.step \in Nat
      BY <2>2, ProgramsAssumption DEF RowOK, GoodAt, RunOK
    <2> QED
      BY <1>1, <1>2, <2>1, <2>2, <2>3, ContinueOK
  <1>4. CASE ~obj.handler
    <2>1. Return([obj EXCEPT !.status = "Error"], row.log) /\ "Error" \in Statuses
      BY <1>4 DEF Throws, Statuses, Ended
    <2> QED
      BY <1>1, <1>2, <2>1, StatusKept
  <1> QED
    BY <1>3, <1>4

LEMMA CrashKeeps ==
  ASSUME EngineInv, Crash
  PROVE  EngineInv'
  <1>1. /\ row' = kept /\ call' = NoCall /\ crashes' = crashes + 1 /\ crashes < MaxCrashes
        /\ UNCHANGED <<prog, kept, obj>>
    BY DEF Crash
  <1>2. crashes' \in 0..MaxCrashes
    BY <1>1, ProgramsAssumption DEF EngineInv
  <1>3. call' \in Calls /\ ~call'.on
    BY <1>1 DEF NoCall, Calls
  <1> QED
    BY <1>1, <1>2, <1>3 DEF EngineInv

LEMMA NewRun ==
  ASSUME NEW item
  PROVE  [NoRun EXCEPT !.item = item]
           = [status |-> "Pending", stack |-> <<>>, item |-> item, handler |-> FALSE]
  <1> DEFINE none == <<>>
             new == "Pending"
             no == FALSE
             r == [status |-> new, stack |-> none, item |-> none, handler |-> no]
  <1>1. NoRun = r
    BY DEF NoRun
  <1> HIDE DEF none, new, no
  <1>2. [r EXCEPT !.item = item] = [status |-> new, stack |-> none, item |-> item, handler |-> no]
    OBVIOUS
  <1> HIDE DEF r
  <1> QED
    BY <1>1, <1>2, Zenon DEF none, new, no

LEMMA EngineInit ==
  ASSUME Init, \A p \in Programs : Nested(p)
  PROVE  EngineInv
  <1> DEFINE item == [s \in DOMAIN prog |-> NoItem]
             o == [NoRun EXCEPT !.item = item]
  <1>1. prog \in Programs /\ obj = o /\ row = [run |-> o, log |-> <<>>] /\ kept = row /\ call = NoCall /\ crashes = 0
    BY DEF Init
  <1>2. o = [status |-> "Pending", stack |-> <<>>, item |-> item, handler |-> FALSE]
    <2> HIDE DEF item
    <2> QED
      BY NewRun, Zenon
  <1> HIDE DEF o
  <1>3. Size(<<>>) = 0 /\ Top(<<>>) = 1 /\ <<>> \in Seq(Nat)
    BY DEF Size, Top
  <1>4. StackOK(prog, <<>>)
    <2>1. 1 \in DOMAIN prog /\ Around(prog)[1] = {} /\ Loops(<<>>, 0) = {}
      BY <1>1, ProgramFacts DEF Nests, Loops
    <2>2. 1..Size(<<>>) = {} /\ Shape(<<>>)
      BY <1>3 DEF Shape
    <2> QED
      BY <1>3, <2>1, <2>2 DEF StackOK
  <1>5. item \in [DOMAIN prog -> Nat \cup {NoItem}]
    OBVIOUS
  <1> HIDE DEF item
  <1>6. o \in Runs(prog) /\ RunOK(prog, o)
    BY <1>2, <1>3, <1>4, <1>5 DEF RunOK, ItemsOK, Runs, Statuses
  <1>7. <<>> \in Logs
    BY DEF Logs
  <1>8. RowOK(prog, o) /\ row \in Rows(prog) /\ row.run = o
    BY <1>1, <1>6, <1>7 DEF RowOK, Rows
  <1>9. call \in Calls /\ ~call.on /\ crashes \in 0..MaxCrashes
    BY <1>1, ProgramsAssumption DEF NoCall, Calls
  <1> QED
    BY <1>1, <1>6, <1>8, <1>9 DEF EngineInv

LEMMA EngineNext ==
  ASSUME EngineInv, \A p \in Programs : Nested(p), [Next]_vars
  PROVE  EngineInv'
  <1>1. Nested(prog)
    BY DEF EngineInv
  <1>2. CASE \E tx, inter \in BOOLEAN : Call(tx, inter)
    BY <1>1, <1>2, CallKeeps
  <1>3. CASE Action
    BY <1>1, <1>3, ActionKeeps
  <1>4. CASE Directive
    BY <1>1, <1>4, DirectiveKeeps
  <1>5. CASE Pause
    <2>1. /\ call.on /\ Return([obj EXCEPT !.status = "Waiting"], row.log)
          /\ UNCHANGED <<prog, kept, crashes>> /\ "Waiting" \in Statuses
      BY <1>5 DEF Pause, At, Statuses
    <2> QED
      BY <2>1, CallAt, StatusKept
  <1>6. CASE Resumed
    BY <1>1, <1>6, ResumedKeeps
  <1>7. CASE Stop
    <2>1. /\ call.on /\ Return([obj EXCEPT !.status = "Finished"], Done(call.step))
          /\ UNCHANGED <<prog, kept, crashes>> /\ "Finished" \in Statuses
      BY <1>7 DEF Stop, At, Statuses, Ended
    <2> QED
      BY <2>1, CallAt, StatusKept
  <1>8. CASE ForLoop
    BY <1>1, <1>8, ForLoopKeeps
  <1>9. CASE Throws
    BY <1>1, <1>9, ThrowsKeeps
  <1>10. CASE Crash
    BY <1>10, CrashKeeps
  <1>11. CASE UNCHANGED vars
    BY <1>11 DEF vars, EngineInv
  <1> QED
    BY <1>2, <1>3, <1>4, <1>5, <1>6, <1>7, <1>8, <1>9, <1>10, <1>11 DEF Next

LEMMA EngineInductive ==
  ASSUME \A p \in Programs : Nested(p)
  PROVE  Spec => []EngineInv
  <1>1. Init => EngineInv
    BY EngineInit
  <1>2. EngineInv /\ [Next]_vars => EngineInv'
    BY EngineNext
  <1> QED
    BY <1>1, <1>2, PTL DEF Spec

\* Whatever the steps, the resumed calls and the lost transactions, the rows and
\* the object of the call keep their types, when the loops of the workflows are
\* nested: runInner never indexes outside of current_step.
THEOREM EngineTypeCorrect ==
  ASSUME \A p \in Programs : Nested(p)
  PROVE  Spec => []TypeOK
  <1>1. EngineInv => TypeOK
    BY DEF EngineInv, TypeOK, Runs, Statuses, Rows, RowOK, Calls
  <1> QED
    BY <1>1, EngineInductive, PTL

\* The index in current_step and the loop variable in the context never part:
\* a call that resumes a run, at a pause, after a return directive or after a
\* crash, finds for each loop on the stack the item of its index (runInner).
THEOREM LoopsFindTheirItems ==
  ASSUME \A p \in Programs : Nested(p)
  PROVE  Spec => []ItemsMatch
  <1>1. EngineInv => ItemsMatch
    BY DEF EngineInv, ItemsMatch, RowOK, RunOK, ItemsOK, Size
  <1> QED
    BY <1>1, EngineInductive, PTL

-------------------------------------------------------------------------------
(* The order of the steps: what is still to be done at each point of a run *)
(* gives, after what is in the log, the whole workflow.                    *)

\* The recursive reference is well defined: at every point it is what Unfold
\* makes of its own values at later points.  A workflow that jumps back has no
\* such reading.
LEMMA MeaningAt ==
  ASSUME NEW p \in Programs, Structured(p), NEW s \in {0, Handler} \cup DOMAIN p,
         NEW ix \in Seq(Nat), NEW i \in Nat, NEW h \in BOOLEAN
  PROVE  /\ Meaning(p)[<<s, ix, i, h>>] = Unfold(p, Meaning(p), s, ix, i, h)
         /\ Meaning(p)[<<s, ix, i, h>>] \in Outcomes
  <1>1. Leads(p)
    BY DEF Structured, Nests, Forward, Leads
  <1>2. Solves(p, Points(p), Meaning(p))
    BY <1>1, ProgramsAssumption, MeaningSolves
  <1>3. <<s, ix, i, h>> \in Points(p)
    BY DEF Points
  <1> QED
    BY <1>2, <1>3 DEF Solves, At4

\* What is done from the point <<s, ix, i, h>> on, and then the rest R, which
\* depends on whether there is an error handler by then.
Rests == [BOOLEAN -> Outcomes]
Onward(p, s, ix, i, h, R) ==
  LET one == Meaning(p)[<<s, ix, i, h>>] IN Then(one, R[one.handler])

LEMMA OnwardTyped ==
  ASSUME NEW p \in Programs, Structured(p), NEW s \in {0, Handler} \cup DOMAIN p,
         NEW ix \in Seq(Nat), NEW i \in Nat, NEW h \in BOOLEAN, NEW R \in Rests
  PROVE  Onward(p, s, ix, i, h, R) \in Outcomes
  <1> DEFINE one == Meaning(p)[<<s, ix, i, h>>]
  <1>1. one \in Outcomes
    BY MeaningAt
  <1> HIDE DEF one
  <1>2. R[one.handler] \in Outcomes
    BY <1>1 DEF Rests, Outcomes
  <1>3. Then(one, R[one.handler]) \in Outcomes
    BY <1>1, <1>2, OutcomesClosed
  <1> QED
    BY <1>3 DEF Onward, one

LEMMA NothingThen ==
  ASSUME NEW h \in BOOLEAN, NEW more \in Outcomes
  PROVE  Then(Nothing(h, "on"), more) = more
  <1>1. <<>> \o more.log = more.log
    BY DEF Outcomes
  <1>2. [more EXCEPT !.log = more.log] = more
    BY DEF Outcomes
  <1> QED
    BY <1>1, <1>2 DEF Then, Nothing

LEMMA LogsConcat ==
  ASSUME NEW a \in Logs, NEW b \in Logs, NEW c \in Logs
  PROVE  (a \o b) \o c = a \o (b \o c)
  <1> DEFINE S == Nat \X Seq(Nat)
  <1>1. a \in Seq(S) /\ b \in Seq(S) /\ c \in Seq(S)
    BY DEF Logs
  <1> HIDE DEF S
  <1> QED
    BY <1>1, ConcatAssociative

LEMMA FirstThen ==
  ASSUME NEW s \in Nat, NEW ix \in Seq(Nat), NEW one \in Outcomes, NEW more \in Outcomes
  PROVE  Then(First(s, ix, one), more) = First(s, ix, Then(one, more))
  <1> DEFINE e == <<<<s, ix>>>>
  <1>1. e \in Logs /\ one.log \in Logs /\ more.log \in Logs
    BY DEF Outcomes, Logs
  <1> HIDE DEF e
  <1>2. (e \o one.log) \o more.log = e \o (one.log \o more.log)
    BY <1>1, LogsConcat
  <1>3. First(s, ix, one).end = one.end /\ First(s, ix, one).log = e \o one.log
    BY DEF First, Outcomes, e
  <1>4. CASE one.end # "on"
    BY <1>3, <1>4 DEF Then
  <1>5. CASE one.end = "on"
    <2> DEFINE l == one.log \o more.log
               all == [more EXCEPT !.log = l]
    <2>1. Then(one, more) = all
      BY <1>5 DEF Then
    <2>2. Then(First(s, ix, one), more) = [more EXCEPT !.log = e \o l]
      BY <1>2, <1>3, <1>5 DEF Then
    <2> HIDE DEF l
    <2>3. all.log = l /\ [all EXCEPT !.log = e \o l] = [more EXCEPT !.log = e \o l]
      BY DEF Outcomes
    <2> HIDE DEF all
    <2> QED
      BY <2>1, <2>2, <2>3 DEF First, e
  <1> QED
    BY <1>4, <1>5

LEMMA ThenThen ==
  ASSUME NEW one \in Outcomes, NEW two \in Outcomes, NEW more \in Outcomes
  PROVE  Then(Then(one, two), more) = Then(one, Then(two, more))
  <1>1. one.log \in Logs /\ two.log \in Logs /\ more.log \in Logs
    BY DEF Outcomes, Logs
  <1>2. CASE one.end # "on"
    BY <1>2 DEF Then
  <1>3. CASE one.end = "on" /\ two.end # "on"
    <2>1. Then(one, two) = [two EXCEPT !.log = one.log \o two.log]
      BY <1>3 DEF Then
    <2>2. Then(one, two).end = two.end
      BY <2>1 DEF Outcomes
    <2> QED
      BY <1>3, <2>1, <2>2 DEF Then
  <1>4. CASE one.end = "on" /\ two.end = "on"
    <2> DEFINE l == one.log \o two.log
               m == two.log \o more.log
               t == [two EXCEPT !.log = l]
               n == [more EXCEPT !.log = m]
    <2>1. Then(one, two) = t /\ Then(two, more) = n
      BY <1>4 DEF Then
    <2>2. l \o more.log = one.log \o m
      BY <1>1, LogsConcat
    <2> HIDE DEF l, m
    <2>3. t.end = "on" /\ t.log = l /\ n.log = m
      BY <1>4 DEF Outcomes
    <2>4. [n EXCEPT !.log = one.log \o m] = [more EXCEPT !.log = one.log \o m]
      BY DEF Outcomes
    <2> HIDE DEF t
    <2>5. Then(t, more) = [more EXCEPT !.log = one.log \o m]
      BY <2>2, <2>3 DEF Then
    <2>6. Then(one, n) = [n EXCEPT !.log = one.log \o m]
      BY <1>4, <2>3 DEF Then
    <2> QED
      BY <2>1, <2>4, <2>5, <2>6
  <1> QED
    BY <1>2, <1>3, <1>4

\* What Unfold says of a point, for what is done from it on.
LEMMA OnwardNothing ==
  ASSUME NEW p \in Programs, Structured(p), NEW ix \in Seq(Nat), NEW h \in BOOLEAN, NEW R \in Rests
  PROVE  Onward(p, 0, ix, 0, h, R) = R[h]
  <1>1. Meaning(p)[<<0, ix, 0, h>>] = Nothing(h, "on")
    BY MeaningAt DEF Unfold
  <1>2. Nothing(h, "on").handler = h /\ R[h] \in Outcomes
    BY DEF Nothing, Rests
  <1> QED
    BY <1>1, <1>2, NothingThen DEF Onward

LEMMA StepPlaces ==
  ASSUME NEW p \in Programs, Structured(p), NEW s \in {Handler} \cup DOMAIN p
  PROVE  /\ s \in Nat /\ s # 0 /\ s \in {0, Handler} \cup DOMAIN p
         /\ NextOf(p, s) \in {0} \cup DOMAIN p /\ NextOf(p, s) \in {0, Handler} \cup DOMAIN p
         /\ Kind(p, s) = "ForLoop" => /\ s \in DOMAIN p /\ p[s].kind = "ForLoop" /\ p[s].len \in Nat
                                      /\ p[s].body \in {0, Handler} \cup DOMAIN p
  <1>1. Nested(p)
    BY DEF Nested, Structured
  <1>2. s \in Nat /\ s # 0
    BY <1>1, ProgramFacts
  <1>3. NextOf(p, s) \in {0} \cup DOMAIN p
    BY <1>1, ProgramFacts DEF Nests, NextOf
  <1>4. Kind(p, s) = "ForLoop" => s \in DOMAIN p /\ p[s].kind = "ForLoop"
    BY DEF Kind
  <1>5. s \in DOMAIN p /\ p[s].kind = "ForLoop" => p[s].body \in DOMAIN p
    BY <1>1, ProgramFacts DEF Nests
  <1>6. s \in DOMAIN p => p[s].len \in Nat
    BY <1>1, ProgramFacts DEF Step
  <1> QED
    BY <1>2, <1>3, <1>4, <1>5, <1>6

\* Whether there is an error handler after the step s.
Armed(p, s, h) == h \/ Kind(p, s) = "SetErrorHandler"

LEMMA OnwardStep ==
  ASSUME NEW p \in Programs, Structured(p), NEW s \in {Handler} \cup DOMAIN p,
         Kind(p, s) \notin {"Stop", "Throws", "ForLoop"},
         NEW ix \in Seq(Nat), NEW h \in BOOLEAN, NEW R \in Rests
  PROVE  Onward(p, s, ix, 0, h, R) = First(s, ix, Onward(p, NextOf(p, s), ix, 0, Armed(p, s, h), R))
  <1> DEFINE g == Armed(p, s, h)
  <1>0. g \in BOOLEAN /\ g = (h \/ Kind(p, s) = "SetErrorHandler")
    BY DEF Armed
  <1> HIDE DEF g
  <1> DEFINE one == Meaning(p)[<<NextOf(p, s), ix, 0, g>>]
  <1>1. one \in Outcomes
    BY <1>0, StepPlaces, MeaningAt
  <1>2. Meaning(p)[<<s, ix, 0, h>>] = First(s, ix, one)
    <2>1. s # 0 /\ Meaning(p)[<<s, ix, 0, h>>] = Unfold(p, Meaning(p), s, ix, 0, h)
      BY StepPlaces, MeaningAt
    <2> DEFINE M == Meaning(p)
    <2> HIDE DEF M
    <2>2. Unfold(p, M, s, ix, 0, h) = First(s, ix, M[<<NextOf(p, s), ix, 0, g>>])
      BY <1>0, <2>1, Zenon DEF Unfold
    <2> QED
      BY <2>1, <2>2 DEF M
  <1> HIDE DEF one
  <1>3. First(s, ix, one).handler = one.handler /\ R[one.handler] \in Outcomes
    BY <1>1 DEF First, Outcomes, Rests
  <1>4. Then(First(s, ix, one), R[one.handler]) = First(s, ix, Then(one, R[one.handler]))
    BY <1>1, <1>3, StepPlaces, FirstThen
  <1> QED
    BY <1>2, <1>3, <1>4 DEF Onward, one, g

LEMMA OnwardStop ==
  ASSUME NEW p \in Programs, Structured(p), NEW s \in {Handler} \cup DOMAIN p, Kind(p, s) = "Stop",
         NEW ix \in Seq(Nat), NEW h \in BOOLEAN, NEW R \in Rests
  PROVE  Onward(p, s, ix, 0, h, R) = First(s, ix, Nothing(h, "Finished"))
  <1>1. Meaning(p)[<<s, ix, 0, h>>] = First(s, ix, Nothing(h, "Finished"))
    <2>1. s # 0 /\ Meaning(p)[<<s, ix, 0, h>>] = Unfold(p, Meaning(p), s, ix, 0, h)
      BY StepPlaces, MeaningAt
    <2> DEFINE M == Meaning(p)
    <2> HIDE DEF M
    <2>2. Unfold(p, M, s, ix, 0, h) = First(s, ix, Nothing(h, "Finished"))
      BY <2>1, Zenon DEF Unfold
    <2> QED
      BY <2>1, <2>2 DEF M
  <1>2. First(s, ix, Nothing(h, "Finished")).end = "Finished"
    BY DEF First, Nothing
  <1> QED
    BY <1>1, <1>2 DEF Onward, Then

LEMMA OnwardThrows ==
  ASSUME NEW p \in Programs, Structured(p), NEW s \in {Handler} \cup DOMAIN p, Kind(p, s) = "Throws",
         NEW ix \in Seq(Nat), NEW h \in BOOLEAN, NEW R \in Rests
  PROVE  Onward(p, s, ix, 0, h, R) = IF h THEN Onward(p, Handler, ix, 0, h, R) ELSE Nothing(h, "Error")
  <1>1. Meaning(p)[<<s, ix, 0, h>>]
          = IF h THEN Meaning(p)[<<Handler, ix, 0, h>>] ELSE Nothing(h, "Error")
    <2>1. s # 0 /\ Meaning(p)[<<s, ix, 0, h>>] = Unfold(p, Meaning(p), s, ix, 0, h)
      BY StepPlaces, MeaningAt
    <2> DEFINE M == Meaning(p)
    <2> HIDE DEF M
    <2>2. Unfold(p, M, s, ix, 0, h) = IF h THEN M[<<Handler, ix, 0, h>>] ELSE Nothing(h, "Error")
      BY <2>1, Zenon DEF Unfold
    <2> QED
      BY <2>1, <2>2 DEF M
  <1>2. Nothing(h, "Error").end = "Error"
    BY DEF Nothing
  <1> QED
    BY <1>1, <1>2 DEF Onward, Then

LEMMA OnwardAfterItems ==
  ASSUME NEW p \in Programs, Structured(p), NEW s \in DOMAIN p, p[s].kind = "ForLoop",
         NEW ix \in Seq(Nat), NEW i \in Nat, i >= p[s].len, NEW h \in BOOLEAN, NEW R \in Rests
  PROVE  Onward(p, s, ix, i, h, R) = Onward(p, NextOf(p, s), ix, 0, h, R)
  <1>1. Kind(p, s) = "ForLoop"
    BY ProgramsAssumption DEF Kind
  <1>2. Meaning(p)[<<s, ix, i, h>>] = Meaning(p)[<<NextOf(p, s), ix, 0, h>>]
    <2>1. s # 0 /\ Meaning(p)[<<s, ix, i, h>>] = Unfold(p, Meaning(p), s, ix, i, h)
      BY StepPlaces, MeaningAt
    <2> DEFINE M == Meaning(p)
    <2> HIDE DEF M
    <2>2. Unfold(p, M, s, ix, i, h) = M[<<NextOf(p, s), ix, 0, h>>]
      BY <1>1, <2>1, Zenon DEF Unfold
    <2> QED
      BY <2>1, <2>2 DEF M
  <1> QED
    BY <1>2 DEF Onward

\* The rest after an item of a loop.
AfterItem(p, s, ix, i, R) == [g \in BOOLEAN |-> Onward(p, s, ix, i + 1, g, R)]

LEMMA OnwardItem ==
  ASSUME NEW p \in Programs, Structured(p), NEW s \in DOMAIN p, p[s].kind = "ForLoop",
         NEW ix \in Seq(Nat), NEW i \in Nat, ~(i >= p[s].len), NEW h \in BOOLEAN, NEW R \in Rests
  PROVE  /\ AfterItem(p, s, ix, i, R) \in Rests
         /\ Onward(p, s, ix, i, h, R)
              = Onward(p, p[s].body, Append(ix, i), 0, h, AfterItem(p, s, ix, i, R))
  <1>1. Kind(p, s) = "ForLoop" /\ s \in {0, Handler} \cup DOMAIN p
    BY ProgramsAssumption DEF Kind
  <1>2. p[s].body \in {0, Handler} \cup DOMAIN p /\ s # 0 /\ i + 1 \in Nat /\ Append(ix, i) \in Seq(Nat)
    BY <1>1, StepPlaces
  <1> DEFINE one == Meaning(p)[<<p[s].body, Append(ix, i), 0, h>>]
             two(g) == Meaning(p)[<<s, ix, i + 1, g>>]
  <1>3. one \in Outcomes /\ one.handler \in BOOLEAN
    <2>1. one \in Outcomes
      BY <1>2, MeaningAt
    <2> QED
      BY <2>1 DEF Outcomes
  <1>4. Meaning(p)[<<s, ix, i, h>>] = Then(one, two(one.handler))
    BY <1>1, <1>2, MeaningAt, ZenonT(60) DEF Unfold
  <1>5. AfterItem(p, s, ix, i, R) \in Rests
    <2>1. \A g \in BOOLEAN : Onward(p, s, ix, i + 1, g, R) \in Outcomes
      BY <1>1, <1>2, OnwardTyped
    <2> QED
      BY <2>1 DEF AfterItem, Rests
  <1>6. AfterItem(p, s, ix, i, R)[one.handler] = Then(two(one.handler), R[two(one.handler).handler])
    BY <1>3 DEF AfterItem, Onward
  <1> HIDE DEF one
  <1> DEFINE next == two(one.handler)
  <1>7. next \in Outcomes
    BY <1>1, <1>2, <1>3, MeaningAt
  <1> HIDE DEF next
  <1>8. R[next.handler] \in Outcomes
    BY <1>7 DEF Outcomes, Rests
  <1>9. Then(Then(one, next), R[Then(one, next).handler]) = Then(one, Then(next, R[next.handler]))
    <2>1. CASE one.end = "on"
      <3>1. Then(one, next).handler = next.handler
        BY <1>7, <2>1 DEF Then, Outcomes
      <3> QED
        BY <1>3, <1>7, <1>8, <3>1, ThenThen
    <2>2. CASE one.end # "on"
      BY <2>2 DEF Then
    <2> QED
      BY <2>1, <2>2
  <1>10. Onward(p, s, ix, i, h, R) = Then(Then(one, next), R[Then(one, next).handler])
    BY <1>4 DEF Onward, next
  <1>11. Onward(p, p[s].body, Append(ix, i), 0, h, AfterItem(p, s, ix, i, R))
           = Then(one, Then(next, R[next.handler]))
    BY <1>6 DEF Onward, next, one
  <1> QED
    BY <1>5, <1>9, <1>10, <1>11

\* What is done after the step at the top of a stack: K[k] once its first k
\* loops are the ones that are left.
Ix(st, k) == [j \in 1..k |-> st[2 * j]]

IsRest(p, st, K) ==
  /\ K \in [0..Size(st) -> Rests]
  /\ \A h \in BOOLEAN : K[0][h] = Nothing(h, "on")
  /\ \A k \in 1..Size(st) : K[k] = AfterItem(p, st[2 * k - 1], Ix(st, k - 1), st[2 * k], K[k - 1])

Gives(p, log, all) == log \o all.log = Whole(p).log /\ all.end = Whole(p).end

\* What is done from the step s on, its item i, inside of the first d loops of
\* the stack st, is what the log lacks.
Ahead(p, st, d, s, i, h, log) == \E K :
  IsRest(p, st, K) /\ Gives(p, log, Onward(p, s, Ix(st, d), i, h, K[d]))

LEMMA IxTyped ==
  ASSUME NEW st, Shape(st), NEW k \in 0..Size(st)
  PROVE  Ix(st, k) \in Seq(Nat) /\ Indices(st) = Ix(st, Size(st))
  <1>1. Size(st) \in Nat /\ \A j \in 1..Size(st) : st[2 * j] \in Nat
    BY SizeIn
  <1>2. k \in Nat /\ \A j \in 1..k : j \in 1..Size(st)
    BY <1>1
  <1>3. Ix(st, k) \in [1..k -> Nat]
    BY <1>1, <1>2 DEF Ix
  <1>4. Indices(st) = Ix(st, Size(st))
    BY DEF Indices, Ix, Size
  <1> QED
    BY <1>2, <1>3, <1>4

LEMMA IxSame ==
  ASSUME NEW st, NEW n, NEW d \in Nat, \A j \in 1..(2 * d) : n[j] = st[j]
  PROVE  /\ \A k \in 0..d : Ix(n, k) = Ix(st, k)
         /\ \A k \in 1..d : n[2 * k - 1] = st[2 * k - 1] /\ n[2 * k] = st[2 * k]
  <1>1. ASSUME NEW k \in 1..d PROVE n[2 * k - 1] = st[2 * k - 1] /\ n[2 * k] = st[2 * k]
    <2>1. 2 * k - 1 \in 1..(2 * d) /\ 2 * k \in 1..(2 * d)
      OBVIOUS
    <2> QED
      BY <2>1
  <1>2. ASSUME NEW k \in 0..d PROVE Ix(n, k) = Ix(st, k)
    <2>1. \A j \in 1..k : j \in 1..d
      OBVIOUS
    <2> QED
      BY <1>1, <2>1 DEF Ix
  <1> QED
    BY <1>1, <1>2

\* The rest of a stack that keeps d of the loops.
LEMMA RestSame ==
  ASSUME NEW p, NEW st, NEW K, IsRest(p, st, K), Size(st) \in Nat, NEW d \in 0..Size(st),
         NEW n, Size(n) = d, \A j \in 1..(2 * d) : n[j] = st[j]
  PROVE  \E L : IsRest(p, n, L) /\ L[d] = K[d]
  <1> DEFINE L == [k \in 0..d |-> K[k]]
  <1>1. d \in Nat /\ \A k \in 0..d : k \in 0..Size(st)
    OBVIOUS
  <1>2. L \in [0..d -> Rests] /\ L[0] = K[0] /\ L[d] = K[d]
    BY <1>1 DEF IsRest
  <1>3. ASSUME NEW k \in 1..d
        PROVE  L[k] = AfterItem(p, n[2 * k - 1], Ix(n, k - 1), n[2 * k], L[k - 1])
    <2>1. k \in 1..Size(st) /\ k \in 0..d /\ k - 1 \in 0..d
      OBVIOUS
    <2>2. L[k] = K[k] /\ L[k - 1] = K[k - 1]
      BY <2>1
    <2>3. Ix(n, k - 1) = Ix(st, k - 1) /\ n[2 * k - 1] = st[2 * k - 1] /\ n[2 * k] = st[2 * k]
      BY <1>1, <2>1, IxSame
    <2> QED
      BY <2>1, <2>2, <2>3 DEF IsRest
  <1> HIDE DEF L
  <1>4. IsRest(p, n, L)
    BY <1>2, <1>3 DEF IsRest
  <1> QED
    BY <1>2, <1>4

\* And of a stack with an item of another loop on top of d of the loops.
LEMMA RestItem ==
  ASSUME NEW p \in Programs, Structured(p), NEW st, NEW K, IsRest(p, st, K), Shape(st),
         NEW d \in 0..Size(st), NEW n, Size(n) = d + 1, \A j \in 1..(2 * d) : n[j] = st[j],
         NEW s \in DOMAIN p, n[2 * d + 1] = s, p[s].kind = "ForLoop",
         NEW i \in Nat, n[2 * d + 2] = i, ~(i >= p[s].len)
  PROVE  \E L : IsRest(p, n, L) /\ L[d + 1] = AfterItem(p, s, Ix(st, d), i, K[d])
  <1> DEFINE R == AfterItem(p, s, Ix(st, d), i, K[d])
             L == [k \in 0..(d + 1) |-> IF k = d + 1 THEN R ELSE K[k]]
  <1>1. /\ Size(st) \in Nat /\ d \in Nat /\ \A k \in 0..d : k \in 0..Size(st) /\ k \in 0..(d + 1) /\ k # d + 1
        /\ d + 1 \in 0..(d + 1) /\ \A k \in 0..(d + 1) : k # d + 1 => k \in 0..d
    BY SizeIn
  <1>2. K[d] \in Rests /\ Ix(st, d) \in Seq(Nat)
    BY IxTyped DEF IsRest
  <1>3. R \in Rests
    BY <1>2, OnwardItem
  <1> HIDE DEF R
  <1>4. L \in [0..(d + 1) -> Rests] /\ L[0] = K[0] /\ L[d + 1] = R /\ \A k \in 0..d : L[k] = K[k]
    <2>1. \A k \in 0..d : K[k] \in Rests
      BY <1>1 DEF IsRest
    <2>2. \A k \in 0..(d + 1) : (IF k = d + 1 THEN R ELSE K[k]) \in Rests
      BY <1>1, <1>3, <2>1
    <2>3. L \in [0..(d + 1) -> Rests]
      BY <2>2
    <2>4. L[d + 1] = R
      BY <1>1
    <2>5. \A k \in 0..d : L[k] = K[k]
      BY <1>1
    <2>6. 0 \in 0..d
      BY <1>1
    <2> QED
      BY <2>3, <2>4, <2>5, <2>6
  <1> HIDE DEF L
  <1>5. /\ \A k \in 0..d : Ix(n, k) = Ix(st, k)
        /\ \A k \in 1..d : n[2 * k - 1] = st[2 * k - 1] /\ n[2 * k] = st[2 * k]
    BY <1>1, IxSame
  <1>6. ASSUME NEW k \in 1..(d + 1)
        PROVE  L[k] = AfterItem(p, n[2 * k - 1], Ix(n, k - 1), n[2 * k], L[k - 1])
    <2>1. CASE k = d + 1
      <3>1. 2 * k - 1 = 2 * d + 1 /\ 2 * k = 2 * d + 2 /\ k - 1 = d /\ d \in 0..d
        BY <1>1, <2>1
      <3> QED
        BY <1>4, <1>5, <2>1, <3>1 DEF R
    <2>2. CASE k # d + 1
      <3>1. k \in 1..d /\ k \in 1..Size(st) /\ k \in 0..d /\ k - 1 \in 0..d
        BY <1>1, <2>2
      <3>2. L[k] = K[k] /\ L[k - 1] = K[k - 1]
        BY <1>4, <3>1
      <3> QED
        BY <1>5, <3>1, <3>2 DEF IsRest
    <2> QED
      BY <2>1, <2>2
  <1>7. IsRest(p, n, L)
    BY <1>4, <1>6 DEF IsRest
  <1> QED
    BY <1>4, <1>7 DEF R

LEMMA AheadKept ==
  ASSUME NEW p, NEW st, Shape(st), NEW d \in 0..Size(st), NEW s, NEW i, NEW h, NEW log,
         Ahead(p, st, d, s, i, h, log),
         NEW n, Size(n) = d, \A j \in 1..(2 * d) : n[j] = st[j]
  PROVE  Ahead(p, n, d, s, i, h, log)
  <1>1. PICK K : IsRest(p, st, K) /\ Gives(p, log, Onward(p, s, Ix(st, d), i, h, K[d]))
    BY DEF Ahead
  <1>2. Size(st) \in Nat /\ d \in Nat /\ d \in 0..d
    BY SizeIn
  <1>3. PICK L : IsRest(p, n, L) /\ L[d] = K[d]
    BY <1>1, <1>2, RestSame
  <1>4. Ix(n, d) = Ix(st, d)
    BY <1>2, IxSame, ZenonT(60)
  <1> QED
    BY <1>1, <1>3, <1>4, Zenon DEF Ahead

LEMMA AheadTop ==
  ASSUME NEW p, NEW st, Shape(st), NEW s, NEW i, NEW h, NEW log,
         Ahead(p, st, Size(st), s, i, h, log), NEW t, NEW n, Topped(st, t, n)
  PROVE  Ahead(p, n, Size(n), s, i, h, log)
  <1>1. Size(st) \in 0..Size(st)
    BY SizeIn
  <1>2. Size(n) = Size(st) /\ \A j \in 1..(2 * Size(st)) : n[j] = st[j]
    BY Zenon DEF Topped
  <1> QED
    BY <1>1, <1>2, AheadKept

LEMMA AheadItem ==
  ASSUME NEW p \in Programs, Structured(p), NEW st, Shape(st), NEW d \in 0..Size(st),
         NEW s \in DOMAIN p, p[s].kind = "ForLoop", NEW i \in Nat, ~(i >= p[s].len), NEW h \in BOOLEAN,
         NEW log, Ahead(p, st, d, s, i, h, log),
         NEW n, Size(n) = d + 1, \A j \in 1..(2 * d) : n[j] = st[j],
         n[2 * d + 1] = s, n[2 * d + 2] = i
  PROVE  Ahead(p, n, d + 1, p[s].body, 0, h, log)
  <1>1. PICK K : IsRest(p, st, K) /\ Gives(p, log, Onward(p, s, Ix(st, d), i, h, K[d]))
    BY DEF Ahead
  <1>2. PICK L : IsRest(p, n, L) /\ L[d + 1] = AfterItem(p, s, Ix(st, d), i, K[d])
    BY <1>1, RestItem
  <1>3. K[d] \in Rests /\ Ix(st, d) \in Seq(Nat) /\ d \in Nat
    <2>1. Size(st) \in Nat
      BY SizeIn
    <2>2. Ix(st, d) \in Seq(Nat)
      BY IxTyped
    <2>3. K[d] \in Rests
      BY <1>1 DEF IsRest
    <2> QED
      BY <2>1, <2>2, <2>3
  <1>4. Ix(n, d + 1) = Append(Ix(st, d), i)
    <2>1. \A j \in 1..d : n[2 * j] = st[2 * j]
      BY <1>3, IxSame
    <2>2. Ix(st, d) = [j \in 1..d |-> st[2 * j]] /\ Ix(n, d + 1) = [j \in 1..(d + 1) |-> n[2 * j]]
      BY DEF Ix
    <2>3. Len(Ix(st, d)) = d
      BY <1>3, <2>2
    <2>4. \A j \in 1..(d + 1) : n[2 * j] = Append(Ix(st, d), i)[j]
      <3> SUFFICES ASSUME NEW j \in 1..(d + 1) PROVE n[2 * j] = Append(Ix(st, d), i)[j]
        OBVIOUS
      <3>1. CASE j = d + 1
        <4>1. 2 * j = 2 * d + 2
          BY <1>3, <3>1
        <4> QED
          BY <1>3, <2>3, <3>1, <4>1
      <3>2. CASE j # d + 1
        <4>1. j \in 1..d
          BY <1>3, <3>2
        <4> QED
          BY <1>3, <2>1, <2>2, <2>3, <4>1
      <3> QED
        BY <3>1, <3>2
    <2>5. Append(Ix(st, d), i) = [j \in 1..(d + 1) |-> Append(Ix(st, d), i)[j]]
      <3> DEFINE q == Ix(st, d)
      <3>1. q \in Seq(Nat) /\ Len(q) = d
        BY <1>3, <2>3
      <3> HIDE DEF q
      <3> DEFINE r == Append(q, i)
      <3>2. r \in Seq(Nat) /\ Len(r) = d + 1
        BY <3>1
      <3> HIDE DEF r
      <3>3. r \in [1..(d + 1) -> Nat]
        BY <3>2, LenProperties
      <3>4. r = [j \in 1..(d + 1) |-> r[j]]
        BY <3>3
      <3> QED
        BY <3>4, Zenon DEF q, r
    <2> QED
      BY <2>2, <2>4, <2>5
  <1>5. Onward(p, s, Ix(st, d), i, h, K[d]) = Onward(p, p[s].body, Ix(n, d + 1), 0, h, L[d + 1])
    <2>1. Onward(p, s, Ix(st, d), i, h, K[d])
            = Onward(p, p[s].body, Append(Ix(st, d), i), 0, h, AfterItem(p, s, Ix(st, d), i, K[d]))
      BY <1>3, OnwardItem
    <2> QED
      BY <1>2, <1>4, <2>1, Zenon
  <1> QED
    BY <1>1, <1>2, <1>5, Zenon DEF Ahead

LEMMA AheadAfterItems ==
  ASSUME NEW p \in Programs, Structured(p), NEW st, Shape(st), NEW d \in 0..Size(st),
         NEW s \in DOMAIN p, p[s].kind = "ForLoop", NEW i \in Nat, i >= p[s].len, NEW h \in BOOLEAN,
         NEW log, Ahead(p, st, d, s, i, h, log)
  PROVE  Ahead(p, st, d, NextOf(p, s), 0, h, log)
  <1>1. PICK K : IsRest(p, st, K) /\ Gives(p, log, Onward(p, s, Ix(st, d), i, h, K[d]))
    BY DEF Ahead
  <1>2. K[d] \in Rests /\ Ix(st, d) \in Seq(Nat)
    BY <1>1, IxTyped DEF IsRest
  <1>3. Onward(p, s, Ix(st, d), i, h, K[d]) = Onward(p, NextOf(p, s), Ix(st, d), 0, h, K[d])
    BY <1>2, OnwardAfterItems
  <1> QED
    BY <1>1, <1>3, Zenon DEF Ahead

\* A chain in the body of a loop is done: the loop comes to its next item.
LEMMA AheadChainDone ==
  ASSUME NEW p \in Programs, Structured(p), NEW st, Shape(st), NEW d \in 1..Size(st),
         NEW h \in BOOLEAN, NEW log, Ahead(p, st, d, 0, 0, h, log)
  PROVE  Ahead(p, st, d - 1, st[2 * d - 1], st[2 * d] + 1, h, log)
  <1>1. PICK K : IsRest(p, st, K) /\ Gives(p, log, Onward(p, 0, Ix(st, d), 0, h, K[d]))
    BY DEF Ahead
  <1>2. d \in 0..Size(st)
    OBVIOUS
  <1>3. K[d] \in Rests /\ Ix(st, d) \in Seq(Nat)
    BY <1>1, <1>2, IxTyped DEF IsRest
  <1>4. Onward(p, 0, Ix(st, d), 0, h, K[d]) = K[d][h]
    BY <1>3, OnwardNothing
  <1>5. K[d] = AfterItem(p, st[2 * d - 1], Ix(st, d - 1), st[2 * d], K[d - 1])
    BY <1>1 DEF IsRest
  <1>6. K[d][h] = Onward(p, st[2 * d - 1], Ix(st, d - 1), st[2 * d] + 1, h, K[d - 1])
    BY <1>5 DEF AfterItem
  <1> QED
    BY <1>1, <1>4, <1>6, Zenon DEF Ahead

LEMMA GivesNothing ==
  ASSUME NEW p, NEW log \in Logs, NEW h, NEW end, Gives(p, log, Nothing(h, end))
  PROVE  log = Whole(p).log /\ Whole(p).end = end
  <1>1. Nothing(h, end).log = <<>> /\ Nothing(h, end).end = end
    BY DEF Nothing
  <1>2. log \o <<>> = log
    BY DEF Logs
  <1> QED
    BY <1>1, <1>2 DEF Gives

LEMMA AheadNothing ==
  ASSUME NEW p \in Programs, Structured(p), NEW st, Shape(st), NEW h \in BOOLEAN, NEW log \in Logs,
         Ahead(p, st, 0, 0, 0, h, log)
  PROVE  log = Whole(p).log /\ Whole(p).end = "on"
  <1>1. PICK K : IsRest(p, st, K) /\ Gives(p, log, Onward(p, 0, Ix(st, 0), 0, h, K[0]))
    BY DEF Ahead
  <1>2. 0 \in 0..Size(st)
    BY SizeIn
  <1>3. K[0] \in Rests /\ Ix(st, 0) \in Seq(Nat)
    BY <1>1, <1>2, IxTyped DEF IsRest
  <1>4. Onward(p, 0, Ix(st, 0), 0, h, K[0]) = Nothing(h, "on")
    BY <1>1, <1>3, OnwardNothing DEF IsRest
  <1> QED
    BY <1>1, <1>4, GivesNothing

LEMMA GivesFirst ==
  ASSUME NEW p, NEW log \in Logs, NEW s \in Nat, NEW ix \in Seq(Nat), NEW all \in Outcomes,
         Gives(p, log, First(s, ix, all))
  PROVE  Gives(p, Append(log, <<s, ix>>), all) /\ Append(log, <<s, ix>>) \in Logs
  <1> DEFINE e == <<s, ix>>
             f == <<e>>
  <1>1. e \in Nat \X Seq(Nat) /\ f \in Logs /\ all.log \in Logs
    BY DEF Logs, Outcomes
  <1>2. First(s, ix, all).log = f \o all.log /\ First(s, ix, all).end = all.end
    BY DEF First, Outcomes
  <1> HIDE DEF f, e
  <1>3. Append(log, e) = log \o f /\ Append(log, e) \in Logs
    BY <1>1 DEF Logs, f
  <1>4. (log \o f) \o all.log = log \o (f \o all.log)
    BY <1>1, LogsConcat
  <1>5. Gives(p, Append(log, e), all)
    BY <1>2, <1>3, <1>4 DEF Gives
  <1> QED
    BY <1>3, <1>5 DEF e

LEMMA AheadStep ==
  ASSUME NEW p \in Programs, Structured(p), NEW st, Shape(st), NEW s \in {Handler} \cup DOMAIN p,
         Kind(p, s) \notin {"Stop", "Throws", "ForLoop"},
         NEW h \in BOOLEAN, NEW log \in Logs, Ahead(p, st, Size(st), s, 0, h, log)
  PROVE  Ahead(p, st, Size(st), NextOf(p, s), 0, Armed(p, s, h), Append(log, <<s, Indices(st)>>))
  <1> DEFINE d == Size(st)
             ix == Ix(st, d)
  <1>1. PICK K : IsRest(p, st, K) /\ Gives(p, log, Onward(p, s, ix, 0, h, K[d]))
    BY DEF Ahead
  <1>2. d \in 0..Size(st)
    BY SizeIn
  <1>3. K[d] \in Rests /\ ix \in Seq(Nat) /\ Indices(st) = ix
    BY <1>1, <1>2, IxTyped DEF IsRest
  <1> DEFINE all == Onward(p, NextOf(p, s), ix, 0, Armed(p, s, h), K[d])
  <1>4. s \in Nat /\ NextOf(p, s) \in {0, Handler} \cup DOMAIN p
    BY StepPlaces
  <1>5. all \in Outcomes
    BY <1>3, <1>4, OnwardTyped DEF Armed
  <1>6. Onward(p, s, ix, 0, h, K[d]) = First(s, ix, all)
    BY <1>3, OnwardStep
  <1>7. Gives(p, Append(log, <<s, ix>>), all)
    <2> HIDE DEF all, ix, d
    <2> QED
      BY <1>1, <1>3, <1>4, <1>5, <1>6, GivesFirst
  <1> QED
    BY <1>1, <1>3, <1>7, Zenon DEF Ahead

LEMMA AheadStop ==
  ASSUME NEW p \in Programs, Structured(p), NEW st, Shape(st), NEW s \in {Handler} \cup DOMAIN p,
         Kind(p, s) = "Stop", NEW h \in BOOLEAN, NEW log \in Logs, Ahead(p, st, Size(st), s, 0, h, log)
  PROVE  Append(log, <<s, Indices(st)>>) = Whole(p).log /\ Whole(p).end = "Finished"
  <1> DEFINE d == Size(st)
             ix == Ix(st, d)
             l == Append(log, <<s, ix>>)
  <1>1. PICK K : IsRest(p, st, K) /\ Gives(p, log, Onward(p, s, ix, 0, h, K[d]))
    BY DEF Ahead
  <1>2. d \in 0..Size(st)
    BY SizeIn
  <1>3. K[d] \in Rests /\ ix \in Seq(Nat) /\ Indices(st) = ix
    BY <1>1, <1>2, IxTyped DEF IsRest
  <1>4. Onward(p, s, ix, 0, h, K[d]) = First(s, ix, Nothing(h, "Finished"))
    BY <1>3, OnwardStop
  <1>5. Gives(p, l, Nothing(h, "Finished")) /\ l \in Logs
    <2>1. s \in Nat /\ Nothing(h, "Finished") \in Outcomes
      BY StepPlaces, NothingOutcome
    <2> HIDE DEF ix
    <2> QED
      BY <1>1, <1>3, <1>4, <2>1, GivesFirst
  <1> HIDE DEF l
  <1>6. l = Whole(p).log /\ Whole(p).end = "Finished"
    BY <1>5, GivesNothing
  <1> QED
    BY <1>3, <1>6 DEF l

LEMMA AheadThrows ==
  ASSUME NEW p \in Programs, Structured(p), NEW st, Shape(st), NEW s \in {Handler} \cup DOMAIN p,
         Kind(p, s) = "Throws", NEW h \in BOOLEAN, NEW log \in Logs, Ahead(p, st, Size(st), s, 0, h, log)
  PROVE  IF h THEN Ahead(p, st, Size(st), Handler, 0, h, log)
              ELSE log = Whole(p).log /\ Whole(p).end = "Error"
  <1> DEFINE d == Size(st)
             ix == Ix(st, d)
  <1>1. PICK K : IsRest(p, st, K) /\ Gives(p, log, Onward(p, s, ix, 0, h, K[d]))
    BY DEF Ahead
  <1>2. d \in 0..Size(st)
    BY SizeIn
  <1>3. K[d] \in Rests /\ ix \in Seq(Nat)
    BY <1>1, <1>2, IxTyped DEF IsRest
  <1>4. Onward(p, s, ix, 0, h, K[d]) = IF h THEN Onward(p, Handler, ix, 0, h, K[d]) ELSE Nothing(h, "Error")
    BY <1>3, OnwardThrows
  <1>5. CASE h
    BY <1>1, <1>4, <1>5, Zenon DEF Ahead
  <1>6. CASE ~h
    BY <1>1, <1>4, <1>6, GivesNothing
  <1> QED
    BY <1>5, <1>6

LEMMA AheadPrefix ==
  ASSUME NEW p \in Programs, Structured(p), NEW st, Shape(st), NEW s \in {Handler} \cup DOMAIN p,
         NEW h \in BOOLEAN, NEW log \in Logs, Ahead(p, st, Size(st), s, 0, h, log)
  PROVE  IsPrefix(log, Whole(p).log)
  <1> DEFINE d == Size(st)
             ix == Ix(st, d)
  <1>1. PICK K : IsRest(p, st, K) /\ Gives(p, log, Onward(p, s, ix, 0, h, K[d]))
    BY DEF Ahead
  <1>2. d \in 0..Size(st)
    BY SizeIn
  <1>3. K[d] \in Rests /\ ix \in Seq(Nat)
    BY <1>1, <1>2, IxTyped DEF IsRest
  <1> DEFINE all == Onward(p, s, ix, 0, h, K[d])
  <1>4. all.log \in Logs
    <2>1. all \in Outcomes
      BY <1>3, OnwardTyped
    <2> QED
      BY <2>1 DEF Outcomes, Logs
  <1>5. Whole(p).log = log \o all.log
    BY <1>1 DEF Gives
  <1> HIDE DEF all
  <1> DEFINE more == all.log
  <1> HIDE DEF more
  <1>6. more \in Logs
    BY <1>4 DEF more
  <1>7. IsPrefix(log, log \o more)
    <2>1. Len(log) <= Len(log \o more)
      BY <1>6 DEF Logs
    <2>2. SubSeq(log, 1, Len(log)) = SubSeq(log \o more, 1, Len(log))
      BY <1>6 DEF Logs
    <2> QED
      BY <2>1, <2>2 DEF IsPrefix
  <1> QED
    BY <1>5, <1>7 DEF more

-------------------------------------------------------------------------------
(* The invariant of the order.                                             *)

\* What is in the log and what is ahead of the run o are the whole workflow,
\* and a run that waits is at a pause.
OrderOK(p, o, log) ==
  /\ o.status \notin Ended => Ahead(p, o.stack, Size(o.stack), Top(o.stack), 0, o.handler, log)
  /\ o.status \in Ended => log = Whole(p).log /\ (o.status = "Error" <=> Whole(p).end = "Error")
  /\ o.status = "Waiting" => o.stack # <<>> /\ Kind(p, Top(o.stack)) = "Pause"

OrderInv ==
  /\ OrderOK(prog, row.run, row.log)
  /\ OrderOK(prog, kept.run, kept.log)
  /\ call.on /\ call.fulfilled => Kind(prog, call.step) = "Pause"

LEMMA AdvanceAhead ==
  ASSUME prog \in Programs, Structured(prog), NEW o, NEW s, GoodAt(prog, o, s), NEW log \in Logs,
         Ahead(prog, o.stack, Size(o.stack), NextOf(prog, s), 0, o.handler, log)
  PROVE  OrderOK(prog, Advance(o, s).run, log)
  <1> DEFINE a == Advance(o, s)
             st == o.stack
             d == Size(st)
             h == o.handler
             f == InLoop(o)
             i == AtItem(o)
  <1> SUFFICES OrderOK(prog, a.run, log)
    OBVIOUS
  <1>1. RunOK(prog, o) /\ o.status = "Running" /\ st # <<>> /\ s = Top(st) /\ Nested(prog)
    BY DEF GoodAt, Nested, Structured
  <1>2. Shape(st) /\ d \in Nat /\ h \in BOOLEAN
    BY <1>1, SizeIn DEF RunOK, StackOK, Runs
  <1>3. ASSUME NEW t, NEW n, Reaches(a, o, t, n), Ahead(prog, n, Size(n), t, 0, h, log)
        PROVE  OrderOK(prog, a.run, log)
    <2> HIDE DEF a
    <2> QED
      BY <1>1, <1>3 DEF Reaches, OrderOK, Ended
  <1>4. ASSUME a.run.status = "Finished", log = Whole(prog).log, Whole(prog).end = "on"
        PROVE  OrderOK(prog, a.run, log)
    <2> HIDE DEF a
    <2> QED
      BY <1>4 DEF OrderOK, Ended
  <1>5. CASE NextOf(prog, s) # 0
    <2> DEFINE t == NextOf(prog, s)
               n == SetTop(st, t)
    <2>1. Reaches(a, o, t, n) /\ Topped(st, t, n)
      BY <1>1, <1>5, NextInChain
    <2> HIDE DEF a, n
    <2>2. Ahead(prog, n, Size(n), t, 0, h, log)
      BY <1>2, <2>1, AheadTop
    <2> QED
      BY <1>3, <2>1, <2>2
  <1>6. ASSUME NextOf(prog, s) = 0, d # 0
        PROVE  /\ Ahead(prog, st, d - 1, f, i + 1, h, log)
               /\ d - 1 \in 0..Size(st) /\ d \in 1..Size(st)
               /\ f \in DOMAIN prog /\ f # Handler /\ prog[f].kind = "ForLoop" /\ prog[f].len \in Nat
               /\ i \in Nat /\ i + 1 \in Nat /\ f = st[2 * d - 1] /\ i = st[2 * d]
    <2>1. d - 1 \in 0..Size(st) /\ d \in 1..Size(st)
      BY <1>2, <1>6
    <2>2. /\ f = st[2 * d - 1] /\ i = st[2 * d]
          /\ f \in DOMAIN prog /\ f # Handler /\ prog[f].kind = "ForLoop" /\ prog[f].len \in Nat
          /\ i \in Nat
      BY <1>1, <1>6, InnerLoop DEF InLoop, AtItem
    <2> HIDE DEF f, i, d
    <2>3. Ahead(prog, st, d - 1, st[2 * d - 1], st[2 * d] + 1, h, log)
      BY <1>2, <1>6, <2>1, AheadChainDone DEF d
    <2> QED
      BY <2>1, <2>2, <2>3
  <1>7. CASE NextOf(prog, s) = 0 /\ d # 0 /\ MoreItems(f, i)
    <2> DEFINE n == NextStack(o)
    <2>1. Reaches(a, o, prog[f].body, n) /\ OnItem(prog, st, f, i + 1, n) /\ i + 1 < prog[f].len
      BY <1>1, <1>7, NextOfLoop
    <2>2. /\ Size(n) = d /\ StackOK(prog, n)
          /\ \A j \in 1..(2 * d) : n[j] = IF j = 2 * d THEN i + 1 ELSE st[j]
      BY <2>1, Zenon DEF OnItem
    <2> HIDE DEF a, n, f, i, d
    <2> DEFINE e == d - 1
    <2>3. /\ e \in 0..Size(st) /\ Size(n) = e + 1 /\ n[2 * e + 2] = i + 1
          /\ \A j \in 1..(2 * e) : n[j] = st[j]
          /\ n[2 * e + 1] = f
      <3>1. d \in Nat /\ d >= 1 /\ e \in 0..Size(st) /\ e + 1 = d /\ 2 * e + 2 = 2 * d /\ 2 * e + 1 = 2 * d - 1
        BY <1>2, <1>6, <1>7 DEF d
      <3>2. \A j \in 1..(2 * d - 1) : n[j] = st[j]
        <4> SUFFICES ASSUME NEW j \in 1..(2 * d - 1) PROVE n[j] = st[j]
          OBVIOUS
        <4>1. j \in 1..(2 * d) /\ j # 2 * d
          BY <3>1
        <4> QED
          BY <2>2, <4>1
      <3>3. 2 * d \in 1..(2 * d) /\ 2 * d - 1 \in 1..(2 * d - 1) /\ \A j \in 1..(2 * e) : j \in 1..(2 * d - 1)
        BY <3>1
      <3> QED
        BY <1>6, <1>7, <2>2, <3>1, <3>2, <3>3
    <2> DEFINE x == i + 1
    <2>4. x \in Nat /\ ~(x >= prog[f].len) /\ f \in DOMAIN prog /\ prog[f].kind = "ForLoop"
      <3> DEFINE len == prog[f].len
      <3>1. len \in Nat /\ i \in Nat /\ i + 1 < len
        BY <1>6, <1>7, <2>1
      <3> HIDE DEF len
      <3>2. ~(i + 1 >= len)
        BY <3>1
      <3> QED
        BY <1>6, <1>7, <3>2 DEF len
    <2>5. Ahead(prog, st, e, f, x, h, log) /\ n[2 * e + 2] = x
      BY <1>6, <1>7, <2>3
    <2> HIDE DEF x, e
    <2>6. Ahead(prog, n, e + 1, prog[f].body, 0, h, log)
      BY <1>2, <2>3, <2>4, <2>5, AheadItem
    <2>7. Ahead(prog, n, Size(n), prog[f].body, 0, h, log)
      BY <2>3, <2>6
    <2> QED
      BY <1>3, <2>1, <2>7
  <1>8. CASE NextOf(prog, s) = 0 /\ d # 0 /\ ~MoreItems(f, i) /\ prog[f].next # 0
    <2> DEFINE n == OutStack(o)
    <2>1. Reaches(a, o, prog[f].next, n) /\ AfterLoop(prog, st, f, n) /\ i + 1 = prog[f].len
      BY <1>1, <1>8, NextAfterLoop
    <2>2. /\ Size(n) = d - 1 /\ \A j \in 1..(2 * d - 2) : n[j] = st[j]
      BY <2>1, Zenon DEF AfterLoop
    <2> HIDE DEF a, n, f, i, d
    <2> DEFINE e == d - 1
    <2>3. e \in 0..Size(st) /\ Size(n) = e /\ \A j \in 1..(2 * e) : n[j] = st[j]
      <3>1. e \in 0..Size(st) /\ 2 * e = 2 * d - 2
        BY <1>2, <1>6, <1>8 DEF d
      <3> QED
        BY <2>2, <3>1
    <2>4. Ahead(prog, st, e, NextOf(prog, f), 0, h, log) /\ NextOf(prog, f) = prog[f].next
      <3> DEFINE x == i + 1
      <3>1. /\ Ahead(prog, st, e, f, x, h, log) /\ x \in Nat /\ x >= prog[f].len
            /\ f \in DOMAIN prog /\ prog[f].kind = "ForLoop" /\ f # Handler
        BY <1>6, <1>8, <2>1
      <3> HIDE DEF x, e
      <3>2. Ahead(prog, st, e, NextOf(prog, f), 0, h, log)
        BY <1>2, <2>3, <3>1, AheadAfterItems
      <3> QED
        BY <3>1, <3>2 DEF NextOf
    <2> HIDE DEF e
    <2>5. Ahead(prog, n, e, prog[f].next, 0, h, log)
      BY <1>2, <2>3, <2>4, AheadKept
    <2>6. Ahead(prog, n, Size(n), prog[f].next, 0, h, log)
      BY <2>3, <2>5
    <2> QED
      BY <1>3, <2>1, <2>6
  <1>9. CASE NextOf(prog, s) = 0 /\ d = 0
    <2>1. a.run.status = "Finished"
      BY <1>1, <1>9, NextFinishes
    <2>2. log = Whole(prog).log /\ Whole(prog).end = "on"
      <3>1. Ahead(prog, st, 0, 0, 0, h, log)
        BY <1>9
      <3> QED
        BY <1>2, <3>1, AheadNothing
    <2> QED
      BY <1>4, <2>1, <2>2
  <1>10. CASE NextOf(prog, s) = 0 /\ d # 0 /\ ~MoreItems(f, i) /\ prog[f].next = 0
    <2>1. a.run.status = "Finished" /\ i + 1 = prog[f].len
      BY <1>1, <1>10, NextFinishes
    <2>2. /\ f \in DOMAIN prog /\ prog[f].kind = "ForLoop" /\ f # Handler /\ f = st[2 * d - 1]
          /\ Ahead(prog, st, d - 1, f, i + 1, h, log) /\ i + 1 \in Nat /\ prog[f].len \in Nat
          /\ d - 1 \in 0..Size(st) /\ d \in 1..Size(st)
      BY <1>6, <1>10
    <2>3. d - 1 = 0
      <3>1. Around(prog)[f] = {}
        BY <1>1, <1>10, <2>2, ProgramFacts DEF Forward
      <3>2. Around(prog)[f] = Loops(st, d - 1)
        BY <1>1, <2>2 DEF RunOK, StackOK
      <3> HIDE DEF d
      <3>3. d - 1 >= 1 => st[1] \in Loops(st, d - 1)
        BY <2>2 DEF Loops
      <3>4. d - 1 >= 1 \/ d - 1 = 0
        BY <2>2
      <3> QED
        BY <3>1, <3>2, <3>3, <3>4
    <2> HIDE DEF a, f, i, d
    <2> DEFINE x == i + 1
    <2>4. x \in Nat /\ x >= prog[f].len /\ Ahead(prog, st, 0, f, x, h, log) /\ 0 \in 0..Size(st)
      BY <2>1, <2>2, <2>3
    <2> HIDE DEF x
    <2>5. Ahead(prog, st, 0, NextOf(prog, f), 0, h, log)
      BY <1>2, <2>2, <2>4, AheadAfterItems
    <2>6. NextOf(prog, f) = 0
      BY <1>10, <2>2 DEF NextOf
    <2>7. log = Whole(prog).log /\ Whole(prog).end = "on"
      BY <1>2, <2>5, <2>6, AheadNothing
    <2> QED
      BY <1>4, <2>1, <2>7
  <1> HIDE DEF a, f, i, d
  <1> QED
    BY <1>5, <1>7, <1>8, <1>9, <1>10, Zenon

LEMMA OrderAt ==
  ASSUME EngineInv, OrderInv, call.on, Structured(prog)
  PROVE  /\ prog \in Programs /\ Nested(prog) /\ GoodAt(prog, obj, call.step) /\ obj \in Runs(prog)
         /\ Shape(obj.stack) /\ obj.handler \in BOOLEAN
         /\ row.log \in Logs /\ Done(call.step) \in Logs
         /\ call.step \in {Handler} \cup DOMAIN prog
         /\ obj.stack # <<>> /\ call.step = Top(obj.stack)
         /\ Ahead(prog, obj.stack, Size(obj.stack), call.step, 0, obj.handler, row.log)
         /\ Done(call.step) = Append(row.log, <<call.step, Indices(obj.stack)>>)
  <1>1. /\ obj = row.run /\ GoodAt(prog, obj, call.step) /\ RunOK(prog, obj) /\ obj \in Runs(prog)
        /\ obj.status = "Running" /\ row.log \in Logs /\ Done(call.step) \in Logs
        /\ call.step # Handler => call.step \in DOMAIN prog
    BY CallAt, Zenon
  <1>2. obj.stack # <<>> /\ call.step = Top(obj.stack) /\ Shape(obj.stack) /\ obj.handler \in BOOLEAN
    BY <1>1 DEF GoodAt, RunOK, StackOK, Runs
  <1>3. Ahead(prog, obj.stack, Size(obj.stack), call.step, 0, obj.handler, row.log)
    BY <1>1, <1>2 DEF OrderInv, OrderOK, Ended
  <1>4. prog \in Programs /\ Nested(prog)
    BY DEF EngineInv, Nested, Structured
  <1>5. Done(call.step) = Append(row.log, <<call.step, Indices(obj.stack)>>)
    BY DEF Done
  <1> QED
    BY <1>1, <1>2, <1>3, <1>4, <1>5

LEMMA OrderWritten ==
  ASSUME OrderInv, NEW r, NEW log, OrderOK(prog, r, log), row' = [run |-> r, log |-> log],
         UNCHANGED <<prog, kept>>, ~(call'.on /\ call'.fulfilled)
  PROVE  OrderInv'
  <1>1. row'.run = r /\ row'.log = log
    OBVIOUS
  <1> QED
    BY <1>1, Zenon DEF OrderInv

LEMMA OrderContinued ==
  ASSUME OrderInv, call \in Calls, NEW next, NEW log, Continue(next, log), ~call.fulfilled,
         OrderOK(prog, next.run, log), UNCHANGED <<prog, kept>>
  PROVE  OrderInv'
  <1>1. ~(call'.on /\ call'.fulfilled)
    BY DEF Continue, Calls, NoCall
  <1> QED
    BY <1>1, OrderWritten DEF Continue

LEMMA OrderReturned ==
  ASSUME OrderInv, NEW r, NEW log, Return(r, log), OrderOK(prog, r, log), UNCHANGED <<prog, kept>>
  PROVE  OrderInv'
  <1>1. ~call'.on
    BY DEF Return, NoCall
  <1> QED
    BY <1>1, OrderWritten DEF Return

LEMMA StepOrder ==
  ASSUME EngineInv, OrderInv, Structured(prog), call.on,
         Kind(prog, call.step) \in {"Action", "Directive", "Pause"}
  PROVE  OrderOK(prog, Advance(obj, call.step).run, Done(call.step))
  <1> DEFINE s == call.step
             log == Done(s)
             h == obj.handler
  <1>1. /\ prog \in Programs /\ GoodAt(prog, obj, s) /\ Shape(obj.stack) /\ h \in BOOLEAN
        /\ row.log \in Logs /\ log \in Logs /\ s \in {Handler} \cup DOMAIN prog
        /\ Ahead(prog, obj.stack, Size(obj.stack), s, 0, h, row.log)
        /\ log = Append(row.log, <<s, Indices(obj.stack)>>)
    BY OrderAt, Zenon
  <1>2. Kind(prog, s) \notin {"Stop", "Throws", "ForLoop"} /\ Armed(prog, s, h) = h
    BY <1>1 DEF Armed
  <1> HIDE DEF s, log, h
  <1>3. Ahead(prog, obj.stack, Size(obj.stack), NextOf(prog, s), 0, Armed(prog, s, h), log)
    BY <1>1, <1>2, AheadStep
  <1>4. OrderOK(prog, Advance(obj, s).run, log)
    BY <1>1, <1>2, <1>3, AdvanceAhead DEF h
  <1> QED
    BY <1>4 DEF s, log

LEMMA ArmedOrder ==
  ASSUME EngineInv, OrderInv, Structured(prog), call.on, Kind(prog, call.step) = "SetErrorHandler"
  PROVE  OrderOK(prog, Advance([obj EXCEPT !.handler = TRUE], call.step).run, Done(call.step))
  <1> DEFINE s == call.step
             log == Done(s)
             h == obj.handler
             q == [obj EXCEPT !.handler = TRUE]
  <1>1. /\ prog \in Programs /\ GoodAt(prog, obj, s) /\ Shape(obj.stack) /\ h \in BOOLEAN
        /\ row.log \in Logs /\ log \in Logs /\ s \in {Handler} \cup DOMAIN prog
        /\ Ahead(prog, obj.stack, Size(obj.stack), s, 0, h, row.log)
        /\ log = Append(row.log, <<s, Indices(obj.stack)>>)
    BY OrderAt, Zenon
  <1>2. Kind(prog, s) \notin {"Stop", "Throws", "ForLoop"} /\ Armed(prog, s, h) = TRUE
    BY <1>1 DEF Armed
  <1>3. GoodAt(prog, q, s) /\ q.stack = obj.stack /\ q.handler = TRUE
    <2>1. RunOK(prog, q) /\ q.status = obj.status /\ q.stack = obj.stack /\ q.handler = TRUE
      BY <1>1, RunChanged DEF Statuses, GoodAt
    <2> HIDE DEF q, s
    <2> QED
      BY <1>1, <2>1 DEF GoodAt
  <1> HIDE DEF s, log, h, q
  <1>4. Ahead(prog, obj.stack, Size(obj.stack), NextOf(prog, s), 0, TRUE, log)
    BY <1>1, <1>2, AheadStep
  <1>5. OrderOK(prog, Advance(q, s).run, log)
    BY <1>1, <1>3, <1>4, AdvanceAhead
  <1> QED
    BY <1>5 DEF s, log, q

LEMMA CallOrder ==
  ASSUME EngineInv, OrderInv, Structured(prog), NEW tx \in BOOLEAN, NEW inter \in BOOLEAN, Call(tx, inter)
  PROVE  OrderInv'
  <1> DEFINE o == row.run
             st == o.stack
             s == Top(st)
             r == [o EXCEPT !.status = "Running", !.stack = SetTop(st, s)]
  <1>1. RunOK(prog, o) /\ row \in Rows(prog) /\ o.status \notin Ended /\ Nested(prog)
    BY DEF EngineInv, RowOK, Call, Nested, Structured
  <1>2. GoodAt(prog, r, s) /\ r.handler = o.handler /\ Topped(st, s, r.stack)
    BY <1>1, RunningAgain
  <1>3. /\ row' = [row EXCEPT !.run = r] /\ kept' = row /\ prog' = prog
        /\ call' = [on |-> TRUE, tx |-> tx, inter |-> inter, step |-> s, fulfilled |-> o.status = "Waiting"]
    BY DEF Call, Top
  <1>4. OrderOK(prog, o, row.log)
    BY DEF OrderInv
  <1>5. Shape(st)
    BY <1>1 DEF RunOK, StackOK
  <1> HIDE DEF r, s
  <1>6. row'.run = r /\ row'.log = row.log
    BY <1>1, <1>3 DEF Rows
  <1>7. OrderOK(prog, r, row.log)
    <2>1. Ahead(prog, st, Size(st), s, 0, o.handler, row.log)
      BY <1>1, <1>4 DEF OrderOK, s
    <2> HIDE DEF st, o
    <2>2. Ahead(prog, r.stack, Size(r.stack), s, 0, o.handler, row.log)
      BY <1>2, <1>5, <2>1, AheadTop
    <2>3. r.status = "Running" /\ s = Top(r.stack)
      BY <1>2 DEF GoodAt
    <2> QED
      BY <1>2, <2>2, <2>3 DEF OrderOK, Ended
  <1>8. call'.fulfilled => Kind(prog, call'.step) = "Pause"
    BY <1>3, <1>4 DEF OrderOK, s
  <1> QED
    BY <1>3, <1>4, <1>6, <1>7, <1>8, Zenon DEF OrderInv

LEMMA ResumedOrder ==
  ASSUME EngineInv, OrderInv, Structured(prog), Resumed
  PROVE  OrderInv'
  <1> DEFINE a == Advance(obj, call.step)
  <1>1. /\ call.on /\ call.fulfilled /\ obj' = a.run
        /\ row' = [run |-> a.run, log |-> IF Kind(prog, call.step) = "Pause" THEN Done(call.step) ELSE row.log]
        /\ call' = IF a.step = 0 THEN NoCall ELSE [call EXCEPT !.step = a.step, !.fulfilled = FALSE]
        /\ UNCHANGED <<prog, kept, crashes>>
    BY DEF Resumed, At
  <1>2. Kind(prog, call.step) = "Pause"
    BY <1>1 DEF OrderInv
  <1>3. OrderOK(prog, a.run, Done(call.step))
    BY <1>1, <1>2, StepOrder
  <1> HIDE DEF a
  <1>4. ~(call'.on /\ call'.fulfilled)
    <2>1. call \in Calls
      BY DEF EngineInv
    <2> QED
      BY <1>1, <2>1 DEF NoCall, Calls
  <1>5. row' = [run |-> a.run, log |-> Done(call.step)]
    BY <1>1, <1>2
  <1> QED
    BY <1>1, <1>3, <1>4, <1>5, OrderWritten

LEMMA PauseOrder ==
  ASSUME EngineInv, OrderInv, Structured(prog), Pause
  PROVE  OrderInv'
  <1> DEFINE r == [obj EXCEPT !.status = "Waiting"]
  <1>1. call.on /\ Kind(prog, call.step) = "Pause" /\ Return(r, row.log) /\ UNCHANGED <<prog, kept>>
    BY DEF Pause, At
  <1>2. /\ obj \in Runs(prog) /\ obj.stack # <<>> /\ call.step = Top(obj.stack)
        /\ Ahead(prog, obj.stack, Size(obj.stack), call.step, 0, obj.handler, row.log)
    BY <1>1, OrderAt, Zenon
  <1>3. r.status = "Waiting" /\ r.stack = obj.stack /\ r.handler = obj.handler
    BY <1>2 DEF Runs
  <1> HIDE DEF r
  <1>4. OrderOK(prog, r, row.log)
    BY <1>1, <1>2, <1>3 DEF OrderOK, Ended
  <1> QED
    BY <1>1, <1>4, OrderReturned

LEMMA StopOrder ==
  ASSUME EngineInv, OrderInv, Structured(prog), Stop
  PROVE  OrderInv'
  <1> DEFINE s == call.step
             log == Done(s)
             h == obj.handler
             r == [obj EXCEPT !.status = "Finished"]
  <1>1. call.on /\ Kind(prog, s) = "Stop" /\ Return(r, log) /\ UNCHANGED <<prog, kept>>
    BY DEF Stop, At
  <1>2. /\ prog \in Programs /\ obj \in Runs(prog) /\ Shape(obj.stack) /\ h \in BOOLEAN
        /\ row.log \in Logs /\ s \in {Handler} \cup DOMAIN prog
        /\ Ahead(prog, obj.stack, Size(obj.stack), s, 0, h, row.log)
        /\ log = Append(row.log, <<s, Indices(obj.stack)>>)
    BY <1>1, OrderAt, Zenon
  <1>3. r.status = "Finished"
    BY <1>2 DEF Runs
  <1> HIDE DEF r, s, log, h
  <1>4. log = Whole(prog).log /\ Whole(prog).end = "Finished"
    BY <1>1, <1>2, AheadStop
  <1>5. OrderOK(prog, r, log)
    BY <1>3, <1>4 DEF OrderOK, Ended
  <1> QED
    BY <1>1, <1>5, OrderReturned

LEMMA ThrowsOrder ==
  ASSUME EngineInv, OrderInv, Structured(prog), Throws
  PROVE  OrderInv'
  <1> DEFINE s == call.step
             st == obj.stack
             h == obj.handler
             log == row.log
  <1>1. call.on /\ Kind(prog, s) = "Throws" /\ ~call.fulfilled /\ UNCHANGED <<prog, kept>>
    BY DEF Throws, At
  <1>2. /\ prog \in Programs /\ Nested(prog) /\ GoodAt(prog, obj, s) /\ obj \in Runs(prog)
        /\ Shape(st) /\ h \in BOOLEAN /\ log \in Logs /\ s \in {Handler} \cup DOMAIN prog
        /\ Ahead(prog, st, Size(st), s, 0, h, log)
    BY <1>1, OrderAt, Zenon
  <1>3. IF h THEN Ahead(prog, st, Size(st), Handler, 0, h, log)
             ELSE log = Whole(prog).log /\ Whole(prog).end = "Error"
    <2> HIDE DEF s, st, h, log
    <2> QED
      BY <1>1, <1>2, AheadThrows
  <1>4. CASE h
    <2> DEFINE a == Go(obj, Handler)
    <2>1. Continue(a, log) /\ call \in Calls
      BY <1>4 DEF Throws, EngineInv
    <2>2. GoodAt(prog, a.run, a.step) /\ a.step = Handler /\ a.run.handler = h /\ Topped(st, Handler, a.run.stack)
      BY <1>2, GoHandler
    <2> HIDE DEF a, s, st, h, log
    <2>3. Ahead(prog, a.run.stack, Size(a.run.stack), Handler, 0, h, log)
      BY <1>2, <1>3, <1>4, <2>2, AheadTop
    <2>4. OrderOK(prog, a.run, log)
      BY <2>2, <2>3 DEF OrderOK, GoodAt, Ended
    <2> QED
      BY <1>1, <2>1, <2>4, OrderContinued
  <1>5. CASE ~h
    <2> DEFINE r == [obj EXCEPT !.status = "Error"]
    <2>1. Return(r, log)
      BY <1>5 DEF Throws
    <2>2. r.status = "Error"
      BY <1>2 DEF Runs
    <2> HIDE DEF r, s, st, h, log
    <2>3. OrderOK(prog, r, log)
      BY <1>3, <1>5, <2>2 DEF OrderOK, Ended
    <2> QED
      BY <1>1, <2>1, <2>3, OrderReturned
  <1> QED
    BY <1>4, <1>5

LEMMA ForLoopOrder ==
  ASSUME EngineInv, OrderInv, Structured(prog), ForLoop
  PROVE  OrderInv'
  <1> DEFINE s == call.step
             st == obj.stack
             h == obj.handler
             log == row.log
             len == prog[s].len
             d == Size(st)
  <1>1. call.on /\ Kind(prog, s) = "ForLoop" /\ ~call.fulfilled /\ UNCHANGED <<prog, kept>> /\ call \in Calls
    BY DEF ForLoop, At, OrderInv, EngineInv
  <1>2. /\ prog \in Programs /\ Nested(prog) /\ GoodAt(prog, obj, s)
        /\ Shape(st) /\ st # <<>> /\ s = Top(st) /\ h \in BOOLEAN /\ log \in Logs
        /\ s \in {Handler} \cup DOMAIN prog
        /\ Ahead(prog, st, d, s, 0, h, log)
    BY <1>1, OrderAt, Zenon
  <1>3. s \in DOMAIN prog /\ prog[s].kind = "ForLoop" /\ len \in Nat
    BY <1>1, <1>2, StepPlaces
  <1>4. d \in Nat /\ d \in 0..Size(st) /\ Len(st) = 2 * d + 1
    BY <1>2, SizeIn
  <1>5. CASE len = 0
    <2> DEFINE a == Advance(obj, s)
    <2>1. Continue(a, log)
      BY <1>5 DEF ForLoop
    <2>2. Ahead(prog, st, d, NextOf(prog, s), 0, h, log)
      <3>1. 0 >= len
        BY <1>5
      <3> HIDE DEF s, st, d, h, log
      <3> QED
        BY <1>2, <1>3, <1>4, <3>1, AheadAfterItems
    <2>3. OrderOK(prog, a.run, log)
      BY <1>2, <2>2, AdvanceAhead
    <2> HIDE DEF a
    <2> QED
      BY <1>1, <2>1, <2>3, OrderContinued
  <1>6. CASE len # 0
    <2> DEFINE b == prog[s].body
               q == Pushed(obj, s)
               next == [step |-> b, run |-> q]
               n == st \o <<0, b>>
    <2>1. Continue(next, log)
      BY <1>6 DEF ForLoop, Pushed
    <2>2. GoodAt(prog, q, b) /\ b \in Nat /\ q.stack = n /\ q.handler = h /\ q.status = "Running"
      BY <1>2, <1>3, <1>6, EnterLoop
    <2>3. b = Top(n)
      BY <2>2 DEF GoodAt
    <2>4. /\ Size(n) = d + 1 /\ \A j \in 1..(2 * d) : n[j] = st[j]
          /\ n[2 * d + 1] = s /\ n[2 * d + 2] = 0
      <3>1. st \in Seq(Nat) /\ s = st[2 * d + 1] /\ b \in Nat /\ d \in Nat /\ Len(st) = 2 * d + 1
        BY <1>2, <1>4, <2>2 DEF Shape, Top, Last
      <3> HIDE DEF st, d, s, b, q, next
      <3>2. n \in Seq(Nat) /\ Len(n) = Len(st) + 2
        BY <3>1
      <3>3. Size(n) = d + 1
        <4> DEFINE e == d + 1
        <4> HIDE DEF n
        <4>1. e \in Nat /\ Len(n) = 2 * e + 1
          BY <3>1, <3>2
        <4> HIDE DEF e
        <4>2. Size(n) = e
          BY <3>2, <4>1, SizeOf
        <4> QED
          BY <4>2 DEF e
      <3>4. /\ \A j \in 1..(2 * d) : n[j] = st[j]
            /\ n[2 * d + 1] = st[2 * d + 1] /\ n[2 * d + 2] = 0
        BY <3>1
      <3> QED
        BY <3>1, <3>3, <3>4
    <2>5. ~(0 >= len)
      BY <1>3, <1>6
    <2>6. Ahead(prog, n, d + 1, b, 0, h, log)
      <3> HIDE DEF st, d, s, n, h, log
      <3> QED
        BY <1>2, <1>3, <1>4, <2>4, <2>5, AheadItem
    <2>7. next.run = q
      OBVIOUS
    <2> HIDE DEF next, q, n, b, h, log, d
    <2>8. OrderOK(prog, q, log)
      BY <2>2, <2>3, <2>4, <2>6 DEF OrderOK, Ended
    <2> QED
      BY <1>1, <2>1, <2>7, <2>8, OrderContinued
  <1> QED
    BY <1>5, <1>6

LEMMA CrashOrder ==
  ASSUME OrderInv, Crash
  PROVE  OrderInv'
  <1>1. row' = kept /\ ~call'.on /\ UNCHANGED <<prog, kept>>
    BY DEF Crash, NoCall
  <1> QED
    BY <1>1, Zenon DEF OrderInv

LEMMA OrderInit ==
  ASSUME Init, \A p \in Programs : Structured(p)
  PROVE  OrderInv
  <1> DEFINE item == [s \in DOMAIN prog |-> NoItem]
             o == [NoRun EXCEPT !.item = item]
             none == <<>>
             K == [k \in {0} |-> [h \in BOOLEAN |-> Nothing(h, "on")]]
             m == Meaning(prog)[<<1, <<>>, 0, FALSE>>]
  <1>1. prog \in Programs /\ Structured(prog) /\ row.run = o /\ row.log = <<>> /\ kept = row /\ ~call.on
    BY DEF Init, NoCall
  <1>2. o.status = "Pending" /\ o.stack = <<>> /\ o.handler = FALSE
    <2> HIDE DEF item
    <2> QED
      BY NewRun
  <1>3. Size(none) = 0 /\ Top(none) = 1 /\ 0..Size(none) = {0} /\ 1..Size(none) = {}
    BY DEF Size, Top
  <1>4. K \in [{0} -> Rests] /\ \A h \in BOOLEAN : K[0][h] = Nothing(h, "on")
    BY NothingOutcome DEF Rests
  <1>5. Ix(none, 0) = <<>>
    BY DEF Ix
  <1>6. m \in Outcomes /\ Whole(prog) = m
    <2>1. 1 \in {0, Handler} \cup DOMAIN prog /\ <<>> \in Seq(Nat) /\ 0 \in Nat /\ FALSE \in BOOLEAN
      BY <1>1 DEF Structured, Nests
    <2>2. m \in Outcomes
      BY <1>1, <2>1, MeaningAt, Zenon
    <2> QED
      BY <2>2 DEF Whole
  <1> HIDE DEF K, m, o
  <1>7. IsRest(prog, none, K)
    BY <1>3, <1>4 DEF IsRest
  <1>8. Gives(prog, <<>>, Onward(prog, 1, Ix(none, 0), 0, FALSE, K[0]))
    <2> DEFINE all == Then(m, Nothing(m.handler, "on"))
    <2>1. Onward(prog, 1, Ix(none, 0), 0, FALSE, K[0]) = all
      BY <1>4, <1>5, <1>6 DEF Onward, m, Outcomes
    <2>2. all.log = m.log /\ all.end = m.end
      BY <1>6 DEF Then, Nothing, Outcomes
    <2>3. <<>> \o all.log = all.log
      BY <1>6, <2>2 DEF Outcomes
    <2> HIDE DEF all
    <2> QED
      BY <1>6, <2>1, <2>2, <2>3 DEF Gives
  <1>9. Ahead(prog, none, Size(none), Top(none), 0, FALSE, <<>>)
    BY <1>3, <1>7, <1>8 DEF Ahead
  <1>10. OrderOK(prog, o, <<>>)
    BY <1>2, <1>9 DEF OrderOK, Ended
  <1> QED
    BY <1>1, <1>10 DEF OrderInv

LEMMA OrderNext ==
  ASSUME EngineInv, OrderInv, \A p \in Programs : Structured(p), [Next]_vars
  PROVE  OrderInv'
  <1>1. Structured(prog) /\ call \in Calls
    BY DEF EngineInv
  <1>2. CASE \E tx, inter \in BOOLEAN : Call(tx, inter)
    BY <1>1, <1>2, CallOrder
  <1>3. CASE Action
    <2> DEFINE o == IF Kind(prog, call.step) = "SetErrorHandler" THEN [obj EXCEPT !.handler = TRUE] ELSE obj
               a == Advance(o, call.step)
    <2>1. /\ call.on /\ ~call.fulfilled /\ Continue(a, Done(call.step)) /\ UNCHANGED <<prog, kept>>
          /\ Kind(prog, call.step) \in {"Action", "SetErrorHandler"}
      BY <1>3 DEF Action, At
    <2>2. OrderOK(prog, a.run, Done(call.step))
      BY <1>1, <2>1, StepOrder, ArmedOrder
    <2> HIDE DEF a
    <2> QED
      BY <1>1, <2>1, <2>2, OrderContinued
  <1>4. CASE Directive
    <2> DEFINE a == Advance(obj, call.step)
    <2>1. /\ call.on /\ ~call.fulfilled /\ UNCHANGED <<prog, kept>> /\ Kind(prog, call.step) = "Directive"
          /\ IF call.inter THEN Return(a.run, Done(call.step)) ELSE Continue(a, Done(call.step))
      BY <1>4 DEF Directive, At
    <2>2. OrderOK(prog, a.run, Done(call.step))
      BY <1>1, <2>1, StepOrder
    <2> HIDE DEF a
    <2> QED
      BY <1>1, <2>1, <2>2, OrderContinued, OrderReturned
  <1>5. CASE Pause
    BY <1>1, <1>5, PauseOrder
  <1>6. CASE Resumed
    BY <1>1, <1>6, ResumedOrder
  <1>7. CASE Stop
    BY <1>1, <1>7, StopOrder
  <1>8. CASE ForLoop
    BY <1>1, <1>8, ForLoopOrder
  <1>9. CASE Throws
    BY <1>1, <1>9, ThrowsOrder
  <1>10. CASE Crash
    BY <1>10, CrashOrder
  <1>11. CASE UNCHANGED vars
    BY <1>11, Zenon DEF vars, OrderInv
  <1> QED
    BY <1>2, <1>3, <1>4, <1>5, <1>6, <1>7, <1>8, <1>9, <1>10, <1>11 DEF Next

LEMMA OrderInductive ==
  ASSUME \A p \in Programs : Structured(p)
  PROVE  Spec => [](EngineInv /\ OrderInv)
  <1>1. \A p \in Programs : Nested(p)
    BY DEF Nested, Structured
  <1>2. Init => EngineInv /\ OrderInv
    BY <1>1, EngineInit, OrderInit
  <1>3. EngineInv /\ OrderInv /\ [Next]_vars => (EngineInv /\ OrderInv)'
    BY <1>1, EngineNext, OrderNext
  <1> QED
    BY <1>2, <1>3, PTL DEF Spec

\* In every workflow that reads as a structured program, of any size and depth
\* and for any number of calls and lost transactions, the run does the steps
\* in the order of the program, each one once for each item, and a run that has
\* ended has done all of them, up to the one that stopped it (runInner).
THEOREM StepsInOrder ==
  ASSUME \A p \in Programs : Structured(p)
  PROVE  Spec => []InOrder
  <1>1. ASSUME EngineInv, OrderInv PROVE InOrder
    <2> DEFINE o == row.run
               log == row.log
    <2>1. prog \in Programs /\ Structured(prog) /\ log \in Logs /\ RowOK(prog, o) /\ OrderOK(prog, o, log)
      BY <1>1 DEF EngineInv, OrderInv, Rows
    <2> HIDE DEF o, log
    <2>2. o.status \in Ended => log = Whole(prog).log /\ (o.status = "Error" <=> Whole(prog).end = "Error")
      BY <2>1 DEF OrderOK
    <2>3. CASE o.status \in Ended
      <3>1. IsPrefix(log, log)
        BY <2>1 DEF IsPrefix, Logs
      <3> QED
        BY <2>2, <2>3, <3>1 DEF InOrder, o, log
    <2>4. CASE o.status \notin Ended
      <3>1. /\ Ahead(prog, o.stack, Size(o.stack), Top(o.stack), 0, o.handler, log)
            /\ Shape(o.stack) /\ Top(o.stack) \in {Handler} \cup DOMAIN prog /\ o.handler \in BOOLEAN
        BY <2>1, <2>4 DEF OrderOK, RowOK, RunOK, StackOK, Runs
      <3>2. IsPrefix(log, Whole(prog).log)
        BY <2>1, <3>1, AheadPrefix
      <3> QED
        BY <2>2, <3>2 DEF InOrder, o, log
    <2> QED
      BY <2>3, <2>4
  <1>2. EngineInv /\ OrderInv => InOrder
    BY <1>1
  <1> QED
    BY <1>2, OrderInductive, PTL

===============================================================================
