-------------------------- MODULE ExecutionProofs ---------------------------
(***************************************************************************)
(* Proofs about Execution, for every plan, every table and every order in  *)
(* which a sort leaves ties.  First the positions of the operators, which  *)
(* stay in range (TypeOK), a LIMIT, which fetches nothing that it does not *)
(* return (LimitStops), and the row counters that EXPLAIN ANALYZE prints,  *)
(* which add up from node to node (CountsAddUp); what an expression        *)
(* evaluates to plays no part in these.  Then the rows: those of a query   *)
(* that is done are those of its chain of operators, each a function of    *)
(* the rows of the one below (ResultIsTheChains), and where the operators  *)
(* compare as the plan's expressions do (OperatorsAgree) they are what the *)
(* plan means (RowsAsPlanned, ActualRows).                                 *)
(***************************************************************************)
EXTENDS Execution, FiniteSetTheorems, SequenceTheorems, WellFoundedInduction, TLAPS

PlanOK ==
  /\ IsSequence(plan.ops) /\ IsSequence(left) /\ IsSequence(right)
  /\ plan.join \in {"none", "loop", "hash"}
  /\ \A name \in {"l", "r"} : IsSequence(plan.access[name].preds)
  /\ \A i \in 1..Root :
       /\ Op(i).op \in {"filter", "aggregate", "sort", "limit", "project"}
       /\ Op(i).op = "limit" => Op(i).count \in Nat
       /\ Op(i).op = "sort" => IsSequence(Op(i).items)

Types ==
  /\ status \in {"build", "open", "run", "done", "error"}
  /\ opened \in 0..(Root + 1)
  /\ scanned \in 0..Len(left)
  /\ DOMAIN held = 1..Root /\ pos \in [1..Root -> Nat] /\ produced \in [0..Root -> Nat]
  /\ call.dir \in {"none", "ask", "row", "end"} /\ call.node \in 0..Root

\* Who may be called: while node opened is opened, the nodes below it, and only
\* if it is one that reads its input then; while the query runs, every node.  A
\* node that has read its input does not ask for it again.
Calls ==
  /\ status = "build" => opened = 0 /\ call.dir = "none"
  /\ status = "open" /\ call.dir # "none" => opened \in 1..Root
  /\ status \in {"run", "done"} => opened = Root + 1 /\ call.dir # "none"
  /\ status = "done" => call.dir = "end" /\ call.node = Root
  /\ call.dir # "none" =>
       /\ call.node < opened
       /\ opened \in 1..Root => Blocking(opened)
       /\ \A j \in (call.node + 1)..(opened - 1) : ~Blocking(j)

\* Nothing was produced by a node that is not open, or that nobody has asked.
Fresh ==
  \A i \in 0..Root :
    i >= opened \/ (call.dir = "none" /\ i + 1 = opened) => produced[i] = 0

\* A row that node i has returned and its consumer has not taken yet.
Pending(i) == IF call.dir = "row" /\ call.node = i THEN 1 ELSE 0

\* What an open node has returned, by what it has taken.
Node(i) ==
  /\ Op(i).op = "filter" => produced[i] + Pending(i - 1) <= produced[i - 1]
  /\ Op(i).op \in {"project", "limit"} => produced[i] + Pending(i - 1) = produced[i - 1]
  /\ Op(i).op = "limit" =>
       /\ pos[i] = produced[i] /\ produced[i] <= Op(i).count
       /\ call.dir # "none" /\ call.node < i => produced[i] < Op(i).count
  /\ Blocking(i) => IsSequence(held[i]) /\ pos[i] = produced[i] /\ pos[i] <= Len(held[i])
  /\ Op(i).op = "sort" => Len(held[i]) = produced[i - 1]
  /\ Op(i).op = "aggregate" => Len(held[i]) <= produced[i - 1] \/ Len(held[i]) <= 1
Nodes == \A i \in 1..Root : i < opened => Node(i)

\* What a node that is reading its input holds of it.
Reading(i) ==
  /\ IsSequence(held[i])
  /\ Op(i).op = "sort" => Len(held[i]) + Pending(i - 1) = produced[i - 1]
  /\ Op(i).op = "aggregate" => Len(held[i]) + Pending(i - 1) <= produced[i - 1]
Readings == opened \in 1..Root /\ call.dir # "none" => Reading(opened)

\* The end of the rows has reached node m: node m has just returned it, or it
\* was returned to node m + 1, which read all of its input.
Ended(m) == (call.dir = "end" /\ call.node = m) \/ (m + 1 < opened /\ Blocking(m + 1))

\* It comes from a node that has returned all of its rows, unless from a limit.
Drained ==
  \A i \in 1..Root, m \in 1..Root :
    /\ i <= m /\ i < opened /\ Blocking(i) /\ Ended(m)
    /\ \A j \in (i + 1)..m : Op(j).op # "limit"
    => pos[i] = Len(held[i])

\* What the scan or the loop join may still return.
Source ==
  /\ plan.join = "none" => produced[0] <= scanned
  /\ plan.join = "loop" =>
       /\ opened > 0 => IsSequence(join.rows) /\ Len(join.rows) <= Len(right)
       /\ IsSequence(join.rest)
       /\ produced[0] + Len(join.rest) <= scanned * Len(right)

Counted == IsSequence(out) /\ Len(out) + Pending(Root) = produced[Root]

IInv == /\ PlanOK /\ Types /\ Calls /\ Fresh
        /\ Nodes /\ Readings /\ Drained /\ Source /\ Counted

-----------------------------------------------------------------------------
(* Sequences, and the first row ahead of a scan. *)

LEMMA SequenceSeq ==
  ASSUME NEW s, IsSequence(s)
  PROVE  s \in Seq({s[k] : k \in DOMAIN s}) /\ DOMAIN s = 1..Len(s) /\ Len(s) \in Nat
<1>1. DOMAIN s = 1..Len(s) /\ Len(s) \in Nat
  BY DEF IsSequence
<1>2. s \in [1..Len(s) -> {s[k] : k \in DOMAIN s}]
  BY <1>1 DEF IsSequence
<1> QED BY <1>1, <1>2

\* A function on 1..n is a sequence of n elements.
LEMMA SequenceFcn ==
  ASSUME NEW s, NEW n \in Nat, s = [k \in 1..n |-> s[k]]
  PROVE  IsSequence(s) /\ Len(s) = n
<1> DEFINE S == {s[k] : k \in 1..n}
<1>1. s \in [1..n -> S]
  OBVIOUS
<1>2. Len(s) = n
  BY <1>1
<1> QED BY <1>2 DEF IsSequence

LEMMA SequenceEmpty == IsSequence(<<>>) /\ Len(<<>>) = 0
<1>1. << >> \in Seq({}) /\ Len(<<>>) = 0
  OBVIOUS
<1>2. <<>> = [k \in 1..0 |-> <<>>[k]]
  OBVIOUS
<1> QED BY <1>1, <1>2 DEF IsSequence

LEMMA SequenceAppend ==
  ASSUME NEW s, IsSequence(s), NEW e
  PROVE  IsSequence(Append(s, e)) /\ Len(Append(s, e)) = Len(s) + 1
<1> DEFINE S == {s[k] : k \in DOMAIN s} \cup {e}
<1>1. s \in Seq(S) /\ Len(s) \in Nat
  <2>1. s \in Seq({s[k] : k \in DOMAIN s}) /\ Len(s) \in Nat
    BY SequenceSeq
  <2> QED BY <2>1
<1> HIDE DEF S
<1>2. Append(s, e) \in Seq(S) /\ Len(Append(s, e)) = Len(s) + 1
  BY <1>1, AppendProperties DEF S
<1>3. DOMAIN Append(s, e) = 1..Len(Append(s, e)) /\ Append(s, e) \in [1..Len(Append(s, e)) -> S]
  BY <1>2, LenProperties
<1>4. Len(Append(s, e)) \in Nat
  BY <1>1, <1>2
<1>5. Append(s, e) = [k \in 1..Len(Append(s, e)) |-> Append(s, e)[k]]
  BY <1>3
<1> QED BY <1>2, <1>4, <1>5 DEF IsSequence

LEMMA SequenceTail ==
  ASSUME NEW s, IsSequence(s), s # <<>>
  PROVE  IsSequence(Tail(s)) /\ Len(Tail(s)) = Len(s) - 1
<1> DEFINE S == {s[k] : k \in DOMAIN s}
<1>1. s \in Seq(S) /\ Len(s) \in Nat
  BY SequenceSeq
<1> HIDE DEF S
<1>2. Tail(s) \in Seq(S) /\ Len(Tail(s)) = Len(s) - 1
  BY <1>1, HeadTailProperties
<1>3. Tail(s) \in [1..Len(Tail(s)) -> S] /\ Len(Tail(s)) \in Nat
  BY <1>2, LenProperties
<1> QED BY <1>2, <1>3 DEF IsSequence

\* A set of numbers has a least one.
LEMMA LeastOf ==
  ASSUME NEW S, S \subseteq Nat, S # {}
  PROVE  Min(S) \in S /\ \A y \in S : Min(S) <= y
<1>1. PICK x \in S : \A y \in S : ~(<<y, x>> \in OpToRel(<, Nat))
  BY NatLessThanWellFounded, WFMin
<1>2. \A y \in S : x <= y
  <2> SUFFICES ASSUME NEW y \in S PROVE x <= y
    OBVIOUS
  <2>1. x \in Nat /\ y \in Nat
    OBVIOUS
  <2>2. ~(<<y, x>> \in {ss \in Nat \X Nat : ss[1] < ss[2]})
    BY <1>1 DEF OpToRel
  <2>3. ~(y < x)
    BY <2>1, <2>2
  <2> QED BY <2>1, <2>3
<1> QED BY <1>1, <1>2 DEF Min

\* The scan's next row is in the table, after the last one and the first that fits.
LEMMA NextRow ==
  ASSUME PlanOK, Types, ScanAhead # {}
  PROVE  /\ Min(ScanAhead) \in 1..Len(left) /\ scanned + 1 <= Min(ScanAhead)
         /\ ScanFits(Min(ScanAhead))
         /\ \A x \in DOMAIN left : x > scanned /\ ScanFits(x) => Min(ScanAhead) <= x
<1> DEFINE S == ScanAhead
<1>1. Len(left) \in Nat /\ DOMAIN left = 1..Len(left) /\ scanned \in Nat
  BY DEF PlanOK, Types, IsSequence
<1>2. /\ S \subseteq 1..Len(left) /\ \A n \in S : n > scanned /\ ScanFits(n)
      /\ \A x \in DOMAIN left : x > scanned /\ ScanFits(x) => x \in S
  BY <1>1 DEF ScanAhead
<1>3. S # {} /\ S \subseteq Nat
  BY <1>1, <1>2
<1> HIDE DEF S
<1>4. Min(S) \in S /\ \A y \in S : Min(S) <= y
  BY <1>3, LeastOf
<1>5. Min(S) \in 1..Len(left) /\ Min(S) > scanned
  BY <1>2, <1>4
<1> QED BY <1>1, <1>2, <1>4, <1>5 DEF S

-----------------------------------------------------------------------------
(* The initial state. *)

LEMMA Initially ==
  ASSUME Init
  PROVE  IInv
<1>1. PICK in \in Inputs : plan = in.plan /\ left = in.left /\ right = in.right
  BY DEF Init
<1>2. PlanOK
  <2>1. /\ IsSequence(plan.ops) /\ IsSequence(left) /\ IsSequence(right)
        /\ plan.join \in {"none", "loop", "hash"}
        /\ \A name \in {"l", "r"} : IsSequence(plan.access[name].preds)
    BY <1>1, ExecutionAssumption
  <2>2. DOMAIN plan.ops = 1..Len(plan.ops)
    BY <2>1 DEF IsSequence
  <2>3. \A i \in DOMAIN plan.ops :
          /\ plan.ops[i].op \in {"filter", "aggregate", "sort", "limit", "project"}
          /\ plan.ops[i].op = "limit" => plan.ops[i].count \in Nat
          /\ plan.ops[i].op = "sort" => IsSequence(plan.ops[i].items)
    BY <1>1, ExecutionAssumption
  <2> QED BY <2>1, <2>2, <2>3 DEF PlanOK, Root, Op
<1>3. Root \in Nat /\ Len(left) \in Nat /\ Len(right) \in Nat
  BY <1>2 DEF PlanOK, IsSequence, Root
<1>4. /\ status = "build" /\ opened = 0 /\ scanned = 0
      /\ call.dir = "none" /\ call.node = 0 /\ out = <<>> /\ join.rest = <<>>
      /\ DOMAIN held = 1..Root /\ pos = [i \in 1..Root |-> 0] /\ produced = [i \in 0..Root |-> 0]
  BY DEF Init
<1>5. Types
  BY <1>3, <1>4 DEF Types
<1>6. Calls /\ Fresh /\ Nodes /\ Readings
  BY <1>3, <1>4 DEF Calls, Fresh, Nodes, Readings
<1>7. Drained
  BY <1>3, <1>4 DEF Drained
<1>8. Source /\ Counted
  BY <1>3, <1>4, SequenceEmpty DEF Source, Counted, Pending
<1> QED BY <1>2, <1>5, <1>6, <1>7, <1>8 DEF IInv

-----------------------------------------------------------------------------
(* Calls and answers. *)

\* What a step that leaves the plan and the tables alone keeps.
LEMMA SamePlan ==
  ASSUME PlanOK, plan' = plan, left' = left, right' = right
  PROVE  /\ PlanOK' /\ Root' = Root /\ Root \in Nat /\ Len(left) \in Nat /\ Len(right) \in Nat
         /\ \A i : Op(i)' = Op(i) /\ Blocking(i)' = Blocking(i)
BY DEF PlanOK, Root, Op, Blocking, IsSequence

\* An operator that is not blocking is a filter, a projection or a limit.
LEMMA Kinds ==
  ASSUME PlanOK, NEW i \in 1..Root
  PROVE  /\ Op(i).op \in {"filter", "aggregate", "sort", "limit", "project"}
         /\ Blocking(i) <=> Op(i).op \in {"sort", "aggregate"}
         /\ Op(i).op = "limit" => Op(i).count \in Nat
BY DEF PlanOK, Blocking

\* An open node k that is not blocking asks its child: it was asked itself, or
\* it has dropped the row that the child returned.
LEMMA Asking ==
  ASSUME IInv, NEW k \in 1..Root, k < opened, ~Blocking(k), status \in {"open", "run"},
         \/ call.dir = "ask" /\ call.node = k
         \/ call.dir = "row" /\ call.node = k - 1 /\ Op(k).op = "filter",
         Op(k).op = "limit" => produced[k] < Op(k).count,
         Ask(k - 1), UNCHANGED <<plan, left, right, status, opened, scanned, join, held, pos, out>>
  PROVE  IInv'
<1>1. /\ PlanOK /\ Types /\ Calls /\ Fresh /\ Nodes /\ Readings /\ Drained /\ Source /\ Counted
  BY DEF IInv
<1>2. /\ PlanOK' /\ Root' = Root /\ Root \in Nat /\ Len(left) \in Nat
      /\ \A i : Op(i)' = Op(i) /\ Blocking(i)' = Blocking(i)
  BY <1>1, SamePlan
<1>3. call'.dir = "ask" /\ call'.node = k - 1 /\ produced' = produced
  BY DEF Ask
<1>4. opened \in Nat /\ k - 1 \in 0..Root /\ k - 1 < opened
  BY <1>1, <1>2 DEF Types
<1>5. Types'
  BY <1>1, <1>2, <1>3, <1>4 DEF Types
<1>6. Calls'
  <2>1. call.node \in Int /\ call.node <= k /\ call.dir # "none"
    <3>1. call.node \in Int
      BY <1>1, <1>2 DEF Types
    <3> QED BY <3>1
  <2>2. \A j \in k..(opened - 1) : ~Blocking(j)
    <3> SUFFICES ASSUME NEW j \in k..(opened - 1), j # k PROVE ~Blocking(j)
      OBVIOUS
    <3>1. j \in (call.node + 1)..(opened - 1)
      BY <1>4, <2>1
    <3> QED BY <1>1, <2>1, <3>1 DEF Calls
  <2>3. k - 1 + 1 = k
    OBVIOUS
  <2> QED BY <1>1, <1>2, <1>3, <1>4, <2>1, <2>2, <2>3 DEF Calls
<1>7. Fresh'
  BY <1>1, <1>2, <1>3 DEF Fresh
<1>9. Pending(k - 1)' = 0
  BY <1>3 DEF Pending
<1>10. Nodes'
  <2> SUFFICES ASSUME NEW i \in 1..Root, i < opened PROVE Node(i)'
    BY <1>2 DEF Nodes
  <2>1. Node(i)
    BY <1>1 DEF Nodes
  <2>2. produced[i] \in Nat /\ produced[i - 1] \in Nat
    <3>1. i \in 0..Root /\ i - 1 \in 0..Root
      BY <1>2
    <3> QED BY <1>1, <3>1 DEF Types
  <2>3. CASE i = k
    BY <1>2, <1>3, <1>9, <2>1, <2>2, <2>3 DEF Node, Pending
  <2>4. CASE i # k
    <3>1. Pending(i - 1)' = Pending(i - 1)
      BY <1>3, <2>4 DEF Pending
    <3>2. call'.node < i => call.node < i
      BY <1>1, <2>4, <1>3 DEF Types
    <3>3. call.dir # "none"
      OBVIOUS
    <3> QED BY <1>2, <1>3, <2>1, <3>1, <3>2, <3>3 DEF Node
  <2> QED BY <2>3, <2>4
<1>11. Readings'
  <2> SUFFICES ASSUME opened \in 1..Root PROVE Reading(opened)'
    BY <1>2 DEF Readings
  <2>1. Reading(opened)
    BY <1>1 DEF Readings
  <2>2. Pending(opened - 1)' = Pending(opened - 1)
    BY <1>3, <1>4 DEF Pending
  <2> QED BY <1>2, <1>3, <2>1, <2>2 DEF Reading
<1>12. Drained'
  <2>1. \A m : Ended(m)' => Ended(m)
    BY <1>2, <1>3 DEF Ended
  <2> QED BY <1>1, <1>2, <2>1 DEF Drained
<1>13. Source'
  BY <1>1, <1>3 DEF Source
<1>14. Counted'
  BY <1>1, <1>2, <1>3, <1>4 DEF Counted, Pending
<1> QED BY <1>2, <1>5, <1>6, <1>7, <1>10, <1>11, <1>12, <1>13, <1>14 DEF IInv

\* A call that moves to node k, one up or where it is, keeps to the discipline.
LEMMA CallsMove ==
  ASSUME IInv, NEW k \in 0..Root, k < opened, status \in {"open", "run"}, call.dir # "none",
         call.node \in {k, k - 1}, call'.dir # "none", call'.node = k,
         UNCHANGED <<plan, left, right, status, opened>>
  PROVE  Calls'
<1>1. PlanOK /\ Types /\ Calls
  BY DEF IInv
<1>2. /\ Root' = Root /\ Root \in Nat
      /\ \A i : Op(i)' = Op(i) /\ Blocking(i)' = Blocking(i)
  BY <1>1, SamePlan
<1>3. opened \in Nat /\ call.node \in Int /\ call.node <= k
  <2>1. opened \in Nat /\ call.node \in Int
    BY <1>1, <1>2 DEF Types
  <2> QED BY <2>1
<1>4. \A j \in (k + 1)..(opened - 1) : ~Blocking(j)
  <2> SUFFICES ASSUME NEW j \in (k + 1)..(opened - 1) PROVE ~Blocking(j)
    OBVIOUS
  <2>1. j \in (call.node + 1)..(opened - 1)
    BY <1>3
  <2> QED BY <1>1, <2>1 DEF Calls
<1> QED BY <1>1, <1>2, <1>3, <1>4 DEF Calls

\* An open node k returns a row: it was asked, or its child has returned one.
LEMMA Giving ==
  ASSUME IInv, NEW k \in 0..Root, k < opened, status \in {"open", "run"},
         \/ call.dir = "ask" /\ call.node = k
         \/ call.dir = "row" /\ call.node = k - 1 /\ k # 0,
         NEW row, Give(k, row), UNCHANGED <<plan, left, right, status, opened, held, out>>,
         pos' \in [1..Root -> Nat], \A i \in 1..Root : i # k => pos'[i] = pos[i],
         k # 0 => Node(k)',
         k # 0 /\ Blocking(k) => pos[k] # Len(held[k]),
         scanned' \in 0..Len(left), Source'
  PROVE  IInv'
<1>1. /\ PlanOK /\ Types /\ Calls /\ Fresh /\ Nodes /\ Readings /\ Drained /\ Source /\ Counted
  BY DEF IInv
<1>2. /\ PlanOK' /\ Root' = Root /\ Root \in Nat /\ Len(left) \in Nat
      /\ \A i : Op(i)' = Op(i) /\ Blocking(i)' = Blocking(i)
  BY <1>1, SamePlan
<1>3. call'.dir = "row" /\ call'.node = k /\ produced' = [produced EXCEPT ![k] = @ + 1]
  BY DEF Give
<1>4. /\ opened \in Nat /\ produced \in [0..Root -> Nat] /\ call.dir # "none"
      /\ \A i \in 0..Root : i # k => produced'[i] = produced[i]
      /\ produced'[k] = produced[k] + 1 /\ produced' \in [0..Root -> Nat]
  <2>1. opened \in Nat /\ produced \in [0..Root -> Nat]
    BY <1>1, <1>2 DEF Types
  <2>2. call.dir # "none"
    OBVIOUS
  <2> QED BY <1>3, <2>1, <2>2
<1>5. Types'
  BY <1>1, <1>2, <1>3, <1>4 DEF Types
<1>6. Calls'
  BY <1>3, <1>4, CallsMove
<1>7. Fresh'
  BY <1>1, <1>2, <1>3, <1>4 DEF Fresh
<1>8. Pending(k)' = 1 /\ Pending(k) = 0
  BY <1>3 DEF Pending
<1>9. \A i : i # k /\ i # k - 1 => Pending(i)' = Pending(i)
  BY <1>3 DEF Pending
<1>10. Nodes'
  <2> SUFFICES ASSUME NEW i \in 1..Root, i < opened PROVE Node(i)'
    BY <1>2 DEF Nodes
  <2>1. Node(i)
    BY <1>1 DEF Nodes
  <2>2. i \in 0..Root /\ i - 1 \in 0..Root /\ i \in Nat /\ k \in Nat
    BY <1>2
  <2>3. produced[i] \in Nat /\ produced[i - 1] \in Nat
    BY <1>4, <2>2
  <2>4. CASE i = k
    BY <2>2, <2>4
  <2>5. CASE i = k + 1
    <3>1. i - 1 = k /\ i # k
      BY <2>2, <2>5
    <3>2. ~Blocking(i)
      <4>1. i \in (k + 1)..(opened - 1)
        BY <1>4, <2>2, <2>5
      <4> QED BY <1>2, <1>3, <1>6, <4>1 DEF Calls
    <3>3. Op(i).op # "sort" /\ Op(i).op # "aggregate"
      BY <3>2 DEF Blocking
    <3>4. call.node < i /\ call.dir # "none"
      BY <1>4, <2>2, <2>5
    <3>5. produced'[i] = produced[i] /\ pos'[i] = pos[i]
      BY <1>4, <2>2, <3>1
    <3>6. produced'[i - 1] = produced[i - 1] + 1 /\ Pending(i - 1)' = 1 /\ Pending(i - 1) = 0
      BY <1>4, <1>8, <3>1
    <3>7. Op(i)' = Op(i) /\ ~Blocking(i)'
      BY <1>2, <3>2
    <3>8. CASE Op(i).op = "limit"
      <4>1. /\ produced[i] + 0 = produced[i - 1] /\ pos[i] = produced[i]
            /\ produced[i] <= Op(i).count /\ produced[i] < Op(i).count
        BY <2>1, <3>4, <3>6, <3>8 DEF Node
      <4> QED BY <2>3, <3>5, <3>6, <3>7, <3>8, <4>1 DEF Node
    <3>9. CASE Op(i).op # "limit"
      BY <2>1, <2>3, <3>3, <3>5, <3>6, <3>7, <3>9 DEF Node
    <3> QED BY <3>8, <3>9
  <2>6. CASE i # k /\ i # k + 1
    <3>1. i - 1 # k /\ i - 1 # k - 1
      BY <2>2, <2>6
    <3>2. /\ Pending(i - 1)' = Pending(i - 1) /\ produced'[i - 1] = produced[i - 1]
          /\ produced'[i] = produced[i] /\ pos'[i] = pos[i]
      BY <1>4, <1>9, <2>2, <2>6, <3>1
    <3>3. call'.node < i => call.node < i
      BY <1>3, <2>2
    <3> QED BY <1>2, <1>4, <2>1, <3>2, <3>3 DEF Node
  <2> QED BY <2>4, <2>5, <2>6
<1>11. Readings'
  <2> SUFFICES ASSUME opened \in 1..Root PROVE Reading(opened)'
    BY <1>2 DEF Readings
  <2>1. Reading(opened)
    BY <1>1, <1>4 DEF Readings
  <2>2. opened - 1 \in 0..Root /\ opened - 1 # k - 1
    BY <1>2
  <2>3. produced[opened - 1] \in Nat
    BY <1>4, <2>2
  <2>4. CASE opened - 1 = k
    <3>1. Pending(opened - 1)' = 1 /\ Pending(opened - 1) = 0
      BY <1>8, <2>4
    <3>2. produced'[opened - 1] = produced[opened - 1] + 1
      BY <1>4, <2>4
    <3>3. IsSequence(held[opened]) /\ Len(held[opened]) \in Nat
      BY <2>1 DEF Reading, IsSequence
    <3>4. /\ Op(opened).op = "sort" => Len(held[opened]) + 0 = produced[opened - 1]
          /\ Op(opened).op = "aggregate" => Len(held[opened]) + 0 <= produced[opened - 1]
      BY <2>1, <3>1 DEF Reading
    <3>5. /\ Op(opened).op = "sort" => Len(held[opened]) + 1 = produced'[opened - 1]
          /\ Op(opened).op = "aggregate" => Len(held[opened]) + 1 <= produced'[opened - 1]
      BY <2>3, <3>2, <3>3, <3>4
    <3>6. Op(opened)' = Op(opened)
      BY DEF Op
    <3> QED BY <3>1, <3>3, <3>5, <3>6 DEF Reading
  <2>5. CASE opened - 1 # k
    <3>1. Pending(opened - 1)' = Pending(opened - 1) /\ produced'[opened - 1] = produced[opened - 1]
      BY <1>4, <1>9, <2>2, <2>5
    <3> QED BY <1>2, <2>1, <3>1 DEF Reading
  <2> QED BY <2>4, <2>5
<1>12. Drained'
  <2> SUFFICES ASSUME NEW i \in 1..Root, NEW m \in 1..Root,
                      i <= m, i < opened, Blocking(i), Ended(m)',
                      \A j \in (i + 1)..m : Op(j).op # "limit"
               PROVE  pos'[i] = Len(held[i])
    BY <1>2 DEF Drained
  <2>1. Ended(m)
    BY <1>2, <1>3 DEF Ended
  <2>2. pos[i] = Len(held[i])
    BY <1>1, <2>1 DEF Drained
  <2>3. i # k
    BY <2>2
  <2> QED BY <2>2, <2>3
<1>13. Counted'
  <2>1. Root \in 0..Root /\ Root # k - 1 /\ k \in Nat
    BY <1>2
  <2>2. produced[Root] \in Nat /\ Len(out) \in Nat
    BY <1>1, <1>4, <2>1 DEF Counted, IsSequence
  <2>3. CASE Root = k
    <3>1. Pending(Root)' = 1 /\ Pending(Root) = 0 /\ produced'[Root] = produced[Root] + 1
      BY <1>2, <1>4, <1>8, <2>3
    <3> QED BY <1>1, <1>2, <2>2, <3>1 DEF Counted
  <2>4. CASE Root # k
    <3>1. Pending(Root)' = Pending(Root) /\ produced'[Root] = produced[Root]
      BY <1>2, <1>4, <1>9, <2>1, <2>4
    <3> QED BY <1>1, <1>2, <3>1 DEF Counted
  <2> QED BY <2>3, <2>4
<1> QED BY <1>2, <1>5, <1>6, <1>7, <1>10, <1>11, <1>12, <1>13 DEF IInv

\* An open node k returns the end: a node that was asked, the scan or the join,
\* a blocking node that has returned all it holds or a limit; or any other whose
\* child has returned it.
LEMMA Ending ==
  ASSUME IInv, NEW k \in 0..Root, k < opened, status \in {"open", "run"},
         \/ /\ call.dir = "ask" /\ call.node = k
            /\ k # 0 /\ Blocking(k) => pos[k] = Len(held[k])
            /\ k # 0 /\ ~Blocking(k) => Op(k).op = "limit"
         \/ call.dir = "end" /\ call.node = k - 1 /\ k # 0,
         GiveEnd(k), UNCHANGED <<plan, left, right, status, opened, held, pos, out>>,
         scanned' \in 0..Len(left), Source'
  PROVE  IInv'
<1>1. /\ PlanOK /\ Types /\ Calls /\ Fresh /\ Nodes /\ Readings /\ Drained /\ Source /\ Counted
  BY DEF IInv
<1>2. /\ PlanOK' /\ Root' = Root /\ Root \in Nat /\ Len(left) \in Nat
      /\ \A i : Op(i)' = Op(i) /\ Blocking(i)' = Blocking(i)
  BY <1>1, SamePlan
<1>3. call'.dir = "end" /\ call'.node = k /\ produced' = produced
  BY DEF GiveEnd
<1>4. opened \in Nat /\ call.dir # "none" /\ call.dir # "row" /\ call.node \in {k, k - 1}
  <2>1. opened \in Nat
    BY <1>1, <1>2 DEF Types
  <2> QED BY <2>1
<1>5. Types'
  BY <1>1, <1>2, <1>3 DEF Types
<1>6. Calls'
  BY <1>3, <1>4, CallsMove
<1>7. Fresh'
  BY <1>1, <1>2, <1>3 DEF Fresh
<1>8. \A i : Pending(i)' = 0 /\ Pending(i) = 0
  BY <1>3, <1>4 DEF Pending
<1>9. Nodes'
  <2> SUFFICES ASSUME NEW i \in 1..Root, i < opened PROVE Node(i)'
    BY <1>2 DEF Nodes
  <2>1. Node(i)
    BY <1>1 DEF Nodes
  <2>2. call'.node < i => call.node < i
    BY <1>2, <1>3, <1>4
  <2> QED BY <1>2, <1>3, <1>4, <1>8, <2>1, <2>2 DEF Node
<1>10. Readings'
  BY <1>1, <1>2, <1>3, <1>4, <1>8 DEF Readings, Reading
<1>11. Drained'
  <2> SUFFICES ASSUME NEW i \in 1..Root, NEW m \in 1..Root,
                      i <= m, i < opened, Blocking(i), Ended(m)',
                      \A j \in (i + 1)..m : Op(j).op # "limit"
               PROVE  pos[i] = Len(held[i])
    BY <1>2 DEF Drained
  <2>1. CASE m # k
    <3>1. Ended(m)
      BY <1>2, <1>3, <2>1 DEF Ended
    <3> QED BY <1>1, <3>1 DEF Drained
  <2>2. CASE m = k /\ i = k
    BY <1>1, <1>4, <2>2 DEF Calls
  <2>3. CASE m = k /\ i # k
    <3>1. k - 1 \in 1..Root /\ i <= k - 1 /\ k \in 1..Root /\ k \in (i + 1)..m
      BY <1>2, <2>3
    <3>2. \A j \in (i + 1)..(k - 1) : Op(j).op # "limit"
      BY <1>2, <2>3
    <3>3. Ended(k - 1)
      <4>1. CASE call.dir = "end" /\ call.node = k - 1
        BY <4>1 DEF Ended
      <4>2. CASE call.dir = "ask"
        <5>1. Blocking(k)
          BY <2>3, <3>1, <4>2
        <5>2. k - 1 + 1 = k
          OBVIOUS
        <5> QED BY <5>1, <5>2 DEF Ended
      <4> QED BY <4>1, <4>2
    <3> QED BY <1>1, <3>1, <3>2, <3>3 DEF Drained
  <2> QED BY <2>1, <2>2, <2>3
<1>12. Counted'
  BY <1>1, <1>2, <1>3, <1>8 DEF Counted
<1> QED BY <1>2, <1>5, <1>6, <1>7, <1>9, <1>10, <1>11, <1>12 DEF IInv

\* A call or an answer below the root is part of opening or of running the query.
LEMMA Live ==
  ASSUME IInv, status # "error", call.dir # "none", call.dir # "end" \/ call.node # Root
  PROVE  status \in {"open", "run"} /\ call.node < opened
BY DEF IInv, Types, Calls

\* A node that gets an answer after it was opened is not blocking.
LEMMA AnswerTo ==
  ASSUME IInv, NEW i \in 1..Root, Answered(i), i < opened
  PROVE  /\ ~Blocking(i) /\ status \in {"open", "run"} /\ Node(i)
         /\ produced[i] \in Nat /\ produced[i - 1] \in Nat /\ i \in 0..Root
         /\ Op(i).op \in {"filter", "limit", "project"}
<1>1. PlanOK /\ Types /\ Calls /\ Nodes /\ Root \in Nat /\ opened \in Nat
  BY DEF IInv, PlanOK, IsSequence, Root, Types
<1>2. call.dir # "none" /\ call.node = i - 1 /\ status # "error"
  BY DEF Answered
<1>3. i \in (call.node + 1)..(opened - 1) /\ call.node # Root /\ i \in 0..Root /\ i - 1 \in 0..Root
  BY <1>1, <1>2
<1>4. ~Blocking(i)
  BY <1>1, <1>2, <1>3 DEF Calls
<1>5. status \in {"open", "run"}
  BY <1>2, <1>3, Live
<1>6. produced[i] \in Nat /\ produced[i - 1] \in Nat
  BY <1>1, <1>3 DEF Types
<1>7. Op(i).op \in {"filter", "limit", "project"}
  BY <1>1, <1>4, Kinds
<1> QED BY <1>1, <1>3, <1>4, <1>5, <1>6, <1>7 DEF Nodes

\* An exception changes nothing but the status.
LEMMA FailStep ==
  ASSUME IInv, Fail
  PROVE  IInv'
<1>1. /\ PlanOK /\ Types /\ Calls /\ Fresh /\ Nodes /\ Readings /\ Drained /\ Source /\ Counted
  BY DEF IInv
<1>2. /\ status' = "error"
      /\ UNCHANGED <<plan, left, right, opened, scanned, join, held, pos, call, produced, out>>
  BY DEF Fail, data, fields
<1>3. /\ PlanOK' /\ Root' = Root
      /\ \A i : Op(i)' = Op(i) /\ Blocking(i)' = Blocking(i) /\ Pending(i)' = Pending(i)
  BY <1>1, <1>2, SamePlan DEF Pending
<1>4. Types' /\ Calls' /\ Fresh'
  BY <1>1, <1>2, <1>3 DEF Types, Calls, Fresh
<1>5. Nodes' /\ Readings'
  BY <1>1, <1>2, <1>3 DEF Nodes, Node, Readings, Reading
<1>6. Drained'
  BY <1>1, <1>2, <1>3 DEF Drained, Ended
<1>7. Source' /\ Counted'
  BY <1>1, <1>2, <1>3 DEF Source, Counted
<1> QED BY <1>3, <1>4, <1>5, <1>6, <1>7 DEF IInv

LEMMA AnswerHeldStep ==
  ASSUME IInv, NEW i \in 1..Root, AnswerHeld(i)
  PROVE  IInv'
<1>1. PlanOK /\ Types /\ Nodes /\ Source /\ Root \in Nat
  BY DEF IInv, PlanOK, IsSequence, Root
<1>2. /\ call.dir = "ask" /\ call.node = i /\ status # "error" /\ Blocking(i)
      /\ UNCHANGED <<plan, left, right, status, opened, scanned, join, held, out>>
  BY DEF AnswerHeld, Asked, data
<1>3. status \in {"open", "run"} /\ i < opened /\ i \in 0..Root /\ i # 0 /\ i - 1 \in 0..Root
  BY <1>1, <1>2, Live
<1>4. Node(i)
  BY <1>1, <1>3 DEF Nodes
<1>5. /\ IsSequence(held[i]) /\ pos[i] = produced[i] /\ pos[i] <= Len(held[i])
      /\ pos[i] \in Nat /\ Len(held[i]) \in Nat /\ pos \in [1..Root -> Nat] /\ scanned \in 0..Len(left)
  BY <1>1, <1>2, <1>4 DEF Node, Types, IsSequence
<1>6. CASE pos[i] >= Len(held[i])
  <2>1. GiveEnd(i) /\ pos' = pos
    BY <1>6 DEF AnswerHeld
  <2>2. Source'
    BY <1>1, <1>2, <2>1 DEF Source, GiveEnd
  <2> QED BY <1>2, <1>3, <1>5, <1>6, <2>1, <2>2, Ending
<1>7. CASE ~(pos[i] >= Len(held[i]))
  <2> DEFINE row == held[i][pos[i] + 1]
  <2>1. Give(i, row) /\ pos' = [pos EXCEPT ![i] = @ + 1]
    BY <1>7 DEF AnswerHeld
  <2> HIDE DEF row
  <2>2. pos' \in [1..Root -> Nat] /\ pos'[i] = pos[i] + 1 /\ \A j \in 1..Root : j # i => pos'[j] = pos[j]
    BY <1>5, <2>1
  <2>3. /\ produced'[i] = produced[i] + 1 /\ call'.dir = "row" /\ call'.node = i
        /\ \A j \in 0..Root : j # i => produced'[j] = produced[j]
    BY <1>1, <1>3, <2>1 DEF Give, Types
  <2>4. Source'
    BY <1>1, <1>2, <1>3, <2>3 DEF Source
  <2>5. Op(i)' = Op(i) /\ Blocking(i)' /\ Op(i).op \in {"sort", "aggregate"}
    BY <1>1, <1>2, SamePlan DEF Blocking
  <2>6. Node(i)'
    <3>1. produced'[i - 1] = produced[i - 1] /\ held' = held /\ pos'[i] <= Len(held[i])
      BY <1>2, <1>3, <1>5, <1>7, <2>2, <2>3
    <3> QED BY <1>4, <1>5, <2>2, <2>3, <2>5, <3>1 DEF Node
  <2> QED BY <1>2, <1>3, <1>5, <1>7, <2>1, <2>2, <2>4, <2>6, Giving
<1> QED BY <1>6, <1>7

LEMMA AskChildStep ==
  ASSUME IInv, NEW i \in 1..Root, AskChild(i)
  PROVE  IInv'
<1>1. PlanOK /\ Types /\ Nodes /\ Source /\ Root \in Nat
  BY DEF IInv, PlanOK, IsSequence, Root
<1>2. /\ call.dir = "ask" /\ call.node = i /\ status # "error" /\ ~Blocking(i)
      /\ UNCHANGED <<plan, left, right, status, opened, scanned, join, held, pos, out>>
  BY DEF AskChild, Asked, data, fields
<1>3. status \in {"open", "run"} /\ i < opened /\ i \in 0..Root /\ i # 0
  BY <1>1, <1>2, Live
<1>4. Node(i) /\ produced[i] \in Nat /\ scanned \in 0..Len(left)
  BY <1>1, <1>3 DEF Nodes, Types
<1>5. CASE LimitReached(i)
  <2>1. GiveEnd(i) /\ Op(i).op = "limit"
    BY <1>5 DEF AskChild, LimitReached
  <2>2. Source'
    BY <1>1, <1>2, <2>1 DEF Source, GiveEnd
  <2> QED BY <1>2, <1>3, <1>4, <2>1, <2>2, Ending
<1>6. CASE ~LimitReached(i)
  <2>1. Ask(i - 1)
    BY <1>6 DEF AskChild
  <2>2. Op(i).op = "limit" => produced[i] < Op(i).count
    <3>1. Op(i).op = "limit" => Op(i).count \in Nat /\ pos[i] = produced[i]
      BY <1>1, <1>4, Kinds DEF Node
    <3> QED BY <1>4, <1>6, <3>1 DEF LimitReached
  <2> QED BY <1>2, <1>3, <2>1, <2>2, Asking
<1> QED BY <1>5, <1>6

\* A filter, a projection or a limit returns a row for the row that it got.
LEMMA PassRow ==
  ASSUME IInv, NEW i \in 1..Root, Answered(i), i < opened, call.dir = "row",
         NEW row, Give(i, row),
         UNCHANGED <<plan, left, right, status, opened, scanned, join, held, out>>,
         pos' = IF Op(i).op = "limit" THEN [pos EXCEPT ![i] = @ + 1] ELSE pos
  PROVE  IInv'
<1>1. PlanOK /\ Types /\ Source /\ Root \in Nat
  BY DEF IInv, PlanOK, IsSequence, Root
<1>2. /\ ~Blocking(i) /\ status \in {"open", "run"} /\ Node(i)
      /\ produced[i] \in Nat /\ produced[i - 1] \in Nat /\ i \in 0..Root
      /\ Op(i).op \in {"filter", "limit", "project"}
  BY AnswerTo
<1>3. call.node = i - 1 /\ i - 1 \in 0..Root /\ i # 0 /\ i - 1 # i
  BY <1>1 DEF Answered
<1>4. /\ produced'[i] = produced[i] + 1 /\ call'.dir = "row" /\ call'.node = i
      /\ \A j \in 0..Root : j # i => produced'[j] = produced[j]
  BY <1>1, <1>2 DEF Give, Types
<1>5. /\ pos' \in [1..Root -> Nat] /\ \A j \in 1..Root : j # i => pos'[j] = pos[j]
      /\ Op(i).op = "limit" => pos'[i] = pos[i] + 1
  <2>1. pos \in [1..Root -> Nat]
    BY <1>1 DEF Types
  <2>2. CASE Op(i).op = "limit"
    <3>1. pos' = [pos EXCEPT ![i] = @ + 1]
      BY <2>2
    <3> QED BY <2>1, <3>1
  <2>3. CASE Op(i).op # "limit"
    BY <2>1, <2>3
  <2> QED BY <2>2, <2>3
<1>6. Op(i)' = Op(i) /\ ~Blocking(i)'
  BY <1>1, <1>2, SamePlan
<1>7. Pending(i - 1) = 1 /\ Pending(i - 1)' = 0
  BY <1>3, <1>4 DEF Pending
<1>8. Source' /\ scanned' \in 0..Len(left)
  <2>1. produced'[0] = produced[0] /\ scanned \in 0..Len(left)
    BY <1>1, <1>3, <1>4 DEF Types
  <2> QED BY <1>1, <2>1 DEF Source
<1>9. Node(i)'
  <2>1. produced'[i - 1] = produced[i - 1]
    BY <1>3, <1>4
  <2>2. Op(i).op = "limit" => Op(i).count \in Nat
    BY <1>1, Kinds
  <2>3. call.node < i
    BY <1>3
  <2>4. ~(call'.node < i)
    BY <1>4
  <2> QED BY <1>2, <1>4, <1>5, <1>6, <1>7, <2>1, <2>2, <2>3, <2>4 DEF Node
<1> QED BY <1>2, <1>3, <1>5, <1>8, <1>9, Giving

LEMMA FilterStep ==
  ASSUME IInv, NEW i \in 1..Root, FilterRow(i)
  PROVE  IInv'
<1> DEFINE v == ValueAt(i, Op(i).pred, call.row)
<1>1. Answered(i) /\ i < opened /\ call.dir = "row" /\ Op(i).op = "filter"
  BY DEF FilterRow, Streaming, IInv, Types
<1>2. ~Blocking(i) /\ status \in {"open", "run"} /\ call.node = i - 1
  BY <1>1, AnswerTo DEF Answered
<1>3. CASE v \notin Booleans
  BY <1>3, FailStep DEF FilterRow
<1>4. CASE v \in Booleans
  <2>1. /\ IF v = Bool(TRUE) THEN Give(i, call.row) ELSE Ask(i - 1)
        /\ UNCHANGED <<plan, left, right, status, opened, scanned, join, held, pos, out>>
    BY <1>4 DEF FilterRow, data, fields
  <2>2. CASE Give(i, call.row)
    BY <1>1, <2>1, <2>2, PassRow
  <2>3. CASE Ask(i - 1)
    BY <1>1, <1>2, <2>1, <2>3, Asking
  <2> QED BY <2>1, <2>2, <2>3
<1> QED BY <1>3, <1>4

LEMMA ProjectStep ==
  ASSUME IInv, NEW i \in 1..Root, ProjectRow(i)
  PROVE  IInv'
<1> DEFINE row == [j \in DOMAIN Op(i).exprs |-> ValueAt(i, Op(i).exprs[j], call.row)]
<1>1. Answered(i) /\ i < opened /\ call.dir = "row" /\ Op(i).op = "project"
  BY DEF ProjectRow, Streaming, IInv, Types
<1>2. CASE Throw \in ToSet(row)
  BY <1>2, FailStep DEF ProjectRow
<1>3. CASE Throw \notin ToSet(row)
  <2>1. /\ Give(i, row)
        /\ UNCHANGED <<plan, left, right, status, opened, scanned, join, held, pos, out>>
    BY <1>3 DEF ProjectRow, data, fields
  <2> HIDE DEF row
  <2> QED BY <1>1, <2>1, PassRow
<1> QED BY <1>2, <1>3

LEMMA LimitStep ==
  ASSUME IInv, NEW i \in 1..Root, LimitRow(i)
  PROVE  IInv'
<1>1. /\ Answered(i) /\ i < opened /\ call.dir = "row" /\ Op(i).op = "limit"
      /\ Give(i, call.row) /\ pos' = [pos EXCEPT ![i] = @ + 1]
      /\ UNCHANGED <<plan, left, right, status, opened, scanned, join, held, out>>
  BY DEF LimitRow, Streaming, data, IInv, Types
<1> QED BY <1>1, PassRow

LEMMA PassEndStep ==
  ASSUME IInv, NEW i \in 1..Root, PassEnd(i)
  PROVE  IInv'
<1>1. /\ Answered(i) /\ i < opened /\ call.dir = "end" /\ call.node = i - 1 /\ GiveEnd(i)
      /\ UNCHANGED <<plan, left, right, status, opened, scanned, join, held, pos, out>>
  BY DEF PassEnd, Answered, data, fields, IInv, Types
<1>2. status \in {"open", "run"} /\ i \in 0..Root /\ i # 0
  BY <1>1, AnswerTo
<1>3. Source' /\ scanned' \in 0..Len(left)
  BY <1>1 DEF IInv, Source, Types, GiveEnd
<1> QED BY <1>1, <1>2, <1>3, Ending

-----------------------------------------------------------------------------
(* The scan and the joins. *)

LEMMA ScanStep ==
  ASSUME IInv, ScanNext
  PROVE  IInv'
<1>1. /\ PlanOK /\ Types /\ Source /\ Root \in Nat /\ Len(left) \in Nat /\ scanned \in 0..Len(left)
      /\ 0 \in 0..Root /\ produced[0] \in Nat /\ pos \in [1..Root -> Nat]
  <2>1. PlanOK /\ Types /\ Source
    BY DEF IInv
  <2>2. Root \in Nat /\ Len(left) \in Nat
    BY <2>1 DEF PlanOK, IsSequence, Root
  <2>3. scanned \in 0..Len(left) /\ pos \in [1..Root -> Nat] /\ produced \in [0..Root -> Nat]
    BY <2>1 DEF Types
  <2> QED BY <2>1, <2>2, <2>3
<1>2. /\ call.dir = "ask" /\ call.node = 0 /\ status # "error" /\ plan.join = "none"
      /\ UNCHANGED <<plan, left, right, status, opened, join, held, pos, out>>
  BY DEF ScanNext, Asked, data
<1>3. status \in {"open", "run"} /\ 0 < opened
  BY <1>2, Live
<1>4. CASE ScanAhead = {}
  <2>1. scanned' = Len(left) /\ GiveEnd(0) /\ produced' = produced
    BY <1>4 DEF ScanNext, ScanEnd, GiveEnd
  <2>2. Source' /\ scanned' \in 0..Len(left)
    BY <1>1, <1>2, <2>1 DEF Source
  <2> QED BY <1>1, <1>2, <1>3, <2>1, <2>2, Ending
<1>5. CASE ScanAhead # {}
  <2> DEFINE n == Min(ScanAhead)
             row == left[n]
  <2>1. scanned' = n /\ Give(0, row)
    BY <1>5 DEF ScanNext
  <2>2. n \in 1..Len(left) /\ scanned + 1 <= n
    BY <1>1, <1>5, NextRow
  <2> HIDE DEF n, row
  <2>3. produced'[0] = produced[0] + 1
    BY <1>1, <2>1 DEF Give, Types
  <2>4. Source' /\ scanned' \in 0..Len(left)
    BY <1>1, <1>2, <2>1, <2>2, <2>3 DEF Source
  <2> QED BY <1>1, <1>2, <1>3, <2>1, <2>4, Giving
<1> QED BY <1>4, <1>5

\* A step that only advances the scan or the join.
LEMMA SourceMoves ==
  ASSUME IInv, UNCHANGED <<plan, left, right, status, opened, held, pos, call, produced, out>>,
         scanned' \in 0..Len(left), Source'
  PROVE  IInv'
<1>1. /\ PlanOK /\ Types /\ Calls /\ Fresh /\ Nodes /\ Readings /\ Drained /\ Counted
  BY DEF IInv
<1>2. /\ PlanOK' /\ Root' = Root
      /\ \A i : Op(i)' = Op(i) /\ Blocking(i)' = Blocking(i) /\ Pending(i)' = Pending(i)
  BY <1>1, SamePlan DEF Pending
<1>3. Types' /\ Calls' /\ Fresh'
  BY <1>1, <1>2 DEF Types, Calls, Fresh
<1>4. Nodes' /\ Readings'
  BY <1>1, <1>2 DEF Nodes, Node, Readings, Reading
<1>5. Drained' /\ Counted'
  BY <1>1, <1>2 DEF Drained, Ended, Counted
<1> QED BY <1>2, <1>3, <1>4, <1>5 DEF IInv

LEMMA AdvanceStep ==
  ASSUME IInv, AdvanceLeft
  PROVE  IInv'
<1>1. /\ PlanOK /\ Types /\ Source /\ Root \in Nat /\ Len(left) \in Nat /\ scanned \in 0..Len(left)
      /\ Len(right) \in Nat /\ IsSequence(right) /\ 0 \in 0..Root /\ produced[0] \in Nat
  <2>1. PlanOK /\ Types /\ Source
    BY DEF IInv
  <2>2. IsSequence(left) /\ IsSequence(right) /\ Root \in Nat
    BY <2>1 DEF PlanOK, IsSequence, Root
  <2>3. Len(left) \in Nat /\ Len(right) \in Nat
    BY <2>2 DEF IsSequence
  <2>4. scanned \in 0..Len(left) /\ 0 \in 0..Root /\ produced[0] \in Nat
    BY <2>1, <2>2 DEF Types
  <2> QED BY <2>1, <2>2, <2>3, <2>4
<1>2. /\ call.dir = "ask" /\ call.node = 0 /\ status # "error" /\ plan.join # "none"
      /\ join.rest = <<>> /\ UNCHANGED <<plan, left, right, status, opened, held, pos, out>>
  BY DEF AdvanceLeft, Asked, data
<1>3. status \in {"open", "run"} /\ 0 < opened
  BY <1>2, Live
<1>4. CASE ScanAhead = {}
  <2>1. scanned' = Len(left) /\ GiveEnd(0) /\ produced' = produced /\ join' = join
    BY <1>4 DEF AdvanceLeft, ScanEnd, GiveEnd
  <2>2. plan.join = "loop" => produced[0] + Len(join.rest) <= Len(left) * Len(right)
    <3>1. scanned * Len(right) <= Len(left) * Len(right)
      BY <1>1
    <3>2. scanned * Len(right) \in Nat /\ Len(left) * Len(right) \in Nat
      BY <1>1
    <3> QED BY <1>1, <3>1, <3>2 DEF Source, IsSequence
  <2>3. Source' /\ scanned' \in 0..Len(left)
    BY <1>1, <1>2, <2>1, <2>2 DEF Source
  <2> QED BY <1>1, <1>2, <1>3, <2>1, <2>3, Ending
<1>5. CASE ScanAhead # {}
  <2> DEFINE n == Min(ScanAhead)
             l == left[n]
  <2>1. /\ scanned' = n /\ join' = [join EXCEPT !.current = l, !.rest = Candidates(l)]
        /\ call' = call /\ produced' = produced
    BY <1>5 DEF AdvanceLeft
  <2>2. n \in 1..Len(left) /\ scanned + 1 <= n
    BY <1>1, <1>5, NextRow
  <2> HIDE DEF n, l
  <2>3. Source'
    <3> SUFFICES ASSUME plan.join = "loop"
                 PROVE  /\ IsSequence(join'.rows) /\ Len(join'.rows) <= Len(right)
                        /\ IsSequence(join'.rest)
                        /\ produced[0] + Len(join'.rest) <= n * Len(right)
      BY <1>2, <2>1 DEF Source
    <3>1. /\ IsSequence(join.rows) /\ Len(join.rows) <= Len(right)
          /\ produced[0] + Len(join.rest) <= scanned * Len(right) /\ Len(join.rest) = 0
      BY <1>1, <1>2, <1>3, SequenceEmpty DEF Source
    <3>2. /\ join'.rows = join.rows /\ join'.rest = join.rows
          /\ Len(join.rows) \in Nat /\ Len(join.rows) <= Len(right)
      BY <2>1, <3>1 DEF Candidates, IsSequence
    <3>3. produced[0] <= scanned * Len(right)
      BY <1>1, <3>1
    <3>4. (scanned + 1) * Len(right) = scanned * Len(right) + Len(right)
      BY <1>1
    <3>5. (scanned + 1) * Len(right) <= n * Len(right)
      BY <1>1, <2>2
    <3>6. scanned * Len(right) \in Nat /\ (scanned + 1) * Len(right) \in Nat /\ n * Len(right) \in Nat
      BY <1>1, <2>2
    <3> QED BY <1>1, <3>1, <3>2, <3>3, <3>4, <3>5, <3>6
  <2> QED BY <1>2, <2>1, <2>2, <2>3, SourceMoves
<1> QED BY <1>4, <1>5

LEMMA TryStep ==
  ASSUME IInv, TryRight
  PROVE  IInv'
<1> DEFINE combined == join.current \o Head(join.rest)
           holds == IF plan.join = "hash" THEN Bool(TRUE)
                    ELSE Evaluate(plan.cond, combined, Schemas[0])
<1>1. /\ PlanOK /\ Types /\ Source /\ Root \in Nat /\ Len(left) \in Nat /\ scanned \in 0..Len(left)
      /\ Len(right) \in Nat /\ 0 \in 0..Root /\ produced[0] \in Nat /\ pos \in [1..Root -> Nat]
  <2>1. PlanOK /\ Types /\ Source
    BY DEF IInv
  <2>2. IsSequence(left) /\ IsSequence(right) /\ Root \in Nat
    BY <2>1 DEF PlanOK, IsSequence, Root
  <2>3. Len(left) \in Nat /\ Len(right) \in Nat
    BY <2>2 DEF IsSequence
  <2>4. /\ scanned \in 0..Len(left) /\ 0 \in 0..Root /\ produced[0] \in Nat
        /\ pos \in [1..Root -> Nat]
    BY <2>1, <2>2 DEF Types
  <2> QED BY <2>1, <2>2, <2>3, <2>4
<1>2. /\ call.dir = "ask" /\ call.node = 0 /\ status # "error" /\ plan.join # "none"
      /\ join.rest # <<>>
  BY DEF TryRight, Asked
<1>3. status \in {"open", "run"} /\ 0 < opened
  BY <1>2, Live
<1>4. CASE holds \notin Booleans
  BY <1>4, FailStep DEF TryRight
<1>5. CASE holds \in Booleans
  <2>1. /\ join' = [join EXCEPT !.rest = Tail(@)]
        /\ IF holds = Bool(TRUE) THEN Give(0, combined) ELSE UNCHANGED <<call, produced>>
        /\ UNCHANGED <<plan, left, right, status, opened, scanned, held, pos, out>>
    BY <1>5 DEF TryRight, data
  <2> HIDE DEF holds, combined
  <2>2. plan.join = "loop" =>
          /\ IsSequence(join'.rows) /\ Len(join'.rows) <= Len(right) /\ IsSequence(join'.rest)
          /\ Len(join.rest) \in Nat /\ Len(join'.rest) = Len(join.rest) - 1
    <3> SUFFICES ASSUME plan.join = "loop"
                 PROVE  /\ IsSequence(join'.rows) /\ Len(join'.rows) <= Len(right)
                        /\ IsSequence(join'.rest)
                        /\ Len(join.rest) \in Nat /\ Len(join'.rest) = Len(join.rest) - 1
      OBVIOUS
    <3>1. IsSequence(join.rows) /\ Len(join.rows) <= Len(right) /\ IsSequence(join.rest)
      BY <1>1, <1>3 DEF Source
    <3>2. join'.rest = Tail(join.rest) /\ join'.rows = join.rows
      BY <2>1
    <3>3. IsSequence(Tail(join.rest)) /\ Len(Tail(join.rest)) = Len(join.rest) - 1
      BY <1>2, <3>1, SequenceTail
    <3> QED BY <3>1, <3>2, <3>3 DEF IsSequence
  <2>3. scanned * Len(right) \in Nat
    BY <1>1
  <2>4. CASE Give(0, combined)
    <3>1. produced'[0] = produced[0] + 1
      BY <1>1, <2>4 DEF Give, Types
    <3>2. Source'
      BY <1>1, <1>2, <2>1, <2>2, <2>3, <3>1 DEF Source
    <3> QED BY <1>1, <1>2, <1>3, <2>1, <2>4, <3>2, Giving
  <2>5. CASE UNCHANGED <<call, produced>>
    <3>1. Source'
      BY <1>1, <1>2, <2>1, <2>2, <2>3, <2>5 DEF Source
    <3> QED BY <1>1, <2>1, <2>5, <3>1, SourceMoves
  <2> QED BY <2>1, <2>4, <2>5
<1> QED BY <1>4, <1>5

-----------------------------------------------------------------------------
(* Building and opening the operators. *)

LEMMA BuildStep ==
  ASSUME IInv, BuildExecutor
  PROVE  IInv'
<1>1. CASE Fail
  BY <1>1, FailStep
<1>2. CASE ~Fail
  <2>1. /\ status = "build" /\ status' = "open"
        /\ UNCHANGED <<plan, left, right, opened, scanned, join, held, pos, call, produced, out>>
    BY <1>2 DEF BuildExecutor, data, fields
  <2>2. /\ PlanOK /\ Types /\ Calls /\ Fresh /\ Nodes /\ Readings /\ Drained /\ Source /\ Counted
    BY DEF IInv
  <2>3. /\ PlanOK' /\ Root' = Root
        /\ \A i : Op(i)' = Op(i) /\ Blocking(i)' = Blocking(i) /\ Pending(i)' = Pending(i)
    BY <2>1, <2>2, SamePlan DEF Pending
  <2>4. Types' /\ Calls' /\ Fresh'
    BY <2>1, <2>2, <2>3 DEF Types, Calls, Fresh
  <2>5. Nodes' /\ Readings'
    BY <2>1, <2>2, <2>3 DEF Nodes, Node, Readings, Reading
  <2>6. Drained' /\ Source' /\ Counted'
    BY <2>1, <2>2, <2>3 DEF Drained, Ended, Source, Counted
  <2> QED BY <2>3, <2>4, <2>5, <2>6 DEF IInv
<1> QED BY <1>1, <1>2

\* Node k, whose fields are ready, is counted as open and nobody has asked it.
LEMMA NodeOpens ==
  ASSUME IInv, NEW k \in 0..Root, status = "open", opened = k, status' = "open", opened' = k + 1,
         call'.dir = "none", call'.node \in 0..Root,
         call.dir = "none" \/ (call.dir = "end" /\ call.node = k - 1),
         UNCHANGED <<plan, left, right, produced, out>>, scanned' \in 0..Len(left), Source',
         DOMAIN held' = 1..Root, pos' \in [1..Root -> Nat],
         \A i \in 1..Root : i # k => held'[i] = held[i] /\ pos'[i] = pos[i],
         k # 0 => Node(k)', k # 0 /\ Blocking(k) => call.dir = "end"
  PROVE  IInv'
<1>1. /\ PlanOK /\ Types /\ Calls /\ Fresh /\ Nodes /\ Readings /\ Drained /\ Source /\ Counted
  BY DEF IInv
<1>2. /\ PlanOK' /\ Root' = Root /\ Root \in Nat /\ Len(left) \in Nat
      /\ \A i : Op(i)' = Op(i) /\ Blocking(i)' = Blocking(i)
  BY <1>1, SamePlan
<1>3. \A i : Pending(i)' = 0 /\ Pending(i) = 0
  BY DEF Pending
<1>4. Types'
  <2>1. k + 1 \in 0..(Root + 1) /\ produced \in [0..Root -> Nat]
    BY <1>1, <1>2 DEF Types
  <2> QED BY <1>2, <2>1 DEF Types
<1>5. Calls'
  BY <1>2 DEF Calls
<1>6. Fresh'
  BY <1>1, <1>2 DEF Fresh
<1>7. Nodes'
  <2> SUFFICES ASSUME NEW i \in 1..Root, i < k + 1 PROVE Node(i)'
    BY <1>2 DEF Nodes
  <2>1. CASE i = k
    BY <2>1
  <2>2. CASE i # k
    <3>1. i < opened
      BY <1>2, <2>2
    <3>2. Node(i) /\ held'[i] = held[i] /\ pos'[i] = pos[i]
      BY <1>1, <2>2, <3>1 DEF Nodes
    <3> QED BY <1>2, <1>3, <3>2 DEF Node
  <2> QED BY <2>1, <2>2
<1>8. Readings'
  BY DEF Readings
<1>9. Drained'
  <2> SUFFICES ASSUME NEW i \in 1..Root, NEW m \in 1..Root,
                      i <= m, i < k + 1, Blocking(i), Ended(m)',
                      \A j \in (i + 1)..m : Op(j).op # "limit"
               PROVE  pos'[i] = Len(held'[i])
    BY <1>2 DEF Drained
  <2>1. m + 1 < k + 1 /\ Blocking(m + 1)
    BY <1>2 DEF Ended
  <2>2. i # k /\ i < opened
    BY <1>2, <2>1
  <2>3. Ended(m)
    <3>1. CASE m + 1 = k
      <4>1. Blocking(k) /\ k # 0
        BY <2>1, <3>1
      <4>2. call.dir = "end" /\ call.node = k - 1 /\ k - 1 = m
        BY <3>1, <4>1
      <4> QED BY <4>2 DEF Ended
    <3>2. CASE m + 1 # k
      BY <1>2, <2>1, <3>2 DEF Ended
    <3> QED BY <3>1, <3>2
  <2>4. pos[i] = Len(held[i])
    BY <1>1, <2>2, <2>3 DEF Drained
  <2> QED BY <2>2, <2>4
<1>10. Counted'
  BY <1>1, <1>2, <1>3 DEF Counted
<1> QED BY <1>2, <1>4, <1>5, <1>6, <1>7, <1>8, <1>9, <1>10 DEF IInv

\* The right side of a join has no more rows than its table.
LEMMA RightSide ==
  ASSUME PlanOK
  PROVE  IsSequence(RightRows) /\ Len(RightRows) <= Len(right)
<1> DEFINE S == {y \in DOMAIN right : Passes("r", right[y]) = Bool(TRUE)}
           n == Cardinality(S)
           rows(k) == right[Nth(S, k)]
<1>1. Len(right) \in Nat /\ S \subseteq 1..Len(right)
  BY DEF PlanOK, IsSequence
<1>2. IsFiniteSet(1..Len(right)) /\ Cardinality(1..Len(right)) = Len(right)
  <2>1. Len(right) >= 1 => Cardinality(1..Len(right)) = Len(right) - 1 + 1
    BY <1>1, FS_Interval
  <2>2. Len(right) = 0 => Cardinality(1..Len(right)) = 0
    BY <1>1, FS_Interval
  <2> QED BY <1>1, <2>1, <2>2, FS_Interval
<1>3. n \in Nat /\ n <= Len(right)
  BY <1>1, <1>2, FS_Subset, FS_CardinalityType
<1>4. RightRows = [k \in 1..n |-> rows(k)]
  BY DEF RightRows, RowsAt
<1> HIDE DEF n, rows
<1>5. RightRows = [k \in 1..n |-> RightRows[k]]
  BY <1>4
<1> QED BY <1>3, <1>5, SequenceFcn

LEMMA OpenSourceStep ==
  ASSUME IInv, OpenSource, ~RightThrows
  PROVE  IInv'
<1>1. /\ PlanOK /\ Types /\ Fresh /\ Root \in Nat /\ Len(left) \in Nat /\ Len(right) \in Nat
      /\ 0 \in 0..Root /\ 0 \in 0..Len(left)
  BY DEF IInv, PlanOK, IsSequence, Root
<1>2. /\ status = "open" /\ opened = 0 /\ call.dir = "none" /\ scanned' = 0 /\ opened' = 1
      /\ UNCHANGED <<plan, left, right, status, held, pos, call, produced, out>>
  BY DEF OpenSource, Opening, data
<1>3. PICK rows \in IF plan.join = "hash" THEN Rearranged(RightRows, {}) ELSE {RightRows} :
        join' = [rows |-> rows, current |-> <<>>, rest |-> <<>>]
  BY DEF OpenSource
<1>4. produced[0] = 0
  BY <1>1, <1>2 DEF Fresh
<1>5. Source'
  <2>1. join'.rest = <<>> /\ (plan.join = "loop" => join'.rows = RightRows)
    BY <1>3
  <2> QED BY <1>1, <1>2, <1>4, <2>1, RightSide, SequenceEmpty DEF Source
<1>6. DOMAIN held = 1..Root /\ pos \in [1..Root -> Nat] /\ call.node \in 0..Root
  BY <1>1 DEF Types
<1> QED BY <1>1, <1>2, <1>5, <1>6, NodeOpens

LEMMA OpenStreamingStep ==
  ASSUME IInv, NEW k \in 1..Root, OpenStreaming(k)
  PROVE  IInv'
<1>1. /\ PlanOK /\ Types /\ Fresh /\ Source /\ Root \in Nat /\ k \in 0..Root /\ k - 1 \in 0..Root
  BY DEF IInv, PlanOK, IsSequence, Root
<1>2. /\ status = "open" /\ opened = k /\ call.dir = "none" /\ ~Blocking(k) /\ opened' = k + 1
      /\ pos' = [pos EXCEPT ![k] = 0]
      /\ UNCHANGED <<plan, left, right, status, scanned, join, held, call, produced, out>>
  BY DEF OpenStreaming, Opening, data
<1>3. /\ DOMAIN held = 1..Root /\ pos \in [1..Root -> Nat] /\ call.node \in 0..Root
      /\ scanned \in 0..Len(left)
  BY <1>1 DEF Types
<1>4. /\ pos' \in [1..Root -> Nat] /\ pos'[k] = 0 /\ \A i \in 1..Root : i # k => pos'[i] = pos[i]
  BY <1>2, <1>3
<1>5. produced[k] = 0 /\ produced[k - 1] = 0
  <2>1. k >= opened /\ k - 1 + 1 = opened
    BY <1>1, <1>2
  <2> QED BY <1>1, <1>2, <2>1 DEF Fresh
<1>6. Source'
  BY <1>1, <1>2 DEF Source, Types
<1>7. Node(k)'
  <2>1. /\ Op(k)' = Op(k) /\ ~Blocking(k)' /\ Op(k).op \in {"filter", "limit", "project"}
        /\ Op(k).op = "limit" => Op(k).count \in Nat
    BY <1>1, <1>2, SamePlan, Kinds
  <2>2. Pending(k - 1)' = 0 /\ call'.dir = "none"
    BY <1>2 DEF Pending
  <2> QED BY <1>2, <1>4, <1>5, <2>1, <2>2 DEF Node
<1> QED BY <1>1, <1>2, <1>3, <1>4, <1>6, <1>7, NodeOpens

\* Node k, which is being opened, asks for the first or the next row of its input.
LEMMA ReadsOn ==
  ASSUME IInv, NEW k \in 1..Root, status = "open", opened = k, Blocking(k),
         call.dir = "none" \/ (call.dir = "row" /\ call.node = k - 1),
         NEW h, held' = [held EXCEPT ![k] = h], Ask(k - 1), Reading(k)',
         UNCHANGED <<plan, left, right, status, opened, scanned, join, pos, out>>
  PROVE  IInv'
<1>1. /\ PlanOK /\ Types /\ Calls /\ Fresh /\ Nodes /\ Drained /\ Source /\ Counted
  BY DEF IInv
<1>2. /\ PlanOK' /\ Root' = Root /\ Root \in Nat /\ Len(left) \in Nat
      /\ \A i : Op(i)' = Op(i) /\ Blocking(i)' = Blocking(i)
  BY <1>1, SamePlan
<1>3. call'.dir = "ask" /\ call'.node = k - 1 /\ produced' = produced
  BY DEF Ask
<1>4. k - 1 \in 0..Root /\ DOMAIN held' = 1..Root /\ \A i \in 1..Root : i # k => held'[i] = held[i]
  BY <1>1, <1>2 DEF Types
<1>5. Types'
  BY <1>1, <1>2, <1>3, <1>4 DEF Types
<1>6. Calls'
  BY <1>2, <1>3, <1>4 DEF Calls
<1>7. Fresh'
  BY <1>1, <1>2, <1>3 DEF Fresh
<1>8. Nodes'
  <2> SUFFICES ASSUME NEW i \in 1..Root, i < k PROVE Node(i)'
    BY <1>2 DEF Nodes
  <2>1. Node(i) /\ held'[i] = held[i]
    BY <1>1, <1>4 DEF Nodes
  <2>2. Pending(i - 1)' = Pending(i - 1) /\ ~(call'.node < i)
    BY <1>3 DEF Pending
  <2> QED BY <1>2, <1>3, <2>1, <2>2 DEF Node
<1>9. Readings'
  BY <1>2, <1>3 DEF Readings
<1>10. Drained'
  <2>1. \A m : Ended(m)' => Ended(m)
    BY <1>2, <1>3 DEF Ended
  <2>2. \A i \in 1..Root : i < k => held'[i] = held[i]
    BY <1>4
  <2> QED BY <1>1, <1>2, <2>1, <2>2 DEF Drained
<1>11. Source'
  BY <1>1, <1>3 DEF Source
<1>12. Counted'
  BY <1>1, <1>2, <1>3, <1>4 DEF Counted, Pending
<1> QED BY <1>2, <1>5, <1>6, <1>7, <1>8, <1>9, <1>10, <1>11, <1>12 DEF IInv

LEMMA OpenBlockingStep ==
  ASSUME IInv, NEW k \in 1..Root, OpenBlocking(k)
  PROVE  IInv'
<1>1. /\ PlanOK /\ Types /\ Fresh /\ Root \in Nat /\ k - 1 \in 0..Root
  BY DEF IInv, PlanOK, IsSequence, Root
<1>2. /\ status = "open" /\ opened = k /\ call.dir = "none" /\ Blocking(k)
      /\ held' = [held EXCEPT ![k] = <<>>] /\ Ask(k - 1)
      /\ UNCHANGED <<plan, left, right, status, opened, scanned, join, pos, out>>
  BY DEF OpenBlocking, Opening, data
<1>3. produced[k - 1] = 0
  <2>1. k - 1 + 1 = opened
    BY <1>1, <1>2
  <2> QED BY <1>1, <1>2, <2>1 DEF Fresh
<1>4. Reading(k)'
  <2>1. held'[k] = <<>>
    BY <1>1, <1>2 DEF Types
  <2>2. Pending(k - 1)' = 0 /\ produced' = produced
    BY <1>2 DEF Ask, Pending
  <2> QED BY <1>3, <2>1, <2>2, SequenceEmpty DEF Reading
<1> QED BY <1>2, <1>4, ReadsOn

\* An aggregate gets at most one more group with a row.
LEMMA AddRowLen ==
  ASSUME NEW i, NEW groups, IsSequence(groups), NEW row
  PROVE  /\ IsSequence(AddRow(i, groups, row))
         /\ Len(AddRow(i, groups, row)) \in {Len(groups), Len(groups) + 1}
<1> DEFINE key == GroupKey(i, row)
           args == Arguments(i, row)
           known == \E g \in DOMAIN groups : groups[g].str = KeyString(key)
           all == IF known THEN groups
                  ELSE Append(groups, [key |-> key, str |-> KeyString(key),
                                       accs |-> [j \in DOMAIN args |-> NoInput]])
           g == CHOOSE g \in DOMAIN all : all[g].str = KeyString(key)
           new == [all EXCEPT ![g].accs = [j \in DOMAIN args |-> Accumulate(@[j], Op(i).aggs[j], args[j])]]
<1>1. IsSequence(all) /\ Len(all) \in {Len(groups), Len(groups) + 1}
  BY SequenceAppend
<1>2. AddRow(i, groups, row) = new
  BY DEF AddRow
<1> HIDE DEF all, g, args
<1>3. DOMAIN new = DOMAIN all /\ new = [k \in DOMAIN all |-> new[k]]
  OBVIOUS
<1>4. DOMAIN all = 1..Len(all) /\ Len(all) \in Nat
  BY <1>1 DEF IsSequence
<1> HIDE DEF new
<1>5. IsSequence(new) /\ Len(new) = Len(all)
  BY <1>3, <1>4, SequenceFcn
<1> QED BY <1>1, <1>2, <1>5

LEMMA CollectStep ==
  ASSUME IInv, NEW k \in 1..Root, Collect(k)
  PROVE  IInv'
<1> DEFINE throws == Op(k).op = "aggregate" /\
                       Throw \in ToSet(GroupKey(k, call.row)) \cup ToSet(Arguments(k, call.row))
           more == IF Op(k).op = "sort" THEN Append(held[k], call.row)
                                        ELSE AddRow(k, held[k], call.row)
<1>1. /\ PlanOK /\ Types /\ Calls /\ Readings /\ Root \in Nat /\ k - 1 \in 0..Root
  BY DEF IInv, PlanOK, IsSequence, Root
<1>2. /\ status # "error" /\ call.dir = "row" /\ call.node = k - 1 /\ opened = k
  BY DEF Collect, Answered
<1>3. status = "open" /\ Blocking(k) /\ Reading(k)
  BY <1>1, <1>2 DEF Calls, Types, Readings
<1>4. CASE throws
  BY <1>4, FailStep DEF Collect
<1>5. CASE ~throws
  <2>1. /\ held' = [held EXCEPT ![k] = more] /\ Ask(k - 1)
        /\ UNCHANGED <<plan, left, right, status, opened, scanned, join, pos, out>>
    BY <1>5 DEF Collect, data
  <2>2. IsSequence(held[k]) /\ Len(held[k]) \in Nat
    BY <1>3 DEF Reading, IsSequence
  <2>3. /\ IsSequence(more) /\ Len(more) \in {Len(held[k]), Len(held[k]) + 1}
        /\ Op(k).op = "sort" => Len(more) = Len(held[k]) + 1
    BY <2>2, SequenceAppend, AddRowLen
  <2> HIDE DEF more, throws
  <2>4. Reading(k)'
    <3>1. held'[k] = more
      BY <1>1, <2>1 DEF Types
    <3>2. Pending(k - 1)' = 0 /\ Pending(k - 1) = 1 /\ produced' = produced
      BY <1>2, <2>1 DEF Ask, Pending
    <3>3. Op(k)' = Op(k)
      BY <2>1 DEF Op
    <3>4. produced[k - 1] \in Nat
      BY <1>1 DEF Types
    <3> QED BY <1>3, <2>2, <2>3, <3>1, <3>2, <3>3, <3>4 DEF Reading
  <2> QED BY <1>2, <1>3, <2>1, <2>4, ReadsOn
<1> QED BY <1>4, <1>5

\* Sorting keeps the number of rows, whatever the comparator.
LEMMA SortedLen ==
  ASSUME NEW i, NEW rows, IsSequence(rows), NEW s \in Sorted(i, rows)
  PROVE  IsSequence(s) /\ Len(s) = Len(rows)
<1>1. DOMAIN rows = 1..Len(rows) /\ Len(rows) \in Nat
  BY DEF IsSequence
<1>2. PICK less : s \in Rearranged(rows, less)
  BY DEF Sorted
<1>3. PICK p : s = [x \in DOMAIN rows |-> rows[p[x]]]
  BY <1>2 DEF Rearranged
<1>4. s = [x \in 1..Len(rows) |-> s[x]]
  BY <1>1, <1>3
<1> QED BY <1>1, <1>4, SequenceFcn

\* An aggregate returns a row for each group, or one.
LEMMA ResultsLen ==
  ASSUME NEW i, NEW groups, IsSequence(groups)
  PROVE  /\ IsSequence(Results(i, groups))
         /\ Len(Results(i, groups)) = Len(groups) \/ Len(Results(i, groups)) = 1
<1> DEFINE r == Results(i, groups)
<1>1. DOMAIN groups = 1..Len(groups) /\ Len(groups) \in Nat
  BY DEF IsSequence
<1>2. CASE Op(i).by = <<>> /\ groups = <<>>
  <2>1. \E x : r = <<x>>
    BY <1>2 DEF Results
  <2>2. r = [k \in 1..1 |-> r[k]]
    BY <2>1
  <2> HIDE DEF r
  <2>3. IsSequence(r) /\ Len(r) = 1
    BY <2>2, SequenceFcn
  <2> QED BY <2>3 DEF r
<1>3. CASE ~(Op(i).by = <<>> /\ groups = <<>>)
  <2>1. r = [g \in DOMAIN groups |-> r[g]]
    BY <1>3 DEF Results
  <2> HIDE DEF r
  <2>2. IsSequence(r) /\ Len(r) = Len(groups)
    BY <1>1, <2>1, SequenceFcn
  <2> QED BY <2>2 DEF r
<1> QED BY <1>2, <1>3

LEMMA OpenedStep ==
  ASSUME IInv, NEW k \in 1..Root, Opened(k)
  PROVE  IInv'
<1>1. /\ PlanOK /\ Types /\ Calls /\ Fresh /\ Readings /\ Source /\ Root \in Nat
      /\ k \in 0..Root /\ k - 1 \in 0..Root
  BY DEF IInv, PlanOK, IsSequence, Root
<1>2. status # "error" /\ call.dir = "end" /\ call.node = k - 1 /\ opened = k
  BY DEF Opened, Answered
<1>3. status = "open" /\ Blocking(k) /\ Reading(k)
  BY <1>1, <1>2 DEF Calls, Types, Readings
<1>4. CASE Op(k).op = "sort" /\ SortThrows(k, held[k])
  BY <1>4, FailStep DEF Opened
<1>5. CASE ~(Op(k).op = "sort" /\ SortThrows(k, held[k]))
  <2>1. PICK rows \in IF Op(k).op = "sort" THEN Sorted(k, held[k]) ELSE {Results(k, held[k])} :
          held' = [held EXCEPT ![k] = rows]
    BY <1>5 DEF Opened
  <2>2. /\ pos' = [pos EXCEPT ![k] = 0] /\ opened' = k + 1
        /\ call' = [dir |-> "none", node |-> k, row |-> <<>>]
        /\ UNCHANGED <<plan, left, right, status, scanned, join, produced, out>>
    BY <1>5 DEF Opened, data
  <2>3. IsSequence(held[k]) /\ Len(held[k]) \in Nat
    BY <1>3 DEF Reading, IsSequence
  <2>4. /\ IsSequence(rows) /\ Len(rows) \in Nat
        /\ Op(k).op = "sort" => Len(rows) = Len(held[k])
        /\ Op(k).op # "sort" => Len(rows) = Len(held[k]) \/ Len(rows) = 1
    <3>1. CASE Op(k).op = "sort"
      <4>1. rows \in Sorted(k, held[k])
        BY <2>1, <3>1
      <4> QED BY <2>3, <3>1, <4>1, SortedLen
    <3>2. CASE Op(k).op # "sort"
      <4>1. rows = Results(k, held[k])
        BY <2>1, <3>2
      <4>2. IsSequence(rows) /\ (Len(rows) = Len(held[k]) \/ Len(rows) = 1)
        BY <2>3, <4>1, ResultsLen
      <4> QED BY <2>3, <3>2, <4>2
    <3> QED BY <3>1, <3>2
  <2>5. /\ DOMAIN held' = 1..Root /\ held'[k] = rows
        /\ pos' \in [1..Root -> Nat] /\ pos'[k] = 0
        /\ \A i \in 1..Root : i # k => held'[i] = held[i] /\ pos'[i] = pos[i]
    BY <1>1, <2>1, <2>2 DEF Types
  <2>6. produced[k] = 0
    BY <1>1, <1>2 DEF Fresh, Types
  <2>7. produced[k - 1] \in Nat /\ scanned \in 0..Len(left)
    BY <1>1 DEF Types
  <2>8. Pending(k - 1) = 0
    BY <1>2 DEF Pending
  <2>9. /\ Op(k)' = Op(k) /\ Blocking(k)' /\ Op(k).op \in {"sort", "aggregate"}
    BY <1>1, <1>3, <2>2, SamePlan DEF Blocking
  <2>10. Node(k)'
    <3>1. produced'[k] = 0 /\ pos'[k] = 0 /\ held'[k] = rows /\ produced'[k - 1] = produced[k - 1]
      BY <2>2, <2>5, <2>6
    <3>2. CASE Op(k).op = "sort"
      <4>1. Len(rows) = produced[k - 1]
        BY <1>3, <2>3, <2>4, <2>7, <2>8, <3>2 DEF Reading
      <4> QED BY <2>4, <2>9, <3>1, <3>2, <4>1 DEF Node
    <3>3. CASE Op(k).op = "aggregate"
      <4>1. Len(rows) <= produced[k - 1] \/ Len(rows) <= 1
        <5>1. Len(held[k]) + 0 <= produced[k - 1]
          BY <1>3, <2>8, <3>3 DEF Reading
        <5>2. Len(rows) = Len(held[k]) \/ Len(rows) = 1
          BY <2>4, <3>3
        <5>3. Len(held[k]) <= produced[k - 1]
          BY <2>3, <2>7, <5>1
        <5>4. CASE Len(rows) = Len(held[k])
          BY <5>3, <5>4
        <5>5. CASE Len(rows) = 1
          BY <5>5
        <5> QED BY <5>2, <5>4, <5>5
      <4> QED BY <2>4, <2>9, <3>1, <3>3, <4>1 DEF Node
    <3> QED BY <2>9, <3>2, <3>3
  <2>11. Source'
    <3>1. opened > 0
      BY <1>2
    <3> QED BY <1>1, <2>2, <3>1 DEF Source
  <2> QED BY <1>1, <1>2, <1>3, <2>2, <2>5, <2>7, <2>10, <2>11, NodeOpens
<1> QED BY <1>4, <1>5

-----------------------------------------------------------------------------
(* run_to_completion. *)

\* The consumer of the root asks it for a row.
LEMMA AskRoot ==
  ASSUME IInv, opened = Root + 1, status' = "run", Ask(Root),
         UNCHANGED <<plan, left, right, opened, scanned, join, held, pos>>, Counted',
         call.dir = "none" \/ call.node = Root
  PROVE  IInv'
<1>1. /\ PlanOK /\ Types /\ Calls /\ Fresh /\ Nodes /\ Drained /\ Source
  BY DEF IInv
<1>2. /\ PlanOK' /\ Root' = Root /\ Root \in Nat /\ Len(left) \in Nat
      /\ \A i : Op(i)' = Op(i) /\ Blocking(i)' = Blocking(i)
  BY <1>1, SamePlan
<1>3. call'.dir = "ask" /\ call'.node = Root /\ produced' = produced
  BY DEF Ask
<1>4. Types' /\ Calls' /\ Fresh' /\ Readings'
  BY <1>1, <1>2, <1>3 DEF Types, Calls, Fresh, Readings
<1>5. Nodes'
  <2> SUFFICES ASSUME NEW i \in 1..Root PROVE Node(i)'
    BY <1>2 DEF Nodes
  <2>1. Node(i)
    BY <1>1, <1>2 DEF Nodes
  <2>2. Pending(i - 1)' = Pending(i - 1) /\ ~(call'.node < i)
    BY <1>2, <1>3 DEF Pending
  <2> QED BY <1>2, <1>3, <2>1, <2>2 DEF Node
<1>6. Drained'
  <2>1. \A m : Ended(m)' => Ended(m)
    BY <1>2, <1>3 DEF Ended
  <2> QED BY <1>1, <1>2, <2>1 DEF Drained
<1>7. Source'
  BY <1>1, <1>3 DEF Source
<1> QED BY <1>2, <1>4, <1>5, <1>6, <1>7 DEF IInv

LEMMA RunStep ==
  ASSUME IInv, Run
  PROVE  IInv'
<1>1. /\ opened = Root + 1 /\ call.dir = "none" /\ status' = "run" /\ Ask(Root)
      /\ UNCHANGED <<plan, left, right, opened, scanned, join, held, pos, out>>
  BY DEF Run, Opening, data, fields
<1>2. Counted'
  BY <1>1 DEF IInv, Counted, Pending, Ask, Root
<1> QED BY <1>1, <1>2, AskRoot

LEMMA TakeRowStep ==
  ASSUME IInv, TakeRow
  PROVE  IInv'
<1>1. /\ status = "run" /\ call.dir = "row" /\ call.node = Root
      /\ out' = Append(out, call.row) /\ Ask(Root)
      /\ UNCHANGED <<plan, left, right, status, opened, scanned, join, held, pos>>
  BY DEF TakeRow, data, fields
<1>2. opened = Root + 1
  BY <1>1 DEF IInv, Calls
<1>3. Counted'
  <2>1. IsSequence(out) /\ Len(out) + Pending(Root) = produced[Root] /\ Len(out) \in Nat
    BY DEF IInv, Counted, IsSequence
  <2>2. IsSequence(out') /\ Len(out') = Len(out) + 1
    BY <1>1, <2>1, SequenceAppend
  <2>3. Root' = Root /\ produced' = produced /\ Pending(Root) = 1
    BY <1>1 DEF Root, Ask, Pending
  <2>4. Pending(Root)' = 0
    BY <1>1 DEF Ask, Pending
  <2> QED BY <2>1, <2>2, <2>3, <2>4 DEF Counted
<1> QED BY <1>1, <1>2, <1>3, AskRoot

LEMMA CloseStep ==
  ASSUME IInv, Close
  PROVE  IInv'
<1>1. /\ status = "run" /\ call.dir = "end" /\ call.node = Root /\ status' = "done"
      /\ UNCHANGED <<plan, left, right, opened, scanned, join, held, pos, call, produced, out>>
  BY DEF Close, data, fields
<1>2. /\ PlanOK /\ Types /\ Calls /\ Fresh /\ Nodes /\ Readings /\ Drained /\ Source /\ Counted
  BY DEF IInv
<1>3. /\ PlanOK' /\ Root' = Root
      /\ \A i : Op(i)' = Op(i) /\ Blocking(i)' = Blocking(i) /\ Pending(i)' = Pending(i)
  BY <1>1, <1>2, SamePlan DEF Pending
<1>4. Types' /\ Calls' /\ Fresh'
  BY <1>1, <1>2, <1>3 DEF Types, Calls, Fresh
<1>5. Nodes' /\ Readings'
  BY <1>1, <1>2, <1>3 DEF Nodes, Node, Readings, Reading
<1>6. Drained' /\ Source' /\ Counted'
  BY <1>1, <1>2, <1>3 DEF Drained, Ended, Source, Counted
<1> QED BY <1>3, <1>4, <1>5, <1>6 DEF IInv

-----------------------------------------------------------------------------
(* The theorems. *)

LEMMA Steps ==
  ASSUME IInv, [Next]_vars
  PROVE  IInv'
<1>1. CASE BuildExecutor
  BY <1>1, BuildStep
<1>2. CASE OpenSource
  <2>1. CASE RightThrows
    BY <1>2, <2>1, FailStep DEF OpenSource
  <2> QED BY <1>2, <2>1, OpenSourceStep
<1>20. CASE ScanFails
  BY <1>20, FailStep DEF ScanFails
<1>3. CASE ScanNext
  BY <1>3, ScanStep
<1>4. CASE AdvanceLeft
  BY <1>4, AdvanceStep
<1>5. CASE TryRight
  BY <1>5, TryStep
<1>6. ASSUME NEW i \in 1..Root, OpenStreaming(i)
      PROVE  IInv'
  BY <1>6, OpenStreamingStep
<1>7. ASSUME NEW i \in 1..Root, OpenBlocking(i)
      PROVE  IInv'
  BY <1>7, OpenBlockingStep
<1>8. ASSUME NEW i \in 1..Root, Collect(i)
      PROVE  IInv'
  BY <1>8, CollectStep
<1>9. ASSUME NEW i \in 1..Root, Opened(i)
      PROVE  IInv'
  BY <1>9, OpenedStep
<1>10. ASSUME NEW i \in 1..Root, AnswerHeld(i)
       PROVE  IInv'
  BY <1>10, AnswerHeldStep
<1>11. ASSUME NEW i \in 1..Root, AskChild(i)
       PROVE  IInv'
  BY <1>11, AskChildStep
<1>12. ASSUME NEW i \in 1..Root, FilterRow(i)
       PROVE  IInv'
  BY <1>12, FilterStep
<1>13. ASSUME NEW i \in 1..Root, ProjectRow(i)
       PROVE  IInv'
  BY <1>13, ProjectStep
<1>14. ASSUME NEW i \in 1..Root, LimitRow(i)
       PROVE  IInv'
  BY <1>14, LimitStep
<1>15. ASSUME NEW i \in 1..Root, PassEnd(i)
       PROVE  IInv'
  BY <1>15, PassEndStep
<1>16. CASE Run
  BY <1>16, RunStep
<1>17. CASE TakeRow
  BY <1>17, TakeRowStep
<1>18. CASE Close
  BY <1>18, CloseStep
<1>19. CASE UNCHANGED vars
  <2>1. UNCHANGED <<plan, left, right, status, opened, scanned, join, held, pos, call, produced, out>>
    BY <1>19 DEF vars
  <2>2. scanned' \in 0..Len(left) /\ Source'
    BY <2>1 DEF IInv, Types, Source
  <2> QED BY <2>1, <2>2, SourceMoves
<1> QED BY <1>1, <1>2, <1>3, <1>4, <1>5, <1>6, <1>7, <1>8, <1>9, <1>10, <1>11, <1>12, <1>13,
           <1>14, <1>15, <1>16, <1>17, <1>18, <1>19, <1>20 DEF Next

\* The calls keep to their discipline and the counters to their relations.
THEOREM ExecutionInvariant == Spec => []IInv
BY Initially, Steps, PTL DEF Spec

\* The positions and counters of the operators stay in their ranges for every
\* plan and every table: no scan advances past its table (operators.cpp), and a
\* call is always with a node of the plan.
THEOREM ExecutionTypes == Spec => []TypeOK
<1>1. IInv => TypeOK
  BY DEF IInv, Types, TypeOK
<1> QED BY <1>1, ExecutionInvariant, PTL

\* A LIMIT fetches nothing that it does not return (LimitExec::next looks at its
\* count before it asks its child), whatever is below it.
THEOREM LimitNeverOverfetches == Spec => []LimitStops
<1>1. ASSUME IInv PROVE LimitStops
  <2> SUFFICES ASSUME NEW i \in 1..Root, Op(i).op = "limit"
               PROVE  produced[i - 1] <= Op(i).count
    BY DEF LimitStops
  <2>1. PlanOK /\ Types /\ Calls /\ Fresh /\ Nodes /\ Root \in Nat /\ i \in 0..Root /\ i - 1 \in 0..Root
    <3>1. PlanOK /\ Types /\ Calls /\ Fresh /\ Nodes
      BY <1>1 DEF IInv
    <3>2. Root \in Nat
      BY <3>1 DEF PlanOK, IsSequence, Root
    <3> QED BY <3>1, <3>2
  <2>2. Op(i).count \in Nat /\ produced[i - 1] \in Nat /\ produced[i] \in Nat /\ ~Blocking(i)
    BY <2>1, Kinds DEF Types
  <2>3. CASE i < opened
    <3>1. Node(i)
      BY <2>1, <2>3 DEF Nodes
    <3>2. Pending(i - 1) = 0 \/ (Pending(i - 1) = 1 /\ call.dir # "none" /\ call.node < i)
      BY DEF Pending
    <3> QED BY <2>2, <3>1, <3>2 DEF Node
  <2>4. CASE ~(i < opened)
    <3>1. i - 1 >= opened \/ (i = opened /\ i - 1 + 1 = opened)
      BY <2>1, <2>4 DEF Types
    <3>2. i = opened => call.dir = "none"
      BY <2>1, <2>2 DEF Calls
    <3>3. produced[i - 1] = 0
      BY <2>1, <3>1, <3>2 DEF Fresh
    <3> QED BY <2>2, <3>3
  <2> QED BY <2>3, <2>4
<1> QED BY <1>1, ExecutionInvariant, PTL

\* The actual rows of EXPLAIN ANALYZE add up from node to node (rows_produced of
\* executor.hpp), for every plan and every table: a node never returns more rows
\* than it took, a sort none less unless a limit above it stopped asking, and
\* the result has exactly the rows that the root counted.
THEOREM ActualRowsAddUp == Spec => []CountsAddUp
<1>1. ASSUME IInv PROVE CountsAddUp
  <2>1. /\ PlanOK /\ Types /\ Calls /\ Fresh /\ Nodes /\ Drained /\ Source /\ Counted
        /\ Root \in Nat /\ Len(left) \in Nat /\ Len(right) \in Nat /\ produced[0] \in Nat
        /\ scanned \in 0..Len(left)
    <3>1. PlanOK /\ Types /\ Calls /\ Fresh /\ Nodes /\ Drained /\ Source /\ Counted
      BY <1>1 DEF IInv
    <3>2. Root \in Nat /\ Len(left) \in Nat /\ Len(right) \in Nat
      BY <3>1 DEF PlanOK, IsSequence, Root
    <3> QED BY <3>1, <3>2 DEF Types
  <2>2. ASSUME NEW i \in 1..Root
        PROVE  /\ produced[i] <= produced[i - 1] \/ (Op(i).op = "aggregate" /\ produced[i] <= 1)
               /\ status = "done" /\ (\/ Op(i).op \in {"project", "limit"}
                                      \/ Op(i).op = "sort" /\ NoLimitAbove(i))
                    => produced[i] = produced[i - 1]
    <3>1. produced[i] \in Nat /\ produced[i - 1] \in Nat /\ i \in 0..Root
      <4>1. i \in 0..Root /\ i - 1 \in 0..Root
        BY <2>1
      <4> QED BY <2>1, <4>1 DEF Types
    <3>2. CASE ~(i < opened)
      <4>1. produced[i] = 0 /\ status # "done"
        BY <2>1, <3>1, <3>2 DEF Fresh, Calls, Types
      <4> QED BY <3>1, <4>1
    <3>3. CASE i < opened
      <4>1. Node(i) /\ Pending(i - 1) \in {0, 1} /\ (status = "done" => Pending(i - 1) = 0)
        BY <2>1, <3>3 DEF Nodes, Pending, Calls
      <4>2. /\ Op(i).op \in {"filter", "aggregate", "sort", "limit", "project"}
            /\ Blocking(i) <=> Op(i).op \in {"sort", "aggregate"}
        BY <2>1, Kinds
      <4>3. Blocking(i) => Len(held[i]) \in Nat
        BY <4>1 DEF Node, IsSequence
      <4>4. status = "done" /\ Op(i).op = "sort" /\ NoLimitAbove(i) => pos[i] = Len(held[i])
        <5> SUFFICES ASSUME status = "done", Op(i).op = "sort", NoLimitAbove(i)
                     PROVE  pos[i] = Len(held[i])
          OBVIOUS
        <5>1. Ended(Root) /\ Blocking(i) /\ Root \in 1..Root /\ i <= Root
          BY <2>1, <4>2 DEF Ended, Calls
        <5> QED BY <2>1, <3>3, <5>1 DEF Drained, NoLimitAbove
      <4> QED BY <3>1, <4>1, <4>2, <4>3, <4>4 DEF Node
    <3> QED BY <3>2, <3>3
  <2>3. plan.join = "none" => produced[0] <= Len(left)
    BY <2>1 DEF Source
  <2>4. plan.join = "loop" => produced[0] <= Len(left) * Len(right)
    <3>1. scanned * Len(right) <= Len(left) * Len(right)
      BY <2>1
    <3>2. scanned * Len(right) \in Nat /\ Len(left) * Len(right) \in Nat
      BY <2>1
    <3>3. plan.join = "loop" => /\ Len(join.rest) \in Nat
                                /\ produced[0] + Len(join.rest) <= scanned * Len(right)
      BY <2>1 DEF Source, IsSequence
    <3> QED BY <2>1, <3>1, <3>2, <3>3
  <2>5. status = "done" => Len(out) = produced[Root]
    <3>1. status = "done" => Pending(Root) = 0
      BY <2>1 DEF Calls, Pending
    <3>2. Len(out) \in Nat
      BY <2>1 DEF Counted, IsSequence
    <3> QED BY <2>1, <3>1, <3>2 DEF Counted
  <2> QED BY <2>2, <2>3, <2>4, <2>5 DEF CountsAddUp
<1> QED BY <1>1, ExecutionInvariant, PTL

-----------------------------------------------------------------------------
(* Positions: the rank of a position in a set, and the rows at a set of      *)
(* positions.                                                                *)

UpTo(S, n) == {y \in S : y <= n}

\* One position more adds itself, if it is in the set.
LEMMA RankNext ==
  ASSUME NEW L \in Nat, NEW S, S \subseteq 1..L, NEW n \in Nat
  PROVE  /\ IsFiniteSet(S) /\ IsFiniteSet(UpTo(S, n)) /\ UpTo(S, n) \subseteq S
         /\ Cardinality(S) \in Nat /\ Cardinality(UpTo(S, n)) \in 0..Cardinality(S)
         /\ Cardinality(UpTo(S, n + 1)) = IF n + 1 \in S THEN Cardinality(UpTo(S, n)) + 1
                                                         ELSE Cardinality(UpTo(S, n))
<1>1. IsFiniteSet(1..L)
  BY FS_Interval
<1>2. IsFiniteSet(S) /\ Cardinality(S) \in Nat
  BY <1>1, FS_Subset, FS_CardinalityType
<1>3. UpTo(S, n) \in SUBSET S
  BY DEF UpTo
<1>4. IsFiniteSet(UpTo(S, n)) /\ Cardinality(UpTo(S, n)) <= Cardinality(S)
  BY <1>2, <1>3, FS_Subset
<1>5. Cardinality(UpTo(S, n)) \in Nat
  BY <1>4, FS_CardinalityType
<1>6. CASE n + 1 \in S
  <2>1. UpTo(S, n + 1) = UpTo(S, n) \cup {n + 1} /\ n + 1 \notin UpTo(S, n)
    <3>1. /\ \A y : y \in UpTo(S, n) <=> y \in S /\ y <= n
          /\ \A y : y \in UpTo(S, n + 1) <=> y \in S /\ y <= n + 1
          /\ \A y \in S : y \in Nat
      BY DEF UpTo
    <3>2. \A y \in S : y <= n + 1 <=> y <= n \/ y = n + 1
      BY <3>1
    <3>3. n + 1 \notin UpTo(S, n)
      BY <3>1
    <3>4. \A y : y \in UpTo(S, n + 1) <=> y \in UpTo(S, n) \/ y = n + 1
      BY <1>6, <3>1, <3>2
    <3> QED BY <3>3, <3>4
  <2> QED BY <1>2, <1>3, <1>4, <1>5, <1>6, <2>1, FS_AddElement
<1>7. CASE n + 1 \notin S
  <2>1. UpTo(S, n + 1) = UpTo(S, n)
    <3>1. /\ \A y : y \in UpTo(S, n) <=> y \in S /\ y <= n
          /\ \A y : y \in UpTo(S, n + 1) <=> y \in S /\ y <= n + 1
          /\ \A y \in S : y \in Nat
      BY DEF UpTo
    <3>2. \A y \in S : y <= n + 1 <=> y <= n
      BY <1>7, <3>1
    <3>3. \A y : y \in UpTo(S, n + 1) <=> y \in UpTo(S, n)
      BY <3>1, <3>2
    <3> QED BY <3>3
  <2> QED BY <1>2, <1>3, <1>4, <1>5, <1>7, <2>1
<1> QED BY <1>6, <1>7

\* Up to the end are all of them, up to 0 none.
LEMMA RankEnds ==
  ASSUME NEW L \in Nat, NEW S, S \subseteq 1..L
  PROVE  UpTo(S, L) = S /\ UpTo(S, 0) = {} /\ Cardinality(UpTo(S, 0)) = 0
<1>1. \A y \in S : y <= L /\ ~(y <= 0)
  OBVIOUS
<1>2. UpTo(S, L) = S /\ UpTo(S, 0) = {}
  <2>1. /\ \A y : y \in UpTo(S, L) <=> y \in S /\ y <= L
        /\ \A y : y \in UpTo(S, 0) <=> y \in S /\ y <= 0
    BY DEF UpTo
  <2>2. /\ \A y : y \in UpTo(S, L) <=> y \in S
        /\ \A y : y \notin UpTo(S, 0)
    BY <1>1, <2>1
  <2> QED BY <2>2
<1> QED BY <1>2, FS_EmptySet

\* A position of the set is the one of its rank.
LEMMA NthRank ==
  ASSUME NEW L \in Nat, NEW S, S \subseteq 1..L, NEW x \in S
  PROVE  Cardinality(UpTo(S, x)) \in 1..Cardinality(S) /\ Nth(S, Cardinality(UpTo(S, x))) = x
<1> DEFINE c == Cardinality(UpTo(S, x))
<1>1. x \in Nat /\ x - 1 \in Nat /\ x - 1 + 1 = x
  OBVIOUS
<1>2. ASSUME NEW y \in S, NEW z \in S, y < z
      PROVE  Cardinality(UpTo(S, y)) # Cardinality(UpTo(S, z))
  <2>1. y \in Nat /\ z \in Nat
    BY <1>2
  <2>2. IsFiniteSet(UpTo(S, z))
    BY <2>1, RankNext
  <2>3. UpTo(S, y) \in SUBSET UpTo(S, z) /\ z \in UpTo(S, z) /\ z \notin UpTo(S, y)
    <3>1. /\ \A v : v \in UpTo(S, y) <=> v \in S /\ v <= y
          /\ \A v : v \in UpTo(S, z) <=> v \in S /\ v <= z
          /\ \A v \in S : v \in Nat
      BY DEF UpTo
    <3>2. \A v \in S : v <= y => v <= z
      BY <1>2, <2>1, <3>1
    <3>3. z <= z /\ ~(z <= y)
      BY <1>2, <2>1
    <3> QED BY <3>1, <3>2, <3>3
  <2> QED BY <2>2, <2>3, FS_Subset
<1>3. c \in 1..Cardinality(S)
  <2>1. Cardinality(S) \in Nat /\ c \in 0..Cardinality(S) /\ IsFiniteSet(UpTo(S, x))
    BY <1>1, RankNext
  <2>2. x \in UpTo(S, x)
    BY <1>1 DEF UpTo
  <2>3. c # 0
    BY <2>1, <2>2, FS_EmptySet
  <2> QED BY <2>1, <2>3
<1>4. \A y \in S : Cardinality(UpTo(S, y)) = c => y = x
  <2> SUFFICES ASSUME NEW y \in S, Cardinality(UpTo(S, y)) = c, y # x PROVE FALSE
    OBVIOUS
  <2>1. y < x \/ x < y
    OBVIOUS
  <2> QED BY <1>2, <2>1
<1>5. Nth(S, c) = CHOOSE y \in S : Cardinality(UpTo(S, y)) = c
  BY DEF Nth, UpTo
<1>6. Nth(S, c) = x
  <2> HIDE DEF c
  <2>1. Cardinality(UpTo(S, x)) = c
    BY DEF c
  <2> QED BY <1>4, <1>5, <2>1
<1> QED BY <1>3, <1>6

\* There is one of every rank.
LEMMA NthIn ==
  ASSUME NEW L \in Nat, NEW S, S \subseteq 1..L, NEW k \in 1..Cardinality(S)
  PROVE  Nth(S, k) \in S /\ Cardinality(UpTo(S, Nth(S, k))) = k
<1> DEFINE B == {n \in Nat : Cardinality(UpTo(S, n)) >= k}
<1>1. L \in B
  <2>1. Cardinality(S) \in Nat
    BY RankNext
  <2>2. UpTo(S, L) = S
    <3>1. \A y : y \in UpTo(S, L) <=> y \in S /\ y <= L
      BY DEF UpTo
    <3>2. \A y \in S : y <= L
      OBVIOUS
    <3>3. \A y : y \in UpTo(S, L) <=> y \in S
      BY <3>1, <3>2
    <3> QED BY <3>3
  <2> QED BY <2>1, <2>2
<1>2. PICK n \in B : \A y \in B : ~(<<y, n>> \in OpToRel(<, Nat))
  <2>1. B # {} /\ B \subseteq Nat
    BY <1>1
  <2> HIDE DEF B
  <2> QED BY <2>1, NatLessThanWellFounded, WFMin
<1>3. n \in Nat /\ Cardinality(UpTo(S, n)) >= k
  OBVIOUS
<1>4. n # 0
  <2>1. UpTo(S, 0) = {}
    <3>1. \A y : y \in UpTo(S, 0) <=> y \in S /\ y <= 0
      BY DEF UpTo
    <3>2. \A y \in S : ~(y <= 0)
      OBVIOUS
    <3> QED BY <3>1, <3>2
  <2> QED BY <1>3, <2>1, FS_EmptySet
<1>5. n - 1 \in Nat /\ n - 1 + 1 = n
  BY <1>3, <1>4
<1>6. ~(Cardinality(UpTo(S, n - 1)) >= k)
  <2>1. <<n - 1, n>> \in {ss \in Nat \X Nat : ss[1] < ss[2]}
    BY <1>3, <1>5
  <2>2. <<n - 1, n>> \in OpToRel(<, Nat)
    BY <2>1 DEF OpToRel
  <2>3. n - 1 \notin B
    BY <1>2, <2>2
  <2> QED BY <1>5, <2>3
<1>7. /\ Cardinality(UpTo(S, n - 1)) \in 0..Cardinality(S) /\ Cardinality(S) \in Nat
      /\ Cardinality(UpTo(S, n - 1 + 1)) = IF n - 1 + 1 \in S THEN Cardinality(UpTo(S, n - 1)) + 1
                                           ELSE Cardinality(UpTo(S, n - 1))
  BY <1>5, RankNext
<1>8. n \in S /\ Cardinality(UpTo(S, n)) = k
  BY <1>3, <1>5, <1>6, <1>7
<1> QED BY <1>8, NthRank

LEMMA RowsAtLen ==
  ASSUME NEW rows, IsSequence(rows), NEW S, S \subseteq DOMAIN rows
  PROVE  /\ IsSequence(RowsAt(rows, S)) /\ Len(RowsAt(rows, S)) = Cardinality(S)
         /\ Cardinality(S) \in Nat
<1>1. Len(rows) \in Nat /\ S \subseteq 1..Len(rows)
  BY DEF IsSequence
<1>2. Cardinality(S) \in Nat
  BY <1>1, RankNext
<1>3. RowsAt(rows, S) = [k \in 1..Cardinality(S) |-> RowsAt(rows, S)[k]]
  BY DEF RowsAt
<1> QED BY <1>2, <1>3, SequenceFcn

\* The rows at the positions up to n are those up to the rank of n.
LEMMA RowsAtNext ==
  ASSUME NEW rows, IsSequence(rows), NEW S, S \subseteq DOMAIN rows, NEW n \in Nat, n + 1 \in S
  PROVE  /\ Cardinality(UpTo(S, n)) + 1 \in 1..Cardinality(S)
         /\ RowsAt(rows, S)[Cardinality(UpTo(S, n)) + 1] = rows[n + 1]
<1>1. Len(rows) \in Nat /\ S \subseteq 1..Len(rows)
  BY DEF IsSequence
<1>2. Cardinality(UpTo(S, n + 1)) = Cardinality(UpTo(S, n)) + 1
  BY <1>1, RankNext
<1>3. Cardinality(UpTo(S, n + 1)) \in 1..Cardinality(S) /\ Nth(S, Cardinality(UpTo(S, n + 1))) = n + 1
  BY <1>1, NthRank
<1> QED BY <1>2, <1>3 DEF RowsAt

-----------------------------------------------------------------------------
(* The same for pairs of positions. *)

LEMMA PairsFinite ==
  ASSUME NEW L \in Nat, NEW R \in Nat, NEW P, P \subseteq (1..L) \X (1..R), NEW x, NEW y
  PROVE  /\ IsFiniteSet(P) /\ Cardinality(P) \in Nat
         /\ IsFiniteSet(PairsUpTo(P, x, y)) /\ Cardinality(PairsUpTo(P, x, y)) \in 0..Cardinality(P)
<1>1. IsFiniteSet((1..L) \X (1..R))
  <2>1. IsFiniteSet(1..L) /\ IsFiniteSet(1..R)
    BY FS_Interval
  <2> QED BY <2>1, FS_Product
<1>2. IsFiniteSet(P) /\ Cardinality(P) \in Nat
  BY <1>1, FS_Subset, FS_CardinalityType
<1>3. PairsUpTo(P, x, y) \in SUBSET P
  BY DEF PairsUpTo
<1>4. IsFiniteSet(PairsUpTo(P, x, y)) /\ Cardinality(PairsUpTo(P, x, y)) <= Cardinality(P)
  BY <1>2, <1>3, FS_Subset
<1>5. Cardinality(PairsUpTo(P, x, y)) \in Nat
  BY <1>4, FS_CardinalityType
<1> QED BY <1>2, <1>4, <1>5

\* The next pair, the y-th row of the right with the x-th of the left, when the
\* pairs up to the b-th row of the right were counted and none is between.
PairsOf(L, R) == SUBSET ((1..L) \X (1..R))
NoneBetween(P, R, x, b, y) == \A z \in 1..R : b < z /\ z < y => <<x, z>> \notin P
LEMMA PairNext ==
  ASSUME NEW L \in Nat, NEW R \in Nat, NEW P \in PairsOf(L, R),
         NEW x \in 1..L, NEW b \in Nat, NEW y \in 1..R, b < y, NoneBetween(P, R, x, b, y)
  PROVE  /\ <<x, y>> \notin P => PairsUpTo(P, x, y) = PairsUpTo(P, x, b)
         /\ <<x, y>> \in P =>
              /\ Cardinality(PairsUpTo(P, x, y)) = Cardinality(PairsUpTo(P, x, b)) + 1
              /\ Cardinality(PairsUpTo(P, x, y)) \in 1..Cardinality(P)
              /\ NthPair(P, Cardinality(PairsUpTo(P, x, y))) = <<x, y>>
<1> DEFINE new == PairsUpTo(P, x, y)
           old == PairsUpTo(P, x, b)
           c == Cardinality(new)
<1>0. P \subseteq (1..L) \X (1..R)
  BY DEF PairsOf
<1>1. \A p \in P : p = <<p[1], p[2]>> /\ p[1] \in 1..L /\ p[2] \in 1..R
  BY <1>0
<1>2. new = old \cup {p \in P : p = <<x, y>>}
  <2>1. old \subseteq new
    BY <1>1 DEF PairsUpTo
  <2>2. \A p \in new : p \in old \/ p = <<x, y>>
    <3> SUFFICES ASSUME NEW p \in new, p \notin old PROVE p = <<x, y>>
      OBVIOUS
    <3>1. p \in P /\ p[1] = x /\ p[2] <= y /\ ~(p[2] <= b)
      BY DEF PairsUpTo
    <3>2. p = <<x, p[2]>> /\ p[2] \in 1..R
      BY <1>1, <3>1
    <3>3. ~(b < p[2] /\ p[2] < y)
      BY <3>1, <3>2 DEF NoneBetween
    <3>4. p[2] = y
      BY <3>1, <3>2, <3>3
    <3> QED BY <3>2, <3>4
  <2>3. <<x, y>> \in P => <<x, y>> \in new
    BY DEF PairsUpTo
  <2>4. new \subseteq P
    BY DEF PairsUpTo
  <2> QED BY <2>1, <2>2, <2>3, <2>4
<1>3. <<x, y>> \notin old
  BY DEF PairsUpTo
<1>4. CASE <<x, y>> \notin P
  BY <1>2, <1>4
<1>5. CASE <<x, y>> \in P
  <2>1. new = old \cup {<<x, y>>}
    BY <1>2, <1>5
  <2>2. /\ IsFiniteSet(old) /\ Cardinality(old) \in Nat /\ IsFiniteSet(new)
        /\ Cardinality(P) \in Nat /\ c \in 0..Cardinality(P)
    <3>1. /\ IsFiniteSet(old) /\ Cardinality(old) \in 0..Cardinality(P)
          /\ Cardinality(P) \in Nat
      BY <1>0, PairsFinite
    <3>2. IsFiniteSet(new) /\ c \in 0..Cardinality(P)
      BY <1>0, PairsFinite
    <3> QED BY <3>1, <3>2
  <2>3. c = Cardinality(old) + 1
    BY <1>3, <2>1, <2>2, FS_AddElement
  <2>4. ASSUME NEW p \in P, NEW q \in P, p[1] < q[1] \/ (p[1] = q[1] /\ p[2] < q[2])
        PROVE  Cardinality(PairsUpTo(P, p[1], p[2])) # Cardinality(PairsUpTo(P, q[1], q[2]))
    <3>1. PairsUpTo(P, p[1], p[2]) \in SUBSET PairsUpTo(P, q[1], q[2])
      BY <1>1, <2>4 DEF PairsUpTo
    <3>2. q \in PairsUpTo(P, q[1], q[2]) /\ q \notin PairsUpTo(P, p[1], p[2])
      BY <1>1, <2>4 DEF PairsUpTo
    <3>3. IsFiniteSet(PairsUpTo(P, q[1], q[2]))
      BY <1>0, PairsFinite
    <3> QED BY <3>1, <3>2, <3>3, FS_Subset
  <2>5. \A p \in P : Cardinality(PairsUpTo(P, p[1], p[2])) = c => p = <<x, y>>
    <3> SUFFICES ASSUME NEW p \in P, Cardinality(PairsUpTo(P, p[1], p[2])) = c, p # <<x, y>>
                 PROVE  FALSE
      OBVIOUS
    <3> DEFINE q == <<x, y>>
    <3>1. q \in P /\ q[1] = x /\ q[2] = y
      BY <1>5
    <3>2. \/ p[1] < q[1] \/ (p[1] = q[1] /\ p[2] < q[2])
          \/ q[1] < p[1] \/ (q[1] = p[1] /\ q[2] < p[2])
      <4>1. p = <<p[1], p[2]>> /\ p[1] \in 1..L /\ p[2] \in 1..R
        BY <1>1
      <4>2. p[1] # x \/ p[2] # y
        BY <4>1
      <4> QED BY <3>1, <4>1, <4>2
    <3> HIDE DEF q
    <3>3. Cardinality(PairsUpTo(P, q[1], q[2])) = c
      BY <3>1
    <3> QED BY <2>4, <3>1, <3>2, <3>3
  <2>6. NthPair(P, c) = <<x, y>>
    <3>1. <<x, y>>[1] = x /\ <<x, y>>[2] = y
      OBVIOUS
    <3> HIDE DEF c, new
    <3>2. \E p \in P : Cardinality(PairsUpTo(P, p[1], p[2])) = c
      BY <1>5, <3>1 DEF c, new
    <3> QED BY <2>5, <3>2 DEF NthPair
  <2> QED BY <1>5, <2>2, <2>3, <2>6
<1> QED BY <1>4, <1>5
-----------------------------------------------------------------------------
(* The invariant.  m[i] stands for all the rows of node i, once it is open;  *)
(* what it has returned so far are the first produced[i] of them.            *)

\* The pairs that a join returns, and the right rows it tries with the x-th left.
Found(rows) ==
  {p \in Probed \X DOMAIN rows :
     IF plan.join = "loop"
       THEN Evaluate(plan.cond, left[p[1]] \o rows[p[2]], Schemas[0]) = Bool(TRUE)
       ELSE KeysMeet(left[p[1]], rows[p[2]])}
CandidatesAt(rows, x) ==
  IF plan.join = "loop" THEN DOMAIN rows ELSE {y \in DOMAIN rows : KeysMeet(left[x], rows[y])}

SourceRows ==
  IF plan.join = "none" THEN RowsAt(left, Probed) ELSE PairRows(join.rows, Found(join.rows))

\* The groups of an aggregate after each of the first n rows of its input.
Grouping(i, rows, n, g) ==
  g[0] = <<>> /\ \A k \in 1..n : g[k] = AddRow(i, g[k - 1], rows[k])

\* What the code of node i makes of its whole input.
Makes(i, rows, result) ==
  /\ Op(i).op = "filter" => result = RowsAt(rows, Kept(i, rows))
  /\ Op(i).op = "project" => result = [x \in DOMAIN rows |-> Projected(i, rows[x])]
  /\ Op(i).op = "limit" => result = SubSeq(rows, 1, Min({Op(i).count, Len(rows)}))
  /\ Op(i).op = "sort" => result \in Sorted(i, rows)
  /\ Op(i).op = "aggregate" =>
       \E g : Grouping(i, rows, Len(rows), g) /\ result = Results(i, g[Len(rows)])

Chain(m) ==
  /\ opened > 0 => m[0] = SourceRows
  /\ \A i \in 0..Root : i < opened => IsSequence(m[i])
  /\ \A i \in 1..Root : i < opened => Makes(i, m[i - 1], m[i])

Bounded(m) == \A i \in 0..Root : i < opened => produced[i] <= Len(m[i])

\* The row that is being returned.
Passing(m) ==
  call.dir = "row" =>
    produced[call.node] >= 1 /\ call.row = m[call.node][produced[call.node]]

\* How many rows of its input a node has taken, and what a filter returned of them.
Taken(i) == produced[i - 1] - Pending(i - 1)
Filtered(m) ==
  \A i \in 1..Root : i < opened /\ Op(i).op = "filter" =>
    produced[i] = Cardinality(UpTo(Kept(i, m[i - 1]), Taken(i)))

\* What a node holds that has read its input, and one that is reading it.
Holding(m) == \A i \in 1..Root : i < opened /\ Blocking(i) => held[i] = m[i]
Gathering(m) ==
  opened \in 1..Root /\ call.dir # "none" =>
    /\ Op(opened).op = "sort" =>
         \A k \in 1..Len(held[opened]) : held[opened][k] = m[opened - 1][k]
    /\ Op(opened).op = "aggregate" =>
         \E g : /\ Grouping(opened, m[opened - 1], Taken(opened), g)
                /\ held[opened] = g[Taken(opened)]

\* The scan has returned the rows that fit up to where it is; a join the pairs
\* up to the b-th right row with the current left row, and has the others left.
Supplied(b) ==
  opened > 0 =>
    /\ plan.join = "none" => produced[0] = Cardinality(UpTo(Probed, scanned))
    /\ plan.join # "none" =>
         LET C == CandidatesAt(join.rows, scanned)
             t == Cardinality(UpTo(C, b))
         IN  /\ IsSequence(join.rows) /\ IsSequence(join.rest) /\ b \in Nat
             /\ produced[0] = Cardinality(PairsUpTo(Found(join.rows), scanned, b))
             /\ join.rest # <<>> => scanned \in Probed /\ join.current = left[scanned]
             /\ Len(join.rest) = Cardinality(C) - t
             /\ \A k \in 1..Len(join.rest) : join.rest[k] = join.rows[Nth(C, t + k)]

\* A node that the end has reached has returned all of its rows, and so have
\* those below it down to a limit.
Spent(m) ==
  \A i \in 0..Root, k \in 0..Root :
    i <= k /\ Ended(k) /\ (\A j \in (i + 1)..k : Op(j).op # "limit") => produced[i] = Len(m[i])

Taking(m) == \A k \in 1..Len(out) : out[k] = m[Root][k]

Standing(m, b) ==
  /\ Chain(m) /\ Bounded(m) /\ Passing(m) /\ Filtered(m) /\ Holding(m) /\ Gathering(m)
  /\ Supplied(b) /\ Spent(m) /\ Taking(m)

RInv == \E m, b : Standing(m, b)

-----------------------------------------------------------------------------
(* What depends on the plan and the tables alone stays the same. *)

LEMMA SameValues ==
  ASSUME plan' = plan, left' = left
  PROVE  /\ Schemas' = Schemas
         /\ \A i : Op(i)' = Op(i)
         /\ \A i, e, row : ValueAt(i, e, row)' = ValueAt(i, e, row)
         /\ \A i, rows : Kept(i, rows)' = Kept(i, rows)
         /\ \A i, row : Projected(i, row)' = Projected(i, row)
         /\ Probed' = Probed
<1>1. Schemas' = Schemas
  BY SMT DEF Schemas, Root, Op
<1>2. \A i, e, row : ValueAt(i, e, row)' = ValueAt(i, e, row)
  BY <1>1 DEF ValueAt
<1>3. \A i : Op(i)' = Op(i)
  BY DEF Op
<1>4. \A i, rows : Kept(i, rows)' = Kept(i, rows)
  BY <1>2, <1>3 DEF Kept
<1>5. \A i, row : Projected(i, row)' = Projected(i, row)
  BY <1>2, <1>3 DEF Projected
<1>6. Probed' = Probed
  BY DEF Probed, Qualifies
<1> QED BY <1>1, <1>2, <1>3, <1>4, <1>5, <1>6

LEMMA SameRightRows ==
  ASSUME plan' = plan, right' = right
  PROVE  RightRows' = RightRows
<1>1. \A row : Passes("r", row)' = Passes("r", row)
  BY DEF Passes
<1> QED BY <1>1 DEF RightRows

LEMMA SameGrouping ==
  ASSUME plan' = plan, left' = left, NEW i, NEW rows
  PROVE  \A n, g : Grouping(i, rows, n, g)' = Grouping(i, rows, n, g)
<1>1. Op(i)' = Op(i) /\ \A e, row : ValueAt(i, e, row)' = ValueAt(i, e, row)
  BY SameValues
<1>2. \A row : GroupKey(i, row)' = GroupKey(i, row) /\ Arguments(i, row)' = Arguments(i, row)
  BY <1>1 DEF GroupKey, Arguments
<1>3. \A g, row : AddRow(i, g, row)' = AddRow(i, g, row)
  <2> TAKE g, row
  <2>1. Op(i)' = Op(i) /\ GroupKey(i, row)' = GroupKey(i, row) /\ Arguments(i, row)' = Arguments(i, row)
    BY <1>1, <1>2
  <2> QED BY <2>1, SMT DEF AddRow
<1> QED BY <1>3 DEF Grouping

LEMMA SameMakes ==
  ASSUME plan' = plan, left' = left, NEW i, NEW rows, NEW result
  PROVE  Makes(i, rows, result)' = Makes(i, rows, result)
<1>1. /\ Op(i)' = Op(i) /\ \A e, row : ValueAt(i, e, row)' = ValueAt(i, e, row)
      /\ Kept(i, rows)' = Kept(i, rows) /\ \A row : Projected(i, row)' = Projected(i, row)
  BY SameValues
<1>2. Sorted(i, rows)' = Sorted(i, rows)
  <2>1. \A a, b : SortsBefore(i, a, b)' <=> SortsBefore(i, a, b)
    BY <1>1 DEF SortsBefore
  <2>2. PairsWith(rows, LAMBDA x, y : SortsBefore(i, rows[x], rows[y])')
          = PairsWith(rows, LAMBDA x, y : SortsBefore(i, rows[x], rows[y]))
    BY <2>1 DEF PairsWith
  <2> QED BY <2>2 DEF Sorted
<1>5. \A g : Results(i, g)' = Results(i, g)
  BY <1>1 DEF Results
<1>6. \A n, g : Grouping(i, rows, n, g)' = Grouping(i, rows, n, g)
  BY SameGrouping
<1> QED BY <1>1, <1>2, <1>5, <1>6 DEF Makes

LEMMA SameFound ==
  ASSUME plan' = plan, left' = left, NEW rows
  PROVE  /\ Found(rows)' = Found(rows)
         /\ \A x : CandidatesAt(rows, x)' = CandidatesAt(rows, x)
         /\ \A P : PairRows(rows, P)' = PairRows(rows, P)
<1>1. Schemas' = Schemas /\ Probed' = Probed
  BY SameValues
<1>2. HashKeys' = HashKeys
  BY DEF HashKeys
<1>3. \A l, r : KeysMeet(l, r)' = KeysMeet(l, r)
  BY <1>2 DEF KeysMeet
<1>4. Found(rows)' = Found(rows)
  BY <1>1, <1>3 DEF Found
<1>5. \A x : CandidatesAt(rows, x)' = CandidatesAt(rows, x)
  BY <1>3 DEF CandidatesAt
<1>6. \A P : PairRows(rows, P)' = PairRows(rows, P)
  BY DEF PairRows
<1> QED BY <1>4, <1>5, <1>6
LEMMA SameSourceRows ==
  ASSUME plan' = plan, left' = left, join'.rows = join.rows
  PROVE  SourceRows' = SourceRows
<1>1. Probed' = Probed
  BY SameValues
<1>2. PairRows(join.rows, Found(join.rows))' = PairRows(join.rows, Found(join.rows))
  <2> DEFINE rows == join.rows
             P == Found(rows)
  <2>1. Found(join.rows)' = P
    BY SameFound
  <2>2. PairRows(rows, P)' = PairRows(rows, P)
    BY SameFound
  <2> QED BY <2>1, <2>2 DEF PairRows
<1> QED BY <1>1, <1>2 DEF SourceRows

LEMMA SameChain ==
  ASSUME PlanOK, plan' = plan, left' = left, right' = right, opened' = opened,
         join'.rows = join.rows, NEW m, Chain(m)
  PROVE  Chain(m)'
<1>1. Root' = Root
  BY SamePlan
<1>2. SourceRows' = SourceRows
  BY SameSourceRows
<1>3. \A i : Makes(i, m[i - 1], m[i])' = Makes(i, m[i - 1], m[i])
  BY SameMakes
<1> QED BY <1>1, <1>2, <1>3 DEF Chain

\* What the scan and the join still have to return does not change with a call
\* that is not theirs.
LEMMA SameSupply ==
  ASSUME plan' = plan, left' = left, opened' = opened, scanned' = scanned, join' = join,
         produced'[0] = produced[0], NEW b, Supplied(b)
  PROVE  Supplied(b)'
<1>1. Probed' = Probed
  BY SameValues
<1>2. Found(join.rows)' = Found(join.rows) /\ CandidatesAt(join.rows, scanned)' = CandidatesAt(join.rows, scanned)
  <2> DEFINE rows == join.rows
             x == scanned
  <2>1. Found(rows)' = Found(rows) /\ CandidatesAt(rows, x)' = CandidatesAt(rows, x)
    BY SameFound
  <2> QED BY <2>1
<1> QED BY <1>1, <1>2 DEF Supplied

\* What a row that was taken, or not, means for the rows a filter has taken.
LEMMA SameFilter ==
  ASSUME plan' = plan, left' = left, NEW m, NEW i, Taken(i)' = Taken(i), produced'[i] = produced[i],
         produced[i] = Cardinality(UpTo(Kept(i, m[i - 1]), Taken(i)))
  PROVE  produced'[i] = Cardinality(UpTo(Kept(i, m[i - 1])', Taken(i)'))
BY SameValues

\* The input of an open node is a sequence; its rows so far are within it.
LEMMA InputOf ==
  ASSUME IInv, NEW m, Chain(m), Bounded(m), NEW i \in 1..Root, i <= opened
  PROVE  /\ i - 1 \in 0..Root /\ i - 1 < opened /\ produced[i - 1] \in Nat
         /\ IsSequence(m[i - 1]) /\ Len(m[i - 1]) \in Nat /\ DOMAIN m[i - 1] = 1..Len(m[i - 1])
         /\ produced[i - 1] <= Len(m[i - 1])
         /\ Kept(i, m[i - 1]) \subseteq DOMAIN m[i - 1]
<1>1. Root \in Nat /\ opened \in Nat /\ i - 1 \in 0..Root /\ i - 1 < opened /\ produced[i - 1] \in Nat
  <2>1. Types /\ Root \in Nat
    BY DEF IInv, PlanOK, IsSequence, Root
  <2>2. i - 1 \in 0..Root /\ opened \in Nat /\ i - 1 < opened
    BY <2>1 DEF Types
  <2> QED BY <2>1, <2>2 DEF Types
<1>2. IsSequence(m[i - 1]) /\ produced[i - 1] <= Len(m[i - 1])
  BY <1>1 DEF Chain, Bounded
<1> QED BY <1>1, <1>2 DEF IsSequence, Kept

\* A node is asked.  The row that was being returned, if any, has been taken by
\* a node that keeps it or by a filter that does not.
LEMMA AskedNext ==
  ASSUME IInv, NEW m, NEW b, Standing(m, b), NEW k, Ask(k),
         UNCHANGED <<plan, left, right, opened, scanned, join>>,
         \A i \in 1..Root : i < opened => held'[i] = held[i],
         \A i \in 1..Root : i < opened /\ Op(i).op = "filter" /\ call.dir = "row" /\ call.node = i - 1
           => ValueAt(i, Op(i).pred, call.row) # Bool(TRUE),
         Gathering(m)', Taking(m)'
  PROVE  Standing(m, b)'
<1>1. /\ Chain(m) /\ Bounded(m) /\ Passing(m) /\ Filtered(m) /\ Holding(m) /\ Supplied(b) /\ Spent(m)
  BY DEF Standing
<1>2. /\ Root' = Root /\ Root \in Nat /\ \A i : Op(i)' = Op(i) /\ Blocking(i)' = Blocking(i)
  BY SamePlan DEF IInv
<1>3. call'.dir = "ask" /\ produced' = produced
  BY DEF Ask
<1>4. Chain(m)'
  BY <1>1, SameChain DEF IInv
<1>5. Bounded(m)' /\ Passing(m)'
  BY <1>1, <1>2, <1>3 DEF Bounded, Passing
<1>6. Filtered(m)'
  <2> SUFFICES ASSUME NEW i \in 1..Root, i < opened, Op(i).op = "filter"
               PROVE  produced'[i] = Cardinality(UpTo(Kept(i, m[i - 1])', Taken(i)'))
    BY <1>2 DEF Filtered
  <2>1. produced[i] = Cardinality(UpTo(Kept(i, m[i - 1]), Taken(i)))
    BY <1>1 DEF Filtered
  <2>2. Pending(i - 1)' = 0
    BY <1>3 DEF Pending
  <2>3. opened \in Nat
    BY <1>2 DEF IInv, Types
  <2>4. /\ produced[i - 1] \in Nat /\ IsSequence(m[i - 1]) /\ Len(m[i - 1]) \in Nat
        /\ DOMAIN m[i - 1] = 1..Len(m[i - 1]) /\ produced[i - 1] <= Len(m[i - 1])
        /\ Kept(i, m[i - 1]) \subseteq DOMAIN m[i - 1]
    BY <1>1, <2>3, InputOf
  <2>5. CASE ~(call.dir = "row" /\ call.node = i - 1)
    <3>1. Taken(i)' = Taken(i) /\ produced'[i] = produced[i]
      BY <1>3, <2>2, <2>5 DEF Taken, Pending
    <3> QED BY <2>1, <3>1, SameFilter
  <2>6. CASE call.dir = "row" /\ call.node = i - 1
    <3> DEFINE S == Kept(i, m[i - 1])
               n == produced[i - 1] - 1
    <3>1. produced[i - 1] >= 1 /\ call.row = m[i - 1][produced[i - 1]]
      BY <1>1, <2>6 DEF Passing
    <3>2. n \in Nat /\ n + 1 = produced[i - 1]
      BY <2>4, <3>1
    <3>3. n + 1 \notin S
      BY <2>6, <3>1, <3>2 DEF Kept
    <3>4. Taken(i) = n /\ Taken(i)' = n + 1
      BY <1>3, <2>2, <2>6, <3>2 DEF Taken, Pending
    <3>5. Kept(i, m[i - 1])' = S
      BY SameValues
    <3> HIDE DEF S, n
    <3>6. Cardinality(UpTo(S, n + 1)) = Cardinality(UpTo(S, n))
      BY <2>4, <3>2, <3>3, RankNext DEF S
    <3> QED BY <1>3, <2>1, <3>4, <3>5, <3>6 DEF S
  <2> QED BY <2>5, <2>6
<1>7. Holding(m)'
  BY <1>1, <1>2 DEF Holding
<1>8. Supplied(b)'
  BY <1>1, <1>3, SameSupply
<1>9. Spent(m)'
  <2>1. \A j : Ended(j)' => Ended(j)
    BY <1>2, <1>3 DEF Ended
  <2> QED BY <1>1, <1>2, <1>3, <2>1 DEF Spent
<1> QED BY <1>4, <1>5, <1>6, <1>7, <1>8, <1>9 DEF Standing
\* What a node that is reading its input holds does not change with a call below.
LEMMA SameGathering ==
  ASSUME plan' = plan, left' = left, opened' = opened, held' = held, call.dir # "none",
         opened \in 1..Root, Taken(opened)' = Taken(opened), NEW m, Gathering(m)
  PROVE  Gathering(m)'
<1>0. PICK k, t : k = opened /\ t = Taken(opened)
  OBVIOUS
<1>1. \A n, g : Grouping(k, m[k - 1], n, g)' = Grouping(k, m[k - 1], n, g)
  BY SameGrouping
<1>2. Op(k)' = Op(k)
  BY SameValues
<1>3. opened' = k /\ Taken(opened)' = t /\ held'[opened'] = held[k]
  BY <1>0
<1>4. /\ Op(k).op = "sort" => \A x \in 1..Len(held[k]) : held[k][x] = m[k - 1][x]
      /\ Op(k).op = "aggregate" => \E g : Grouping(k, m[k - 1], t, g) /\ held[k] = g[t]
  BY <1>0 DEF Gathering
<1>5. Op(k).op = "aggregate" => \E g : Grouping(k, m[k - 1], t, g)' /\ held[k] = g[t]
  BY <1>1, <1>4
<1>6. Op(opened)' = Op(k)
  BY <1>2, <1>3 DEF Op
<1>7. \A g : Grouping(k, m[k - 1], t, g)' = Grouping(opened, m[opened - 1], Taken(opened), g)'
  BY <1>3 DEF Grouping
<1> QED BY <1>3, <1>4, <1>5, <1>6, <1>7 DEF Gathering

\* Node k returns its next row; a filter the row that it was given.
LEMMA GivenNext ==
  ASSUME IInv, NEW m, NEW b, Standing(m, b), NEW k \in 0..Root, k < opened,
         \/ call.dir = "ask" /\ call.node = k
         \/ call.dir = "row" /\ call.node = k - 1 /\ k # 0,
         NEW row, Give(k, row), UNCHANGED <<plan, left, right, opened, held, out>>,
         join'.rows = join.rows, produced[k] + 1 <= Len(m[k]), row = m[k][produced[k] + 1],
         k # 0 /\ Op(k).op = "filter" =>
           call.dir = "row" /\ ValueAt(k, Op(k).pred, call.row) = Bool(TRUE),
         NEW c, Supplied(c)'
  PROVE  Standing(m, c)'
<1>1. /\ Chain(m) /\ Bounded(m) /\ Passing(m) /\ Filtered(m) /\ Holding(m) /\ Gathering(m)
      /\ Spent(m) /\ Taking(m)
  BY DEF Standing
<1>2. /\ Root' = Root /\ Root \in Nat /\ \A i : Op(i)' = Op(i) /\ Blocking(i)' = Blocking(i)
  BY SamePlan DEF IInv
<1>3. /\ call'.dir = "row" /\ call'.node = k /\ call'.row = row /\ call.dir # "none"
      /\ produced \in [0..Root -> Nat] /\ opened \in Nat
      /\ produced'[k] = produced[k] + 1 /\ \A i \in 0..Root : i # k => produced'[i] = produced[i]
  <2>1. produced \in [0..Root -> Nat] /\ opened \in Nat
    BY <1>2 DEF IInv, Types
  <2>2. call.dir # "none"
    OBVIOUS
  <2>3. call'.dir = "row" /\ call'.node = k /\ call'.row = row /\ produced' = [produced EXCEPT ![k] = @ + 1]
    BY DEF Give
  <2> QED BY <2>1, <2>2, <2>3
<1>4. \A i \in 0..Root : produced[i] \in Nat
  BY <1>3
<1>5. Chain(m)'
  BY <1>1, SameChain DEF IInv
<1>6. Bounded(m)'
  BY <1>1, <1>2, <1>3 DEF Bounded
<1>7. Passing(m)'
  BY <1>3, <1>4 DEF Passing
<1>8. ASSUME NEW i \in 1..Root, i # k
      PROVE  Taken(i)' = Taken(i)
  <2>1. i - 1 \in 0..Root /\ i \in Nat /\ k \in Nat
    BY <1>2
  <2>2. CASE i - 1 = k
    <3>1. Pending(i - 1)' = 1 /\ Pending(i - 1) = 0
      BY <1>3, <2>1, <2>2 DEF Pending
    <3> QED BY <1>3, <1>4, <2>1, <2>2, <3>1 DEF Taken
  <2>3. CASE i - 1 # k
    <3>1. i - 1 # k - 1
      BY <1>8, <2>1
    <3>2. Pending(i - 1)' = Pending(i - 1)
      BY <1>3, <2>3, <3>1 DEF Pending
    <3> QED BY <1>3, <2>1, <2>3, <3>2 DEF Taken
  <2> QED BY <2>2, <2>3
<1>9. Filtered(m)'
  <2> SUFFICES ASSUME NEW i \in 1..Root, i < opened, Op(i).op = "filter"
               PROVE  produced'[i] = Cardinality(UpTo(Kept(i, m[i - 1])', Taken(i)'))
    BY <1>2 DEF Filtered
  <2>1. produced[i] = Cardinality(UpTo(Kept(i, m[i - 1]), Taken(i)))
    BY <1>1 DEF Filtered
  <2>2. CASE i # k
    <3>1. produced'[i] = produced[i]
      BY <1>2, <1>3, <2>2
    <3> QED BY <1>8, <2>1, <2>2, <3>1, SameFilter
  <2>3. CASE i = k
    <3> DEFINE S == Kept(i, m[i - 1])
               n == produced[i - 1] - 1
    <3>1. /\ produced[i - 1] \in Nat /\ IsSequence(m[i - 1]) /\ Len(m[i - 1]) \in Nat
          /\ DOMAIN m[i - 1] = 1..Len(m[i - 1]) /\ produced[i - 1] <= Len(m[i - 1])
          /\ S \subseteq DOMAIN m[i - 1] /\ i - 1 \in 0..Root /\ i - 1 # k
      BY <1>1, <1>3, <2>3, InputOf
    <3>2. call.dir = "row" /\ call.node = i - 1 /\ ValueAt(i, Op(i).pred, call.row) = Bool(TRUE)
      <4>1. k # 0 /\ Op(k).op = "filter"
        BY <2>3
      <4>2. call.dir = "row" /\ ValueAt(k, Op(k).pred, call.row) = Bool(TRUE)
        BY <4>1
      <4> QED BY <2>3, <4>2
    <3>3. produced[i - 1] >= 1 /\ call.row = m[i - 1][produced[i - 1]]
      BY <1>1, <3>2 DEF Passing
    <3>4. n \in Nat /\ n + 1 = produced[i - 1]
      BY <3>1, <3>3
    <3>5. n + 1 \in S
      <4>1. n + 1 \in DOMAIN m[i - 1] /\ m[i - 1][n + 1] = call.row
        BY <3>1, <3>3, <3>4
      <4> QED BY <3>2, <4>1 DEF Kept
    <3>6. produced'[i - 1] = produced[i - 1]
      BY <1>3, <3>1
    <3>7. Pending(i - 1) = 1 /\ Pending(i - 1)' = 0
      BY <1>3, <3>1, <3>2 DEF Pending
    <3>8. Taken(i) = n /\ Taken(i)' = n + 1
      BY <3>4, <3>6, <3>7 DEF Taken
    <3>9. Kept(i, m[i - 1])' = S
      BY SameValues
    <3> HIDE DEF S, n
    <3>10. Cardinality(UpTo(S, n + 1)) = Cardinality(UpTo(S, n)) + 1
      BY <3>1, <3>4, <3>5, RankNext
    <3> QED BY <1>3, <2>1, <2>3, <3>8, <3>9, <3>10 DEF S
  <2> QED BY <2>2, <2>3
<1>10. Holding(m)'
  BY <1>1, <1>2 DEF Holding
<1>11. Gathering(m)'
  <2>1. CASE opened \in 1..Root
    BY <1>1, <1>3, <1>8, <2>1, SameGathering
  <2>2. CASE opened \notin 1..Root
    BY <1>2, <2>2 DEF Gathering
  <2> QED BY <2>1, <2>2
<1>12. Spent(m)'
  <2> SUFFICES ASSUME NEW i \in 0..Root, NEW j \in 0..Root, i <= j, Ended(j)',
                      \A x \in (i + 1)..j : Op(x).op # "limit"
               PROVE  produced'[i] = Len(m[i])
    BY <1>2 DEF Spent
  <2>1. Ended(j)
    BY <1>2, <1>3 DEF Ended
  <2>2. produced[i] = Len(m[i])
    BY <1>1, <2>1 DEF Spent
  <2>3. i # k
    BY <1>4, <2>2
  <2> QED BY <1>3, <2>2, <2>3
<1>13. Taking(m)'
  BY <1>1, <1>2 DEF Taking
<1> QED BY <1>5, <1>6, <1>7, <1>9, <1>10, <1>11, <1>12, <1>13 DEF Standing

\* Node k, which has returned all of its rows, returns the end: it was asked, or
\* its child has returned it.
LEMMA EndedNext ==
  ASSUME IInv, NEW m, NEW b, Standing(m, b), NEW k \in 0..Root, k < opened,
         \/ call.dir = "ask" /\ call.node = k /\ (k # 0 /\ ~Blocking(k) => Op(k).op = "limit")
         \/ call.dir = "end" /\ call.node = k - 1 /\ k # 0,
         GiveEnd(k), UNCHANGED <<plan, left, right, opened, held, out>>,
         join'.rows = join.rows, produced[k] = Len(m[k]), NEW c, Supplied(c)'
  PROVE  Standing(m, c)'
<1>1. /\ Chain(m) /\ Bounded(m) /\ Passing(m) /\ Filtered(m) /\ Holding(m) /\ Gathering(m)
      /\ Spent(m) /\ Taking(m)
  BY DEF Standing
<1>2. /\ Root' = Root /\ Root \in Nat /\ \A i : Op(i)' = Op(i) /\ Blocking(i)' = Blocking(i)
  BY SamePlan DEF IInv
<1>3. call'.dir = "end" /\ call'.node = k /\ produced' = produced /\ call.dir # "none"
  BY DEF GiveEnd
<1>4. \A i : Taken(i)' = Taken(i)
  BY <1>3 DEF Taken, Pending
<1>5. Chain(m)'
  BY <1>1, SameChain DEF IInv
<1>6. Bounded(m)' /\ Passing(m)' /\ Holding(m)' /\ Taking(m)'
  BY <1>1, <1>2, <1>3 DEF Bounded, Passing, Holding, Taking
<1>7. Filtered(m)'
  <2> SUFFICES ASSUME NEW i \in 1..Root, i < opened, Op(i).op = "filter"
               PROVE  produced'[i] = Cardinality(UpTo(Kept(i, m[i - 1])', Taken(i)'))
    BY <1>2 DEF Filtered
  <2>1. produced[i] = Cardinality(UpTo(Kept(i, m[i - 1]), Taken(i)))
    BY <1>1 DEF Filtered
  <2> QED BY <1>3, <1>4, <2>1, SameFilter
<1>8. Gathering(m)'
  <2>1. CASE opened \in 1..Root
    BY <1>1, <1>3, <1>4, <2>1, SameGathering
  <2>2. CASE opened \notin 1..Root
    BY <1>2, <2>2 DEF Gathering
  <2> QED BY <2>1, <2>2
<1>9. Spent(m)'
  <2> SUFFICES ASSUME NEW i \in 0..Root, NEW j \in 0..Root, i <= j, Ended(j)',
                      \A x \in (i + 1)..j : Op(x).op # "limit"
               PROVE  produced[i] = Len(m[i])
    BY <1>2, <1>3 DEF Spent
  <2>1. CASE j # k
    <3>1. Ended(j)
      BY <1>2, <1>3, <2>1 DEF Ended
    <3> QED BY <1>1, <3>1 DEF Spent
  <2>2. CASE j = k /\ i = k
    BY <2>2
  <2>3. CASE j = k /\ i # k
    <3>1. k - 1 \in 0..Root /\ i <= k - 1 /\ k \in (i + 1)..j /\ k # 0
      BY <1>2, <2>3
    <3>2. \A x \in (i + 1)..(k - 1) : Op(x).op # "limit"
      BY <1>2, <2>3
    <3>3. Ended(k - 1)
      <4>1. CASE call.dir = "end" /\ call.node = k - 1
        BY <4>1 DEF Ended
      <4>2. CASE call.dir = "ask"
        <5>1. Blocking(k)
          BY <3>1, <4>2
        <5>2. k - 1 + 1 = k
          OBVIOUS
        <5> QED BY <5>1, <5>2 DEF Ended
      <4> QED BY <4>1, <4>2
    <3> QED BY <1>1, <3>1, <3>2, <3>3 DEF Spent
  <2> QED BY <2>1, <2>2, <2>3
<1> QED BY <1>5, <1>6, <1>7, <1>8, <1>9 DEF Standing

\* A step that only advances the scan or the join, or changes the status.
LEMMA StillNext ==
  ASSUME IInv, NEW m, NEW b, Standing(m, b), join'.rows = join.rows,
         UNCHANGED <<plan, left, right, opened, held, call, produced, out>>, NEW c, Supplied(c)'
  PROVE  Standing(m, c)'
<1>1. /\ Chain(m) /\ Bounded(m) /\ Passing(m) /\ Filtered(m) /\ Holding(m) /\ Gathering(m)
      /\ Spent(m) /\ Taking(m)
  BY DEF Standing
<1>2. /\ Root' = Root /\ \A i : Op(i)' = Op(i) /\ Blocking(i)' = Blocking(i)
  BY SamePlan DEF IInv
<1>3. \A i : Taken(i)' = Taken(i)
  BY DEF Taken, Pending
<1>4. Chain(m)'
  BY <1>1, SameChain DEF IInv
<1>5. Bounded(m)' /\ Passing(m)' /\ Holding(m)' /\ Taking(m)'
  BY <1>1, <1>2 DEF Bounded, Passing, Holding, Taking
<1>6. Filtered(m)'
  <2> SUFFICES ASSUME NEW i \in 1..Root, i < opened, Op(i).op = "filter"
               PROVE  produced'[i] = Cardinality(UpTo(Kept(i, m[i - 1])', Taken(i)'))
    BY <1>2 DEF Filtered
  <2>1. produced[i] = Cardinality(UpTo(Kept(i, m[i - 1]), Taken(i)))
    BY <1>1 DEF Filtered
  <2> QED BY <1>3, <2>1, SameFilter
<1>7. Gathering(m)'
  <2>1. CASE opened \in 1..Root /\ call.dir # "none"
    BY <1>1, <1>3, <2>1, SameGathering
  <2>2. CASE ~(opened \in 1..Root /\ call.dir # "none")
    BY <1>2, <2>2 DEF Gathering
  <2> QED BY <2>1, <2>2
<1>8. Spent(m)'
  <2>1. \A j : Ended(j)' => Ended(j)
    BY <1>2 DEF Ended
  <2> QED BY <1>1, <1>2, <2>1 DEF Spent
<1> QED BY <1>4, <1>5, <1>6, <1>7, <1>8 DEF Standing
\* Node k opens: rows are what it makes of its input.
LEMMA OpensNext ==
  ASSUME IInv, NEW m, NEW b, Standing(m, b), NEW k \in 0..Root, opened = k, opened' = k + 1,
         call'.dir = "none", call.dir = "none" \/ (call.dir = "end" /\ call.node = k - 1),
         UNCHANGED <<plan, left, right, produced, out>>, NEW rows, IsSequence(rows),
         k = 0 => rows = SourceRows',
         k # 0 => Makes(k, m[k - 1], rows) /\ join'.rows = join.rows,
         k # 0 /\ Blocking(k) => held'[k] = rows /\ call.dir = "end",
         \A i \in 1..Root : i < k => held'[i] = held[i],
         NEW c, Supplied(c)'
  PROVE  \E n : Standing(n, c)'
<1> DEFINE n == [i \in 0..Root |-> IF i = k THEN rows ELSE m[i]]
<1>1. /\ Chain(m) /\ Bounded(m) /\ Filtered(m) /\ Holding(m) /\ Spent(m)
  BY DEF Standing
<1>2. /\ Root' = Root /\ Root \in Nat /\ k \in Nat /\ \A i : Op(i)' = Op(i) /\ Blocking(i)' = Blocking(i)
  BY SamePlan DEF IInv
<1>3. n[k] = rows /\ \A i \in 0..Root : i # k => n[i] = m[i]
  OBVIOUS
<1>4. PICK w : w = n
  OBVIOUS
<1> HIDE DEF n
<1>5. /\ w[k] = rows /\ \A i \in 0..Root : i # k => w[i] = m[i]
      /\ \A i \in 1..Root : i < k => w[i] = m[i] /\ w[i - 1] = m[i - 1]
  <2>1. w[k] = rows /\ \A i \in 0..Root : i # k => w[i] = m[i]
    BY <1>3, <1>4
  <2> QED BY <1>2, <2>1
<1>6. Chain(w)'
  <2>1. w[0] = SourceRows'
    <3>1. CASE k = 0
      BY <1>5, <3>1
    <3>2. CASE k # 0
      <4>1. m[0] = SourceRows /\ w[0] = m[0]
        BY <1>1, <1>2, <1>5, <3>2 DEF Chain
      <4>2. SourceRows' = SourceRows
        BY <3>2, SameSourceRows
      <4> QED BY <4>1, <4>2
    <3> QED BY <3>1, <3>2
  <2>2. \A i \in 0..Root : i < k + 1 => IsSequence(w[i])
    BY <1>1, <1>2, <1>5 DEF Chain
  <2>3. ASSUME NEW i \in 1..Root, i < k + 1
        PROVE  Makes(i, w[i - 1], w[i])'
    <3>1. Makes(i, w[i - 1], w[i])' = Makes(i, w[i - 1], w[i])
      BY SameMakes
    <3>2. CASE i < k
      BY <1>1, <1>5, <3>1, <3>2 DEF Chain
    <3>3. CASE i = k
      <4>1. w[i - 1] = m[k - 1] /\ w[i] = rows
        BY <1>2, <1>5, <3>3
      <4> QED BY <3>1, <3>3, <4>1
    <3> QED BY <1>2, <2>3, <3>2, <3>3
  <2> QED BY <1>2, <2>1, <2>2, <2>3 DEF Chain
<1>7. /\ produced[k] = 0 /\ (call.dir = "none" /\ k # 0 => produced[k - 1] = 0)
      /\ produced[Root] = 0
  <2>1. /\ Fresh /\ k >= opened /\ (k # 0 => k - 1 \in 0..Root /\ k - 1 + 1 = opened)
        /\ Root \in 0..Root /\ Root >= opened
    BY <1>2 DEF IInv
  <2> QED BY <2>1 DEF Fresh
<1>8. Bounded(w)'
  <2>1. Len(rows) \in Nat
    BY DEF IsSequence
  <2>2. ASSUME NEW i \in 0..Root, i < k + 1
        PROVE  produced[i] <= Len(w[i])
    <3>1. CASE i = k
      BY <1>5, <1>7, <2>1, <3>1
    <3>2. CASE i # k
      <4>1. i < opened /\ w[i] = m[i]
        BY <1>2, <1>5, <2>2, <3>2
      <4> QED BY <1>1, <4>1 DEF Bounded
    <3> QED BY <3>1, <3>2
  <2> QED BY <1>2, <2>2 DEF Bounded
<1>9. Passing(w)' /\ Gathering(w)'
  BY DEF Passing, Gathering
<1>10. \A i : Taken(i)' = Taken(i) /\ Pending(i) = 0
  BY DEF Taken, Pending
<1>11. Filtered(w)'
  <2> SUFFICES ASSUME NEW i \in 1..Root, i < k + 1, Op(i).op = "filter"
               PROVE  produced[i] = Cardinality(UpTo(Kept(i, w[i - 1])', Taken(i)'))
    BY <1>2 DEF Filtered
  <2>1. CASE i < k
    <3>1. produced[i] = Cardinality(UpTo(Kept(i, w[i - 1]), Taken(i)))
      BY <1>1, <1>5, <2>1 DEF Filtered
    <3> QED BY <1>10, <3>1, SameFilter
  <2>2. CASE i = k
    <3>1. ~Blocking(k)
      BY <2>2 DEF Blocking
    <3>2. call.dir = "none"
      BY <1>2, <2>2, <3>1 DEF IInv, Calls
    <3>3. Taken(i)' = 0 /\ produced[i] = 0
      BY <1>7, <1>10, <2>2, <3>2 DEF Taken
    <3>4. Kept(i, w[i - 1])' = Kept(i, w[i - 1])
      BY SameValues
    <3>5. Kept(i, w[i - 1]) \subseteq 1..Len(w[i - 1])
      <4>1. IsSequence(m[i - 1]) /\ w[i - 1] = m[i - 1]
        BY <1>1, <1>2, <1>5, <2>2 DEF Chain
      <4> QED BY <4>1 DEF IsSequence, Kept
    <3>6. UpTo(Kept(i, w[i - 1]), 0) = {}
      BY <3>5 DEF UpTo
    <3> QED BY <3>3, <3>4, <3>6, FS_EmptySet
  <2> QED BY <1>2, <2>1, <2>2
<1>12. Holding(w)'
  <2> SUFFICES ASSUME NEW i \in 1..Root, i < k + 1, Blocking(i)
               PROVE  held'[i] = w[i]
    BY <1>2 DEF Holding
  <2>1. CASE i < k
    BY <1>1, <1>5, <2>1 DEF Holding
  <2>2. CASE i = k
    BY <1>5, <2>2
  <2> QED BY <1>2, <2>1, <2>2
<1>13. Spent(w)'
  <2> SUFFICES ASSUME NEW i \in 0..Root, NEW j \in 0..Root, i <= j, Ended(j)',
                      \A x \in (i + 1)..j : Op(x).op # "limit"
               PROVE  produced[i] = Len(w[i])
    BY <1>2 DEF Spent
  <2>1. j + 1 < k + 1 /\ Blocking(j + 1)
    BY <1>2 DEF Ended
  <2>2. Ended(j)
    <3>1. CASE j + 1 = k
      <4>1. k # 0 /\ Blocking(k) /\ j = k - 1
        BY <2>1, <3>1
      <4> QED BY <4>1 DEF Ended
    <3>2. CASE j + 1 # k
      BY <1>2, <2>1, <3>2 DEF Ended
    <3> QED BY <3>1, <3>2
  <2>3. w[i] = m[i]
    BY <1>2, <1>5, <2>1
  <2> QED BY <1>1, <2>2, <2>3 DEF Spent
<1>14. Taking(w)'
  <2>1. Len(out) = 0
    BY <1>7, <1>10 DEF IInv, Counted, IsSequence
  <2> QED BY <2>1 DEF Taking
<1> QED BY <1>6, <1>8, <1>9, <1>11, <1>12, <1>13, <1>14 DEF Standing
-----------------------------------------------------------------------------
(* The scan and the joins. *)

\* A row passes the filters of its access path if and only if it has the key that
\* is probed for and all of the conditions hold.
LEMMA PassesMeans ==
  ASSUME PlanOK, NEW name \in {"l", "r"}, NEW row
  PROVE  Passes(name, row) = Bool(TRUE) <=> Qualifies(name, row)
<1> DEFINE path == plan.access[name]
           value(j) == Evaluate(path.preds[j], row, TableSchema(name))
           stops == {j \in DOMAIN path.preds : value(j) # Bool(TRUE)}
           skipped == path.probe # <<>> /\ ~LiteralEqual(row[1], path.probe[1])
<1>1. Bool(TRUE) # Bool(FALSE)
  BY DEF Bool
<1>2. Qualifies(name, row) <=> ~skipped /\ stops = {}
  <2>1. (\A p \in ToSet(path.preds) : Evaluate(p, row, TableSchema(name)) = Bool(TRUE))
          <=> \A j \in DOMAIN path.preds : value(j) = Bool(TRUE)
    BY DEF ToSet
  <2> QED BY <2>1 DEF Qualifies
<1>3. stops # {} => value(Min(stops)) # Bool(TRUE)
  <2>1. IsSequence(path.preds)
    BY DEF PlanOK
  <2>2. DOMAIN path.preds = 1..Len(path.preds) /\ Len(path.preds) \in Nat
    BY <2>1 DEF IsSequence
  <2>3. stops \subseteq Nat
    <3>1. DOMAIN path.preds \subseteq Nat
      BY <2>2
    <3>2. stops \subseteq DOMAIN path.preds
      OBVIOUS
    <3> HIDE DEF stops
    <3> QED BY <3>1, <3>2
  <2> HIDE DEF stops
  <2>4. stops # {} => Min(stops) \in stops
    BY <2>3, LeastOf
  <2> QED BY <2>4 DEF stops
<1>4. Passes(name, row) = IF skipped THEN Bool(FALSE)
                          ELSE IF stops = {} THEN Bool(TRUE) ELSE value(Min(stops))
  BY DEF Passes
<1> HIDE DEF value, stops, skipped
<1> QED BY <1>1, <1>2, <1>3, <1>4

\* The right side of a join has the rows of its table that qualify.
LEMMA RightsMean ==
  ASSUME PlanOK
  PROVE  RightRows = Rights
<1>1. \A y : Passes("r", right[y]) = Bool(TRUE) <=> Qualifies("r", right[y])
  BY PassesMeans
<1>2. {y \in DOMAIN right : Passes("r", right[y]) = Bool(TRUE)}
        = {y \in DOMAIN right : Qualifies("r", right[y])}
  BY <1>1
<1> QED BY <1>2 DEF RightRows, Rights

\* The rows that a scan may still return are those that fit after its position.
LEMMA ProbedAhead ==
  ASSUME PlanOK, Types
  PROVE  /\ Probed \subseteq 1..Len(left) /\ Len(left) \in Nat /\ scanned \in Nat
         /\ DOMAIN left = 1..Len(left)
         /\ ScanAhead = {} => \A x \in Probed : x <= scanned
         /\ ScanAhead # {} /\ ~ScanThrows =>
              /\ Min(ScanAhead) \in Probed /\ scanned < Min(ScanAhead)
              /\ \A x \in Probed : x < Min(ScanAhead) => x <= scanned
<1>1. Len(left) \in Nat /\ DOMAIN left = 1..Len(left) /\ scanned \in Nat
  BY DEF PlanOK, Types, IsSequence
<1>2. \A x : /\ x \in Probed => x \in DOMAIN left /\ ScanFits(x)
             /\ x \in DOMAIN left /\ ScanFits(x) /\ Passes("l", left[x]) \in Booleans => x \in Probed
  <2>1. \A x : Passes("l", left[x]) = Bool(TRUE) <=> Qualifies("l", left[x])
    BY PassesMeans
  <2>2. Bool(TRUE) # Bool(FALSE) /\ Booleans = {Bool(TRUE), Bool(FALSE)}
    BY DEF Bool, Booleans
  <2> QED BY <2>1, <2>2 DEF Probed, ScanFits
<1>3. Probed \subseteq 1..Len(left)
  BY <1>1, <1>2
<1>4. ASSUME ScanAhead = {}, NEW x \in Probed
      PROVE  x <= scanned
  BY <1>1, <1>2, <1>4 DEF ScanAhead
<1>5. ASSUME ScanAhead # {}, ~ScanThrows
      PROVE  /\ Min(ScanAhead) \in Probed /\ scanned < Min(ScanAhead)
             /\ \A x \in Probed : x < Min(ScanAhead) => x <= scanned
  <2>1. /\ Min(ScanAhead) \in 1..Len(left) /\ scanned + 1 <= Min(ScanAhead) /\ ScanFits(Min(ScanAhead))
        /\ \A x \in DOMAIN left : x > scanned /\ ScanFits(x) => Min(ScanAhead) <= x
    BY <1>5, NextRow
  <2>2. Min(ScanAhead) \in Probed /\ scanned < Min(ScanAhead)
    <3>1. Passes("l", left[Min(ScanAhead)]) \in Booleans
      BY <1>5 DEF ScanThrows
    <3> QED BY <1>1, <1>2, <2>1, <3>1
  <2>3. ASSUME NEW x \in Probed, x < Min(ScanAhead)
        PROVE  x <= scanned
    <3>1. x \in Nat /\ x \in DOMAIN left /\ ScanFits(x) /\ Min(ScanAhead) \in Nat
      BY <1>1, <1>2, <1>3, <2>1
    <3>2. ~(x > scanned)
      BY <2>1, <2>3, <3>1
    <3> QED BY <1>1, <3>1, <3>2
  <2> QED BY <2>2, <2>3
<1> QED BY <1>1, <1>3, <1>4, <1>5

LEMMA ScanRows ==
  ASSUME IInv, RInv, ScanNext
  PROVE  RInv'
<1>1. PlanOK /\ Types /\ 0 \in 0..Root
  BY DEF IInv, PlanOK, IsSequence, Root
<1>2. /\ call.dir = "ask" /\ call.node = 0 /\ status # "error" /\ plan.join = "none" /\ ~ScanThrows
      /\ UNCHANGED <<plan, left, right, status, opened, join, held, pos, out>>
  BY DEF ScanNext, Asked, data
<1>3. 0 < opened
  BY <1>2, Live
<1>4. PICK m, b : Standing(m, b)
  BY DEF RInv
<1>5. m[0] = RowsAt(left, Probed) /\ produced[0] = Cardinality(UpTo(Probed, scanned))
  BY <1>2, <1>3, <1>4 DEF Standing, Chain, SourceRows, Supplied
<1>6. /\ Probed \subseteq 1..Len(left) /\ Len(left) \in Nat /\ scanned \in Nat
      /\ DOMAIN left = 1..Len(left)
      /\ ScanAhead = {} => \A x \in Probed : x <= scanned
      /\ ScanAhead # {} =>
           /\ Min(ScanAhead) \in Probed /\ scanned < Min(ScanAhead)
           /\ \A x \in Probed : x < Min(ScanAhead) => x <= scanned
  BY <1>1, <1>2, ProbedAhead
<1>7. Len(m[0]) = Cardinality(Probed)
  BY <1>1, <1>5, <1>6, RowsAtLen DEF PlanOK
<1>8. Probed' = Probed
  BY <1>2, SameValues
<1>9. CASE ScanAhead = {}
  <2>1. scanned' = Len(left) /\ GiveEnd(0) /\ produced' = produced
    BY <1>9 DEF ScanNext, ScanEnd, GiveEnd
  <2>2. UpTo(Probed, scanned) = Probed /\ UpTo(Probed, Len(left)) = Probed
    <3>1. \A x \in Probed : x <= scanned /\ x <= Len(left)
      BY <1>6, <1>9
    <3> QED BY <3>1 DEF UpTo
  <2>3. Supplied(b)'
    BY <1>2, <1>5, <1>8, <2>1, <2>2 DEF Supplied
  <2>4. produced[0] = Len(m[0])
    BY <1>5, <1>7, <2>2
  <2>5. Standing(m, b)'
    BY <1>1, <1>2, <1>3, <1>4, <2>1, <2>3, <2>4, EndedNext
  <2> QED BY <2>5 DEF RInv
<1>10. CASE ScanAhead # {}
  <2> DEFINE n == Min(ScanAhead)
             row == left[n]
  <2>1. scanned' = n /\ Give(0, row)
    BY <1>10 DEF ScanNext
  <2>2. n \in Probed /\ scanned < n /\ \A x \in Probed : x < n => x <= scanned
    BY <1>6, <1>10
  <2> HIDE DEF n
  <2>3. n \in Nat /\ n - 1 \in Nat /\ n - 1 + 1 = n
    BY <1>6, <2>2
  <2>4. UpTo(Probed, n - 1) = UpTo(Probed, scanned)
    <3>1. ASSUME NEW x \in Probed
          PROVE  x <= n - 1 <=> x <= scanned
      <4>1. x \in Nat /\ (x < n => x <= scanned)
        BY <1>6, <2>2
      <4> QED BY <1>6, <2>2, <2>3, <4>1
    <3> DEFINE k == n - 1
    <3>2. \A x \in Probed : x <= k <=> x <= scanned
      BY <3>1
    <3> HIDE DEF k
    <3>3. /\ \A x : x \in UpTo(Probed, k) <=> x \in Probed /\ x <= k
          /\ \A x : x \in UpTo(Probed, scanned) <=> x \in Probed /\ x <= scanned
      BY DEF UpTo
    <3>4. UpTo(Probed, k) = UpTo(Probed, scanned)
      <4>1. \A x : x \in UpTo(Probed, k) <=> x \in UpTo(Probed, scanned)
        BY <3>2, <3>3
      <4> QED BY <4>1
    <3> QED BY <3>4 DEF k
  <2>5. Cardinality(UpTo(Probed, n)) = produced[0] + 1
    <3>1. Cardinality(UpTo(Probed, n - 1 + 1)) = Cardinality(UpTo(Probed, n - 1)) + 1
      <4>1. PICK k \in Nat : k = n - 1 /\ k + 1 \in Probed
        BY <2>2, <2>3
      <4>2. Cardinality(UpTo(Probed, k + 1)) = Cardinality(UpTo(Probed, k)) + 1
        BY <1>6, <4>1, RankNext
      <4> QED BY <4>1, <4>2
    <3> QED BY <1>5, <2>3, <2>4, <3>1
  <2>6. produced[0] + 1 \in 1..Cardinality(Probed) /\ RowsAt(left, Probed)[produced[0] + 1] = left[n]
    <3>1. /\ Cardinality(UpTo(Probed, n - 1)) + 1 \in 1..Cardinality(Probed)
          /\ RowsAt(left, Probed)[Cardinality(UpTo(Probed, n - 1)) + 1] = left[n - 1 + 1]
      BY <1>1, <1>6, <2>2, <2>3, RowsAtNext DEF PlanOK
    <3> QED BY <1>5, <2>3, <2>4, <3>1
  <2>7. produced'[0] = produced[0] + 1
    BY <1>1, <2>1 DEF Give, Types
  <2>8. Supplied(b)'
    BY <1>2, <1>8, <2>1, <2>5, <2>7 DEF Supplied
  <2>9. produced[0] + 1 <= Len(m[0]) /\ row = m[0][produced[0] + 1]
    BY <1>5, <1>7, <2>6
  <2> HIDE DEF row
  <2>10. Standing(m, b)'
    BY <1>1, <1>2, <1>3, <1>4, <2>1, <2>8, <2>9, GivenNext
  <2> QED BY <2>10 DEF RInv
<1> QED BY <1>9, <1>10

\* The pairs that a join returns, and which right rows they are with.
LEMMA FoundPairs ==
  ASSUME PlanOK, Types, NEW rows, IsSequence(rows)
  PROVE  /\ Len(rows) \in Nat /\ DOMAIN rows = 1..Len(rows)
         /\ Found(rows) \subseteq (1..Len(left)) \X (1..Len(rows))
         /\ \A x, y : <<x, y>> \in Found(rows) => x \in Probed /\ y \in CandidatesAt(rows, x)
         /\ \A x : CandidatesAt(rows, x) \subseteq 1..Len(rows)
         /\ IsSequence(PairRows(rows, Found(rows)))
         /\ Len(PairRows(rows, Found(rows))) = Cardinality(Found(rows))
<1>1. Len(rows) \in Nat /\ DOMAIN rows = 1..Len(rows)
  BY DEF IsSequence
<1>2. Probed \subseteq 1..Len(left) /\ Len(left) \in Nat
  BY ProbedAhead
<1>3. Found(rows) \subseteq (1..Len(left)) \X (1..Len(rows))
  BY <1>1, <1>2 DEF Found
<1>4. \A x, y : <<x, y>> \in Found(rows) => x \in Probed /\ y \in CandidatesAt(rows, x)
  BY DEF Found, CandidatesAt
<1>5. \A x : CandidatesAt(rows, x) \subseteq 1..Len(rows)
  BY <1>1 DEF CandidatesAt
<1>6. Cardinality(Found(rows)) \in Nat
  BY <1>1, <1>2, <1>3, PairsFinite
<1>7. PairRows(rows, Found(rows)) = [k \in 1..Cardinality(Found(rows)) |-> PairRows(rows, Found(rows))[k]]
  BY DEF PairRows
<1>8. IsSequence(PairRows(rows, Found(rows))) /\ Len(PairRows(rows, Found(rows))) = Cardinality(Found(rows))
  BY <1>6, <1>7, SequenceFcn
<1> QED BY <1>1, <1>3, <1>4, <1>5, <1>8

\* The rows at all positions of a sequence are the sequence.
LEMMA NthInterval ==
  ASSUME NEW L \in Nat, NEW k \in 1..L
  PROVE  Nth(1..L, k) = k
<1>1. UpTo(1..L, k) = 1..k
  BY DEF UpTo
<1>2. Cardinality(1..k) = k
  BY FS_Interval
<1> DEFINE S == 1..L
<1>3. S \subseteq 1..L /\ k \in S /\ Cardinality(UpTo(S, k)) = k
  BY <1>1, <1>2
<1> HIDE DEF S
<1>4. Nth(S, Cardinality(UpTo(S, k))) = k
  BY <1>3, NthRank
<1> QED BY <1>3, <1>4 DEF S
\* What a join has returned and what it has left, after a step.
LEMMA JoinSupplied ==
  ASSUME plan' = plan, left' = left, plan.join # "none",
         NEW rows, NEW x, NEW c \in Nat, NEW C, C = CandidatesAt(rows, x),
         join'.rows = rows, scanned' = x, IsSequence(rows), IsSequence(join'.rest),
         produced'[0] = Cardinality(PairsUpTo(Found(rows), x, c)),
         join'.rest # <<>> => x \in Probed /\ join'.current = left[x],
         Len(join'.rest) = Cardinality(C) - Cardinality(UpTo(C, c)),
         \A k \in 1..Len(join'.rest) : join'.rest[k] = rows[Nth(C, Cardinality(UpTo(C, c)) + k)]
  PROVE  Supplied(c)'
<1>1. Found(rows)' = Found(rows) /\ CandidatesAt(rows, x)' = C
  BY SameFound
<1>2. Probed' = Probed
  BY SameValues
<1> QED BY <1>1, <1>2 DEF Supplied

\* The join has tried every right row with its left row and goes on to the next.
LEMMA AdvanceRows ==
  ASSUME IInv, RInv, AdvanceLeft
  PROVE  RInv'
<1>1. PlanOK /\ Types /\ 0 \in 0..Root
  BY DEF IInv, PlanOK, IsSequence, Root
<1>2. /\ call.dir = "ask" /\ call.node = 0 /\ status # "error" /\ plan.join # "none"
      /\ join.rest = <<>> /\ ~ScanThrows
      /\ UNCHANGED <<plan, left, right, status, opened, held, pos, out>>
  BY DEF AdvanceLeft, Asked, data
<1>3. 0 < opened
  BY <1>2, Live
<1>4. PICK m, b : Standing(m, b)
  BY DEF RInv
<1>5. PICK rows, P, x, C : /\ rows = join.rows /\ P = Found(rows) /\ x = scanned
                           /\ C = CandidatesAt(rows, x)
  OBVIOUS
<1>6. /\ m[0] = PairRows(rows, P) /\ IsSequence(rows) /\ b \in Nat
      /\ produced[0] = Cardinality(PairsUpTo(P, x, b))
      /\ Len(join.rest) = Cardinality(C) - Cardinality(UpTo(C, b))
  BY <1>2, <1>3, <1>4, <1>5 DEF Standing, Chain, SourceRows, Supplied
<1>7. /\ Probed \subseteq 1..Len(left) /\ Len(left) \in Nat /\ x \in Nat
      /\ DOMAIN left = 1..Len(left)
      /\ ScanAhead = {} => \A y \in Probed : y <= x
      /\ ScanAhead # {} =>
           /\ Min(ScanAhead) \in Probed /\ x < Min(ScanAhead)
           /\ \A y \in Probed : y < Min(ScanAhead) => y <= x
  BY <1>1, <1>2, <1>5, ProbedAhead
<1>8. /\ Len(rows) \in Nat /\ DOMAIN rows = 1..Len(rows)
      /\ P \subseteq (1..Len(left)) \X (1..Len(rows))
      /\ \A y, z : <<y, z>> \in P => y \in Probed /\ z \in CandidatesAt(rows, y)
      /\ \A y : CandidatesAt(rows, y) \subseteq 1..Len(rows)
      /\ Len(PairRows(rows, P)) = Cardinality(P)
  BY <1>1, <1>5, <1>6, FoundPairs
<1>9. \A p \in P : p = <<p[1], p[2]>> /\ p[1] \in Probed /\ p[2] \in CandidatesAt(rows, p[1])
                   /\ p[1] \in Nat /\ p[2] \in 1..Len(rows)
  <2> SUFFICES ASSUME NEW p \in P
               PROVE  p = <<p[1], p[2]>> /\ p[1] \in Probed /\ p[2] \in CandidatesAt(rows, p[1])
                      /\ p[1] \in Nat /\ p[2] \in 1..Len(rows)
    OBVIOUS
  <2>1. p = <<p[1], p[2]>> /\ p[1] \in Nat /\ p[2] \in 1..Len(rows)
    BY <1>8
  <2> QED BY <1>8, <2>1
<1>10. /\ Cardinality(UpTo(C, b)) = Cardinality(C) /\ \A z \in C : z <= b
  <2>1. C \subseteq 1..Len(rows) /\ Len(join.rest) = 0
    BY <1>2, <1>5, <1>8, SequenceEmpty
  <2>2. /\ IsFiniteSet(C) /\ UpTo(C, b) \in SUBSET C
        /\ Cardinality(C) \in Nat /\ Cardinality(UpTo(C, b)) \in 0..Cardinality(C)
    BY <1>6, <1>8, <2>1, RankNext
  <2>3. Cardinality(UpTo(C, b)) = Cardinality(C)
    BY <1>6, <2>1, <2>2
  <2>4. UpTo(C, b) = C
    BY <2>2, <2>3, FS_Subset
  <2> QED BY <2>3, <2>4 DEF UpTo
<1>11. PairsUpTo(P, x, b) = {p \in P : p[1] <= x}
  <2>1. \A p \in P : (p[1] < x \/ (p[1] = x /\ p[2] <= b)) <=> p[1] <= x
    BY <1>5, <1>7, <1>9, <1>10
  <2> QED BY <2>1 DEF PairsUpTo
<1>12. CASE ScanAhead = {}
  <2>1. scanned' = Len(left) /\ GiveEnd(0) /\ produced' = produced /\ join' = join
    BY <1>12 DEF AdvanceLeft, ScanEnd, GiveEnd
  <2>0. PICK D, c : D = CandidatesAt(rows, Len(left)) /\ c = Len(rows)
    OBVIOUS
  <2>2. PairsUpTo(P, x, b) = P /\ PairsUpTo(P, Len(left), c) = P
    <3>1. \A p \in P : p[1] <= x
      BY <1>7, <1>9, <1>12
    <3>2. \A p \in P : p[1] < Len(left) \/ (p[1] = Len(left) /\ p[2] <= c)
      BY <1>7, <1>8, <1>9, <2>0
    <3> QED BY <1>11, <3>1, <3>2 DEF PairsUpTo
  <2>3. UpTo(D, c) = D
    <3>1. D \subseteq 1..c /\ c \in Nat
      BY <1>8, <2>0
    <3> QED BY <3>1, RankEnds
  <2>4. Cardinality(D) \in Nat
    BY <1>8, <2>0, RankNext
  <2>5. Len(join'.rest) = Cardinality(D) - Cardinality(UpTo(D, c)) /\ join'.rest = <<>> /\ IsSequence(join'.rest)
    BY <1>2, <2>1, <2>3, <2>4, SequenceEmpty
  <2>6. PICK y, E : y = Len(left) /\ E = D
    OBVIOUS
  <2>7. Supplied(c)'
    <3>1. produced'[0] = Cardinality(PairsUpTo(Found(rows), y, c))
      BY <1>5, <1>6, <2>1, <2>2, <2>6
    <3>2. E = CandidatesAt(rows, y) /\ scanned' = y /\ join'.rows = rows /\ c \in Nat
      BY <1>5, <1>8, <2>0, <2>1, <2>6
    <3>3. Len(join'.rest) = 0
      BY <2>5, SequenceEmpty
    <3> QED BY <1>2, <1>6, <2>5, <2>6, <3>1, <3>2, <3>3, JoinSupplied
  <2>8. produced[0] = Len(m[0])
    BY <1>6, <1>8, <2>2
  <2>9. Standing(m, c)'
    BY <1>1, <1>2, <1>3, <1>4, <2>1, <2>7, <2>8, EndedNext
  <2> QED BY <2>9 DEF RInv
<1>13. CASE ScanAhead # {}
  <2>1. PICK n : n = Min(ScanAhead)
    OBVIOUS
  <2>2. /\ scanned' = n /\ join' = [join EXCEPT !.current = left[n], !.rest = Candidates(left[n])]
        /\ call' = call /\ produced' = produced
    BY <1>13, <2>1 DEF AdvanceLeft
  <2>3. n \in Probed /\ x < n /\ n \in Nat /\ \A y \in Probed : y < n => y <= x
    <3>1. n \in Probed /\ x < n /\ \A y \in Probed : y < n => y <= x
      BY <1>7, <1>13, <2>1, Zenon
    <3> QED BY <1>7, <3>1
  <2>4. PICK D : D = CandidatesAt(rows, n)
    OBVIOUS
  <2>5. /\ D \subseteq 1..Len(rows) /\ Cardinality(D) \in Nat
    BY <1>8, <2>4, RankNext
  <2>6. UpTo(D, 0) = {} /\ Cardinality(UpTo(D, 0)) = 0
    BY <1>8, <2>5, RankEnds
  <2>7. PairsUpTo(P, n, 0) = PairsUpTo(P, x, b)
    <3>1. \A p \in P : (p[1] < n \/ (p[1] = n /\ p[2] <= 0)) <=> p[1] <= x
      BY <1>7, <1>8, <1>9, <2>3
    <3> QED BY <1>11, <3>1 DEF PairsUpTo
  <2>8. join'.rows = rows /\ join'.current = left[n] /\ join'.rest = Candidates(left[n])
    BY <1>5, <2>2
  <2>9. /\ IsSequence(join'.rest) /\ Len(join'.rest) = Cardinality(D)
        /\ \A k \in 1..Len(join'.rest) : join'.rest[k] = rows[Nth(D, k)]
    <3>1. CASE plan.join = "loop"
      <4>1. join'.rest = rows /\ D = 1..Len(rows)
        BY <1>5, <1>8, <2>4, <2>8, <3>1 DEF Candidates, CandidatesAt
      <4>2. Cardinality(D) = Len(rows)
        BY <1>8, <4>1, FS_Interval
      <4>3. \A k \in 1..Len(rows) : Nth(D, k) = k
        BY <1>8, <4>1, NthInterval
      <4> QED BY <1>6, <4>1, <4>2, <4>3
    <3>2. CASE plan.join # "loop"
      <4>1. join'.rest = RowsAt(rows, D)
        BY <1>5, <2>4, <2>8, <3>2 DEF Candidates, CandidatesAt
      <4>2. IsSequence(RowsAt(rows, D)) /\ Len(RowsAt(rows, D)) = Cardinality(D)
        BY <1>6, <1>8, <2>5, RowsAtLen
      <4> QED BY <4>1, <4>2 DEF RowsAt
    <3> QED BY <3>1, <3>2
  <2>10. Supplied(0)'
    <3>1. produced'[0] = Cardinality(PairsUpTo(Found(rows), n, 0))
      BY <1>5, <1>6, <2>2, <2>7
    <3>2. Len(join'.rest) = Cardinality(D) - Cardinality(UpTo(D, 0))
      BY <2>5, <2>6, <2>9
    <3>3. \A k \in 1..Len(join'.rest) : join'.rest[k] = rows[Nth(D, Cardinality(UpTo(D, 0)) + k)]
      BY <2>6, <2>9
    <3> QED BY <1>2, <1>6, <2>2, <2>3, <2>4, <2>8, <2>9, <3>1, <3>2, <3>3, JoinSupplied
  <2>11. Standing(m, 0)'
    BY <1>2, <1>4, <1>5, <2>2, <2>8, <2>10, StillNext
  <2> QED BY <2>11 DEF RInv
<1> QED BY <1>12, <1>13
\* A higher position has a rank that is no lower, and a higher one if it counts.
LEMMA RankLess ==
  ASSUME NEW L \in Nat, NEW S, S \subseteq 1..L, NEW a \in Nat, NEW c \in Nat, a <= c
  PROVE  /\ Cardinality(UpTo(S, a)) \in Nat /\ Cardinality(UpTo(S, c)) \in Nat
         /\ Cardinality(UpTo(S, a)) <= Cardinality(UpTo(S, c))
         /\ a < c /\ c \in S => Cardinality(UpTo(S, a)) < Cardinality(UpTo(S, c))
<1>1. /\ \A v : v \in UpTo(S, a) <=> v \in S /\ v <= a
      /\ \A v : v \in UpTo(S, c) <=> v \in S /\ v <= c
      /\ \A v \in S : v \in Nat
  BY DEF UpTo
<1>2. UpTo(S, a) \in SUBSET UpTo(S, c)
  <2>1. \A v \in S : v <= a => v <= c
    BY <1>1
  <2> QED BY <1>1, <2>1
<1>3. a < c /\ c \in S => c \in UpTo(S, c) /\ c \notin UpTo(S, a)
  BY <1>1
<1>4. IsFiniteSet(UpTo(S, c)) /\ IsFiniteSet(UpTo(S, a))
  BY RankNext
<1>5. Cardinality(UpTo(S, a)) \in Nat /\ Cardinality(UpTo(S, c)) \in Nat
  BY <1>4, FS_CardinalityType
<1>6. /\ Cardinality(UpTo(S, a)) <= Cardinality(UpTo(S, c))
      /\ Cardinality(UpTo(S, a)) = Cardinality(UpTo(S, c)) => UpTo(S, a) = UpTo(S, c)
  BY <1>2, <1>4, FS_Subset
<1> QED BY <1>3, <1>5, <1>6

\* The first position of the set after b.
LEMMA NthAfter ==
  ASSUME NEW L \in Nat, NEW S, S \subseteq 1..L, NEW b \in Nat, NEW k,
         k = Cardinality(UpTo(S, b)), k < Cardinality(S)
  PROVE  /\ Nth(S, k + 1) \in S /\ b < Nth(S, k + 1)
         /\ Cardinality(UpTo(S, Nth(S, k + 1))) = k + 1
         /\ \A z \in S : ~(b < z /\ z < Nth(S, k + 1))
<1>1. Cardinality(S) \in Nat /\ k \in Nat
  <2>1. Cardinality(S) \in Nat /\ Cardinality(UpTo(S, b)) \in 0..Cardinality(S)
    BY RankNext
  <2> QED BY <2>1
<1>2. k + 1 \in 1..Cardinality(S)
  BY <1>1
<1>3. PICK y : y = Nth(S, k + 1) /\ y \in S /\ Cardinality(UpTo(S, y)) = k + 1
  BY <1>2, NthIn
<1>4. y \in Nat
  BY <1>3
<1>5. b < y
  <2> SUFFICES ASSUME y <= b PROVE FALSE
    BY <1>4
  <2>1. Cardinality(UpTo(S, y)) <= Cardinality(UpTo(S, b))
    BY <1>4, RankLess
  <2> QED BY <1>1, <1>3, <2>1
<1>6. ASSUME NEW z \in S, b < z, z < y
      PROVE  FALSE
  <2>1. z \in Nat
    OBVIOUS
  <2>2. Cardinality(UpTo(S, b)) < Cardinality(UpTo(S, z)) /\ Cardinality(UpTo(S, z)) \in Nat
    <3>1. b <= z
      BY <1>6, <2>1
    <3> QED BY <1>6, <2>1, <3>1, RankLess
  <2>3. Cardinality(UpTo(S, z)) < Cardinality(UpTo(S, y))
    <3>1. z <= y
      BY <1>4, <1>6, <2>1
    <3> QED BY <1>3, <1>4, <1>6, <2>1, <3>1, RankLess
  <2> QED BY <1>1, <1>3, <2>2, <2>3
<1> QED BY <1>3, <1>5, <1>6

\* The elements of the tail of a sequence.
LEMMA TailElements ==
  ASSUME NEW s, IsSequence(s), s # <<>>
  PROVE  /\ Len(s) \in Nat /\ Len(s) >= 1 /\ Head(s) = s[1]
         /\ \A k \in 1..(Len(s) - 1) : Tail(s)[k] = s[k + 1]
<1>1. PICK S : s \in Seq(S)
  BY SequenceSeq
<1>2. Len(s) \in Nat /\ Len(s) >= 1
  BY <1>1
<1> QED BY <1>1, <1>2

\* The join tries the next right row with its left row.
LEMMA TryRows ==
  ASSUME IInv, RInv, TryRight
  PROVE  RInv'
<1>1. PlanOK /\ Types /\ 0 \in 0..Root
  BY DEF IInv, PlanOK, IsSequence, Root
<1>2. /\ call.dir = "ask" /\ call.node = 0 /\ status # "error" /\ plan.join \in {"loop", "hash"}
      /\ join.rest # <<>>
  BY <1>1 DEF TryRight, Asked, PlanOK
<1>3. 0 < opened
  BY <1>2, Live
<1>4. PICK m, b : Standing(m, b)
  BY DEF RInv
<1>5. PICK rows, P, x, C, t, rest, l :
        /\ rows = join.rows /\ P = Found(rows) /\ x = scanned /\ C = CandidatesAt(rows, x)
        /\ t = Cardinality(UpTo(C, b)) /\ rest = join.rest /\ l = left[x]
  OBVIOUS
<1>6. /\ m[0] = PairRows(rows, P) /\ IsSequence(rows) /\ b \in Nat /\ IsSequence(rest) /\ rest # <<>>
      /\ produced[0] = Cardinality(PairsUpTo(P, x, b))
      /\ x \in Probed /\ join.current = l
      /\ Len(rest) = Cardinality(C) - t
      /\ \A k \in 1..Len(rest) : rest[k] = rows[Nth(C, t + k)]
  BY <1>2, <1>3, <1>4, <1>5 DEF Standing, Chain, SourceRows, Supplied
<1>7. Probed \subseteq 1..Len(left) /\ Len(left) \in Nat
  BY <1>1, ProbedAhead
<1>8. /\ Len(rows) \in Nat /\ DOMAIN rows = 1..Len(rows)
      /\ P \subseteq (1..Len(left)) \X (1..Len(rows))
      /\ \A z : <<x, z>> \in P => z \in C
      /\ C \subseteq 1..Len(rows)
      /\ Len(PairRows(rows, P)) = Cardinality(P)
  BY <1>1, <1>5, <1>6, FoundPairs
<1>9. Cardinality(C) \in Nat /\ t \in Nat
  <2>1. Cardinality(C) \in Nat /\ Cardinality(UpTo(C, b)) \in 0..Cardinality(C)
    BY <1>6, <1>8, RankNext
  <2> QED BY <1>5, <2>1
<1>10. /\ Len(rest) \in Nat /\ Len(rest) >= 1 /\ Head(rest) = rest[1]
       /\ \A k \in 1..(Len(rest) - 1) : Tail(rest)[k] = rest[k + 1]
       /\ IsSequence(Tail(rest)) /\ Len(Tail(rest)) = Len(rest) - 1
  BY <1>6, SequenceTail, TailElements
<1>11. t < Cardinality(C)
  BY <1>6, <1>9, <1>10
<1>12. PICK y : /\ y = Nth(C, t + 1) /\ y \in C /\ b < y
                /\ Cardinality(UpTo(C, y)) = t + 1
                /\ \A z \in C : ~(b < z /\ z < y)
  BY <1>5, <1>6, <1>8, <1>11, NthAfter
<1>13. y \in 1..Len(rows) /\ y \in Nat /\ x \in 1..Len(left)
  BY <1>6, <1>7, <1>8, <1>12
<1>14. /\ <<x, y>> \notin P => PairsUpTo(P, x, y) = PairsUpTo(P, x, b)
       /\ <<x, y>> \in P =>
            /\ Cardinality(PairsUpTo(P, x, y)) = Cardinality(PairsUpTo(P, x, b)) + 1
            /\ Cardinality(PairsUpTo(P, x, y)) \in 1..Cardinality(P)
            /\ NthPair(P, Cardinality(PairsUpTo(P, x, y))) = <<x, y>>
  <2>1. \A z \in 1..Len(rows) : b < z /\ z < y => <<x, z>> \notin P
    BY <1>8, <1>12
  <2>2. PICK L \in Nat, R \in Nat : L = Len(left) /\ R = Len(rows)
    BY <1>7, <1>8
  <2>3. P \in PairsOf(L, R) /\ x \in 1..L /\ y \in 1..R
    BY <1>8, <1>13, <2>2 DEF PairsOf
  <2>4. NoneBetween(P, R, x, b, y)
    BY <2>1, <2>2 DEF NoneBetween
  <2>5. b \in Nat /\ b < y
    BY <1>6, <1>12
  <2>6. L \in Nat /\ R \in Nat
    BY <2>2
  <2> QED BY <2>3, <2>4, <2>5, <2>6, PairNext
<1>15. Head(rest) = rows[y]
  BY <1>6, <1>10, <1>12
<1>16. PICK combined, holds :
         /\ combined = l \o rows[y]
         /\ holds = IF plan.join = "hash" THEN Bool(TRUE)
                    ELSE Evaluate(plan.cond, combined, Schemas[0])
  OBVIOUS
<1>17. /\ holds \notin Booleans => Fail
       /\ holds \in Booleans =>
            /\ join' = [join EXCEPT !.rest = Tail(@)]
            /\ IF holds = Bool(TRUE) THEN Give(0, combined) ELSE UNCHANGED <<call, produced>>
            /\ UNCHANGED <<plan, left, right, status, opened, scanned, held, pos, out>>
  BY <1>5, <1>6, <1>15, <1>16 DEF TryRight, data
<1>18. <<x, y>> \in P <=> holds = Bool(TRUE)
  <2>1. <<x, y>> \in Probed \X DOMAIN rows /\ <<x, y>>[1] = x /\ <<x, y>>[2] = y
    BY <1>6, <1>8, <1>13
  <2>2. CASE plan.join = "loop"
    BY <1>5, <1>16, <2>1, <2>2 DEF Found
  <2>3. CASE plan.join = "hash"
    <3>1. holds = Bool(TRUE)
      BY <1>16, <2>3
    <3>2. KeysMeet(l, rows[y])
      BY <1>5, <1>12, <2>3 DEF CandidatesAt
    <3> QED BY <1>5, <2>1, <2>3, <3>1, <3>2 DEF Found
  <2> QED BY <1>2, <2>2, <2>3
<1>19. CASE holds \notin Booleans
  <2>1. /\ UNCHANGED <<plan, left, right, opened, scanned, join, held, call, produced, out>>
    BY <1>17, <1>19 DEF Fail, data, fields
  <2>2. Supplied(b)'
    BY <1>4, <2>1, SameSupply DEF Standing
  <2>3. Standing(m, b)'
    BY <1>4, <2>1, <2>2, StillNext
  <2> QED BY <2>3 DEF RInv
<1>20. CASE holds \in Booleans
  <2>1. /\ join'.rows = rows /\ join'.current = l /\ join'.rest = Tail(rest)
        /\ IF holds = Bool(TRUE) THEN Give(0, combined) ELSE UNCHANGED <<call, produced>>
        /\ UNCHANGED <<plan, left, right, status, opened, scanned, held, pos, out>>
    <3>1. join' = [join EXCEPT !.rest = Tail(join.rest)]
      BY <1>17, <1>20
    <3>2. join'.rows = rows /\ join'.current = l /\ join'.rest = Tail(rest)
      BY <1>5, <1>6, <3>1
    <3> QED BY <1>17, <1>20, <3>2
  <2>2. produced'[0] = Cardinality(PairsUpTo(P, x, y))
    <3>1. CASE holds = Bool(TRUE)
      <4>1. produced'[0] = produced[0] + 1
        BY <1>1, <2>1, <3>1 DEF Give, Types
      <4> QED BY <1>6, <1>14, <1>18, <3>1, <4>1
    <3>2. CASE holds # Bool(TRUE)
      BY <1>6, <1>14, <1>18, <2>1, <3>2
    <3> QED BY <3>1, <3>2
  <2>3. Len(join'.rest) = Cardinality(C) - Cardinality(UpTo(C, y))
    BY <1>6, <1>9, <1>10, <1>12, <2>1
  <2>4. \A k \in 1..Len(join'.rest) : join'.rest[k] = rows[Nth(C, Cardinality(UpTo(C, y)) + k)]
    <3> SUFFICES ASSUME NEW k \in 1..(Len(rest) - 1)
                 PROVE  Tail(rest)[k] = rows[Nth(C, t + 1 + k)]
      BY <1>10, <1>12, <2>1
    <3>1. k + 1 \in 1..Len(rest) /\ t + (k + 1) = t + 1 + k
      BY <1>9, <1>10
    <3> QED BY <1>6, <1>10, <3>1
  <2>5. Supplied(y)'
    <3>1. x \in Probed /\ join'.current = left[x] /\ scanned' = x
      BY <1>5, <1>6, <2>1
    <3>2. produced'[0] = Cardinality(PairsUpTo(Found(rows), x, y))
      BY <1>5, <2>2
    <3>3. /\ plan' = plan /\ left' = left /\ plan.join # "none" /\ C = CandidatesAt(rows, x)
          /\ join'.rows = rows /\ IsSequence(rows) /\ IsSequence(join'.rest) /\ y \in Nat
      BY <1>2, <1>5, <1>6, <1>10, <1>13, <2>1
    <3> QED BY <2>3, <2>4, <3>1, <3>2, <3>3, JoinSupplied
  <2>6. CASE holds = Bool(TRUE)
    <3>1. /\ produced[0] + 1 = Cardinality(PairsUpTo(P, x, y)) /\ produced[0] + 1 \in 1..Cardinality(P)
          /\ NthPair(P, produced[0] + 1) = <<x, y>>
      BY <1>6, <1>14, <1>18, <2>6
    <3>2. produced[0] + 1 <= Len(m[0])
      BY <1>6, <1>8, <3>1
    <3>3. combined = m[0][produced[0] + 1]
      <4>1. PairRows(rows, P)[produced[0] + 1] = left[x] \o rows[y]
        <5>1. PICK q : q = produced[0] + 1 /\ q \in 1..Cardinality(P) /\ NthPair(P, q) = <<x, y>>
          BY <3>1
        <5>2. PairRows(rows, P)[q] = left[NthPair(P, q)[1]] \o rows[NthPair(P, q)[2]]
          BY <5>1 DEF PairRows
        <5>3. <<x, y>>[1] = x /\ <<x, y>>[2] = y
          OBVIOUS
        <5>4. PairRows(rows, P)[q] = left[x] \o rows[y]
          BY <5>1, <5>2, <5>3
        <5> QED BY <5>1, <5>4
      <4> QED BY <1>5, <1>6, <1>16, <4>1
    <3>4. Standing(m, y)'
      BY <1>1, <1>2, <1>3, <1>4, <1>5, <2>1, <2>5, <2>6, <3>2, <3>3, GivenNext
    <3> QED BY <3>4 DEF RInv
  <2>7. CASE holds # Bool(TRUE)
    <3>1. Standing(m, y)'
      BY <1>4, <1>5, <2>1, <2>5, <2>7, StillNext
    <3> QED BY <3>1 DEF RInv
  <2> QED BY <2>6, <2>7
<1> QED BY <1>19, <1>20



-----------------------------------------------------------------------------
(* The other steps. *)

LEMMA InitRows ==
  ASSUME Init
  PROVE  RInv
<1>1. PICK m, b : m = <<>> /\ b = 0
  OBVIOUS
<1>2. /\ opened = 0 /\ call.dir = "none" /\ out = <<>> /\ Len(out) = 0
  BY SequenceEmpty DEF Init
<1>3. Chain(m) /\ Bounded(m) /\ Passing(m) /\ Filtered(m) /\ Holding(m) /\ Gathering(m) /\ Supplied(b)
  BY <1>2 DEF Chain, Bounded, Passing, Filtered, Holding, Gathering, Supplied
<1>4. Spent(m)
  BY <1>2 DEF Spent, Ended
<1>5. Taking(m)
  BY <1>2 DEF Taking
<1>6. Standing(m, b)
  BY <1>3, <1>4, <1>5 DEF Standing
<1> QED BY <1>6 DEF RInv

LEMMA StillRows ==
  ASSUME IInv, RInv,
         UNCHANGED <<plan, left, right, opened, scanned, join, held, call, produced, out>>
  PROVE  RInv'
<1>1. PICK m, b : Standing(m, b)
  BY DEF RInv
<1>2. Supplied(b)'
  BY <1>1, SameSupply DEF Standing
<1>3. Standing(m, b)'
  BY <1>1, <1>2, StillNext
<1> QED BY <1>3 DEF RInv

LEMMA FailRows ==
  ASSUME IInv, RInv, Fail
  PROVE  RInv'
<1>1. UNCHANGED <<plan, left, right, opened, scanned, join, held, call, produced, out>>
  BY DEF Fail, data, fields
<1> QED BY <1>1, StillRows

\* The rows of the scan or the join are a sequence.
LEMMA SourceSequence ==
  ASSUME PlanOK, Types, plan.join # "none" => IsSequence(join.rows)
  PROVE  IsSequence(SourceRows)
<1>1. CASE plan.join = "none"
  <2>1. Probed \subseteq DOMAIN left /\ IsSequence(left)
    BY ProbedAhead DEF PlanOK
  <2>2. IsSequence(RowsAt(left, Probed))
    BY <2>1, RowsAtLen
  <2> QED BY <1>1, <2>2 DEF SourceRows
<1>2. CASE plan.join # "none"
  <2>1. IsSequence(PairRows(join.rows, Found(join.rows)))
    BY <1>2, FoundPairs
  <2> QED BY <1>2, <2>1 DEF SourceRows
<1> QED BY <1>1, <1>2

LEMMA RearrangedSequence ==
  ASSUME NEW rows, IsSequence(rows), NEW less, NEW s \in Rearranged(rows, less)
  PROVE  IsSequence(s) /\ Len(s) = Len(rows)
<1>1. DOMAIN rows = 1..Len(rows) /\ Len(rows) \in Nat
  BY DEF IsSequence
<1>2. PICK p : s = [x \in DOMAIN rows |-> rows[p[x]]]
  BY DEF Rearranged
<1>3. s = [x \in 1..Len(rows) |-> s[x]]
  BY <1>1, <1>2
<1> QED BY <1>1, <1>3, SequenceFcn

LEMMA OpenSourceRows ==
  ASSUME IInv, RInv, OpenSource, ~RightThrows
  PROVE  RInv'
<1>1. /\ PlanOK /\ Types /\ Fresh /\ Root \in Nat /\ 0 \in 0..Root /\ IInv'
  BY OpenSourceStep DEF IInv, PlanOK, IsSequence, Root
<1>2. /\ status = "open" /\ opened = 0 /\ call.dir = "none" /\ scanned' = 0 /\ opened' = 0 + 1
      /\ UNCHANGED <<plan, left, right, status, held, pos, call, produced, out>>
  BY DEF OpenSource, Opening, data
<1>3. PICK rows \in IF plan.join = "hash" THEN Rearranged(RightRows, {}) ELSE {RightRows} :
        join' = [rows |-> rows, current |-> <<>>, rest |-> <<>>]
  BY DEF OpenSource
<1>4. join'.rows = rows /\ join'.rest = <<>> /\ IsSequence(join'.rest) /\ Len(join'.rest) = 0
  BY <1>3, SequenceEmpty
<1>5. IsSequence(rows) /\ Len(rows) \in Nat
  <2>1. IsSequence(RightRows)
    BY <1>1, RightSide
  <2>2. CASE plan.join = "hash"
    BY <1>3, <2>1, <2>2, RearrangedSequence DEF IsSequence
  <2>3. CASE plan.join # "hash"
    BY <1>3, <2>1, <2>3 DEF IsSequence
  <2> QED BY <2>2, <2>3
<1>6. produced'[0] = 0
  BY <1>1, <1>2 DEF Fresh
<1>7. PICK m, b : Standing(m, b)
  BY DEF RInv
<1>8. PICK c : c = Len(rows)
  OBVIOUS
<1>9. Supplied(c)'
  <2>1. CASE plan.join = "none"
    <3>1. UpTo(Probed, 0) = {} /\ Cardinality(UpTo(Probed, 0)) = 0
      BY <1>1, ProbedAhead, RankEnds
    <3>2. Probed' = Probed
      BY <1>2, SameValues
    <3> QED BY <1>2, <1>6, <2>1, <3>1, <3>2 DEF Supplied
  <2>2. CASE plan.join # "none"
    <3>1. PICK P, C, x : P = Found(rows) /\ C = CandidatesAt(rows, x) /\ x = 0
      OBVIOUS
    <3>2. P \subseteq (1..Len(left)) \X (1..Len(rows)) /\ C \subseteq 1..Len(rows)
      BY <1>1, <1>5, <3>1, FoundPairs
    <3>3. UpTo(C, c) = C /\ Cardinality(C) \in Nat
      BY <1>5, <1>8, <3>2, RankEnds, RankNext
    <3>4. Cardinality(PairsUpTo(P, 0, c)) = 0
      <4>1. \A p \in P : p[1] \in 1..Len(left)
        BY <3>2
      <4>2. Len(left) \in Nat
        BY <1>1 DEF PlanOK, IsSequence
      <4>3. \A p \in P : ~(p[1] < 0 \/ (p[1] = 0 /\ p[2] <= c))
        BY <4>1, <4>2
      <4>4. PairsUpTo(P, 0, c) = {}
        BY <4>3 DEF PairsUpTo
      <4> QED BY <4>4, FS_EmptySet
    <3>5. /\ plan' = plan /\ left' = left /\ scanned' = x /\ c \in Nat
          /\ produced'[0] = Cardinality(PairsUpTo(Found(rows), x, c))
          /\ Len(join'.rest) = Cardinality(C) - Cardinality(UpTo(C, c))
      BY <1>2, <1>4, <1>5, <1>6, <1>8, <3>1, <3>3, <3>4
    <3>6. \A k \in 1..Len(join'.rest) : join'.rest[k] = rows[Nth(C, Cardinality(UpTo(C, c)) + k)]
      BY <1>4
    <3> QED BY <1>4, <1>5, <2>2, <3>1, <3>5, <3>6, JoinSupplied
  <2> QED BY <2>1, <2>2
<1>10. PICK all : all = SourceRows'
  OBVIOUS
<1>11. IsSequence(all)
  <2>1. PlanOK' /\ Types' /\ IsSequence(join'.rows)
    BY <1>1, <1>4, <1>5 DEF IInv
  <2>2. (plan.join # "none" => IsSequence(join.rows))'
    BY <2>1
  <2>3. (PlanOK /\ Types /\ (plan.join # "none" => IsSequence(join.rows)))' => IsSequence(SourceRows)'
    BY SourceSequence, PTL
  <2> QED BY <1>10, <2>1, <2>2, <2>3
<1>12. \E n : Standing(n, c)'
  BY <1>1, <1>2, <1>7, <1>9, <1>10, <1>11, OpensNext
<1> QED BY <1>12 DEF RInv

LEMMA AppendElements ==
  ASSUME NEW s, IsSequence(s), NEW e
  PROVE  /\ \A k \in 1..Len(s) : Append(s, e)[k] = s[k]
         /\ Append(s, e)[Len(s) + 1] = e
<1> DEFINE S == {s[k] : k \in DOMAIN s} \cup {e}
<1>1. s \in Seq(S) /\ e \in S
  <2>1. s \in Seq({s[k] : k \in DOMAIN s})
    BY SequenceSeq
  <2> QED BY <2>1
<1> HIDE DEF S
<1> QED BY <1>1, AppendProperties

\* What a filter, a projection and a limit make of their input.
LEMMA StreamRows ==
  ASSUME PlanOK, NEW i \in 1..Root, NEW rows, IsSequence(rows), NEW r, Makes(i, rows, r)
  PROVE  /\ Op(i).op = "filter" =>
              /\ IsSequence(r) /\ r = RowsAt(rows, Kept(i, rows))
              /\ Kept(i, rows) \subseteq DOMAIN rows /\ Len(r) = Cardinality(Kept(i, rows))
         /\ Op(i).op = "project" =>
              /\ IsSequence(r) /\ Len(r) = Len(rows)
              /\ \A k \in 1..Len(rows) : r[k] = Projected(i, rows[k])
         /\ Op(i).op = "limit" =>
              /\ IsSequence(r) /\ Len(r) <= Len(rows) /\ Len(r) <= Op(i).count
              /\ Len(r) = Len(rows) \/ Len(r) = Op(i).count
              /\ \A k \in 1..Len(r) : r[k] = rows[k]
<1>1. Len(rows) \in Nat /\ DOMAIN rows = 1..Len(rows)
  BY DEF IsSequence
<1>2. CASE Op(i).op = "filter"
  <2>1. r = RowsAt(rows, Kept(i, rows)) /\ Kept(i, rows) \subseteq DOMAIN rows
    BY <1>2 DEF Makes, Kept
  <2>2. IsSequence(r) /\ Len(r) = Cardinality(Kept(i, rows))
    BY <2>1, RowsAtLen
  <2> QED BY <1>2, <2>1, <2>2
<1>3. CASE Op(i).op = "project"
  <2>1. r = [x \in 1..Len(rows) |-> Projected(i, rows[x])]
    BY <1>1, <1>3 DEF Makes
  <2>2. r = [x \in 1..Len(rows) |-> r[x]] /\ \A k \in 1..Len(rows) : r[k] = Projected(i, rows[k])
    BY <2>1
  <2>3. IsSequence(r) /\ Len(r) = Len(rows)
    BY <1>1, <2>2, SequenceFcn
  <2> QED BY <1>3, <2>2, <2>3
<1>4. CASE Op(i).op = "limit"
  <2>1. PICK n : n = Min({Op(i).count, Len(rows)})
    OBVIOUS
  <2>2. n \in {Op(i).count, Len(rows)} /\ n <= Op(i).count /\ n <= Len(rows)
    <3>1. Op(i).count \in Nat
      BY <1>4, Kinds
    <3> QED BY <1>1, <2>1, <3>1, LeastOf
  <2>3. n \in Nat
    BY <1>1, <1>4, <2>2, Kinds
  <2>4. r = SubSeq(rows, 1, n)
    BY <1>4, <2>1 DEF Makes
  <2>5. PICK S : S = {rows[k] : k \in DOMAIN rows}
    OBVIOUS
  <2>6. \A k \in 1..n : rows[k] \in S
    <3>1. ASSUME NEW k \in 1..n
          PROVE  k \in DOMAIN rows
      <4>1. PICK L \in Nat : L = Len(rows)
        BY <1>1
      <4>2. n <= L
        BY <2>2, <4>1
      <4>3. k \in 1..L
        BY <2>3, <4>2
      <4> QED BY <1>1, <4>1, <4>3
    <3> QED BY <2>5, <3>1
  <2>7. /\ r \in Seq(S) /\ Len(r) = IF 1 <= n THEN n - 1 + 1 ELSE 0
        /\ \A k \in 1..(n - 1 + 1) : r[k] = rows[1 + k - 1]
    <3>1. 1 \in Int /\ n \in Int
      BY <2>3
    <3> QED BY <2>4, <2>6, <3>1, SubSeqProperties
  <2>8. Len(r) = n /\ \A k \in 1..n : r[k] = rows[k]
    <3>1. Len(r) = n /\ n - 1 + 1 = n
      BY <2>3, <2>7
    <3>2. \A k \in 1..n : r[k] = rows[1 + k - 1]
      BY <2>7, <3>1
    <3>3. \A k \in 1..n : 1 + k - 1 = k
      BY <2>3
    <3> QED BY <3>1, <3>2, <3>3
  <2>9. IsSequence(r)
    <3>1. r = [k \in 1..n |-> r[k]]
      BY <2>3, <2>7, <2>8
    <3> QED BY <2>3, <3>1, SequenceFcn
  <2> QED BY <1>4, <2>2, <2>8, <2>9
<1> QED BY <1>2, <1>3, <1>4

LEMMA OpenStreamingRows ==
  ASSUME IInv, RInv, NEW k \in 1..Root, OpenStreaming(k)
  PROVE  RInv'
<1>1. PlanOK /\ Root \in Nat /\ k \in 0..Root /\ k # 0
  BY DEF IInv, PlanOK, IsSequence, Root
<1>2. /\ status = "open" /\ opened = k /\ call.dir = "none" /\ ~Blocking(k) /\ opened' = k + 1
      /\ UNCHANGED <<plan, left, right, status, scanned, join, held, call, produced, out>>
  BY DEF OpenStreaming, Opening, data
<1>3. PICK m, b : Standing(m, b)
  BY DEF RInv
<1>4. PICK in : in = m[k - 1]
  OBVIOUS
<1>5. IsSequence(in)
  <2>1. Chain(m) /\ Bounded(m) /\ k <= opened
    BY <1>1, <1>2, <1>3 DEF Standing
  <2>2. IsSequence(m[k - 1])
    BY <2>1, InputOf
  <2> QED BY <1>4, <2>2
<1>6. Op(k).op \in {"filter", "project", "limit"}
  BY <1>1, <1>2, Kinds
<1>7. PICK rows : Makes(k, in, rows)
  <2>1. PICK r : /\ Op(k).op = "filter" => r = RowsAt(in, Kept(k, in))
                 /\ Op(k).op = "project" => r = [x \in DOMAIN in |-> Projected(k, in[x])]
                 /\ Op(k).op = "limit" => r = SubSeq(in, 1, Min({Op(k).count, Len(in)}))
    <3>1. CASE Op(k).op = "filter"
      BY <3>1
    <3>2. CASE Op(k).op = "project"
      BY <3>2
    <3>3. CASE Op(k).op = "limit"
      BY <3>3
    <3> QED BY <1>6, <3>1, <3>2, <3>3
  <2>2. Makes(k, in, r)
    BY <1>6, <2>1 DEF Makes
  <2> QED BY <2>2
<1>8. IsSequence(rows)
  BY <1>1, <1>5, <1>6, <1>7, StreamRows
<1>9. Supplied(b)'
  <2>1. Supplied(b) /\ opened > 0 /\ opened' > 0
    BY <1>1, <1>2, <1>3 DEF Standing
  <2>2. Probed' = Probed
    BY <1>2, SameValues
  <2>3. PICK all, x : all = join.rows /\ x = scanned
    OBVIOUS
  <2>4. Found(all)' = Found(all) /\ CandidatesAt(all, x)' = CandidatesAt(all, x)
    BY <1>2, SameFound
  <2> QED BY <1>2, <2>1, <2>2, <2>3, <2>4 DEF Supplied
<1>10. \E n : Standing(n, b)'
  BY <1>1, <1>2, <1>3, <1>4, <1>7, <1>8, <1>9, OpensNext
<1> QED BY <1>10 DEF RInv

\* What a node that is reading its input holds, and the result, stay the same.
LEMMA KeepsGathering ==
  ASSUME IInv, NEW m, Gathering(m), Taking(m), UNCHANGED <<plan, left, right, opened, held, produced, out>>,
         call.dir # "none",
         opened \in 1..Root => ~(call.dir = "row" /\ call.node = opened - 1), call'.dir # "row"
  PROVE  Gathering(m)' /\ Taking(m)'
<1>1. Root' = Root
  BY SamePlan DEF IInv
<1>2. CASE opened \in 1..Root
  <2>1. Taken(opened)' = Taken(opened)
    BY <1>2 DEF Taken, Pending
  <2> QED BY <1>1, <1>2, <2>1, SameGathering DEF Taking
<1>3. CASE opened \notin 1..Root
  BY <1>1, <1>3 DEF Gathering, Taking
<1> QED BY <1>2, <1>3

\* An open node, its input and its rows.
LEMMA OpenNode ==
  ASSUME IInv, NEW m, NEW b, Standing(m, b), NEW k \in 1..Root, k < opened
  PROVE  /\ k \in 0..Root /\ k - 1 \in 0..Root /\ k # 0 /\ PlanOK /\ Node(k)
         /\ IsSequence(m[k - 1]) /\ IsSequence(m[k]) /\ Makes(k, m[k - 1], m[k])
         /\ DOMAIN m[k - 1] = 1..Len(m[k - 1])
         /\ Len(m[k - 1]) \in Nat /\ Len(m[k]) \in Nat
         /\ produced[k - 1] \in Nat /\ produced[k] \in Nat
         /\ produced[k - 1] <= Len(m[k - 1]) /\ produced[k] <= Len(m[k])
<1>1. PlanOK /\ Types /\ Nodes /\ Root \in Nat /\ opened \in Nat
  BY DEF IInv, PlanOK, IsSequence, Root, Types
<1>2. k \in 0..Root /\ k - 1 \in 0..Root /\ k # 0 /\ k - 1 < opened
  BY <1>1
<1>3. produced[k - 1] \in Nat /\ produced[k] \in Nat
  BY <1>1, <1>2 DEF Types
<1>4. Chain(m) /\ Bounded(m)
  BY DEF Standing
<1>5. IsSequence(m[k - 1]) /\ IsSequence(m[k]) /\ Makes(k, m[k - 1], m[k])
  BY <1>2, <1>4 DEF Chain
<1>6. produced[k - 1] <= Len(m[k - 1]) /\ produced[k] <= Len(m[k])
  BY <1>2, <1>4 DEF Bounded
<1>7. DOMAIN m[k - 1] = 1..Len(m[k - 1]) /\ Len(m[k - 1]) \in Nat /\ Len(m[k]) \in Nat
  BY <1>5 DEF IsSequence
<1> QED BY <1>1, <1>2, <1>3, <1>5, <1>6, <1>7 DEF Nodes

LEMMA AskChildRows ==
  ASSUME IInv, RInv, NEW k \in 1..Root, AskChild(k)
  PROVE  RInv'
<1>1. PlanOK /\ Types /\ Nodes /\ Root \in Nat
  BY DEF IInv, PlanOK, IsSequence, Root
<1>2. /\ call.dir = "ask" /\ call.node = k /\ status # "error" /\ ~Blocking(k)
      /\ UNCHANGED <<plan, left, right, status, opened, scanned, join, held, pos, out>>
  BY DEF AskChild, Asked, data, fields
<1>3. k < opened /\ k \in 0..Root /\ k # 0
  BY <1>1, <1>2, Live
<1>4. PICK m, b : Standing(m, b)
  BY DEF RInv
<1>5. CASE LimitReached(k)
  <2>1. GiveEnd(k) /\ Op(k).op = "limit" /\ pos[k] >= Op(k).count /\ produced' = produced
    BY <1>5 DEF AskChild, LimitReached, GiveEnd
  <2>2. produced[k] = pos[k] /\ produced[k] \in Nat /\ Op(k).count \in Nat
    BY <1>1, <1>3, <2>1, Kinds DEF Nodes, Node, Types
  <2>3. /\ IsSequence(m[k - 1]) /\ Makes(k, m[k - 1], m[k]) /\ produced[k] <= Len(m[k])
    BY <1>3, <1>4, OpenNode
  <2>4. Len(m[k]) <= Op(k).count /\ Len(m[k]) \in Nat
    <3>1. IsSequence(m[k]) /\ Len(m[k]) <= Op(k).count
      BY <1>1, <2>1, <2>3, StreamRows
    <3> QED BY <3>1 DEF IsSequence
  <2>5. produced[k] = Len(m[k])
    <3>1. PICK c, n, l \in Nat : c = Op(k).count /\ n = produced[k] /\ l = Len(m[k])
      BY <2>2, <2>4
    <3>2. n >= c /\ n <= l /\ l <= c
      BY <2>1, <2>2, <2>3, <2>4, <3>1
    <3> QED BY <3>1, <3>2
  <2>6. Supplied(b)'
    BY <1>2, <1>4, <2>1, SameSupply DEF Standing
  <2>7. Standing(m, b)'
    BY <1>2, <1>3, <1>4, <2>1, <2>5, <2>6, EndedNext
  <2> QED BY <2>7 DEF RInv
<1>6. CASE ~LimitReached(k)
  <2>1. Ask(k - 1) /\ call'.dir = "ask" /\ produced' = produced
    BY <1>6 DEF AskChild, Ask
  <2>2. Gathering(m)' /\ Taking(m)'
    BY <1>2, <1>4, <2>1, KeepsGathering DEF Standing
  <2>3. Standing(m, b)'
    BY <1>2, <1>4, <2>1, <2>2, AskedNext
  <2> QED BY <2>3 DEF RInv
<1> QED BY <1>5, <1>6

\* A row that a filter, a projection or a limit has got is the next of its input.
LEMMA GotRow ==
  ASSUME IInv, NEW m, NEW b, Standing(m, b), NEW k \in 1..Root, Answered(k), k < opened,
         call.dir = "row"
  PROVE  /\ call.node = k - 1 /\ produced[k - 1] >= 1 /\ call.row = m[k - 1][produced[k - 1]]
         /\ Pending(k - 1) = 1 /\ Taken(k) = produced[k - 1] - 1
<1>1. call.node = k - 1
  BY DEF Answered
<1>2. produced[k - 1] >= 1 /\ call.row = m[k - 1][produced[k - 1]]
  BY <1>1 DEF Standing, Passing
<1> QED BY <1>1, <1>2 DEF Pending, Taken

LEMMA FilterRows ==
  ASSUME IInv, RInv, NEW k \in 1..Root, FilterRow(k)
  PROVE  RInv'
<1>1. Answered(k) /\ k < opened /\ call.dir = "row" /\ Op(k).op = "filter" /\ Root \in Nat
  BY DEF FilterRow, Streaming, IInv, Types, PlanOK, IsSequence, Root
<1>2. PICK v : v = ValueAt(k, Op(k).pred, call.row)
  OBVIOUS
<1>3. CASE v \notin Booleans
  BY <1>2, <1>3, FailRows DEF FilterRow
<1>4. CASE v \in Booleans
  <2>1. /\ IF v = Bool(TRUE) THEN Give(k, call.row) ELSE Ask(k - 1)
        /\ UNCHANGED <<plan, left, right, status, opened, scanned, join, held, pos, out>>
    BY <1>2, <1>4 DEF FilterRow, data, fields
  <2>2. PICK m, b : Standing(m, b)
    BY DEF RInv
  <2>3. PICK in, n, S : in = m[k - 1] /\ n = produced[k - 1] - 1 /\ S = Kept(k, in)
    OBVIOUS
  <2>4. /\ k \in 0..Root /\ k # 0 /\ PlanOK /\ IsSequence(in) /\ Makes(k, in, m[k])
        /\ DOMAIN in = 1..Len(in) /\ Len(in) \in Nat
        /\ produced[k - 1] \in Nat /\ produced[k - 1] <= Len(in)
    BY <1>1, <2>2, <2>3, OpenNode
  <2>5. /\ call.node = k - 1 /\ produced[k - 1] >= 1 /\ call.row = in[produced[k - 1]]
        /\ Taken(k) = n
    BY <1>1, <2>2, <2>3, GotRow
  <2>6. n \in Nat /\ n + 1 = produced[k - 1] /\ n + 1 \in DOMAIN in
    BY <2>3, <2>4, <2>5
  <2>7. m[k] = RowsAt(in, S) /\ S \subseteq DOMAIN in /\ Len(m[k]) = Cardinality(S)
    BY <1>1, <2>3, <2>4, StreamRows
  <2>8. CASE v = Bool(TRUE)
    <3>1. n + 1 \in S
      BY <1>2, <2>3, <2>5, <2>6, <2>8 DEF Kept
    <3>2. /\ Cardinality(UpTo(S, n)) + 1 \in 1..Cardinality(S)
          /\ RowsAt(in, S)[Cardinality(UpTo(S, n)) + 1] = in[n + 1]
      BY <2>4, <2>6, <2>7, <3>1, RowsAtNext
    <3>3. produced[k] = Cardinality(UpTo(S, n))
      BY <1>1, <2>2, <2>3, <2>5 DEF Standing, Filtered
    <3>4. produced[k] + 1 <= Len(m[k]) /\ call.row = m[k][produced[k] + 1]
      BY <2>5, <2>6, <2>7, <3>2, <3>3
    <3>5. produced'[0] = produced[0] /\ Give(k, call.row)
      <4>1. produced \in [0..Root -> Nat] /\ 0 \in 0..Root
        BY <1>1 DEF IInv, Types
      <4>2. Give(k, call.row)
        BY <2>1, <2>8
      <4>3. produced' = [produced EXCEPT ![k] = @ + 1]
        BY <4>2 DEF Give
      <4> QED BY <2>4, <4>1, <4>2, <4>3
    <3>6. Supplied(b)'
      BY <2>1, <2>2, <3>5, SameSupply DEF Standing
    <3>7. ValueAt(k, Op(k).pred, call.row) = Bool(TRUE)
      BY <1>2, <2>8
    <3>8. Standing(m, b)'
      BY <1>1, <2>1, <2>2, <2>4, <2>5, <3>4, <3>5, <3>6, <3>7, GivenNext
    <3> QED BY <3>8 DEF RInv
  <2>9. CASE v # Bool(TRUE)
    <3>1. Ask(k - 1) /\ call'.dir = "ask" /\ produced' = produced
      BY <2>1, <2>9 DEF Ask
    <3>2. Gathering(m)' /\ Taking(m)'
      <4>1. k - 1 # opened - 1
        BY <1>1 DEF IInv, Types
      <4>2. ~(call.dir = "row" /\ call.node = opened - 1)
        BY <2>5, <4>1
      <4>3. Gathering(m) /\ Taking(m) /\ call'.dir # "row" /\ call.dir # "none"
        BY <1>1, <2>2, <3>1 DEF Standing
      <4> QED BY <2>1, <3>1, <4>2, <4>3, KeepsGathering
    <3>3. ASSUME NEW i \in 1..Root, call.node = i - 1
          PROVE  ValueAt(i, Op(i).pred, call.row) # Bool(TRUE)
      <4>1. i = k
        BY <2>5, <3>3
      <4> QED BY <1>2, <2>9, <4>1
    <3>4. Standing(m, b)'
      BY <2>1, <2>2, <3>1, <3>2, <3>3, AskedNext
    <3> QED BY <3>4 DEF RInv
  <2> QED BY <2>8, <2>9
<1> QED BY <1>3, <1>4

\* A projection or a limit returns a row for the row that it got.
LEMMA PassRows ==
  ASSUME IInv, NEW m, NEW b, Standing(m, b), NEW k \in 1..Root, Answered(k), k < opened,
         call.dir = "row", Op(k).op \in {"project", "limit"}, NEW row, Give(k, row),
         Op(k).op = "project" => row = Projected(k, call.row),
         Op(k).op = "limit" => row = call.row,
         UNCHANGED <<plan, left, right, opened, scanned, join, held, out>>
  PROVE  Standing(m, b)'
<1>1. /\ k \in 0..Root /\ k - 1 \in 0..Root /\ k # 0 /\ PlanOK /\ Node(k)
      /\ IsSequence(m[k - 1]) /\ Makes(k, m[k - 1], m[k]) /\ Len(m[k - 1]) \in Nat /\ Len(m[k]) \in Nat
      /\ produced[k - 1] \in Nat /\ produced[k] \in Nat /\ produced[k - 1] <= Len(m[k - 1])
  BY OpenNode
<1>2. call.node = k - 1 /\ call.row = m[k - 1][produced[k - 1]] /\ Pending(k - 1) = 1
  BY GotRow
<1>3. produced[k] + 1 = produced[k - 1]
  BY <1>1, <1>2 DEF Node
<1>4. produced[k] + 1 <= Len(m[k]) /\ row = m[k][produced[k] + 1]
  <2>1. CASE Op(k).op = "project"
    <3>1. Len(m[k]) = Len(m[k - 1]) /\ \A x \in 1..Len(m[k - 1]) : m[k][x] = Projected(k, m[k - 1][x])
      BY <1>1, <2>1, StreamRows
    <3>2. produced[k - 1] \in 1..Len(m[k - 1])
      BY <1>1, <1>3
    <3> QED BY <1>1, <1>2, <1>3, <2>1, <3>1, <3>2
  <2>2. CASE Op(k).op = "limit"
    <3>1. /\ Len(m[k]) = Len(m[k - 1]) \/ Len(m[k]) = Op(k).count
          /\ \A x \in 1..Len(m[k]) : m[k][x] = m[k - 1][x]
      <4>1. PlanOK /\ IsSequence(m[k - 1]) /\ Makes(k, m[k - 1], m[k])
        BY <1>1
      <4> QED BY <2>2, <4>1, StreamRows
    <3>2. produced[k] < Op(k).count /\ Op(k).count \in Nat
      <4>1. call.dir # "none" /\ call.node < k
        BY <1>1, <1>2
      <4> QED BY <1>1, <2>2, <4>1, Kinds DEF Node
    <3>3. produced[k] + 1 <= Len(m[k])
      <4>1. CASE Len(m[k]) = Len(m[k - 1])
        BY <1>1, <1>3, <4>1
      <4>2. CASE Len(m[k]) = Op(k).count
        BY <1>1, <3>2, <4>2
      <4> QED BY <3>1, <4>1, <4>2
    <3>4. produced[k] + 1 \in 1..Len(m[k])
      BY <1>1, <3>3
    <3>5. m[k][produced[k] + 1] = m[k - 1][produced[k] + 1]
      BY <3>1, <3>4
    <3> QED BY <1>2, <1>3, <2>2, <3>3, <3>5
  <2> QED BY <2>1, <2>2
<1>5. produced'[0] = produced[0]
  <2>1. produced \in [0..Root -> Nat]
    BY DEF IInv, Types
  <2> QED BY <1>1, <2>1 DEF Give
<1>6. Supplied(b)'
  BY <1>5, SameSupply DEF Standing
<1> QED BY <1>1, <1>2, <1>4, <1>6, GivenNext

LEMMA ProjectRows ==
  ASSUME IInv, RInv, NEW k \in 1..Root, ProjectRow(k)
  PROVE  RInv'
<1>1. Answered(k) /\ k < opened /\ call.dir = "row" /\ Op(k).op = "project"
  BY DEF ProjectRow, Streaming, IInv, Types
<1>2. PICK row : row = Projected(k, call.row)
  OBVIOUS
<1>3. CASE Throw \in ToSet(row)
  BY <1>2, <1>3, FailRows DEF ProjectRow, Projected
<1>4. CASE Throw \notin ToSet(row)
  <2>1. /\ Give(k, row)
        /\ UNCHANGED <<plan, left, right, status, opened, scanned, join, held, pos, out>>
    BY <1>2, <1>4 DEF ProjectRow, Projected, data, fields
  <2>2. PICK m, b : Standing(m, b)
    BY DEF RInv
  <2>3. Standing(m, b)'
    BY <1>1, <1>2, <2>1, <2>2, PassRows
  <2> QED BY <2>3 DEF RInv
<1> QED BY <1>3, <1>4

LEMMA LimitRows ==
  ASSUME IInv, RInv, NEW k \in 1..Root, LimitRow(k)
  PROVE  RInv'
<1>1. /\ Answered(k) /\ k < opened /\ call.dir = "row" /\ Op(k).op = "limit" /\ Give(k, call.row)
      /\ UNCHANGED <<plan, left, right, status, opened, scanned, join, held, out>>
  BY DEF LimitRow, Streaming, data, IInv, Types
<1>2. PICK m, b : Standing(m, b)
  BY DEF RInv
<1>3. PICK row : row = call.row
  OBVIOUS
<1>4. Standing(m, b)'
  BY <1>1, <1>2, <1>3, PassRows
<1> QED BY <1>4 DEF RInv

LEMMA PassEndRows ==
  ASSUME IInv, RInv, NEW k \in 1..Root, PassEnd(k)
  PROVE  RInv'
<1>1. /\ Answered(k) /\ k < opened /\ call.dir = "end" /\ call.node = k - 1 /\ GiveEnd(k)
      /\ UNCHANGED <<plan, left, right, status, opened, scanned, join, held, pos, out>>
      /\ produced' = produced
  BY DEF PassEnd, Answered, data, fields, IInv, Types, GiveEnd
<1>2. PICK m, b : Standing(m, b)
  BY DEF RInv
<1>3. PICK in, S : in = m[k - 1] /\ S = Kept(k, in)
  OBVIOUS
<1>4. /\ k \in 0..Root /\ k - 1 \in 0..Root /\ k # 0 /\ PlanOK /\ Node(k)
      /\ IsSequence(in) /\ Makes(k, in, m[k]) /\ DOMAIN in = 1..Len(in)
      /\ Len(in) \in Nat /\ Len(m[k]) \in Nat
      /\ produced[k - 1] \in Nat /\ produced[k] \in Nat
      /\ produced[k - 1] <= Len(in) /\ produced[k] <= Len(m[k])
  BY <1>1, <1>2, <1>3, OpenNode
<1>5. Op(k).op \in {"filter", "limit", "project"}
  BY <1>1, AnswerTo
<1>6. produced[k - 1] = Len(in)
  <2>1. Ended(k - 1) /\ k - 1 <= k - 1
    BY <1>1, <1>4 DEF Ended
  <2>2. \A j \in (k - 1 + 1)..(k - 1) : Op(j).op # "limit"
    OBVIOUS
  <2> QED BY <1>2, <1>3, <1>4, <2>1, <2>2 DEF Standing, Spent
<1>7. Pending(k - 1) = 0
  BY <1>1 DEF Pending
<1>8. produced[k] = Len(m[k])
  <2>1. CASE Op(k).op = "filter"
    <3>1. S \subseteq DOMAIN in /\ Len(m[k]) = Cardinality(S)
      BY <1>3, <1>4, <2>1, StreamRows
    <3>2. Taken(k) = Len(in)
      BY <1>4, <1>6, <1>7 DEF Taken
    <3>3. produced[k] = Cardinality(UpTo(S, Len(in)))
      BY <1>1, <1>2, <1>3, <2>1, <3>2 DEF Standing, Filtered
    <3>4. UpTo(S, Len(in)) = S
      BY <1>4, <3>1, RankEnds
    <3> QED BY <3>1, <3>3, <3>4
  <2>2. CASE Op(k).op = "project"
    <3>1. Len(m[k]) = Len(in)
      BY <1>4, <2>2, StreamRows
    <3> QED BY <1>4, <1>6, <1>7, <2>2, <3>1 DEF Node
  <2>3. CASE Op(k).op = "limit"
    <3>1. Len(m[k]) <= Len(in)
      BY <1>4, <2>3, StreamRows
    <3>2. produced[k] = Len(in)
      BY <1>4, <1>6, <1>7, <2>3 DEF Node
    <3> QED BY <1>4, <3>1, <3>2
  <2> QED BY <1>5, <2>1, <2>2, <2>3
<1>9. Supplied(b)'
  BY <1>1, <1>2, SameSupply DEF Standing
<1>10. Standing(m, b)'
  BY <1>1, <1>2, <1>4, <1>8, <1>9, EndedNext
<1> QED BY <1>10 DEF RInv

LEMMA AnswerHeldRows ==
  ASSUME IInv, RInv, NEW k \in 1..Root, AnswerHeld(k)
  PROVE  RInv'
<1>1. Root \in Nat
  BY DEF IInv, PlanOK, IsSequence, Root
<1>2. /\ call.dir = "ask" /\ call.node = k /\ status # "error" /\ Blocking(k)
      /\ UNCHANGED <<plan, left, right, status, opened, scanned, join, held, out>>
  BY DEF AnswerHeld, Asked, data
<1>3. k < opened
  BY <1>1, <1>2, Live
<1>4. PICK m, b : Standing(m, b)
  BY DEF RInv
<1>5. /\ k \in 0..Root /\ k # 0 /\ Node(k) /\ Len(m[k]) \in Nat /\ produced[k] \in Nat
      /\ produced[k] <= Len(m[k])
  BY <1>3, <1>4, OpenNode
<1>6. held[k] = m[k] /\ pos[k] = produced[k]
  BY <1>2, <1>3, <1>4, <1>5 DEF Standing, Holding, Node
<1>7. CASE pos[k] >= Len(held[k])
  <2>1. GiveEnd(k) /\ produced' = produced
    BY <1>7 DEF AnswerHeld, GiveEnd
  <2>2. produced[k] = Len(m[k])
    BY <1>5, <1>6, <1>7
  <2>3. Supplied(b)'
    BY <1>2, <1>4, <2>1, SameSupply DEF Standing
  <2>4. Standing(m, b)'
    BY <1>2, <1>3, <1>4, <1>5, <2>1, <2>2, <2>3, EndedNext
  <2> QED BY <2>4 DEF RInv
<1>8. CASE ~(pos[k] >= Len(held[k]))
  <2>1. PICK row : row = m[k][produced[k] + 1] /\ Give(k, row)
    BY <1>6, <1>8 DEF AnswerHeld
  <2>2. produced[k] + 1 <= Len(m[k])
    BY <1>5, <1>6, <1>8
  <2>3. produced'[0] = produced[0]
    <3>1. produced \in [0..Root -> Nat]
      BY DEF IInv, Types
    <3> QED BY <1>5, <2>1, <3>1 DEF Give
  <2>4. Supplied(b)'
    BY <1>2, <1>4, <2>3, SameSupply DEF Standing
  <2>5. Op(k).op # "filter"
    BY <1>2 DEF Blocking
  <2>6. Standing(m, b)'
    BY <1>2, <1>3, <1>4, <1>5, <2>1, <2>2, <2>4, <2>5, GivenNext
  <2> QED BY <2>6 DEF RInv
<1> QED BY <1>7, <1>8

LEMMA OpenBlockingRows ==
  ASSUME IInv, RInv, NEW k \in 1..Root, OpenBlocking(k)
  PROVE  RInv'
<1>1. /\ PlanOK /\ Types /\ Fresh /\ Root \in Nat /\ k - 1 \in 0..Root
  BY DEF IInv, PlanOK, IsSequence, Root
<1>2. /\ status = "open" /\ opened = k /\ call.dir = "none" /\ Blocking(k)
      /\ held' = [held EXCEPT ![k] = <<>>] /\ Ask(k - 1)
      /\ UNCHANGED <<plan, left, right, status, opened, scanned, join, pos, out>>
  BY DEF OpenBlocking, Opening, data
<1>3. PICK m, b : Standing(m, b)
  BY DEF RInv
<1>4. produced[k - 1] = 0
  <2>1. k - 1 + 1 = opened
    BY <1>1, <1>2
  <2> QED BY <1>1, <1>2, <2>1 DEF Fresh
<1>5. /\ held'[k] = <<>> /\ Len(held'[k]) = 0 /\ \A i \in 1..Root : i < opened => held'[i] = held[i]
  BY <1>1, <1>2, SequenceEmpty DEF Types
<1>6. Taken(k)' = 0
  <2>1. Pending(k - 1)' = 0 /\ produced' = produced
    BY <1>2 DEF Pending, Ask
  <2> QED BY <1>4, <2>1 DEF Taken
<1>7. Gathering(m)'
  <2>1. PICK g : g[0] = <<>>
    <3>1. [x \in {0} |-> <<>>][0] = <<>>
      OBVIOUS
    <3> QED BY <3>1
  <2>2. \A rows : Grouping(k, rows, 0, g)'
    BY <2>1 DEF Grouping
  <2>3. opened' = k /\ Taken(opened)' = 0
    BY <1>2, <1>6 DEF Taken
  <2>4. Grouping(opened, m[opened - 1], Taken(opened), g)' /\ held'[opened'] = g[Taken(opened)']
    <3>1. Grouping(k, m[k - 1], 0, g)'
      BY <2>2
    <3> QED BY <1>5, <2>1, <2>3, <3>1 DEF Grouping
  <2> QED BY <1>5, <2>3, <2>4 DEF Gathering
<1>8. Taking(m)'
  BY <1>2, <1>3 DEF Standing, Taking, Root
<1>9. Standing(m, b)'
  BY <1>2, <1>3, <1>5, <1>7, <1>8, AskedNext
<1> QED BY <1>9 DEF RInv

LEMMA CollectRows ==
  ASSUME IInv, RInv, NEW k \in 1..Root, Collect(k)
  PROVE  RInv'
<1>1. /\ PlanOK /\ Types /\ Calls /\ Readings /\ Root \in Nat /\ k - 1 \in 0..Root
  BY DEF IInv, PlanOK, IsSequence, Root
<1>2. /\ status # "error" /\ call.dir = "row" /\ call.node = k - 1 /\ opened = k
  BY DEF Collect, Answered
<1>3. Blocking(k) /\ Reading(k)
  BY <1>1, <1>2 DEF Calls, Types, Readings
<1>4. PICK h : h = held[k]
  OBVIOUS
<1>5. PICK throws, more :
        /\ throws = (Op(k).op = "aggregate" /\
                       Throw \in ToSet(GroupKey(k, call.row)) \cup ToSet(Arguments(k, call.row)))
        /\ more = IF Op(k).op = "sort" THEN Append(h, call.row) ELSE AddRow(k, h, call.row)
  OBVIOUS
<1>6. CASE throws
  BY <1>4, <1>5, <1>6, FailRows DEF Collect
<1>7. CASE ~throws
  <2>1. /\ held' = [held EXCEPT ![k] = more] /\ Ask(k - 1)
        /\ UNCHANGED <<plan, left, right, status, opened, scanned, join, pos, out>>
    BY <1>4, <1>5, <1>7 DEF Collect, data
  <2>2. PICK m, b : Standing(m, b)
    BY DEF RInv
  <2>3. PICK in, n : in = m[k - 1] /\ n = produced[k - 1] - 1
    OBVIOUS
  <2>4. /\ produced[k - 1] >= 1 /\ call.row = in[produced[k - 1]] /\ produced[k - 1] \in Nat
        /\ IsSequence(h) /\ Len(h) \in Nat
    BY <1>1, <1>2, <1>3, <1>4, <2>2, <2>3 DEF Standing, Passing, Types, Reading, IsSequence
  <2>5. n \in Nat /\ n + 1 = produced[k - 1]
    BY <2>3, <2>4
  <2>6. Taken(k) = n /\ Taken(k)' = n + 1
    BY <1>2, <2>1, <2>3, <2>5 DEF Taken, Pending, Ask
  <2>7. held'[k] = more /\ \A i \in 1..Root : i < opened => held'[i] = held[i]
    BY <1>1, <1>2, <2>1 DEF Types
  <2>8. Gathering(m)'
    <3>1. opened' = k /\ Taken(opened)' = n + 1 /\ Op(opened)' = Op(k)
      BY <1>2, <2>1, <2>6 DEF Taken, Op
    <3>2. CASE Op(k).op = "sort"
      <4>1. more = Append(h, call.row) /\ Len(h) + 1 = produced[k - 1]
        <5>1. Len(h) + Pending(k - 1) = produced[k - 1] /\ Pending(k - 1) = 1
          BY <1>2, <1>3, <1>4, <3>2 DEF Reading, Pending
        <5> QED BY <1>5, <3>2, <5>1
      <4>2. \A x \in 1..Len(h) : h[x] = in[x]
        BY <1>1, <1>2, <1>4, <2>2, <2>3, <3>2 DEF Standing, Gathering
      <4>3. Len(more) = Len(h) + 1 /\ more[Len(h) + 1] = call.row /\ \A x \in 1..Len(h) : more[x] = h[x]
        BY <2>4, <4>1, SequenceAppend, AppendElements
      <4>4. ASSUME NEW x \in 1..Len(more)
            PROVE  more[x] = in[x]
        <5>1. CASE x = Len(h) + 1
          BY <2>4, <4>1, <4>3, <5>1
        <5>2. CASE x # Len(h) + 1
          <6>1. x \in 1..Len(h)
            BY <2>4, <4>3, <5>2
          <6> QED BY <4>2, <4>3, <6>1
        <5> QED BY <5>1, <5>2
      <4> QED BY <2>3, <2>7, <3>1, <3>2, <4>4 DEF Gathering
    <3>3. CASE Op(k).op = "aggregate"
      <4>1. PICK g : Grouping(k, in, n, g) /\ h = g[n]
        <5>1. \E g : Grouping(opened, m[opened - 1], Taken(opened), g) /\ held[opened] = g[Taken(opened)]
          BY <1>1, <1>2, <2>2, <3>3 DEF Standing, Gathering
        <5> QED BY <1>2, <1>4, <2>3, <2>6, <5>1
      <4>2. PICK f : f = [x \in 0..(n + 1) |-> IF x = n + 1 THEN more ELSE g[x]]
        OBVIOUS
      <4>3. f[n + 1] = more /\ \A x \in 0..n : f[x] = g[x]
        BY <2>5, <4>2
      <4>4. more = AddRow(k, h, in[n + 1])
        BY <1>5, <2>4, <2>5, <3>3
      <4>5. Grouping(k, in, n + 1, f)
        <5>1. f[0] = <<>>
          BY <2>5, <4>1, <4>3 DEF Grouping
        <5>2. ASSUME NEW x \in 1..(n + 1)
              PROVE  f[x] = AddRow(k, f[x - 1], in[x])
          <6>1. CASE x = n + 1
            <7>1. x - 1 = n /\ f[n] = h
              BY <2>5, <4>1, <4>3, <6>1
            <7> QED BY <4>3, <4>4, <6>1, <7>1
          <6>2. CASE x # n + 1
            <7>1. x \in 1..n /\ x \in 0..n /\ x - 1 \in 0..n
              BY <2>5, <6>2
            <7>2. f[x] = g[x] /\ f[x - 1] = g[x - 1] /\ g[x] = AddRow(k, g[x - 1], in[x])
              BY <4>1, <4>3, <7>1 DEF Grouping
            <7> QED BY <7>2
          <6> QED BY <6>1, <6>2
        <5> QED BY <5>1, <5>2 DEF Grouping
      <4>6. Grouping(k, in, n + 1, f)'
        BY <2>1, <4>5, SameGrouping
      <4>7. Grouping(opened, m[opened - 1], Taken(opened), f)'
        BY <2>3, <3>1, <4>6 DEF Grouping
      <4> QED BY <2>7, <3>1, <3>3, <4>3, <4>7 DEF Gathering
    <3> QED BY <1>3, <3>2, <3>3 DEF Blocking
  <2>9. Taking(m)'
    BY <2>1, <2>2 DEF Standing, Taking, Root
  <2>10. \A i \in 1..Root : i < opened => call.node # i - 1
    BY <1>1, <1>2
  <2>11. Standing(m, b)'
    BY <2>1, <2>2, <2>7, <2>8, <2>9, <2>10, AskedNext
  <2> QED BY <2>11 DEF RInv
<1> QED BY <1>6, <1>7

\* Two sequences with the same elements are the same.
LEMMA SameSequence ==
  ASSUME NEW s, NEW t, IsSequence(s), IsSequence(t), Len(s) = Len(t),
         \A k \in 1..Len(s) : s[k] = t[k]
  PROVE  s = t
<1>1. PICK n \in Nat : n = Len(s)
  BY DEF IsSequence
<1>2. s = [k \in 1..n |-> s[k]] /\ t = [k \in 1..n |-> t[k]]
  BY <1>1 DEF IsSequence
<1> QED BY <1>1, <1>2

LEMMA OpenedRows ==
  ASSUME IInv, RInv, NEW k \in 1..Root, Opened(k)
  PROVE  RInv'
<1>1. /\ PlanOK /\ Types /\ Calls /\ Readings /\ Root \in Nat
      /\ k \in 0..Root /\ k - 1 \in 0..Root /\ k # 0
  BY DEF IInv, PlanOK, IsSequence, Root
<1>2. status # "error" /\ call.dir = "end" /\ call.node = k - 1 /\ opened = k
  BY DEF Opened, Answered
<1>3. Blocking(k) /\ Reading(k)
  BY <1>1, <1>2 DEF Calls, Types, Readings
<1>4. CASE Op(k).op = "sort" /\ SortThrows(k, held[k])
  BY <1>4, FailRows DEF Opened
<1>5. CASE ~(Op(k).op = "sort" /\ SortThrows(k, held[k]))
  <2>1. PICK rows \in IF Op(k).op = "sort" THEN Sorted(k, held[k]) ELSE {Results(k, held[k])} :
          held' = [held EXCEPT ![k] = rows]
    BY <1>5 DEF Opened
  <2>2. /\ opened' = k + 1 /\ call'.dir = "none"
        /\ UNCHANGED <<plan, left, right, status, scanned, join, produced, out>>
    BY <1>5 DEF Opened, data
  <2>3. PICK m, b : Standing(m, b)
    BY DEF RInv
  <2>4. PICK in, h : in = m[k - 1] /\ h = held[k]
    OBVIOUS
  <2>5. /\ IsSequence(in) /\ Len(in) \in Nat /\ IsSequence(h) /\ Len(h) \in Nat
        /\ produced[k - 1] \in Nat
    <3>1. Chain(m) /\ Bounded(m) /\ k <= opened
      BY <1>2, <2>3 DEF Standing
    <3>2. IsSequence(in) /\ Len(in) \in Nat /\ produced[k - 1] \in Nat
      BY <2>4, <3>1, InputOf
    <3>3. IsSequence(h)
      BY <1>3, <2>4 DEF Reading
    <3> QED BY <3>2, <3>3 DEF IsSequence
  <2>6. produced[k - 1] = Len(in)
    <3>1. Ended(k - 1) /\ k - 1 <= k - 1
      BY <1>1, <1>2 DEF Ended
    <3>2. \A j \in (k - 1 + 1)..(k - 1) : Op(j).op # "limit"
      OBVIOUS
    <3> QED BY <1>1, <2>3, <2>4, <3>1, <3>2 DEF Standing, Spent
  <2>7. Pending(k - 1) = 0 /\ Taken(k) = Len(in)
    <3>1. Pending(k - 1) = 0
      BY <1>2 DEF Pending
    <3> QED BY <2>5, <2>6, <3>1 DEF Taken
  <2>8. IsSequence(rows) /\ Makes(k, in, rows)
    <3>1. CASE Op(k).op = "sort"
      <4>1. rows \in Sorted(k, h)
        BY <2>1, <2>4, <3>1
      <4>2. Len(h) = Len(in)
        BY <1>3, <2>4, <2>5, <2>6, <2>7, <3>1 DEF Reading
      <4>3. \A x \in 1..Len(h) : h[x] = in[x]
        BY <1>1, <1>2, <2>3, <2>4, <3>1 DEF Standing, Gathering
      <4>4. h = in
        BY <2>5, <4>2, <4>3, SameSequence
      <4> QED BY <2>5, <3>1, <4>1, <4>4, SortedLen DEF Makes
    <3>2. CASE Op(k).op = "aggregate"
      <4>1. rows = Results(k, h)
        BY <2>1, <2>4, <3>2
      <4>2. PICK g : Grouping(k, in, Len(in), g) /\ h = g[Len(in)]
        <5>1. \E g : Grouping(opened, m[opened - 1], Taken(opened), g) /\ held[opened] = g[Taken(opened)]
          BY <1>1, <1>2, <2>3, <3>2 DEF Standing, Gathering
        <5> QED BY <1>2, <2>4, <2>7, <5>1
      <4>3. IsSequence(rows)
        BY <2>5, <4>1, ResultsLen
      <4> QED BY <3>2, <4>1, <4>2, <4>3 DEF Makes
    <3> QED BY <1>3, <3>1, <3>2 DEF Blocking
  <2>9. held'[k] = rows /\ \A i \in 1..Root : i < k => held'[i] = held[i]
    BY <1>1, <2>1 DEF Types
  <2>10. Supplied(b)'
    <3>1. Supplied(b) /\ opened > 0 /\ opened' > 0
      BY <1>1, <1>2, <2>2, <2>3 DEF Standing
    <3>2. Probed' = Probed
      BY <2>2, SameValues
    <3>3. PICK all, x : all = join.rows /\ x = scanned
      OBVIOUS
    <3>4. Found(all)' = Found(all) /\ CandidatesAt(all, x)' = CandidatesAt(all, x)
      BY <2>2, SameFound
    <3> QED BY <2>2, <3>1, <3>2, <3>3, <3>4 DEF Supplied
  <2>11. Makes(k, m[k - 1], rows)
    BY <2>4, <2>8
  <2>12. \E n : Standing(n, b)'
    BY <1>1, <1>2, <2>2, <2>3, <2>8, <2>9, <2>10, <2>11, OpensNext
  <2> QED BY <2>12 DEF RInv
<1> QED BY <1>4, <1>5

LEMMA RunRows ==
  ASSUME IInv, RInv, Run
  PROVE  RInv'
<1>1. /\ opened = Root + 1 /\ call.dir = "none" /\ Ask(Root) /\ Root \in Nat
      /\ UNCHANGED <<plan, left, right, opened, scanned, join, held, pos, out>>
  BY DEF Run, Opening, data, fields, IInv, PlanOK, IsSequence, Root
<1>2. PICK m, b : Standing(m, b)
  BY DEF RInv
<1>3. Gathering(m)' /\ Taking(m)'
  <2>1. Root' = Root
    BY <1>1 DEF Root
  <2> QED BY <1>1, <1>2, <2>1 DEF Gathering, Taking, Standing
<1>4. Standing(m, b)'
  BY <1>1, <1>2, <1>3, AskedNext
<1> QED BY <1>4 DEF RInv

LEMMA TakeRows ==
  ASSUME IInv, RInv, TakeRow
  PROVE  RInv'
<1>1. /\ status = "run" /\ call.dir = "row" /\ call.node = Root /\ Root \in Nat
      /\ out' = Append(out, call.row) /\ Ask(Root)
      /\ UNCHANGED <<plan, left, right, status, opened, scanned, join, held, pos>>
  BY DEF TakeRow, data, fields, IInv, PlanOK, IsSequence, Root
<1>2. opened = Root + 1
  BY <1>1 DEF IInv, Calls
<1>3. PICK m, b : Standing(m, b)
  BY DEF RInv
<1>4. Root' = Root
  BY <1>1 DEF Root
<1>5. Gathering(m)'
  BY <1>1, <1>2, <1>4 DEF Gathering
<1>6. Taking(m)'
  <2>1. IsSequence(out) /\ Len(out) \in Nat /\ Len(out) + 1 = produced[Root]
    BY <1>1 DEF IInv, Counted, Pending, IsSequence
  <2>2. call.row = m[Root][produced[Root]]
    BY <1>1, <1>3 DEF Standing, Passing
  <2>3. \A x \in 1..Len(out) : out[x] = m[Root][x]
    BY <1>3 DEF Standing, Taking
  <2>4. /\ Len(out') = Len(out) + 1 /\ out'[Len(out) + 1] = call.row
        /\ \A x \in 1..Len(out) : out'[x] = out[x]
    BY <1>1, <2>1, SequenceAppend, AppendElements
  <2>5. ASSUME NEW x \in 1..Len(out')
        PROVE  out'[x] = m[Root][x]
    <3>1. CASE x = Len(out) + 1
      BY <2>1, <2>2, <2>4, <3>1
    <3>2. CASE x # Len(out) + 1
      <4>1. x \in 1..Len(out)
        BY <2>1, <2>4, <3>2
      <4> QED BY <2>3, <2>4, <4>1
    <3> QED BY <3>1, <3>2
  <2> QED BY <1>4, <2>5 DEF Taking
<1>7. \A i \in 1..Root : call.node # i - 1
  BY <1>1
<1>8. Standing(m, b)'
  BY <1>1, <1>3, <1>5, <1>6, <1>7, AskedNext
<1> QED BY <1>8 DEF RInv

-----------------------------------------------------------------------------
(* The invariant holds in every state. *)

LEMMA RowsSteps ==
  ASSUME IInv, RInv, [Next]_vars
  PROVE  RInv'
<1>1. CASE BuildExecutor \/ Close \/ UNCHANGED vars
  <2>1. UNCHANGED <<plan, left, right, opened, scanned, join, held, call, produced, out>>
    BY <1>1 DEF BuildExecutor, Close, Fail, vars, data, fields
  <2> QED BY <2>1, StillRows
<1>2. CASE OpenSource
  <2>1. CASE RightThrows
    BY <1>2, <2>1, FailRows DEF OpenSource
  <2> QED BY <1>2, <2>1, OpenSourceRows
<1>18. CASE ScanFails
  BY <1>18, FailRows DEF ScanFails
<1>3. CASE ScanNext
  BY <1>3, ScanRows
<1>4. CASE AdvanceLeft
  BY <1>4, AdvanceRows
<1>5. CASE TryRight
  BY <1>5, TryRows
<1>6. ASSUME NEW i \in 1..Root, OpenStreaming(i)
      PROVE  RInv'
  BY <1>6, OpenStreamingRows
<1>7. ASSUME NEW i \in 1..Root, OpenBlocking(i)
      PROVE  RInv'
  BY <1>7, OpenBlockingRows
<1>8. ASSUME NEW i \in 1..Root, Collect(i)
      PROVE  RInv'
  BY <1>8, CollectRows
<1>9. ASSUME NEW i \in 1..Root, Opened(i)
      PROVE  RInv'
  BY <1>9, OpenedRows
<1>10. ASSUME NEW i \in 1..Root, AnswerHeld(i)
       PROVE  RInv'
  BY <1>10, AnswerHeldRows
<1>11. ASSUME NEW i \in 1..Root, AskChild(i)
       PROVE  RInv'
  BY <1>11, AskChildRows
<1>12. ASSUME NEW i \in 1..Root, FilterRow(i)
       PROVE  RInv'
  BY <1>12, FilterRows
<1>13. ASSUME NEW i \in 1..Root, ProjectRow(i)
       PROVE  RInv'
  BY <1>13, ProjectRows
<1>14. ASSUME NEW i \in 1..Root, LimitRow(i)
       PROVE  RInv'
  BY <1>14, LimitRows
<1>15. ASSUME NEW i \in 1..Root, PassEnd(i)
       PROVE  RInv'
  BY <1>15, PassEndRows
<1>16. CASE Run
  BY <1>16, RunRows
<1>17. CASE TakeRow
  BY <1>17, TakeRows
<1> QED BY <1>1, <1>2, <1>3, <1>4, <1>5, <1>6, <1>7, <1>8, <1>9, <1>10, <1>11, <1>12, <1>13,
           <1>14, <1>15, <1>16, <1>17, <1>18 DEF Next

\* Every row that a node returns, holds or is asked for next is one of the rows
\* that its operator makes of the whole input below it, at its place.
THEOREM RowsInvariant == Spec => []RInv
BY InitRows, RowsSteps, ExecutionInvariant, PTL DEF Spec

\* The right rows of a join are those that its access path lets through, those of
\* a hash join in some order: only OpenSource sets them.
Built ==
  opened > 0 =>
    IF plan.join = "hash" THEN join.rows \in Rearranged(RightRows, {}) ELSE join.rows = RightRows

LEMMA BuiltStep ==
  ASSUME Built, opened' > 0 => opened > 0, join'.rows = join.rows, UNCHANGED <<plan, right>>
  PROVE  Built'
BY SameRightRows DEF Built

LEMMA BuiltSteps ==
  ASSUME IInv, Built, [Next]_vars
  PROVE  Built'
<1>1. Types /\ Root \in Nat
  BY DEF IInv, PlanOK, IsSequence, Root
<1>2. CASE OpenSource /\ ~RightThrows
  <2>1. UNCHANGED <<plan, right>>
    BY <1>2 DEF OpenSource, data
  <2>2. IF plan.join = "hash" THEN join'.rows \in Rearranged(RightRows, {}) ELSE join'.rows = RightRows
    BY <1>2 DEF OpenSource
  <2> QED BY <2>1, <2>2, SameRightRows DEF Built
<1>6. CASE (OpenSource /\ RightThrows) \/ ScanFails
  <2>1. Fail
    BY <1>6 DEF OpenSource, ScanFails
  <2>2. UNCHANGED <<plan, right, opened, join>>
    BY <2>1 DEF Fail, data, fields
  <2> QED BY <2>2, BuiltStep
<1>3. CASE BuildExecutor \/ ScanNext \/ Run \/ TakeRow \/ Close \/ UNCHANGED vars
  <2>1. UNCHANGED <<plan, right, opened, join>>
    BY <1>3 DEF BuildExecutor, ScanNext, Run, TakeRow, Close, Fail, vars, data, fields
  <2> QED BY <2>1, BuiltStep
<1>4. CASE AdvanceLeft \/ TryRight
  <2>1. UNCHANGED <<plan, right, opened>> /\ join'.rows = join.rows
    <3>1. CASE AdvanceLeft
      <4>1. CASE ScanAhead = {}
        BY <3>1, <4>1 DEF AdvanceLeft, data
      <4>2. CASE ScanAhead # {}
        <5> DEFINE l == left[Min(ScanAhead)]
        <5>1. /\ join' = [join EXCEPT !.current = l, !.rest = Candidates(l)]
              /\ UNCHANGED <<plan, right, opened>>
          BY <3>1, <4>2 DEF AdvanceLeft, data
        <5> HIDE DEF l
        <5> QED BY <5>1
      <4> QED BY <4>1, <4>2
    <3>2. CASE TryRight
      <4>1. UNCHANGED <<plan, right, opened>> /\ (Fail \/ join' = [join EXCEPT !.rest = Tail(@)])
        BY <3>2 DEF TryRight, Fail, data, fields
      <4>2. CASE Fail
        BY <4>1, <4>2 DEF Fail, fields
      <4>3. CASE join' = [join EXCEPT !.rest = Tail(@)]
        <5>1. join' = [join EXCEPT !.rest = Tail(join.rest)]
          BY <4>3
        <5>2. join'.rows = join.rows
          BY <5>1
        <5> QED BY <4>1, <5>2
      <4> QED BY <4>1, <4>2, <4>3
    <3> QED BY <1>4, <3>1, <3>2
  <2> QED BY <2>1, BuiltStep
<1>5. ASSUME NEW i \in 1..Root,
             \/ OpenStreaming(i) \/ OpenBlocking(i) \/ Collect(i) \/ Opened(i)
             \/ AnswerHeld(i) \/ AskChild(i)
             \/ FilterRow(i) \/ ProjectRow(i) \/ LimitRow(i) \/ PassEnd(i)
      PROVE  Built'
  <2>1. i > 0
    BY <1>1
  <2>2. UNCHANGED <<plan, right, join>>
    BY <1>5 DEF OpenStreaming, OpenBlocking, Collect, Opened, AnswerHeld, AskChild, FilterRow,
                ProjectRow, LimitRow, PassEnd, Fail, data, fields
  <2>3. opened' = opened \/ opened = i
    BY <1>5 DEF OpenStreaming, OpenBlocking, Collect, Opened, AnswerHeld, AskChild, FilterRow,
                ProjectRow, LimitRow, PassEnd, Opening, Fail
  <2> QED BY <2>1, <2>2, <2>3, BuiltStep
<1> QED BY <1>2, <1>3, <1>4, <1>5, <1>6 DEF Next

LEMMA BuiltAlways == Spec => []Built
<1>1. Init => Built
  BY DEF Init, Built
<1> QED BY <1>1, BuiltSteps, ExecutionInvariant, PTL DEF Spec

\* When a query is done its result is what the operators make of the tables:
\* the scan or join of node 0, and above it each node of the whole output of the
\* node below (an aggregate: AddRow for one row after the other).  Calls in
\* between, rows held and rows in flight lose, repeat and reorder nothing.
ResultIsTheChains == status = "done" => \E m : Chain(m) /\ out = m[Root]

LEMMA DoneRows ==
  ASSUME IInv, NEW m, NEW b, Standing(m, b), status = "done"
  PROVE  /\ opened = Root + 1 /\ Chain(m) /\ out = m[Root]
         /\ \A i \in 0..Root : NoLimitAbove(i) => produced[i] = Len(m[i])
<1>1. PlanOK /\ Calls /\ Counted /\ Root \in Nat
  BY DEF IInv, PlanOK, IsSequence, Root
<1>2. opened = Root + 1 /\ call.dir = "end" /\ call.node = Root /\ Chain(m) /\ Spent(m) /\ Taking(m)
  BY <1>1 DEF Calls, Standing
<1>3. Ended(Root) /\ Root \in 0..Root
  BY <1>1, <1>2 DEF Ended
<1>4. ASSUME NEW i \in 0..Root, NoLimitAbove(i)
      PROVE  produced[i] = Len(m[i])
  BY <1>1, <1>2, <1>3, <1>4 DEF Spent, NoLimitAbove
<1>5. produced[Root] = Len(m[Root])
  BY <1>1, <1>3, <1>4 DEF NoLimitAbove
<1>6. IsSequence(out) /\ IsSequence(m[Root]) /\ Len(out) = Len(m[Root])
  <2>1. Pending(Root) = 0
    BY <1>2 DEF Pending
  <2>2. IsSequence(out) /\ Len(out) \in Nat
    BY <1>1 DEF Counted, IsSequence
  <2> QED BY <1>1, <1>2, <1>3, <1>5, <2>1, <2>2 DEF Counted, Chain
<1>7. out = m[Root]
  BY <1>2, <1>6 DEF IsSequence, Taking
<1> QED BY <1>2, <1>4, <1>7

\* run_to_completion returns the rows that the operators make of the tables, for
\* every plan and table, whatever the operators compare.
THEOREM ExecutionResult == Spec => []ResultIsTheChains
<1>1. ASSUME IInv, RInv PROVE ResultIsTheChains
  <2> SUFFICES ASSUME status = "done" PROVE \E m : Chain(m) /\ out = m[Root]
    BY DEF ResultIsTheChains
  <2>1. PICK m, b : Standing(m, b)
    BY <1>1 DEF RInv
  <2> QED BY <1>1, <2>1, DoneRows
<1> QED BY <1>1, ExecutionInvariant, RowsInvariant, PTL

-----------------------------------------------------------------------------
(* What a plan means: the definition by recursion has a value, and unfolds. *)

SourceMeanings ==
  {Joined(rs) : rs \in IF plan.join = "hash" THEN Rearranged(Rights, {}) ELSE {Rights}}
NodeMeanings(i, S) == UNION {Apply(i, rows) : rows \in S}

Unfolds(n, f) ==
  f[0] = SourceMeanings /\ \A i \in 1..n : f[i] = NodeMeanings(i, f[i - 1])

LEMMA SomeUnfolding ==
  ASSUME NEW n \in Nat
  PROVE  \E f : Unfolds(n, f)
<1> DEFINE P(k) == \E f : Unfolds(k, f)
           S == {k \in Nat : ~P(k)}
<1>1. P(0)
  <2>1. PICK f : f = [i \in 0..0 |-> SourceMeanings]
    OBVIOUS
  <2>2. Unfolds(0, f)
    BY <2>1 DEF Unfolds
  <2> QED BY <2>2
<1>2. ASSUME NEW k \in Nat, P(k) PROVE P(k + 1)
  <2>1. PICK f : Unfolds(k, f)
    BY <1>2
  <2>2. PICK g : g = [i \in 0..(k + 1) |-> IF i <= k THEN f[i] ELSE NodeMeanings(i, f[i - 1])]
    OBVIOUS
  <2>3. g[0] = f[0] /\ \A i \in 1..(k + 1) : g[i - 1] = f[i - 1]
    BY <2>2
  <2>4. ASSUME NEW i \in 1..(k + 1) PROVE g[i] = NodeMeanings(i, g[i - 1])
    <3>1. g[i - 1] = f[i - 1]
      BY <2>3
    <3>2. CASE i <= k
      <4>1. i \in 1..k /\ g[i] = f[i]
        BY <2>2, <3>2
      <4> QED BY <2>1, <3>1, <4>1 DEF Unfolds
    <3>3. CASE ~(i <= k)
      BY <2>2, <3>1, <3>3
    <3> QED BY <3>2, <3>3
  <2>5. Unfolds(k + 1, g)
    BY <2>1, <2>3, <2>4 DEF Unfolds
  <2> QED BY <2>5
<1>3. S \subseteq Nat
  OBVIOUS
<1> HIDE DEF P
<1>4. CASE S # {}
  <2>1. PICK k \in S : \A j \in S : k <= j
    BY <1>3, <1>4, LeastOf
  <2>2. k \in Nat /\ k # 0 /\ ~P(k)
    BY <1>1, <2>1
  <2>3. k - 1 \in Nat /\ k - 1 \notin S
    BY <2>1, <2>2
  <2>4. P(k - 1) /\ k - 1 + 1 = k
    BY <2>2, <2>3
  <2> QED BY <1>2, <2>2, <2>3, <2>4
<1>5. CASE S = {}
  BY <1>5 DEF P
<1> QED BY <1>4, <1>5

LEMMA MeaningsUnfold ==
  ASSUME PlanOK
  PROVE  Unfolds(Root, Meanings)
<1>1. Root \in Nat
  BY DEF PlanOK, IsSequence, Root
<1> DEFINE F(h) ==
      [i \in 0..Root |->
         IF i = 0 THEN {Joined(rs) : rs \in IF plan.join = "hash" THEN Rearranged(Rights, {}) ELSE {Rights}}
         ELSE UNION {Apply(i, rows) : rows \in h[i - 1]}]
<1>2. PICK f : Unfolds(Root, f)
  BY <1>1, SomeUnfolding
<1>3. PICK g : g = [i \in 0..Root |-> f[i]]
  OBVIOUS
<1>4. ASSUME NEW h
      PROVE  F(h) = [i \in 0..Root |-> IF i = 0 THEN SourceMeanings ELSE NodeMeanings(i, h[i - 1])]
  BY DEF SourceMeanings, NodeMeanings
<1>5. Meanings = CHOOSE h : h = F(h)
  BY Zenon DEF Meanings
<1> HIDE DEF F
<1>6. g = F(g)
  <2>1. ASSUME NEW i \in 0..Root
        PROVE  g[i] = IF i = 0 THEN SourceMeanings ELSE NodeMeanings(i, g[i - 1])
    <3>1. CASE i = 0
      BY <1>2, <1>3, <3>1 DEF Unfolds
    <3>2. CASE i # 0
      <4>1. i \in 1..Root /\ i - 1 \in 0..Root
        BY <1>1, <3>2
      <4>2. g[i] = f[i] /\ g[i - 1] = f[i - 1]
        BY <1>3, <4>1
      <4> QED BY <1>2, <3>2, <4>1, <4>2 DEF Unfolds
    <3> QED BY <3>1, <3>2
  <2>2. F(g) = [i \in 0..Root |-> IF i = 0 THEN SourceMeanings ELSE NodeMeanings(i, g[i - 1])]
    BY <1>4
  <2> QED BY <1>3, <2>1, <2>2
<1>7. Meanings = F(Meanings)
  BY <1>5, <1>6, Zenon
<1>8. Meanings = [i \in 0..Root |-> IF i = 0 THEN SourceMeanings ELSE NodeMeanings(i, Meanings[i - 1])]
  BY <1>4, <1>7
<1> QED BY <1>1, <1>8 DEF Unfolds

-----------------------------------------------------------------------------
(* A sort by keys that are numbers leaves the order that the keys ask for. *)

\* By the first of N numbers in which they differ, x is before y.
Lexicographic(U, N, x, y) ==
  \E j \in 1..N : (\A k \in 1..(j - 1) : U[x][k] = U[y][k]) /\ U[x][j] < U[y][j]

Ranked(U, N, S) == \A x \in S : \A j \in 1..N : U[x][j] \in Int

LEMMA LexicographicOrder ==
  ASSUME NEW N \in Nat, NEW S, NEW U, Ranked(U, N, S),
         NEW x \in S, NEW y \in S, NEW z \in S
  PROVE  /\ Lexicographic(U, N, x, y) => ~Lexicographic(U, N, y, x)
         /\ Lexicographic(U, N, x, y) /\ Lexicographic(U, N, y, z) => Lexicographic(U, N, x, z)
         /\ ~Lexicographic(U, N, x, y) /\ ~Lexicographic(U, N, y, x) => \A j \in 1..N : U[x][j] = U[y][j]
<1> USE DEF Ranked
<1>1. ASSUME Lexicographic(U, N, x, y), Lexicographic(U, N, y, x)
      PROVE  FALSE
  <2>1. PICK i \in 1..N : (\A k \in 1..(i - 1) : U[x][k] = U[y][k]) /\ U[x][i] < U[y][i]
    BY <1>1 DEF Lexicographic
  <2>2. PICK j \in 1..N : (\A k \in 1..(j - 1) : U[y][k] = U[x][k]) /\ U[y][j] < U[x][j]
    BY <1>1 DEF Lexicographic
  <2>3. U[x][i] \in Int /\ U[y][i] \in Int /\ U[x][j] \in Int /\ U[y][j] \in Int
    OBVIOUS
  <2>4. i < j => U[y][i] = U[x][i]
    BY <2>2
  <2>5. j < i => U[x][j] = U[y][j]
    BY <2>1
  <2>6. ~(i < j) /\ ~(j < i)
    BY <2>1, <2>2, <2>3, <2>4, <2>5
  <2>7. i = j
    BY <2>6
  <2> QED BY <2>1, <2>2, <2>3, <2>7
<1>2. ASSUME Lexicographic(U, N, x, y), Lexicographic(U, N, y, z)
      PROVE  Lexicographic(U, N, x, z)
  <2>1. PICK i \in 1..N : (\A k \in 1..(i - 1) : U[x][k] = U[y][k]) /\ U[x][i] < U[y][i]
    BY <1>2 DEF Lexicographic
  <2>2. PICK j \in 1..N : (\A k \in 1..(j - 1) : U[y][k] = U[z][k]) /\ U[y][j] < U[z][j]
    BY <1>2 DEF Lexicographic
  <2>3. /\ U[x][i] \in Int /\ U[y][i] \in Int /\ U[z][i] \in Int
        /\ U[x][j] \in Int /\ U[y][j] \in Int /\ U[z][j] \in Int
    OBVIOUS
  <2>4. CASE i < j
    <3>1. U[y][i] = U[z][i] /\ \A k \in 1..(i - 1) : U[y][k] = U[z][k]
      BY <2>2, <2>4
    <3>2. (\A k \in 1..(i - 1) : U[x][k] = U[z][k]) /\ U[x][i] < U[z][i]
      BY <2>1, <2>3, <3>1
    <3> QED BY <3>2 DEF Lexicographic
  <2>5. CASE j < i
    <3>1. U[x][j] = U[y][j] /\ \A k \in 1..(j - 1) : U[x][k] = U[y][k]
      BY <2>1, <2>5
    <3>2. (\A k \in 1..(j - 1) : U[x][k] = U[z][k]) /\ U[x][j] < U[z][j]
      BY <2>2, <2>3, <3>1
    <3> QED BY <3>2 DEF Lexicographic
  <2>6. CASE i = j
    <3>1. U[x][i] < U[z][i]
      BY <2>1, <2>2, <2>3, <2>6
    <3>2. \A k \in 1..(i - 1) : U[x][k] = U[z][k]
      BY <2>1, <2>2, <2>6
    <3> QED BY <3>1, <3>2 DEF Lexicographic
  <2>7. i < j \/ j < i \/ i = j
    OBVIOUS
  <2> QED BY <2>4, <2>5, <2>6, <2>7
<1>3. ASSUME ~Lexicographic(U, N, x, y), ~Lexicographic(U, N, y, x)
      PROVE  \A j \in 1..N : U[x][j] = U[y][j]
  <2> DEFINE D == {j \in 1..N : U[x][j] # U[y][j]}
  <2>1. CASE D # {}
    <3>1. D \subseteq Nat
      OBVIOUS
    <3>2. PICK j \in D : \A k \in D : j <= k
      BY <2>1, <3>1, LeastOf
    <3>3. /\ j \in 1..N /\ U[x][j] # U[y][j] /\ U[x][j] \in Int /\ U[y][j] \in Int
      OBVIOUS
    <3>4. \A k \in 1..(j - 1) : U[x][k] = U[y][k]
      <4> SUFFICES ASSUME NEW k \in 1..(j - 1), U[x][k] # U[y][k] PROVE FALSE
        OBVIOUS
      <4>1. k \in 1..N /\ k < j
        BY <3>3
      <4>2. k \in D
        BY <4>1
      <4> QED BY <3>2, <3>3, <4>1, <4>2
    <3>5. \A k \in 1..(j - 1) : U[y][k] = U[x][k]
      BY <3>4
    <3> QED BY <1>3, <3>3, <3>4, <3>5 DEF Lexicographic
  <2> QED BY <2>1
<1> QED BY <1>1, <1>2, <1>3

LEMMA LexicographicTies ==
  ASSUME NEW N \in Nat, NEW S, NEW U, Ranked(U, N, S),
         NEW less, \A x \in S : \A y \in S : <<x, y>> \in less <=> Lexicographic(U, N, x, y)
  PROVE  StrictWeakOrder(less, S)
<1> SUFFICES ASSUME NEW x \in S, NEW y \in S, NEW z \in S
             PROVE  /\ <<x, y>> \in less => <<y, x>> \notin less
                    /\ <<x, y>> \in less /\ <<y, z>> \in less => <<x, z>> \in less
                    /\ /\ <<x, y>> \notin less /\ <<y, x>> \notin less
                       /\ <<y, z>> \notin less /\ <<z, y>> \notin less
                       => <<x, z>> \notin less /\ <<z, x>> \notin less
  BY DEF StrictWeakOrder
<1>1. /\ Lexicographic(U, N, x, y) => ~Lexicographic(U, N, y, x)
      /\ Lexicographic(U, N, x, y) /\ Lexicographic(U, N, y, z) => Lexicographic(U, N, x, z)
  <2>1. Lexicographic(U, N, x, y) => ~Lexicographic(U, N, y, x)
    BY LexicographicOrder
  <2>2. Lexicographic(U, N, x, y) /\ Lexicographic(U, N, y, z) => Lexicographic(U, N, x, z)
    BY LexicographicOrder
  <2> QED BY <2>1, <2>2
<1>2. ASSUME ~Lexicographic(U, N, x, y), ~Lexicographic(U, N, y, x),
             ~Lexicographic(U, N, y, z), ~Lexicographic(U, N, z, y)
      PROVE  ~Lexicographic(U, N, x, z) /\ ~Lexicographic(U, N, z, x)
  <2>1. \A j \in 1..N : U[x][j] = U[y][j]
    BY <1>2, LexicographicOrder
  <2>2. \A j \in 1..N : U[y][j] = U[z][j]
    BY <1>2, LexicographicOrder
  <2>3. \A j \in 1..N : U[x][j] = U[z][j] /\ U[x][j] \in Int /\ U[z][j] \in Int
    BY <2>1, <2>2 DEF Ranked
  <2> QED BY <2>3 DEF Lexicographic
<1> QED BY <1>1, <1>2

SortKey(i, row, j) == ValueAt(i, Op(i).items[j].expr, row)

\* The pairs of PairsWith for the comparator, and for the order that was asked for.
ComparatorPairs(i, rows) ==
  UNION {IF x # y /\ SortsBefore(i, rows[x], rows[y]) THEN {<<x, y>>} ELSE {} : x, y \in DOMAIN rows}
Precedes(i, rows, x, y) ==
  \E j \in DOMAIN Op(i).items :
    /\ \A k \in 1..(j - 1) : LiteralEqual(SortKey(i, rows[x], k), SortKey(i, rows[y], k))
    /\ IF Op(i).items[j].asc THEN LiteralLess(SortKey(i, rows[x], j), SortKey(i, rows[y], j))
                             ELSE LiteralLess(SortKey(i, rows[y], j), SortKey(i, rows[x], j))
OrderedPairs(i, rows) ==
  UNION {IF x # y /\ Precedes(i, rows, x, y) THEN {<<x, y>>} ELSE {} : x, y \in DOMAIN rows}
NullKeys(i, rows) == \E x \in DOMAIN rows, j \in DOMAIN Op(i).items : IsNull(SortKey(i, rows[x], j))

LEMMA SortedUnfold ==
  ASSUME NEW i, NEW rows, NEW result
  PROVE  /\ result \in Sorted(i, rows) <=>
              result \in Rearranged(rows, IF StrictWeakOrder(ComparatorPairs(i, rows), DOMAIN rows)
                                          THEN ComparatorPairs(i, rows) ELSE {})
         /\ result \in Ordered(i, rows) <=>
              result \in Rearranged(rows, IF NullKeys(i, rows) THEN {} ELSE OrderedPairs(i, rows))
<1>1. Sorted(i, rows) = UNION {Rearranged(rows, IF StrictWeakOrder(less, DOMAIN rows) THEN less ELSE {}) :
                                 less \in {ComparatorPairs(i, rows)}}
  BY DEF Sorted, PairsWith, ComparatorPairs
<1>2. Ordered(i, rows) = UNION {Rearranged(rows, less) :
                                  less \in {IF NullKeys(i, rows) THEN {} ELSE OrderedPairs(i, rows)}}
  BY DEF Ordered, PairsWith, OrderedPairs, Precedes, NullKeys, SortKey
<1> QED BY <1>1, <1>2

LEMMA PairsOfRows ==
  ASSUME NEW i, NEW rows, NEW x \in DOMAIN rows, NEW y \in DOMAIN rows
  PROVE  /\ <<x, y>> \in ComparatorPairs(i, rows) <=> x # y /\ SortsBefore(i, rows[x], rows[y])
         /\ <<x, y>> \in OrderedPairs(i, rows) <=> x # y /\ Precedes(i, rows, x, y)
<1> DEFINE D == DOMAIN rows
<1>1. ASSUME NEW a \in D, NEW b \in D, a # b, SortsBefore(i, rows[a], rows[b])
      PROVE  <<a, b>> \in ComparatorPairs(i, rows)
  <2> DEFINE T == {IF c # d /\ SortsBefore(i, rows[c], rows[d]) THEN {<<c, d>>} ELSE {} : c, d \in D}
  <2>1. (IF a # b /\ SortsBefore(i, rows[a], rows[b]) THEN {<<a, b>>} ELSE {}) \in T
    OBVIOUS
  <2>2. {<<a, b>>} \in T
    BY <1>1, <2>1
  <2>3. ComparatorPairs(i, rows) = UNION T
    BY DEF ComparatorPairs
  <2> HIDE DEF T
  <2>4. <<a, b>> \in UNION T
    BY <2>2
  <2> QED BY <2>3, <2>4
<1>2. ASSUME NEW a \in D, NEW b \in D, a # b, Precedes(i, rows, a, b)
      PROVE  <<a, b>> \in OrderedPairs(i, rows)
  <2> DEFINE T == {IF c # d /\ Precedes(i, rows, c, d) THEN {<<c, d>>} ELSE {} : c, d \in D}
  <2>1. (IF a # b /\ Precedes(i, rows, a, b) THEN {<<a, b>>} ELSE {}) \in T
    OBVIOUS
  <2>2. {<<a, b>>} \in T
    BY <1>2, <2>1
  <2>3. OrderedPairs(i, rows) = UNION T
    BY DEF OrderedPairs
  <2> HIDE DEF T
  <2>4. <<a, b>> \in UNION T
    BY <2>2
  <2> QED BY <2>3, <2>4
<1>3. ASSUME <<x, y>> \in ComparatorPairs(i, rows)
      PROVE  x # y /\ SortsBefore(i, rows[x], rows[y])
  <2>1. PICK a \in D, b \in D :
          <<x, y>> \in IF a # b /\ SortsBefore(i, rows[a], rows[b]) THEN {<<a, b>>} ELSE {}
    BY <1>3 DEF ComparatorPairs
  <2>2. a # b /\ SortsBefore(i, rows[a], rows[b]) /\ <<x, y>> = <<a, b>>
    BY <2>1
  <2>3. a = x /\ b = y
    BY <2>2
  <2> QED BY <2>2, <2>3
<1>4. ASSUME <<x, y>> \in OrderedPairs(i, rows)
      PROVE  x # y /\ Precedes(i, rows, x, y)
  <2>1. PICK a \in D, b \in D :
          <<x, y>> \in IF a # b /\ Precedes(i, rows, a, b) THEN {<<a, b>>} ELSE {}
    BY <1>4 DEF OrderedPairs
  <2>2. a # b /\ Precedes(i, rows, a, b) /\ <<x, y>> = <<a, b>>
    BY <2>1
  <2>3. a = x /\ b = y
    BY <2>2
  <2> QED BY <2>2, <2>3
<1> QED BY <1>1, <1>2, <1>3, <1>4

LEMMA RearrangedAny ==
  ASSUME NEW rows, NEW less, NEW result \in Rearranged(rows, less)
  PROVE  result \in Rearranged(rows, {})
BY DEF Rearranged

LEMMA SamePairs ==
  ASSUME NEW i, NEW rows,
         \A x \in DOMAIN rows : \A y \in DOMAIN rows :
           SortsBefore(i, rows[x], rows[y]) <=> Precedes(i, rows, x, y)
  PROVE  ComparatorPairs(i, rows) = OrderedPairs(i, rows)
<1>1. ASSUME NEW p \in ComparatorPairs(i, rows) PROVE p \in OrderedPairs(i, rows)
  <2>1. PICK a \in DOMAIN rows, b \in DOMAIN rows :
          p \in IF a # b /\ SortsBefore(i, rows[a], rows[b]) THEN {<<a, b>>} ELSE {}
    BY <1>1 DEF ComparatorPairs
  <2>2. SortsBefore(i, rows[a], rows[b]) /\ a # b /\ p = <<a, b>>
    BY <2>1
  <2> QED BY <2>2, PairsOfRows
<1>2. ASSUME NEW p \in OrderedPairs(i, rows) PROVE p \in ComparatorPairs(i, rows)
  <2>1. PICK a \in DOMAIN rows, b \in DOMAIN rows :
          p \in IF a # b /\ Precedes(i, rows, a, b) THEN {<<a, b>>} ELSE {}
    BY <1>2 DEF OrderedPairs
  <2>2. Precedes(i, rows, a, b) /\ a # b /\ p = <<a, b>>
    BY <2>1
  <2> QED BY <2>2, PairsOfRows
<1> QED BY <1>1, <1>2

\* What the comparator compares: NULL or a number.
KeysCompare(i, rows) ==
  \A x \in DOMAIN rows : \A j \in DOMAIN Op(i).items :
    IsNull(SortKey(i, rows[x], j)) \/ SortKey(i, rows[x], j)[2] \in Int

LEMMA SortMeans ==
  ASSUME NEW i, NEW rows, IsSequence(Op(i).items), KeysCompare(i, rows),
         NEW result \in Sorted(i, rows)
  PROVE  result \in Ordered(i, rows)
<1> DEFINE N == Len(Op(i).items)
           K(x, j) == SortKey(i, rows[x], j)
           U == [x \in DOMAIN rows |-> [j \in 1..N |-> IF Op(i).items[j].asc THEN K(x, j)[2] ELSE -K(x, j)[2]]]
           less == ComparatorPairs(i, rows)
<1>1. N \in Nat /\ DOMAIN Op(i).items = 1..N
  BY DEF IsSequence
<1>2. result \in Rearranged(rows, IF StrictWeakOrder(less, DOMAIN rows) THEN less ELSE {})
  BY SortedUnfold
<1>3. CASE NullKeys(i, rows)
  <2>1. result \in Rearranged(rows, {})
    BY <1>2, RearrangedAny
  <2> QED BY <1>3, <2>1, SortedUnfold
<1>4. CASE ~NullKeys(i, rows)
  <2>1. \A x \in DOMAIN rows : \A j \in 1..N : K(x, j)[2] \in Int /\ ~IsNull(K(x, j))
    BY <1>1, <1>4 DEF KeysCompare, NullKeys
  <2>2. /\ \A x \in DOMAIN rows : \A j \in 1..N : U[x][j] \in Int
    BY <2>1
  <2>3. ASSUME NEW x \in DOMAIN rows, NEW y \in DOMAIN rows, NEW j \in 1..N
        PROVE  /\ LiteralEqual(K(x, j), K(y, j)) <=> U[x][j] = U[y][j]
               /\ LiteralLess(K(x, j), K(y, j)) <=> K(x, j)[2] < K(y, j)[2]
               /\ U[x][j] < U[y][j] <=> IF Op(i).items[j].asc THEN LiteralLess(K(x, j), K(y, j))
                                                              ELSE LiteralLess(K(y, j), K(x, j))
               /\ U[x][j] < U[y][j] <=> /\ ~LiteralEqual(K(x, j), K(y, j))
                                        /\ Op(i).items[j].asc <=> LiteralLess(K(x, j), K(y, j))
    <3>1. K(x, j)[2] \in Int /\ ~IsNull(K(x, j)) /\ K(y, j)[2] \in Int /\ ~IsNull(K(y, j))
      BY <2>1
    <3>2. /\ U[x][j] = IF Op(i).items[j].asc THEN K(x, j)[2] ELSE -K(x, j)[2]
          /\ U[y][j] = IF Op(i).items[j].asc THEN K(y, j)[2] ELSE -K(y, j)[2]
      OBVIOUS
    <3> HIDE DEF K, U
    <3> QED BY <3>1, <3>2 DEF LiteralEqual, LiteralLess
  <2> HIDE DEF U
  <2>4. ASSUME NEW x \in DOMAIN rows, NEW y \in DOMAIN rows
        PROVE  /\ SortsBefore(i, rows[x], rows[y]) <=> Lexicographic(U, N, x, y)
               /\ Precedes(i, rows, x, y) <=> Lexicographic(U, N, x, y)
    <3>1. \A j \in 1..N : (\A k \in 1..(j - 1) : LiteralEqual(K(x, k), K(y, k)))
                              <=> (\A k \in 1..(j - 1) : U[x][k] = U[y][k])
      <4> SUFFICES ASSUME NEW j \in 1..N, NEW k \in 1..(j - 1)
                   PROVE  LiteralEqual(K(x, k), K(y, k)) <=> U[x][k] = U[y][k]
        OBVIOUS
      <4>1. k \in 1..N
        BY <1>1
      <4> QED BY <2>3, <4>1
    <3>2. SortsBefore(i, rows[x], rows[y]) <=>
            \E j \in 1..N : /\ \A k \in 1..(j - 1) : LiteralEqual(K(x, k), K(y, k))
                            /\ ~LiteralEqual(K(x, j), K(y, j))
                            /\ Op(i).items[j].asc <=> LiteralLess(K(x, j), K(y, j))
      BY <1>1 DEF SortsBefore, SortKey
    <3>3. Precedes(i, rows, x, y) <=>
            \E j \in 1..N : /\ \A k \in 1..(j - 1) : LiteralEqual(K(x, k), K(y, k))
                            /\ IF Op(i).items[j].asc THEN LiteralLess(K(x, j), K(y, j))
                                                     ELSE LiteralLess(K(y, j), K(x, j))
      BY <1>1 DEF Precedes
    <3> HIDE DEF K
    <3> QED BY <2>3, <3>1, <3>2, <3>3 DEF Lexicographic
  <2>5. less = OrderedPairs(i, rows)
    BY <2>4, SamePairs
  <2>6. \A x \in DOMAIN rows : \A y \in DOMAIN rows : <<x, y>> \in less <=> Lexicographic(U, N, x, y)
    <3> SUFFICES ASSUME NEW x \in DOMAIN rows, NEW y \in DOMAIN rows
                 PROVE  <<x, y>> \in less <=> Lexicographic(U, N, x, y)
      OBVIOUS
    <3>1. ~Lexicographic(U, N, x, x)
      <4>1. Ranked(U, N, DOMAIN rows)
        BY <2>2 DEF Ranked
      <4> QED BY <1>1, <4>1, LexicographicOrder
    <3> QED BY <2>4, <3>1, PairsOfRows
  <2>7. StrictWeakOrder(less, DOMAIN rows)
    <3>1. Ranked(U, N, DOMAIN rows)
      BY <2>2 DEF Ranked
    <3> QED BY <1>1, <2>6, <3>1, LexicographicTies
  <2>8. result \in Rearranged(rows, OrderedPairs(i, rows))
    BY <1>2, <2>5, <2>7
  <2> QED BY <1>4, <2>8, SortedUnfold
<1> QED BY <1>3, <1>4

-----------------------------------------------------------------------------
(* Sums over sets of positions: one more position adds its number. *)

Additive(n, v, T) ==
  /\ T[{}] = 0
  /\ \A s \in SUBSET (1..n) : T[s] \in Int /\ \A x \in s : T[s] = v[x] + T[s \ {x}]

LEMMA AdditiveNext ==
  ASSUME NEW n \in Nat, NEW v, v[n + 1] \in Int, \A x \in 1..n : v[x] \in Int, NEW T, Additive(n, v, T)
  PROVE  \E U : Additive(n + 1, v, U)
<1> DEFINE m == n + 1
<1>1. PICK U : U = [s \in SUBSET (1..m) |-> T[s \ {m}] + (IF m \in s THEN v[m] ELSE 0)]
  OBVIOUS
<1>2. \A s \in SUBSET (1..m) : s \ {m} \in SUBSET (1..n)
  <2>1. \A x \in 1..m : x # m => x \in 1..n
    OBVIOUS
  <2> QED BY <2>1
<1>3. m \in Nat /\ v[m] \in Int
  OBVIOUS
<1> HIDE DEF m
<1>4. \A s \in SUBSET (1..m) : T[s \ {m}] \in Int /\ U[s] \in Int
  BY <1>1, <1>2, <1>3 DEF Additive
<1>5. U[{}] = 0
  <2>1. {} \ {m} = {} /\ {} \in SUBSET (1..m)
    OBVIOUS
  <2> QED BY <1>1, <2>1 DEF Additive
<1>6. ASSUME NEW s \in SUBSET (1..m), NEW x \in s
      PROVE  U[s] = v[x] + U[s \ {x}]
  <2>1. s \ {x} \in SUBSET (1..m)
    OBVIOUS
  <2>2. /\ U[s] = T[s \ {m}] + (IF m \in s THEN v[m] ELSE 0)
        /\ U[s \ {x}] = T[(s \ {x}) \ {m}] + (IF m \in s \ {x} THEN v[m] ELSE 0)
        /\ T[s \ {m}] \in Int /\ T[(s \ {x}) \ {m}] \in Int
    BY <1>1, <1>4, <2>1
  <2>3. CASE x = m
    <3>1. (s \ {x}) \ {m} = s \ {m}
      BY <2>3
    <3>2. U[s] = T[s \ {m}] + v[m] /\ U[s \ {x}] = T[s \ {m}]
      <4>1. m \in s /\ ~(m \in s \ {x})
        BY <2>3
      <4>2. U[s] = T[s \ {m}] + v[m] /\ U[s \ {x}] = T[s \ {m}] + 0
        BY <2>2, <3>1, <4>1
      <4> QED BY <2>2, <4>2
    <3> QED BY <1>3, <2>2, <2>3, <3>2
  <2>4. CASE x # m
    <3>1. s \ {m} \in SUBSET (1..n) /\ x \in s \ {m} /\ (s \ {x}) \ {m} = (s \ {m}) \ {x}
      BY <1>2, <2>4
    <3>2. T[s \ {m}] = v[x] + T[(s \ {m}) \ {x}] /\ v[x] \in Int
      BY <3>1 DEF Additive
    <3>3. m \in s \ {x} <=> m \in s
      BY <2>4
    <3>4. T[s \ {m}] = v[x] + T[(s \ {x}) \ {m}]
      BY <3>1, <3>2
    <3>5. PICK e : e \in Int /\ e = IF m \in s THEN v[m] ELSE 0
      BY <1>3
    <3>6. U[s] = T[s \ {m}] + e /\ U[s \ {x}] = T[(s \ {x}) \ {m}] + e
      BY <2>2, <3>3, <3>5
    <3> QED BY <2>2, <3>2, <3>4, <3>5, <3>6
  <2> QED BY <2>3, <2>4
<1>7. Additive(m, v, U)
  BY <1>4, <1>5, <1>6 DEF Additive
<1> QED BY <1>7 DEF m

LEMMA AdditiveExists ==
  ASSUME NEW n \in Nat, NEW v, \A x \in 1..n : v[x] \in Int
  PROVE  \E T : Additive(n, v, T)
<1> DEFINE P(k) == \E T : Additive(k, v, T)
           S == {k \in 0..n : ~P(k)}
<1>1. P(0)
  <2>1. PICK T : T = [s \in {{}} |-> 0]
    OBVIOUS
  <2>2. \A s \in SUBSET (1..0) : s = {}
    OBVIOUS
  <2>3. Additive(0, v, T)
    BY <2>1, <2>2 DEF Additive
  <2> QED BY <2>3
<1>2. ASSUME NEW k \in Nat, k + 1 <= n, P(k) PROVE P(k + 1)
  <2>1. PICK T : Additive(k, v, T)
    BY <1>2
  <2>2. v[k + 1] \in Int /\ \A x \in 1..k : v[x] \in Int
    BY <1>2
  <2> QED BY <2>1, <2>2, AdditiveNext
<1>3. S \subseteq Nat
  OBVIOUS
<1> HIDE DEF P
<1>4. CASE S # {}
  <2>1. PICK k \in S : \A j \in S : k <= j
    BY <1>3, <1>4, LeastOf
  <2>2. k \in 1..n /\ ~P(k)
    BY <1>1, <2>1
  <2>3. k - 1 \in Nat /\ k - 1 \notin S /\ k - 1 + 1 = k /\ k - 1 \in 0..n
    BY <2>1, <2>2
  <2> QED BY <1>2, <2>2, <2>3
<1>5. CASE S = {}
  BY <1>5 DEF P
<1> QED BY <1>4, <1>5

\* MapThenSumSet, which takes the elements in some order, is that sum.
LEMMA SumIs ==
  ASSUME NEW i, NEW rows, NEW j, NEW n \in Nat, NEW v, NEW T, Additive(n, v, T),
         NEW S \in SUBSET (1..n), \A x \in S : v[x] = Argument(i, rows, j, x)[2] /\ v[x] \in Int
  PROVE  SumOver(i, rows, j, S) = T[S]
<1> DEFINE F(h) == [s \in SUBSET S |->
             IF s = {} THEN 0
             ELSE LET x == CHOOSE x \in s : TRUE IN Argument(i, rows, j, x)[2] + h[s \ {x}]]
<1>1. SumOver(i, rows, j, S) = (CHOOSE h : h = F(h))[S]
  BY DEF SumOver, MapThenSumSet, MapThenFoldSet
<1> DEFINE First(s) == CHOOSE x \in s : TRUE
<1>2. ASSUME NEW h
      PROVE  F(h) = [s \in SUBSET S |-> IF s = {} THEN 0 ELSE Argument(i, rows, j, First(s))[2] + h[s \ {First(s)}]]
  OBVIOUS
<1>3. \A s \in SUBSET S : s # {} => First(s) \in s
  OBVIOUS
<1> HIDE DEF F, First
<1>4. \A s \in SUBSET S : s # {} => /\ Argument(i, rows, j, First(s))[2] = v[First(s)]
                                   /\ s \ {First(s)} \in SUBSET S
  BY <1>3
<1>5. \A s \in SUBSET S : s \in SUBSET (1..n)
  OBVIOUS
<1>6. \A s \in SUBSET S : T[s] \in Int /\ (s # {} => T[s] = v[First(s)] + T[s \ {First(s)}])
  BY <1>3, <1>5 DEF Additive
<1>7. PICK g : g = [s \in SUBSET S |-> T[s]]
  OBVIOUS
<1>8. g = F(g)
  <2>1. ASSUME NEW s \in SUBSET S
        PROVE  g[s] = IF s = {} THEN 0 ELSE Argument(i, rows, j, First(s))[2] + g[s \ {First(s)}]
    <3>1. CASE s = {}
      BY <1>7, <3>1 DEF Additive
    <3>2. CASE s # {}
      <4>1. g[s] = T[s] /\ g[s \ {First(s)}] = T[s \ {First(s)}]
        BY <1>4, <1>7, <3>2
      <4> QED BY <1>4, <1>6, <3>2, <4>1
    <3> QED BY <3>1, <3>2
  <2> QED BY <1>2, <1>7, <2>1
<1>9. PICK h : h = F(h) /\ h = CHOOSE f : f = F(f)
  BY <1>8, Zenon
<1>10. \A s \in SUBSET S : h[s] = IF s = {} THEN 0 ELSE v[First(s)] + h[s \ {First(s)}]
  <2>1. h = [s \in SUBSET S |-> IF s = {} THEN 0 ELSE Argument(i, rows, j, First(s))[2] + h[s \ {First(s)}]]
    BY <1>2, <1>9
  <2> SUFFICES ASSUME NEW s \in SUBSET S
               PROVE  h[s] = IF s = {} THEN 0 ELSE v[First(s)] + h[s \ {First(s)}]
    OBVIOUS
  <2>2. h[s] = IF s = {} THEN 0 ELSE Argument(i, rows, j, First(s))[2] + h[s \ {First(s)}]
    BY <2>1
  <2> QED BY <1>4, <2>2
<1>11. \A s \in SUBSET S : IsFiniteSet(s) /\ Cardinality(s) \in Nat
  <2>1. IsFiniteSet(1..n)
    BY FS_Interval
  <2> QED BY <1>5, <2>1, FS_Subset, FS_CardinalityType
<1> DEFINE B == {Cardinality(s) : s \in {u \in SUBSET S : h[u] # T[u]}}
<1>12. CASE B # {}
  <2>1. B \subseteq Nat
    BY <1>11
  <2>2. PICK c \in B : \A d \in B : c <= d
    BY <1>12, <2>1, LeastOf
  <2>3. PICK s \in SUBSET S : h[s] # T[s] /\ Cardinality(s) = c
    BY <2>2
  <2>4. s # {}
    BY <1>10, <2>3 DEF Additive
  <2>5. First(s) \in s /\ s \ {First(s)} \in SUBSET S
    BY <1>3, <1>4, <2>4
  <2>6. Cardinality(s \ {First(s)}) < c
    <3>1. Cardinality(s \ {First(s)}) = Cardinality(s) - 1
      BY <1>11, <2>5, FS_RemoveElement
    <3> QED BY <1>11, <2>3, <3>1
  <2>7. h[s \ {First(s)}] = T[s \ {First(s)}]
    <3> SUFFICES ASSUME h[s \ {First(s)}] # T[s \ {First(s)}] PROVE FALSE
      OBVIOUS
    <3>1. Cardinality(s \ {First(s)}) \in B
      BY <2>5
    <3>2. c \in Nat /\ Cardinality(s \ {First(s)}) \in Nat
      BY <2>1, <3>1
    <3> QED BY <2>2, <2>6, <3>1, <3>2
  <2> QED BY <1>6, <1>10, <2>3, <2>4, <2>7
<1>13. CASE B = {}
  <2>1. S \in SUBSET S
    OBVIOUS
  <2>2. h[S] = T[S]
    BY <1>13, <2>1
  <2> QED BY <1>1, <1>9, <2>2
<1> QED BY <1>12, <1>13

-----------------------------------------------------------------------------
(* Groups: the fold of AddRow over the rows leaves the groups of all of them. *)

\* What an aggregate can take: COUNT anything, the others NULLs and numbers, of
\* which equal ones are the same value.
ArgumentsCompare(i, rows) ==
  \A j \in DOMAIN Op(i).aggs :
    \/ Op(i).aggs[j].func = "COUNT"
    \/ /\ Op(i).aggs[j].func \in {"SUM", "AVG", "MIN", "MAX"} /\ Op(i).aggs[j].arg.kind # "star"
       /\ \A x \in DOMAIN rows :
            IsNull(Argument(i, rows, j, x)) \/ Argument(i, rows, j, x)[2] \in Int
       /\ \A x \in DOMAIN rows : \A y \in DOMAIN rows :
            LiteralEqual(Argument(i, rows, j, x), Argument(i, rows, j, y))
              => Argument(i, rows, j, x) = Argument(i, rows, j, y)

\* The numbers that aggregate j adds up, and the sum of each set of them.
Number(i, rows, j) ==
  [x \in 1..Len(rows) |->
     IF Argument(i, rows, j, x)[2] \in Int THEN Argument(i, rows, j, x)[2] ELSE 0]
Totals(i, rows, W) ==
  \A j \in DOMAIN Op(i).aggs : Additive(Len(rows), Number(i, rows, j), W[j])

\* The state of aggregate j of the x-th row's group after k rows.
TakenOf(i, rows, k, j, x) == UpTo(Members(i, rows, j, x), k)
AccOf(i, rows, W, k, j, x, acc) ==
  LET M == TakenOf(i, rows, k, j, x)
      func == Op(i).aggs[j].func
  IN  /\ acc = [sum |-> acc.sum, count |-> acc.count, min |-> acc.min, max |-> acc.max]
      /\ func \in {"COUNT", "SUM", "AVG"} => acc.count = Cardinality(M)
      /\ func \in {"SUM", "AVG"} => acc.sum = W[j][M]
      /\ func = "MIN" =>
           /\ M = {} => acc.min = Null
           /\ M # {} => \E y \in M : /\ acc.min = Argument(i, rows, j, y)
                                     /\ \A z \in M : ~LiteralLess(Argument(i, rows, j, z), acc.min)
      /\ func = "MAX" =>
           /\ M = {} => acc.max = Null
           /\ M # {} => \E y \in M : /\ acc.max = Argument(i, rows, j, y)
                                     /\ \A z \in M : ~LiteralLess(acc.max, Argument(i, rows, j, z))

LEMMA UpToNext ==
  ASSUME NEW L \in Nat, NEW S, S \subseteq 1..L, NEW k \in Nat, NEW n, n = k + 1
  PROVE  /\ UpTo(S, k) \subseteq 1..L /\ n \notin UpTo(S, k) /\ Cardinality(UpTo(S, k)) \in Nat
         /\ n \notin S => UpTo(S, n) = UpTo(S, k)
         /\ n \in S => /\ UpTo(S, n) = UpTo(S, k) \cup {n}
                       /\ Cardinality(UpTo(S, n)) = Cardinality(UpTo(S, k)) + 1
<1>1. /\ Cardinality(UpTo(S, k)) \in Nat
      /\ n \in S => Cardinality(UpTo(S, n)) = Cardinality(UpTo(S, k)) + 1
  BY RankNext
<1>2. /\ \A y : y \in UpTo(S, k) <=> y \in S /\ y <= k
      /\ \A y : y \in UpTo(S, n) <=> y \in S /\ y <= n
      /\ \A y \in S : y \in Nat
  BY DEF UpTo
<1>3. (\A y \in S : y <= n <=> y <= k \/ y = n) /\ ~(n <= k)
  BY <1>2
<1>4. \A y : y \in UpTo(S, n) <=> y \in UpTo(S, k) \/ (y = n /\ n \in S)
  BY <1>2, <1>3
<1>5. n \notin S => UpTo(S, n) = UpTo(S, k)
  BY <1>4
<1>6. n \in S => UpTo(S, n) = UpTo(S, k) \cup {n}
  BY <1>4
<1>7. n \notin UpTo(S, k) /\ UpTo(S, k) \subseteq 1..L
  BY <1>2, <1>3
<1> QED BY <1>1, <1>5, <1>6, <1>7

LEMMA MembersIn ==
  ASSUME NEW i, NEW rows, IsSequence(rows), NEW j, NEW x
  PROVE  Members(i, rows, j, x) \subseteq 1..Len(rows) /\ Len(rows) \in Nat
BY DEF Members, IsSequence

\* A row of another group, or one that the aggregate does not take.
LEMMA AccSkips ==
  ASSUME NEW i, NEW rows, IsSequence(rows), NEW W, NEW k \in Nat, NEW n, n = k + 1, NEW j, NEW x,
         NEW acc, AccOf(i, rows, W, k, j, x, acc), n \notin Members(i, rows, j, x)
  PROVE  AccOf(i, rows, W, n, j, x, acc)
<1>1. TakenOf(i, rows, n, j, x) = TakenOf(i, rows, k, j, x)
  BY MembersIn, UpToNext DEF TakenOf
<1> QED BY <1>1 DEF AccOf

\* A row of the group that the aggregate takes.
LEMMA AccTakes ==
  ASSUME NEW i, NEW rows, IsSequence(rows), NEW W, Totals(i, rows, W), ArgumentsCompare(i, rows),
         NEW k \in Nat, NEW n, n = k + 1, NEW j \in DOMAIN Op(i).aggs, NEW x,
         NEW acc, AccOf(i, rows, W, k, j, x, acc), n \in Members(i, rows, j, x)
  PROVE  AccOf(i, rows, W, n, j, x, Accumulate(acc, Op(i).aggs[j], Argument(i, rows, j, n)))
<1>1. PICK agg : agg = Op(i).aggs[j]
  OBVIOUS
<1>2. PICK M, v : M = TakenOf(i, rows, k, j, x) /\ v = Argument(i, rows, j, n)
  OBVIOUS
<1>3. /\ M \subseteq 1..Len(rows) /\ n \notin M /\ Cardinality(M) \in Nat
      /\ TakenOf(i, rows, n, j, x) = M \cup {n}
      /\ Cardinality(TakenOf(i, rows, n, j, x)) = Cardinality(M) + 1
  <2>1. PICK S : S = Members(i, rows, j, x)
    OBVIOUS
  <2>2. S \subseteq 1..Len(rows) /\ Len(rows) \in Nat /\ n \in S
    BY <2>1, MembersIn
  <2>3. /\ UpTo(S, k) \subseteq 1..Len(rows) /\ n \notin UpTo(S, k) /\ Cardinality(UpTo(S, k)) \in Nat
        /\ UpTo(S, n) = UpTo(S, k) \cup {n} /\ Cardinality(UpTo(S, n)) = Cardinality(UpTo(S, k)) + 1
    <3>1. UpTo(S, k) \subseteq 1..Len(rows)
      BY <2>2, UpToNext
    <3>2. n \notin UpTo(S, k) /\ Cardinality(UpTo(S, k)) \in Nat
      BY <2>2, UpToNext
    <3>3. UpTo(S, n) = UpTo(S, k) \cup {n}
      <4>1. /\ \A y : y \in UpTo(S, k) <=> y \in S /\ y <= k
            /\ \A y : y \in UpTo(S, n) <=> y \in S /\ y <= n
        BY DEF UpTo
      <4>2. \A y \in S : y <= n <=> y <= k \/ y = n
        BY <2>2
      <4>3. \A y : y \in UpTo(S, n) <=> y \in UpTo(S, k) \/ y = n
        BY <2>2, <4>1, <4>2
      <4> QED BY <4>3
    <3>4. Cardinality(UpTo(S, n)) = Cardinality(UpTo(S, k)) + 1
      <4>1. k + 1 \in S
        BY <2>2
      <4>2. Cardinality(UpTo(S, k + 1)) = Cardinality(UpTo(S, k)) + 1
        BY <2>2, <4>1, RankNext
      <4> QED BY <4>2
    <3> QED BY <3>1, <3>2, <3>3, <3>4
  <2>4. M = UpTo(S, k) /\ TakenOf(i, rows, n, j, x) = UpTo(S, n)
    BY <1>2, <2>1 DEF TakenOf
  <2> QED BY <2>3, <2>4
<1>5. n \in 1..Len(rows) /\ Len(rows) \in Nat /\ DOMAIN rows = 1..Len(rows)
  BY MembersIn DEF IsSequence
<1>6. /\ acc = [sum |-> acc.sum, count |-> acc.count, min |-> acc.min, max |-> acc.max]
      /\ agg.func \in {"COUNT", "SUM", "AVG"} => acc.count = Cardinality(M)
      /\ agg.func \in {"SUM", "AVG"} => acc.sum = W[j][M]
      /\ agg.func = "MIN" =>
           /\ M = {} => acc.min = Null
           /\ M # {} => \E y \in M : /\ acc.min = Argument(i, rows, j, y)
                                     /\ \A z \in M : ~LiteralLess(Argument(i, rows, j, z), acc.min)
      /\ agg.func = "MAX" =>
           /\ M = {} => acc.max = Null
           /\ M # {} => \E y \in M : /\ acc.max = Argument(i, rows, j, y)
                                     /\ \A z \in M : ~LiteralLess(acc.max, Argument(i, rows, j, z))
  BY <1>1, <1>2 DEF AccOf
<1>7. /\ agg.func # "COUNT" => agg.func \in {"SUM", "AVG", "MIN", "MAX"} /\ agg.arg.kind # "star"
      /\ agg.arg.kind = "star" \/ ~IsNull(v)
      /\ agg.func # "COUNT" => v[2] \in Int /\ ~IsNull(v)
  BY <1>1, <1>2, <1>5 DEF ArgumentsCompare, Members
<1>8. CASE agg.func = "COUNT"
  <2>1. Accumulate(acc, agg, v) = [acc EXCEPT !.count = @ + 1]
    BY <1>7, <1>8 DEF Accumulate
  <2>2. PICK new : new = [sum |-> acc.sum, count |-> acc.count + 1, min |-> acc.min, max |-> acc.max]
    OBVIOUS
  <2>3. Accumulate(acc, agg, v) = new
    BY <1>6, <2>1, <2>2
  <2>4. AccOf(i, rows, W, n, j, x, new)
    BY <1>1, <1>3, <1>6, <1>8, <2>2 DEF AccOf
  <2> QED BY <1>1, <1>2, <2>3, <2>4
<1>9. CASE agg.func \in {"SUM", "AVG"}
  <2>1. Accumulate(acc, agg, v) = [acc EXCEPT !.sum = @ + v[2], !.count = @ + 1]
    BY <1>7, <1>9 DEF Accumulate
  <2>2. PICK new : new = [sum |-> acc.sum + v[2], count |-> acc.count + 1, min |-> acc.min, max |-> acc.max]
    OBVIOUS
  <2>3. Accumulate(acc, agg, v) = new
    BY <1>6, <2>1, <2>2
  <2>4. W[j][M \cup {n}] = acc.sum + v[2]
    <3>1. Number(i, rows, j)[n] = v[2]
      BY <1>2, <1>5, <1>7, <1>9 DEF Number
    <3>2. Additive(Len(rows), Number(i, rows, j), W[j])
      BY DEF Totals
    <3>3. M \cup {n} \in SUBSET (1..Len(rows)) /\ n \in M \cup {n} /\ (M \cup {n}) \ {n} = M
      BY <1>3, <1>5
    <3>4. W[j][M \cup {n}] = Number(i, rows, j)[n] + W[j][(M \cup {n}) \ {n}] /\ W[j][M] \in Int
      BY <1>3, <3>2, <3>3 DEF Additive
    <3>5. acc.sum = W[j][M]
      BY <1>6, <1>9
    <3>6. W[j][M \cup {n}] = v[2] + acc.sum /\ acc.sum \in Int /\ v[2] \in Int
      BY <1>7, <1>9, <3>1, <3>3, <3>4, <3>5
    <3> QED BY <3>6
  <2>5. AccOf(i, rows, W, n, j, x, new)
    BY <1>1, <1>3, <1>6, <1>9, <2>2, <2>4 DEF AccOf
  <2> QED BY <1>1, <1>2, <2>3, <2>5
<1>10. CASE agg.func = "MIN"
  <2>1. PICK new : /\ new = Accumulate(acc, agg, v)
                   /\ new = IF IsNull(acc.min) \/ LiteralLess(v, acc.min) THEN [acc EXCEPT !.min = v] ELSE acc
    BY <1>7, <1>10 DEF Accumulate
  <2>2. /\ new = [sum |-> new.sum, count |-> new.count, min |-> new.min, max |-> new.max]
        /\ new.min = IF IsNull(acc.min) \/ LiteralLess(v, acc.min) THEN v ELSE acc.min
    BY <1>6, <2>1
  <2>3. \E y \in M \cup {n} : /\ new.min = Argument(i, rows, j, y)
                              /\ \A z \in M \cup {n} : ~LiteralLess(Argument(i, rows, j, z), new.min)
    <3>1. ~LiteralLess(v, v)
      BY <1>7, <1>10 DEF LiteralLess
    <3>2. CASE M = {}
      <4>1. new.min = v
        BY <1>6, <1>10, <2>2, <3>2 DEF IsNull
      <4> QED BY <1>2, <3>1, <3>2, <4>1
    <3>3. CASE M # {}
      <4>1. PICK y \in M : /\ acc.min = Argument(i, rows, j, y)
                           /\ \A z \in M : ~LiteralLess(Argument(i, rows, j, z), acc.min)
        BY <1>6, <1>10, <3>3
      <4>2. \A z \in M : Argument(i, rows, j, z)[2] \in Int /\ ~IsNull(Argument(i, rows, j, z))
        <5> SUFFICES ASSUME NEW z \in M
                     PROVE  Argument(i, rows, j, z)[2] \in Int /\ ~IsNull(Argument(i, rows, j, z))
          OBVIOUS
        <5>1. z \in Members(i, rows, j, x) /\ z \in DOMAIN rows
          BY <1>2, <1>3, <1>5 DEF TakenOf, UpTo
        <5> QED BY <1>1, <1>7, <1>10, <5>1 DEF Members, ArgumentsCompare
      <4>3. ~IsNull(acc.min) /\ acc.min[2] \in Int
        BY <4>1, <4>2
      <4>4. CASE LiteralLess(v, acc.min)
        <5>1. new.min = v
          BY <2>2, <4>4
        <5>2. \A z \in M : ~LiteralLess(Argument(i, rows, j, z), v)
          BY <1>7, <1>10, <4>1, <4>2, <4>3, <4>4 DEF LiteralLess
        <5> QED BY <1>2, <3>1, <5>1, <5>2
      <4>5. CASE ~LiteralLess(v, acc.min)
        BY <1>2, <2>2, <4>1, <4>3, <4>5
      <4> QED BY <4>4, <4>5
    <3> QED BY <3>2, <3>3
  <2>4. AccOf(i, rows, W, n, j, x, new)
    BY <1>1, <1>3, <1>10, <2>2, <2>3 DEF AccOf
  <2> QED BY <1>1, <1>2, <2>1, <2>4
<1>11. CASE agg.func = "MAX"
  <2>1. PICK new : /\ new = Accumulate(acc, agg, v)
                   /\ new = IF IsNull(acc.max) \/ LiteralLess(acc.max, v) THEN [acc EXCEPT !.max = v] ELSE acc
    BY <1>7, <1>11 DEF Accumulate
  <2>2. /\ new = [sum |-> new.sum, count |-> new.count, min |-> new.min, max |-> new.max]
        /\ new.max = IF IsNull(acc.max) \/ LiteralLess(acc.max, v) THEN v ELSE acc.max
    BY <1>6, <2>1
  <2>3. \E y \in M \cup {n} : /\ new.max = Argument(i, rows, j, y)
                              /\ \A z \in M \cup {n} : ~LiteralLess(new.max, Argument(i, rows, j, z))
    <3>1. ~LiteralLess(v, v)
      BY <1>7, <1>11 DEF LiteralLess
    <3>2. CASE M = {}
      <4>1. new.max = v
        BY <1>6, <1>11, <2>2, <3>2 DEF IsNull
      <4> QED BY <1>2, <3>1, <3>2, <4>1
    <3>3. CASE M # {}
      <4>1. PICK y \in M : /\ acc.max = Argument(i, rows, j, y)
                           /\ \A z \in M : ~LiteralLess(acc.max, Argument(i, rows, j, z))
        BY <1>6, <1>11, <3>3
      <4>2. \A z \in M : Argument(i, rows, j, z)[2] \in Int /\ ~IsNull(Argument(i, rows, j, z))
        <5> SUFFICES ASSUME NEW z \in M
                     PROVE  Argument(i, rows, j, z)[2] \in Int /\ ~IsNull(Argument(i, rows, j, z))
          OBVIOUS
        <5>1. z \in Members(i, rows, j, x) /\ z \in DOMAIN rows
          BY <1>2, <1>3, <1>5 DEF TakenOf, UpTo
        <5> QED BY <1>1, <1>7, <1>11, <5>1 DEF Members, ArgumentsCompare
      <4>3. ~IsNull(acc.max) /\ acc.max[2] \in Int
        BY <4>1, <4>2
      <4>4. CASE LiteralLess(acc.max, v)
        <5>1. new.max = v
          BY <2>2, <4>4
        <5>2. \A z \in M : ~LiteralLess(v, Argument(i, rows, j, z))
          BY <1>7, <1>11, <4>1, <4>2, <4>3, <4>4 DEF LiteralLess
        <5> QED BY <1>2, <3>1, <5>1, <5>2
      <4>5. CASE ~LiteralLess(acc.max, v)
        BY <1>2, <2>2, <4>1, <4>3, <4>5
      <4> QED BY <4>4, <4>5
    <3> QED BY <3>2, <3>3
  <2>4. AccOf(i, rows, W, n, j, x, new)
    BY <1>1, <1>3, <1>11, <2>2, <2>3 DEF AccOf
  <2> QED BY <1>1, <1>2, <2>1, <2>4
<1> QED BY <1>7, <1>8, <1>9, <1>10, <1>11

\* A group after k rows, and the groups in the order of their first rows.
GroupAt(i, rows, W, k, x, grp) ==
  /\ grp = [key |-> GroupKey(i, rows[x]), str |-> KeyString(GroupKey(i, rows[x])), accs |-> grp.accs]
  /\ \A j \in DOMAIN Op(i).aggs : AccOf(i, rows, W, k, j, x, grp.accs[j])
Grouped(i, rows, W, k, groups) ==
  /\ IsSequence(groups) /\ Len(groups) = Cardinality(UpTo(Firsts(i, rows), k))
  /\ \A q \in 1..Len(groups) : GroupAt(i, rows, W, k, Nth(Firsts(i, rows), q), groups[q])

LEMMA FirstsIn ==
  ASSUME NEW i, NEW rows, IsSequence(rows)
  PROVE  /\ Firsts(i, rows) \subseteq 1..Len(rows) /\ Len(rows) \in Nat /\ DOMAIN rows = 1..Len(rows)
         /\ \A x \in Firsts(i, rows) : \A y \in Firsts(i, rows) : SameGroup(i, rows, x, y) => x = y
<1>1. Firsts(i, rows) \subseteq 1..Len(rows) /\ Len(rows) \in Nat /\ DOMAIN rows = 1..Len(rows)
  BY DEF Firsts, IsSequence
<1>2. ASSUME NEW x \in Firsts(i, rows), NEW y \in Firsts(i, rows), SameGroup(i, rows, x, y), x < y
      PROVE  FALSE
  <2>1. x \in 1..(y - 1)
    BY <1>1, <1>2
  <2>2. ~SameGroup(i, rows, y, x)
    BY <2>1 DEF Firsts
  <2> QED BY <1>2, <2>2 DEF SameGroup
<1>3. ASSUME NEW x \in Firsts(i, rows), NEW y \in Firsts(i, rows), SameGroup(i, rows, x, y)
      PROVE  x = y
  <2>1. SameGroup(i, rows, y, x)
    BY <1>3 DEF SameGroup
  <2>2. ~(x < y) /\ ~(y < x)
    BY <1>2, <1>3, <2>1
  <2>3. x \in Nat /\ y \in Nat
    BY <1>1
  <2> QED BY <2>2, <2>3
<1> QED BY <1>1, <1>3

LEMMA FirstOf ==
  ASSUME NEW i, NEW rows, IsSequence(rows), NEW x \in DOMAIN rows
  PROVE  \E f \in Firsts(i, rows) : f <= x /\ SameGroup(i, rows, f, x)
<1> DEFINE D == {y \in 1..x : SameGroup(i, rows, y, x)}
<1>1. Len(rows) \in Nat /\ DOMAIN rows = 1..Len(rows) /\ x \in 1..Len(rows)
  BY DEF IsSequence
<1>2. x \in D /\ D \subseteq Nat
  BY <1>1 DEF SameGroup
<1>3. PICK f \in D : \A y \in D : f <= y
  BY <1>2, LeastOf
<1>4. f \in DOMAIN rows /\ f <= x /\ f \in 1..x
  BY <1>1, <1>3
<1>5. ASSUME NEW y \in 1..(f - 1) PROVE ~SameGroup(i, rows, f, y)
  <2> SUFFICES ASSUME SameGroup(i, rows, f, y) PROVE FALSE
    OBVIOUS
  <2>1. SameGroup(i, rows, y, x)
    BY <1>3 DEF SameGroup
  <2>2. y \in 1..x /\ y < f
    BY <1>1, <1>4
  <2>3. y \in D
    BY <2>1, <2>2
  <2> QED BY <1>3, <1>4, <2>2, <2>3
<1>6. f \in Firsts(i, rows)
  BY <1>4, <1>5 DEF Firsts
<1> QED BY <1>3, <1>4, <1>6

\* AddRow adds the row to the only group with its key string.
Added(i, accs, row) ==
  [j \in DOMAIN Op(i).aggs |-> Accumulate(accs[j], Op(i).aggs[j], Arguments(i, row)[j])]
NewGroup(i, row) ==
  [key |-> GroupKey(i, row), str |-> KeyString(GroupKey(i, row)),
   accs |-> [j \in DOMAIN Op(i).aggs |-> NoInput]]
Entered(i, groups, row, all) ==
  all = IF \E g \in DOMAIN groups : groups[g].str = KeyString(GroupKey(i, row)) THEN groups
        ELSE Append(groups, NewGroup(i, row))

Updated(all, q, accs) == [all EXCEPT ![q].accs = accs]

LEMMA AddRowAt ==
  ASSUME NEW i, NEW row, NEW groups, NEW all, NEW q \in DOMAIN all, Entered(i, groups, row, all),
         \A g \in DOMAIN all : all[g].str = KeyString(GroupKey(i, row)) <=> g = q
  PROVE  AddRow(i, groups, row) = Updated(all, q, Added(i, all[q].accs, row))
<1> DEFINE key == GroupKey(i, row)
           args == Arguments(i, row)
<1>1. DOMAIN args = DOMAIN Op(i).aggs
  BY DEF Arguments
<1>2. all = IF \E g \in DOMAIN groups : groups[g].str = KeyString(key) THEN groups
            ELSE Append(groups, [key |-> key, str |-> KeyString(key),
                                 accs |-> [j \in DOMAIN args |-> NoInput]])
  BY <1>1 DEF Entered, NewGroup
<1> DEFINE g == CHOOSE g \in DOMAIN all : all[g].str = KeyString(key)
<1>3. AddRow(i, groups, row) =
        [all EXCEPT ![g].accs = [j \in DOMAIN args |-> Accumulate(all[g].accs[j], Op(i).aggs[j], args[j])]]
  BY <1>2 DEF AddRow
<1>4. g = q
  OBVIOUS
<1> HIDE DEF g, key
<1>5. [j \in DOMAIN args |-> Accumulate(all[q].accs[j], Op(i).aggs[j], args[j])] = Added(i, all[q].accs, row)
  BY <1>1 DEF Added
<1>6. AddRow(i, groups, row) =
        [all EXCEPT ![q].accs = [j \in DOMAIN args |-> Accumulate(all[q].accs[j], Op(i).aggs[j], args[j])]]
  BY <1>3, <1>4
<1> DEFINE accs == [j \in DOMAIN args |-> Accumulate(all[q].accs[j], Op(i).aggs[j], args[j])]
<1>7. AddRow(i, groups, row) = [all EXCEPT ![q].accs = accs] /\ accs = Added(i, all[q].accs, row)
  BY <1>5, <1>6
<1> HIDE DEF accs
<1> QED BY <1>7 DEF Updated

\* The groups before the n-th row is added, with the one that it opens, and the
\* place of its group.
Met(i, rows, W, k, n, all, q) ==
  /\ IsSequence(all) /\ Len(all) = Cardinality(UpTo(Firsts(i, rows), n)) /\ q \in 1..Len(all)
  /\ \A p \in 1..Len(all) : GroupAt(i, rows, W, k, Nth(Firsts(i, rows), p), all[p])
  /\ \A p \in 1..Len(all) : SameGroup(i, rows, Nth(Firsts(i, rows), p), n) <=> p = q

LEMMA NewGroupAt ==
  ASSUME NEW i, NEW rows, IsSequence(rows), NEW W, Totals(i, rows, W), NEW k \in Nat, NEW n, n = k + 1,
         n \in Firsts(i, rows)
  PROVE  GroupAt(i, rows, W, k, n, NewGroup(i, rows[n]))
<1>1. Len(rows) \in Nat /\ n \in 1..Len(rows)
  BY FirstsIn
<1>2. ASSUME NEW j \in DOMAIN Op(i).aggs PROVE AccOf(i, rows, W, k, j, n, NoInput)
  <2>1. TakenOf(i, rows, k, j, n) = {}
    <3> SUFFICES ASSUME NEW y \in TakenOf(i, rows, k, j, n) PROVE FALSE
      OBVIOUS
    <3>1. y \in DOMAIN rows /\ y <= k /\ SameGroup(i, rows, n, y)
      BY DEF TakenOf, UpTo, Members
    <3>2. y \in 1..(n - 1)
      <4>1. y \in Nat /\ y >= 1
        BY <3>1, FirstsIn
      <4> QED BY <3>1, <4>1
    <3> QED BY <3>1, <3>2 DEF Firsts
  <2>2. Cardinality({}) = 0 /\ W[j][{}] = 0
    BY FS_EmptySet DEF Totals, Additive
  <2> QED BY <2>1, <2>2 DEF AccOf, NoInput
<1>3. PICK grp : grp = NewGroup(i, rows[n])
  OBVIOUS
<1>4. /\ grp.accs = [j \in DOMAIN Op(i).aggs |-> NoInput]
      /\ grp = [key |-> GroupKey(i, rows[n]), str |-> KeyString(GroupKey(i, rows[n])), accs |-> grp.accs]
  BY <1>3 DEF NewGroup
<1>5. \A j \in DOMAIN Op(i).aggs : grp.accs[j] = NoInput
  BY <1>4
<1> QED BY <1>2, <1>3, <1>4, <1>5 DEF GroupAt

LEMMA GroupsMet ==
  ASSUME NEW i, NEW rows, IsSequence(rows), NEW W, Totals(i, rows, W), NEW k \in Nat, NEW n, n = k + 1,
         n <= Len(rows), NEW groups, Grouped(i, rows, W, k, groups)
  PROVE  \E all, q : Met(i, rows, W, k, n, all, q) /\ Entered(i, groups, rows[n], all)
<1>1. PICK F, L, c : F = Firsts(i, rows) /\ L = Len(rows) /\ c = Len(groups)
  OBVIOUS
<1>2. /\ F \subseteq 1..L /\ L \in Nat /\ DOMAIN rows = 1..L
      /\ \A x \in F : \A y \in F : SameGroup(i, rows, x, y) => x = y
  BY <1>1, FirstsIn
<1>3. IsSequence(groups) /\ c = Cardinality(UpTo(F, k)) /\ c \in Nat /\ DOMAIN groups = 1..c
  BY <1>1 DEF Grouped, IsSequence
<1>4. n \in Nat /\ n \in 1..L
  BY <1>1, <1>2
<1>5. Cardinality(F) \in Nat /\ c <= Cardinality(F)
  <2>1. Cardinality(F) \in Nat /\ Cardinality(UpTo(F, k)) \in 0..Cardinality(F)
    BY <1>2, RankNext
  <2> QED BY <1>3, <2>1
<1>6. ASSUME NEW p \in 1..c
      PROVE  /\ Nth(F, p) \in F /\ Cardinality(UpTo(F, Nth(F, p))) = p /\ Nth(F, p) \in Nat /\ Nth(F, p) <= k
             /\ GroupAt(i, rows, W, k, Nth(F, p), groups[p])
             /\ groups[p].str = KeyString(GroupKey(i, rows[Nth(F, p)]))
  <2>1. p \in 1..Cardinality(F)
    BY <1>3, <1>5
  <2>2. Nth(F, p) \in F /\ Cardinality(UpTo(F, Nth(F, p))) = p
    BY <1>2, <2>1, NthIn
  <2>3. Nth(F, p) \in Nat
    <3>1. Nth(F, p) \in 1..L
      BY <1>2, <2>2
    <3> QED BY <1>2, <3>1
  <2>4. Nth(F, p) <= k
    <3> SUFFICES ASSUME k < Nth(F, p) PROVE FALSE
      BY <2>3
    <3>1. PICK f : f = Nth(F, p)
      OBVIOUS
    <3>2. f \in F /\ f \in Nat /\ k < f /\ k <= f
      BY <2>2, <2>3, <3>1
    <3>3. Cardinality(UpTo(F, k)) < Cardinality(UpTo(F, f))
      BY <1>2, <3>2, RankLess
    <3> QED BY <1>3, <2>2, <3>1, <3>3
  <2>5. GroupAt(i, rows, W, k, Nth(F, p), groups[p])
    BY <1>1 DEF Grouped
  <2> QED BY <2>2, <2>3, <2>4, <2>5 DEF GroupAt
<1>7. Cardinality(UpTo(F, n)) = IF n \in F THEN c + 1 ELSE c
  BY <1>2, <1>3, RankNext
<1>8. CASE n \notin F
  <2>1. PICK f \in F : f <= n /\ SameGroup(i, rows, f, n)
    BY <1>1, <1>2, <1>4, FirstOf
  <2>2. f \in Nat /\ f <= k
    BY <1>2, <1>8, <2>1
  <2>3. PICK q : q = Cardinality(UpTo(F, f))
    OBVIOUS
  <2>4. q \in 1..Cardinality(F) /\ Nth(F, q) = f
    BY <1>2, <2>3, NthRank
  <2>5. q \in 1..c
    <3>1. Cardinality(UpTo(F, f)) <= Cardinality(UpTo(F, k))
      BY <1>2, <2>2, RankLess
    <3> QED BY <1>3, <1>5, <2>3, <2>4, <3>1
  <2>6. ASSUME NEW p \in 1..c
        PROVE  SameGroup(i, rows, Nth(F, p), n) <=> p = q
    <3>1. SameGroup(i, rows, Nth(F, p), n) => SameGroup(i, rows, Nth(F, p), f)
      BY <2>1 DEF SameGroup
    <3>2. SameGroup(i, rows, Nth(F, p), n) => Nth(F, p) = f
      BY <1>2, <1>6, <3>1
    <3> QED BY <1>6, <2>1, <2>3, <2>4, <3>2
  <2>7. groups[q].str = KeyString(GroupKey(i, rows[n]))
    BY <1>6, <2>1, <2>4, <2>5 DEF SameGroup
  <2>8. Met(i, rows, W, k, n, groups, q)
    BY <1>1, <1>3, <1>6, <1>7, <1>8, <2>5, <2>6 DEF Met
  <2> QED BY <1>3, <2>5, <2>7, <2>8 DEF Entered
<1>9. CASE n \in F
  <2>1. ASSUME NEW p \in 1..c
        PROVE  ~SameGroup(i, rows, Nth(F, p), n)
    <3>1. Nth(F, p) # n
      BY <1>4, <1>6
    <3> QED BY <1>2, <1>6, <1>9, <3>1
  <2>2. ASSUME NEW p \in 1..c PROVE groups[p].str # KeyString(GroupKey(i, rows[n]))
    BY <1>6, <2>1 DEF SameGroup
  <2>3. PICK all, q : all = Append(groups, NewGroup(i, rows[n])) /\ q = c + 1
    OBVIOUS
  <2>4. /\ IsSequence(all) /\ Len(all) = q /\ all[q] = NewGroup(i, rows[n])
        /\ \A p \in 1..c : all[p] = groups[p]
    BY <1>1, <1>3, <2>3, SequenceAppend, AppendElements
  <2>5. Nth(F, q) = n
    <3>1. Cardinality(UpTo(F, n)) = q
      BY <1>7, <1>9, <2>3
    <3>2. Nth(F, Cardinality(UpTo(F, n))) = n
      BY <1>2, <1>9, NthRank
    <3> QED BY <3>1, <3>2
  <2>6. GroupAt(i, rows, W, k, n, all[q])
    BY <1>1, <1>9, <2>4, NewGroupAt
  <2>7. \A p \in 1..q : p = q \/ p \in 1..c
    BY <1>3, <2>3
  <2>8. \A p \in 1..q : GroupAt(i, rows, W, k, Nth(F, p), all[p])
    BY <1>6, <2>4, <2>5, <2>6, <2>7
  <2>9. SameGroup(i, rows, n, n)
    BY DEF SameGroup
  <2>10. \A p \in 1..q : SameGroup(i, rows, Nth(F, p), n) <=> p = q
    BY <1>3, <2>1, <2>3, <2>5, <2>7, <2>9
  <2>11. Met(i, rows, W, k, n, all, q)
    BY <1>1, <1>3, <1>7, <1>9, <2>3, <2>4, <2>8, <2>10 DEF Met
  <2>12. Entered(i, groups, rows[n], all)
    BY <1>3, <2>2, <2>3 DEF Entered
  <2> QED BY <2>11, <2>12
<1> QED BY <1>8, <1>9

LEMMA GroupedNext ==
  ASSUME NEW i, NEW rows, IsSequence(rows), NEW W, Totals(i, rows, W), ArgumentsCompare(i, rows),
         NEW k \in Nat, NEW n, n = k + 1, n <= Len(rows), NEW groups, Grouped(i, rows, W, k, groups)
  PROVE  Grouped(i, rows, W, n, AddRow(i, groups, rows[n]))
<1>1. PICK all, q : Met(i, rows, W, k, n, all, q) /\ Entered(i, groups, rows[n], all)
  BY GroupsMet
<1>2. PICK F, c : F = Firsts(i, rows) /\ c = Len(all)
  OBVIOUS
<1>3. /\ IsSequence(all) /\ c = Cardinality(UpTo(F, n)) /\ q \in 1..c /\ c \in Nat /\ DOMAIN all = 1..c
      /\ \A p \in 1..c : GroupAt(i, rows, W, k, Nth(F, p), all[p])
      /\ \A p \in 1..c : SameGroup(i, rows, Nth(F, p), n) <=> p = q
  BY <1>1, <1>2 DEF Met, IsSequence
<1>4. \A p \in 1..c : all[p].str = KeyString(GroupKey(i, rows[Nth(F, p)]))
  BY <1>3 DEF GroupAt
<1>5. \A p \in DOMAIN all : all[p].str = KeyString(GroupKey(i, rows[n])) <=> p = q
  BY <1>3, <1>4 DEF SameGroup
<1>6. PICK new, accs : /\ accs = Added(i, all[q].accs, rows[n])
                       /\ new = [all EXCEPT ![q].accs = accs] /\ new = AddRow(i, groups, rows[n])
  <2>1. q \in DOMAIN all
    BY <1>3
  <2>2. AddRow(i, groups, rows[n]) = Updated(all, q, Added(i, all[q].accs, rows[n]))
    BY <1>1, <1>5, <2>1, AddRowAt
  <2>3. PICK accs : accs = Added(i, all[q].accs, rows[n])
    OBVIOUS
  <2>4. AddRow(i, groups, rows[n]) = [all EXCEPT ![q].accs = accs]
    BY <2>2, <2>3 DEF Updated
  <2> QED BY <2>3, <2>4
<1>7. /\ IsSequence(new) /\ Len(new) = c /\ new[q] = [all[q] EXCEPT !.accs = accs]
      /\ \A p \in 1..c : p # q => new[p] = all[p]
  <2>1. new = [p \in 1..c |-> new[p]]
    BY <1>3, <1>6
  <2>2. IsSequence(new) /\ Len(new) = c
    BY <1>3, <2>1, SequenceFcn
  <2> QED BY <1>3, <1>6, <2>2
<1>8. n \in DOMAIN rows
  BY DEF IsSequence
<1>9. ASSUME NEW p \in 1..c, p # q PROVE GroupAt(i, rows, W, n, Nth(F, p), new[p])
  <2>1. new[p] = all[p] /\ GroupAt(i, rows, W, k, Nth(F, p), all[p]) /\ ~SameGroup(i, rows, Nth(F, p), n)
    BY <1>3, <1>7, <1>9
  <2>2. ASSUME NEW j \in DOMAIN Op(i).aggs PROVE AccOf(i, rows, W, n, j, Nth(F, p), all[p].accs[j])
    <3>1. n \notin Members(i, rows, j, Nth(F, p))
      BY <2>1 DEF Members
    <3>2. AccOf(i, rows, W, k, j, Nth(F, p), all[p].accs[j])
      BY <2>1 DEF GroupAt
    <3> QED BY <3>1, <3>2, AccSkips
  <2> QED BY <2>1, <2>2 DEF GroupAt
<1>10. GroupAt(i, rows, W, n, Nth(F, q), new[q])
  <2>1. PICK x : x = Nth(F, q)
    OBVIOUS
  <2>2. GroupAt(i, rows, W, k, x, all[q]) /\ SameGroup(i, rows, x, n)
    BY <1>3, <2>1
  <2>3. /\ all[q] = [key |-> GroupKey(i, rows[x]), str |-> KeyString(GroupKey(i, rows[x])), accs |-> all[q].accs]
        /\ \A j \in DOMAIN Op(i).aggs : AccOf(i, rows, W, k, j, x, all[q].accs[j])
    BY <2>2 DEF GroupAt
  <2>4. /\ new[q] = [key |-> GroupKey(i, rows[x]), str |-> KeyString(GroupKey(i, rows[x])), accs |-> accs]
        /\ new[q].accs = accs
    BY <1>7, <2>3
  <2>5. ASSUME NEW j \in DOMAIN Op(i).aggs PROVE AccOf(i, rows, W, n, j, x, accs[j])
    <3>1. PICK acc, agg : acc = all[q].accs[j] /\ agg = Op(i).aggs[j]
      OBVIOUS
    <3>2. accs[j] = Accumulate(acc, agg, Argument(i, rows, j, n))
      BY <1>6, <3>1 DEF Added, Argument
    <3>3. AccOf(i, rows, W, k, j, x, acc)
      BY <2>3, <3>1
    <3>4. CASE n \in Members(i, rows, j, x)
      BY <3>1, <3>2, <3>3, <3>4, AccTakes
    <3>5. CASE n \notin Members(i, rows, j, x)
      <4>1. agg.arg.kind # "star" /\ IsNull(Argument(i, rows, j, n))
        BY <1>8, <2>2, <3>1, <3>5 DEF Members
      <4>2. accs[j] = acc
        BY <3>2, <4>1 DEF Accumulate
      <4> QED BY <3>3, <3>5, <4>2, AccSkips
    <3> QED BY <3>4, <3>5
  <2> QED BY <2>1, <2>4, <2>5 DEF GroupAt
<1>11. \A p \in 1..c : GroupAt(i, rows, W, n, Nth(F, p), new[p])
  BY <1>9, <1>10
<1>12. Grouped(i, rows, W, n, new)
  BY <1>2, <1>3, <1>7, <1>11 DEF Grouped
<1> QED BY <1>6, <1>12

LEMMA GroupedAll ==
  ASSUME NEW i, NEW rows, IsSequence(rows), NEW W, Totals(i, rows, W), ArgumentsCompare(i, rows),
         NEW g, Grouping(i, rows, Len(rows), g)
  PROVE  Grouped(i, rows, W, Len(rows), g[Len(rows)])
<1>1. PICK L : L = Len(rows)
  OBVIOUS
<1>2. L \in Nat
  BY <1>1 DEF IsSequence
<1>3. Grouped(i, rows, W, 0, g[0])
  <2>1. g[0] = <<>>
    BY DEF Grouping
  <2>2. Cardinality(UpTo(Firsts(i, rows), 0)) = 0
    BY FirstsIn, RankEnds
  <2> QED BY <2>1, <2>2, SequenceEmpty DEF Grouped
<1>4. ASSUME NEW k \in 1..L, Grouped(i, rows, W, k - 1, g[k - 1]) PROVE Grouped(i, rows, W, k, g[k])
  <2>1. g[k] = AddRow(i, g[k - 1], rows[k])
    BY <1>1 DEF Grouping
  <2>2. PICK b : b = k - 1
    OBVIOUS
  <2>3. b \in Nat /\ k = b + 1 /\ k <= Len(rows) /\ Grouped(i, rows, W, b, g[b]) /\ g[k] = AddRow(i, g[b], rows[k])
    BY <1>1, <1>2, <1>4, <2>1, <2>2
  <2> QED BY <2>3, GroupedNext
<1> DEFINE S == {k \in 0..L : ~Grouped(i, rows, W, k, g[k])}
<1>5. CASE S # {}
  <2>1. S \subseteq Nat
    OBVIOUS
  <2>2. PICK k \in S : \A j \in S : k <= j
    BY <1>5, <2>1, LeastOf
  <2>3. k \in 1..L /\ k - 1 \in 0..L /\ k - 1 \notin S
    BY <1>2, <1>3, <2>2
  <2> QED BY <1>4, <2>2, <2>3
<1>6. CASE S = {}
  BY <1>1, <1>2, <1>6
<1> QED BY <1>5, <1>6

\* After all rows the state of an aggregate has the value for its group.
LEMMA ValueMeans ==
  ASSUME NEW i, NEW rows, IsSequence(rows), NEW W, Totals(i, rows, W), ArgumentsCompare(i, rows),
         NEW j \in DOMAIN Op(i).aggs, NEW x, NEW acc, AccOf(i, rows, W, Len(rows), j, x, acc)
  PROVE  Value(Op(i).aggs[j], acc) = GroupValue(i, rows, j, x)
<1>1. PICK agg, M : agg = Op(i).aggs[j] /\ M = Members(i, rows, j, x)
  OBVIOUS
<1>2. M \subseteq 1..Len(rows) /\ Len(rows) \in Nat /\ DOMAIN rows = 1..Len(rows)
  BY <1>1, MembersIn DEF IsSequence
<1>3. TakenOf(i, rows, Len(rows), j, x) = M
  BY <1>1, <1>2, RankEnds DEF TakenOf
<1>4. IsFiniteSet(M) /\ Cardinality(M) \in Nat /\ (Cardinality(M) = 0 <=> M = {})
  <2>1. IsFiniteSet(M) /\ Cardinality(M) \in Nat
    BY <1>2, RankNext
  <2> QED BY <2>1, FS_EmptySet
<1>5. /\ agg.func # "COUNT" => agg.func \in {"SUM", "AVG", "MIN", "MAX"} /\ agg.arg.kind # "star"
      /\ agg.func # "COUNT" => \A y \in M : Argument(i, rows, j, y)[2] \in Int /\ ~IsNull(Argument(i, rows, j, y))
  BY <1>1, <1>2 DEF ArgumentsCompare, Members
<1>6. CASE agg.func = "COUNT"
  BY <1>1, <1>3, <1>6 DEF AccOf, Value, GroupValue
<1>7. CASE agg.func \in {"SUM", "AVG"}
  <2>1. acc.sum = W[j][M] /\ acc.count = Cardinality(M)
    BY <1>1, <1>3, <1>7 DEF AccOf
  <2>2. \A y \in M : Number(i, rows, j)[y] = Argument(i, rows, j, y)[2] /\ Number(i, rows, j)[y] \in Int
    BY <1>2, <1>5, <1>7 DEF Number
  <2>3. Additive(Len(rows), Number(i, rows, j), W[j])
    BY DEF Totals
  <2>4. SumOver(i, rows, j, M) = W[j][M]
    <3>1. M \in SUBSET (1..Len(rows))
      BY <1>2
    <3> QED BY <1>2, <2>2, <2>3, <3>1, SumIs
  <2>5. acc.count > 0 <=> M # {}
    BY <1>4, <2>1
  <2> QED BY <1>1, <1>7, <2>1, <2>4, <2>5 DEF Value, GroupValue
<1>8. CASE agg.func = "MIN"
  <2> DEFINE vals == {Argument(i, rows, j, y) : y \in M}
  <2>1. GroupValue(i, rows, j, x) = IF M = {} THEN Null ELSE CHOOSE v \in vals : \A u \in vals : ~LiteralLess(u, v)
    BY <1>1, <1>8 DEF GroupValue
  <2>2. Value(agg, acc) = acc.min
    BY <1>8 DEF Value
  <2>3. CASE M = {}
    BY <1>1, <1>3, <1>8, <2>1, <2>2, <2>3 DEF AccOf
  <2>4. CASE M # {}
    <3>1. PICK y \in M : /\ acc.min = Argument(i, rows, j, y)
                         /\ \A z \in M : ~LiteralLess(Argument(i, rows, j, z), acc.min)
      BY <1>1, <1>3, <1>8, <2>4 DEF AccOf
    <3>2. acc.min \in vals /\ \A u \in vals : ~LiteralLess(u, acc.min)
      BY <3>1
    <3>3. ASSUME NEW v \in vals, \A u \in vals : ~LiteralLess(u, v) PROVE v = acc.min
      <4>1. PICK z \in M : v = Argument(i, rows, j, z)
        OBVIOUS
      <4>2. ~LiteralLess(v, acc.min) /\ ~LiteralLess(acc.min, v)
        BY <3>2, <3>3
      <4>3. v[2] \in Int /\ ~IsNull(v) /\ acc.min[2] \in Int /\ ~IsNull(acc.min)
        BY <1>5, <1>8, <3>1, <4>1
      <4>4. LiteralEqual(v, acc.min)
        BY <4>2, <4>3 DEF LiteralLess, LiteralEqual
      <4> QED BY <1>1, <1>2, <1>8, <3>1, <4>1, <4>4 DEF ArgumentsCompare
    <3> HIDE DEF vals
    <3>4. (CHOOSE v \in vals : \A u \in vals : ~LiteralLess(u, v)) = acc.min
      BY <3>2, <3>3
    <3> QED BY <1>1, <2>1, <2>2, <2>4, <3>4
  <2> QED BY <2>3, <2>4
<1>9. CASE agg.func = "MAX"
  <2> DEFINE vals == {Argument(i, rows, j, y) : y \in M}
  <2>1. GroupValue(i, rows, j, x) = IF M = {} THEN Null ELSE CHOOSE v \in vals : \A u \in vals : ~LiteralLess(v, u)
    BY <1>1, <1>9 DEF GroupValue
  <2>2. Value(agg, acc) = acc.max
    BY <1>9 DEF Value
  <2>3. CASE M = {}
    BY <1>1, <1>3, <1>9, <2>1, <2>2, <2>3 DEF AccOf
  <2>4. CASE M # {}
    <3>1. PICK y \in M : /\ acc.max = Argument(i, rows, j, y)
                         /\ \A z \in M : ~LiteralLess(acc.max, Argument(i, rows, j, z))
      BY <1>1, <1>3, <1>9, <2>4 DEF AccOf
    <3>2. acc.max \in vals /\ \A u \in vals : ~LiteralLess(acc.max, u)
      BY <3>1
    <3>3. ASSUME NEW v \in vals, \A u \in vals : ~LiteralLess(v, u) PROVE v = acc.max
      <4>1. PICK z \in M : v = Argument(i, rows, j, z)
        OBVIOUS
      <4>2. ~LiteralLess(v, acc.max) /\ ~LiteralLess(acc.max, v)
        BY <3>2, <3>3
      <4>3. v[2] \in Int /\ ~IsNull(v) /\ acc.max[2] \in Int /\ ~IsNull(acc.max)
        BY <1>5, <1>9, <3>1, <4>1
      <4>4. LiteralEqual(v, acc.max)
        BY <4>2, <4>3 DEF LiteralLess, LiteralEqual
      <4> QED BY <1>1, <1>2, <1>9, <3>1, <4>1, <4>4 DEF ArgumentsCompare
    <3> HIDE DEF vals
    <3>4. (CHOOSE v \in vals : \A u \in vals : ~LiteralLess(v, u)) = acc.max
      BY <3>2, <3>3
    <3> QED BY <1>1, <2>1, <2>2, <2>4, <3>4
  <2> QED BY <2>3, <2>4
<1> QED BY <1>5, <1>6, <1>7, <1>8, <1>9

LEMMA TotalsExist ==
  ASSUME NEW i, NEW rows, IsSequence(rows)
  PROVE  \E W : Totals(i, rows, W)
<1>1. Len(rows) \in Nat
  BY DEF IsSequence
<1>2. PICK W : W = [j \in DOMAIN Op(i).aggs |-> CHOOSE T : Additive(Len(rows), Number(i, rows, j), T)]
  OBVIOUS
<1>3. ASSUME NEW j \in DOMAIN Op(i).aggs PROVE Additive(Len(rows), Number(i, rows, j), W[j])
  <2>1. \A x \in 1..Len(rows) : Number(i, rows, j)[x] \in Int
    BY DEF Number
  <2>2. \E T : Additive(Len(rows), Number(i, rows, j), T)
    BY <1>1, <2>1, AdditiveExists
  <2> QED BY <1>2, <2>2
<1> QED BY <1>3 DEF Totals

\* AddRow for one row after the other leaves the groups of the whole input.
LEMMA FoldMeans ==
  ASSUME NEW i, NEW rows, IsSequence(rows), ArgumentsCompare(i, rows),
         NEW g, Grouping(i, rows, Len(rows), g)
  PROVE  Results(i, g[Len(rows)]) = Aggregation(i, rows)
<1>1. PICK W : Totals(i, rows, W)
  BY TotalsExist
<1>2. PICK F, groups : F = Firsts(i, rows) /\ groups = g[Len(rows)]
  OBVIOUS
<1>3. F \subseteq 1..Len(rows) /\ Len(rows) \in Nat /\ DOMAIN rows = 1..Len(rows)
  BY <1>2, FirstsIn
<1>4. Grouped(i, rows, W, Len(rows), groups)
  BY <1>1, <1>2, GroupedAll
<1>5. /\ IsSequence(groups) /\ Len(groups) = Cardinality(F) /\ DOMAIN groups = 1..Cardinality(F)
      /\ \A q \in 1..Cardinality(F) : GroupAt(i, rows, W, Len(rows), Nth(F, q), groups[q])
  <2>1. UpTo(F, Len(rows)) = F
    BY <1>3, RankEnds
  <2> QED BY <1>2, <1>4, <2>1 DEF Grouped, IsSequence
<1>6. rows = <<>> <=> groups = <<>>
  <2>1. rows = <<>> <=> Len(rows) = 0
    BY SequenceEmpty DEF IsSequence
  <2>2. groups = <<>> <=> Len(groups) = 0
    BY <1>5, SequenceEmpty DEF IsSequence
  <2>3. Len(rows) = 0 => F = {}
    BY <1>3
  <2>4. Len(rows) # 0 => F # {}
    <3> SUFFICES ASSUME Len(rows) # 0 PROVE F # {}
      OBVIOUS
    <3>1. 1 \in DOMAIN rows
      BY <1>3
    <3> QED BY <1>2, <3>1, FirstOf
  <2>5. IsFiniteSet(F) /\ (Cardinality(F) = 0 <=> F = {})
    BY <1>3, RankNext, FS_EmptySet
  <2> QED BY <1>5, <2>1, <2>2, <2>3, <2>4, <2>5
<1>7. CASE Op(i).by = <<>> /\ groups = <<>>
  BY <1>2, <1>6, <1>7 DEF Aggregation
<1>8. CASE ~(Op(i).by = <<>> /\ groups = <<>>)
  <2>1. ASSUME NEW q \in 1..Cardinality(F)
        PROVE  groups[q].key \o [j \in DOMAIN Op(i).aggs |-> Value(Op(i).aggs[j], groups[q].accs[j])]
               = GroupKey(i, rows[Nth(F, q)]) \o [j \in DOMAIN Op(i).aggs |-> GroupValue(i, rows, j, Nth(F, q))]
    <3>1. GroupAt(i, rows, W, Len(rows), Nth(F, q), groups[q])
      BY <1>5
    <3>2. groups[q].key = GroupKey(i, rows[Nth(F, q)])
      BY <3>1 DEF GroupAt
    <3>3. \A j \in DOMAIN Op(i).aggs :
            Value(Op(i).aggs[j], groups[q].accs[j]) = GroupValue(i, rows, j, Nth(F, q))
      BY <1>1, <3>1, ValueMeans DEF GroupAt
    <3>4. [j \in DOMAIN Op(i).aggs |-> Value(Op(i).aggs[j], groups[q].accs[j])]
          = [j \in DOMAIN Op(i).aggs |-> GroupValue(i, rows, j, Nth(F, q))]
      BY <3>3
    <3> QED BY <3>2, <3>4
  <2>2. Results(i, groups) =
          [q \in 1..Cardinality(F) |->
             groups[q].key \o [j \in DOMAIN Op(i).aggs |-> Value(Op(i).aggs[j], groups[q].accs[j])]]
    BY <1>5, <1>8 DEF Results
  <2>3. Aggregation(i, rows) =
          [q \in 1..Cardinality(F) |->
             GroupKey(i, rows[Nth(F, q)]) \o [j \in DOMAIN Op(i).aggs |-> GroupValue(i, rows, j, Nth(F, q))]]
    BY <1>2, <1>6, <1>8 DEF Aggregation
  <2> QED BY <1>2, <2>1, <2>2, <2>3
<1> QED BY <1>7, <1>8

-----------------------------------------------------------------------------
(* The rows of a node are rows that its plan stands for. *)

\* The operators compare as their expressions do: the key strings of a hash join
\* are equal where its condition holds, sort keys are NULL or numbers, and what
\* an aggregate other than COUNT takes are NULLs and numbers.
OperatorsAgree ==
  /\ plan.join = "hash" =>
       \A x \in Probed, r \in ToSet(Rights) :
         KeysMeet(left[x], r) <=> Evaluate(plan.cond, left[x] \o r, Schemas[0]) = Bool(TRUE)
  /\ \A i \in 1..Root : \A rows \in Meanings[i - 1] :
       /\ Op(i).op = "sort" => KeysCompare(i, rows)
       /\ Op(i).op = "aggregate" => ArgumentsCompare(i, rows)

LEMMA RearrangedElements ==
  ASSUME NEW s, IsSequence(s), NEW rows \in Rearranged(s, {}), NEW y \in DOMAIN rows
  PROVE  rows[y] \in ToSet(s)
<1>1. PICK p \in SetToSeqs(DOMAIN s) : rows = [x \in DOMAIN s |-> s[p[x]]]
  BY DEF Rearranged
<1>2. Len(s) \in Nat /\ DOMAIN s = 1..Len(s) /\ Cardinality(DOMAIN s) = Len(s)
  <2>1. Len(s) \in Nat /\ DOMAIN s = 1..Len(s)
    BY DEF IsSequence
  <2> QED BY <2>1, FS_Interval
<1>3. p[y] \in DOMAIN s
  BY <1>1, <1>2 DEF SetToSeqs
<1> QED BY <1>1, <1>3 DEF ToSet

LEMMA FoundMatches ==
  ASSUME PlanOK, Built, opened > 0, plan.join # "none", OperatorsAgree
  PROVE  Found(join.rows) = Matches(join.rows)
<1>1. ASSUME NEW x \in Probed, NEW y \in DOMAIN join.rows
      PROVE  (IF plan.join = "loop"
                THEN Evaluate(plan.cond, left[x] \o join.rows[y], Schemas[0]) = Bool(TRUE)
                ELSE KeysMeet(left[x], join.rows[y]))
             <=> Evaluate(plan.cond, left[x] \o join.rows[y], Schemas[0]) = Bool(TRUE)
  <2>1. CASE plan.join = "loop"
    BY <2>1
  <2>2. CASE plan.join # "loop"
    <3>1. plan.join = "hash"
      BY <2>2 DEF PlanOK
    <3>2. join.rows \in Rearranged(Rights, {}) /\ IsSequence(Rights)
      BY <3>1, RightSide, RightsMean DEF Built
    <3>3. join.rows[y] \in ToSet(Rights)
      BY <3>2, RearrangedElements
    <3> QED BY <2>2, <3>1, <3>3 DEF OperatorsAgree
  <2> QED BY <2>1, <2>2
<1>2. ASSUME NEW p \in Probed \X DOMAIN join.rows
      PROVE  p \in Found(join.rows) <=> p \in Matches(join.rows)
  <2>1. p[1] \in Probed /\ p[2] \in DOMAIN join.rows
    OBVIOUS
  <2> QED BY <1>1, <2>1 DEF Found, Matches
<1> QED BY <1>2 DEF Found, Matches

LEMMA SourceMeans ==
  ASSUME PlanOK, Built, opened > 0, OperatorsAgree
  PROVE  SourceRows \in SourceMeanings
<1>1. SourceRows = Joined(join.rows)
  BY FoundMatches DEF SourceRows, Joined
<1>2. join.rows \in IF plan.join = "hash" THEN Rearranged(Rights, {}) ELSE {Rights}
  BY RightsMean DEF Built
<1> QED BY <1>1, <1>2 DEF SourceMeanings

LEMMA NodeMeans ==
  ASSUME PlanOK, OperatorsAgree, NEW i \in 1..Root, NEW rows \in Meanings[i - 1],
         IsSequence(rows), NEW result, Makes(i, rows, result)
  PROVE  result \in Meanings[i]
<1>1. Op(i).op \in {"filter", "aggregate", "sort", "limit", "project"}
  BY DEF PlanOK
<1>2. result \in Apply(i, rows)
  <2>1. CASE Op(i).op \in {"filter", "limit", "project"}
    BY <2>1 DEF Makes, Apply
  <2>2. CASE Op(i).op = "sort"
    <3>1. IsSequence(Op(i).items) /\ KeysCompare(i, rows) /\ result \in Sorted(i, rows)
      BY <2>2 DEF PlanOK, OperatorsAgree, Makes
    <3>2. result \in Ordered(i, rows)
      BY <3>1, SortMeans
    <3> QED BY <2>2, <3>2 DEF Apply
  <2>3. CASE Op(i).op = "aggregate"
    <3>1. ArgumentsCompare(i, rows)
      BY <2>3 DEF OperatorsAgree
    <3>2. PICK g : Grouping(i, rows, Len(rows), g) /\ result = Results(i, g[Len(rows)])
      BY <2>3 DEF Makes
    <3>3. result = Aggregation(i, rows)
      BY <3>1, <3>2, FoldMeans
    <3> QED BY <2>3, <3>3 DEF Apply
  <2> QED BY <1>1, <2>1, <2>2, <2>3
<1>3. Meanings[i] = NodeMeanings(i, Meanings[i - 1])
  BY MeaningsUnfold DEF Unfolds
<1> HIDE DEF Apply
<1> QED BY <1>2, <1>3 DEF NodeMeanings

LEMMA ChainMeans ==
  ASSUME IInv, Built, OperatorsAgree, opened = Root + 1, NEW m, Chain(m),
         NEW i \in 0..Root
  PROVE  m[i] \in Meanings[i]
<1>1. PlanOK /\ Root \in Nat
  BY DEF IInv, PlanOK, IsSequence, Root
<1>2. m[0] \in Meanings[0]
  <2>1. m[0] = SourceRows /\ opened > 0
    BY <1>1 DEF Chain
  <2> QED BY <1>1, <2>1, SourceMeans, MeaningsUnfold DEF Unfolds
<1>3. ASSUME NEW k \in 1..Root, m[k - 1] \in Meanings[k - 1]
      PROVE  m[k] \in Meanings[k]
  <2>1. Makes(k, m[k - 1], m[k]) /\ IsSequence(m[k - 1])
    BY <1>1 DEF Chain
  <2> QED BY <1>1, <1>3, <2>1, NodeMeans
<1> DEFINE S == {k \in 0..Root : m[k] \notin Meanings[k]}
<1>4. CASE S # {}
  <2>1. S \subseteq Nat
    OBVIOUS
  <2>2. PICK k \in S : \A j \in S : k <= j
    BY <1>4, <2>1, LeastOf
  <2>3. k \in 1..Root /\ k - 1 \in 0..Root /\ k - 1 \notin S
    BY <1>1, <1>2, <2>2
  <2> QED BY <1>3, <2>2, <2>3
<1> QED BY <1>4

\* Whichever operators were chosen, the rows of a query that is done are an
\* answer to it (operators.cpp), for every plan and every table on which they
\* compare as the plan's expressions do: the calls of next() up and down the
\* chain, and the rows that nodes hold between them, lose and add nothing.
THEOREM ExecutionAnswers == Spec => [](OperatorsAgree => RowsAsPlanned)
<1>1. ASSUME IInv, RInv, Built, OperatorsAgree PROVE RowsAsPlanned
  <2> SUFFICES ASSUME status = "done" PROVE out \in Meanings[Root]
    BY DEF RowsAsPlanned, Answers
  <2>1. PICK m, b : Standing(m, b)
    BY <1>1 DEF RInv
  <2>2. opened = Root + 1 /\ Chain(m) /\ out = m[Root]
    BY <1>1, <2>1, DoneRows
  <2>3. Root \in 0..Root
    BY <1>1 DEF IInv, PlanOK, IsSequence, Root
  <2> QED BY <1>1, <2>2, <2>3, ChainMeans
<1> QED BY <1>1, ExecutionInvariant, RowsInvariant, BuiltAlways, PTL

\* The actual rows that EXPLAIN ANALYZE prints (rows_produced of executor.hpp)
\* are the sizes of the nodes' results, unless a LIMIT above stopped asking.
THEOREM ExecutionActualRows == Spec => [](OperatorsAgree => ActualRows)
<1>1. ASSUME IInv, RInv, Built, OperatorsAgree, LimitStops, CountsAddUp PROVE ActualRows
  <2> SUFFICES ASSUME status = "done", NEW i \in 0..Root, NoLimitAbove(i)
               PROVE  \E rows \in Meanings[i] : produced[i] = Len(rows)
    BY <1>1 DEF ActualRows
  <2>1. PICK m, b : Standing(m, b)
    BY <1>1 DEF RInv
  <2>2. opened = Root + 1 /\ Chain(m) /\ produced[i] = Len(m[i])
    BY <1>1, <2>1, DoneRows
  <2>3. m[i] \in Meanings[i]
    BY <1>1, <2>2, ChainMeans
  <2> QED BY <2>2, <2>3
<1> QED BY <1>1, ExecutionInvariant, RowsInvariant, BuiltAlways, LimitNeverOverfetches, ActualRowsAddUp, PTL

\* Without a hash join, a sort or an aggregate nothing is asked of the data: the
\* nested loops, the filters, the projections and the limits (operators.cpp)
\* return exactly what the plan means.
THEOREM StreamedAnswers ==
  Spec => [](/\ plan.join # "hash"
             /\ \A i \in 1..Root : Op(i).op \notin {"sort", "aggregate"}
             => RowsAsPlanned /\ ActualRows)
<1>1. ASSUME plan.join # "hash", \A i \in 1..Root : Op(i).op \notin {"sort", "aggregate"}
      PROVE  OperatorsAgree
  BY <1>1 DEF OperatorsAgree
<1> QED BY <1>1, ExecutionAnswers, ExecutionActualRows, PTL
=============================================================================
