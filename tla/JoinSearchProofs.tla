-------------------------- MODULE JoinSearchProofs --------------------------
(***************************************************************************)
(* Proofs about the join-order search, for any tables, any number of       *)
(* relations and any predicates between them.                              *)
(***************************************************************************)
EXTENDS JoinSearch, FiniteSetTheorems, SequenceTheorems, WellFoundedInduction, TLAPS

-----------------------------------------------------------------------------
(* The inductive invariant *)

\* The step sequence of a plan of n relations is a function on 1..n.
IsSteps(steps, n) == steps = [i \in 1..n |-> steps[i]]

SearchTypeOK ==
  /\ input \in Inputs
  /\ DOMAIN memo \subseteq SUBSET Ids
  /\ \A i \in Ids : {i} \in DOMAIN memo
  /\ \A s \in DOMAIN memo : IsSteps(memo[s].steps, Cardinality(s))
  /\ solved \subseteq {s \in SUBSET Ids : Cardinality(s) > 1}
  /\ stage \in {"search", "planned", "refused"}

\* Every set smaller than a solved one is solved.
SolvedBySize ==
  \A t \in solved, u \in SUBSET Ids :
    1 < Cardinality(u) /\ Cardinality(u) < Cardinality(t) => u \in solved

\* A solved set that can be reached from a smaller one has a plan.
SolvedIfReachable == \A t \in solved : LastOf(t) # {} => t \in DOMAIN memo

\* What the search returned.
Outcome ==
  /\ stage = "planned" => /\ Ids \in DOMAIN memo
                          /\ best[1].steps = memo[Ids].steps
                          /\ best[1].filters = Residual
  /\ stage = "refused" => Unsolved = {} /\ Ids \notin DOMAIN memo

IInv == SearchTypeOK /\ PlansWellFormed /\ SolvedBySize /\ SolvedIfReachable /\ Outcome

-----------------------------------------------------------------------------
(* Numbers, sequences and finite sets *)

\* A set of natural numbers has a least element.
LEMMA MinExists ==
  ASSUME NEW S \in SUBSET Nat, S # {}
  PROVE  \E m \in S : \A n \in S : m <= n
<1>1. PICK m \in S : \A n \in S : ~(<<n, m>> \in OpToRel(<, Nat))
  BY NatLessThanWellFounded, WFMin
<1>2. \A n \in S : ~(n < m)
  BY <1>1 DEF OpToRel
<1> QED BY <1>2

\* A bounded set of natural numbers has a greatest element.
LEMMA MaxExists ==
  ASSUME NEW S \in SUBSET Nat, S # {}, NEW b \in Nat, \A n \in S : n <= b
  PROVE  \E m \in S : \A n \in S : n <= m
<1> DEFINE T == {x \in Nat : b - x \in S}
<1>1. \A n \in S : b - n \in T
  OBVIOUS
<1>2. T \in SUBSET Nat /\ T # {}
  BY <1>1
<1>3. PICK m \in T : \A n \in T : m <= n
  BY <1>2, MinExists
<1>4. b - m \in S /\ \A n \in S : n <= b - m
  BY <1>1, <1>3
<1> QED BY <1>4

\* Append to a step sequence.
LEMMA AppendSteps ==
  ASSUME NEW n \in Nat, NEW f, IsSteps(f, n), NEW e
  PROVE  Append(f, e) = [i \in 1..(n + 1) |-> IF i = n + 1 THEN e ELSE f[i]]
<1> DEFINE S == {f[i] : i \in 1..n} \cup {e}
<1>1. f \in [1..n -> S]
  BY DEF IsSteps
<1>2. f \in Seq(S) /\ Len(f) = n
  BY <1>1
<1>3. Append(f, e) \in Seq(S) /\ Len(Append(f, e)) = n + 1
      /\ (\A i \in 1..n : Append(f, e)[i] = f[i]) /\ Append(f, e)[n + 1] = e
  BY <1>2, AppendProperties
<1>4. Append(f, e) \in [1..(n + 1) -> S]
  BY <1>3, LenProperties
<1>5. \A i \in 1..(n + 1) : Append(f, e)[i] = IF i = n + 1 THEN e ELSE f[i]
  BY <1>3
<1> QED BY <1>4, <1>5

\* The relations of a query, and so any set of them, are finitely many.
LEMMA IdsFinite ==
  ASSUME input \in Inputs
  PROVE  /\ IsFiniteSet(Ids) /\ Ids # {}
         /\ \A s \in SUBSET Ids :
              /\ IsFiniteSet(s) /\ Cardinality(s) \in Nat
              /\ Cardinality(s) <= Cardinality(Ids)
              /\ \A r \in s : /\ Cardinality(s \ {r}) \in Nat
                              /\ Cardinality(s) = Cardinality(s \ {r}) + 1
<1>1. input.rels \in Seq(DOMAIN Tables) /\ input.rels # <<>>
  BY JoinSearchAssumption
<1>2. Ids = 1..Len(input.rels) /\ Len(input.rels) \in Nat /\ Len(input.rels) # 0
  BY <1>1, LenProperties DEF Ids
<1>3. IsFiniteSet(Ids)
  BY <1>2, FS_Interval
<1>4. ASSUME NEW s \in SUBSET Ids
      PROVE  IsFiniteSet(s) /\ Cardinality(s) \in Nat /\ Cardinality(s) <= Cardinality(Ids)
  BY <1>3, FS_Subset, FS_CardinalityType
<1>5. ASSUME NEW s \in SUBSET Ids, NEW r \in s
      PROVE  Cardinality(s \ {r}) \in Nat /\ Cardinality(s) = Cardinality(s \ {r}) + 1
  <2>1. Cardinality(s \ {r}) = Cardinality(s) - 1
    BY <1>4, FS_RemoveElement
  <2>2. Cardinality(s \ {r}) \in Nat
    BY <1>4
  <2> QED BY <2>1, <2>2, <1>4
<1> QED BY <1>2, <1>3, <1>4, <1>5

\* The graph depends on nothing that the search changes.
LEMMA SameGraph ==
  ASSUME UNCHANGED input
  PROVE  /\ Ids' = Ids
         /\ Edges' = Edges
         /\ Residual' = Residual
         /\ \A k : Refs(k)' = Refs(k)
<1>1. Ids' = Ids
  BY DEF Ids
<1>2. \A k : Refs(k)' = Refs(k)
  BY DEF Refs, FindRelation, Pred, Ids
<1>3. Edges' = Edges
  BY DEF Edges, Classifiable, Refs, FindRelation, Pred, Ids
<1>4. Residual' = Residual
  <2>1. \A i : LocalFilters(i)' = LocalFilters(i)
    BY DEF LocalFilters, Classifiable, Refs, FindRelation, Pred, Ids
  <2> QED BY <1>1, <1>3, <2>1 DEF Residual
<1> QED BY <1>1, <1>2, <1>3, <1>4

-----------------------------------------------------------------------------
(* Plans *)

\* find_connecting_edge returns an edge between the two sides.
LEMMA EdgeFound ==
  ASSUME input \in Inputs, NEW left, NEW r, Connecting(left, r) # {}
  PROVE  /\ FindConnectingEdge(left, r) \in Edges
         /\ \E x \in left : Refs(FindConnectingEdge(left, r)) = {r, x}
<1> DEFINE C == Connecting(left, r)
           k == FindConnectingEdge(left, r)
<1>1. C \in SUBSET Nat
  BY JoinSearchAssumption DEF Connecting, Edges
<1>2. \E m \in C : \A n \in C : m <= n
  BY <1>1, MinExists
<1>3. k \in C
  BY <1>2 DEF FindConnectingEdge
<1>4. k \in Edges /\ r \in Refs(k) /\ Refs(k) \ {r} \subseteq left
  BY <1>3 DEF Connecting
<1>5. PICK i, j \in Ids : i # j /\ Refs(k) = {i, j}
  BY <1>4 DEF Edges
<1> HIDE DEF C, k
<1>6. \E x \in left : Refs(k) = {r, x}
  BY <1>4, <1>5
<1> QED BY <1>4, <1>6 DEF k

\* Joining one more relation to a well-formed plan gives a well-formed plan.
LEMMA ExtendWellFormed ==
  ASSUME SearchTypeOK, PlansWellFormed, NEW s \in SUBSET Ids, NEW r \in LastOf(s)
  PROVE  WellFormed(Extend(s, r), s) /\ IsSteps(Extend(s, r).steps, Cardinality(s))
<1> DEFINE left == s \ {r}
           k == FindConnectingEdge(left, r)
           n == Cardinality(left)
           old == memo[left].steps
           c == Cheapest(Candidates(memo[left], memo[{r}], k))
           e == [rel |-> memo[{r}].steps[1].rel, edge |-> k, outer |-> c.outer, how |-> c.how]
           p == Extend(s, r)
<1>1. r \in s /\ left \in DOMAIN memo /\ Connecting(left, r) # {} /\ r \in Ids
  BY DEF LastOf
<1>2. n \in Nat /\ Cardinality(s) = n + 1
  BY <1>1, IdsFinite DEF SearchTypeOK
<1>3. k \in Edges /\ \E x \in left : Refs(k) = {r, x}
  BY <1>1, EdgeFound DEF SearchTypeOK
<1>4. p.steps = Append(old, e)
  BY DEF Extend, GenerateBestCandidate, JoinPlan
<1>5. IsSteps(old, n) /\ WellFormed(memo[left], left)
  BY <1>1 DEF SearchTypeOK, PlansWellFormed
<1>6. e.rel = r
  <2>1. {r} \in DOMAIN memo /\ Cardinality({r}) = 1
    BY <1>1, FS_Singleton DEF SearchTypeOK
  <2>2. WellFormed(memo[{r}], {r})
    BY <2>1 DEF PlansWellFormed
  <2>3. {memo[{r}].steps[i].rel : i \in 1..1} = {r}
    BY <2>1, <2>2 DEF WellFormed
  <2>4. memo[{r}].steps[1].rel \in {memo[{r}].steps[i].rel : i \in 1..1}
    OBVIOUS
  <2> QED BY <2>3, <2>4
<1> HIDE DEF c, p, k, old, n, left
<1>7. e.edge = k
  OBVIOUS
<1> HIDE DEF e
<1>8. p.steps = [i \in 1..(n + 1) |-> IF i = n + 1 THEN e ELSE old[i]]
  BY <1>2, <1>4, <1>5, AppendSteps
<1>9. IsSteps(p.steps, Cardinality(s))
  BY <1>2, <1>8 DEF IsSteps
<1>10. DOMAIN p.steps = 1..Cardinality(s)
  BY <1>2, <1>8
<1>11. DOMAIN old = 1..n /\ {old[i].rel : i \in 1..n} = left
  BY <1>5 DEF WellFormed, old, n
<1>12. {p.steps[i].rel : i \in 1..(n + 1)} = s
  <2>1. {p.steps[i].rel : i \in 1..(n + 1)} = {old[i].rel : i \in 1..n} \cup {r}
    BY <1>2, <1>6, <1>8
  <2> QED BY <2>1, <1>11, <1>1 DEF left
<1>13. ASSUME NEW i \in 2..(n + 1)
       PROVE  /\ p.steps[i].edge \in Edges
              /\ \E j \in 1..(i - 1) : Refs(p.steps[i].edge) = {p.steps[i].rel, p.steps[j].rel}
  <2>1. CASE i = n + 1
    <3>1. p.steps[i] = e
      BY <1>2, <1>8, <2>1
    <3>2. PICK x \in left : Refs(k) = {r, x}
      BY <1>3
    <3>3. PICK j \in 1..n : old[j].rel = x
      BY <1>11
    <3>4. p.steps[j].rel = x /\ j \in 1..(i - 1)
      BY <1>2, <1>8, <2>1, <3>3
    <3> QED BY <1>3, <1>6, <1>7, <3>1, <3>2, <3>4
  <2>2. CASE i # n + 1
    <3>1. i \in 1..n /\ i # 1
      BY <1>2, <2>2
    <3>2. old[i].edge \in Edges /\ \E j \in 1..(i - 1) : Refs(old[i].edge) = {old[i].rel, old[j].rel}
      BY <1>5, <1>11, <3>1 DEF WellFormed, old
    <3>3. \A j \in 1..i : p.steps[j] = old[j]
      BY <1>2, <1>8, <3>1
    <3> QED BY <1>2, <3>1, <3>2, <3>3
  <2> QED BY <2>1, <2>2
<1>14. WellFormed(p, s)
  <2>1. DOMAIN p.steps = 1..(n + 1) /\ DOMAIN p.steps \ {1} = 2..(n + 1)
    BY <1>2, <1>10
  <2>2. {p.steps[i].rel : i \in DOMAIN p.steps} = s
    BY <2>1, <1>12
  <2>3. \A i \in DOMAIN p.steps \ {1} :
          /\ p.steps[i].edge \in Edges
          /\ \E j \in 1..(i - 1) : Refs(p.steps[i].edge) = {p.steps[i].rel, p.steps[j].rel}
    BY <2>1, <1>13
  <2> QED BY <1>10, <2>2, <2>3 DEF WellFormed
<1> QED BY <1>9, <1>14 DEF p

-----------------------------------------------------------------------------
(* The invariant is inductive *)

LEMMA InitIInv == SearchInit => IInv
<1> SUFFICES ASSUME SearchInit PROVE IInv
  OBVIOUS
<1>1. input \in Inputs /\ solved = {} /\ memo = BasePlans /\ stage = "search"
  BY DEF SearchInit
<1>2. DOMAIN memo = {{i} : i \in Ids}
  BY <1>1 DEF BasePlans
<1>3. ASSUME NEW i \in Ids
      PROVE  /\ Cardinality({i}) = 1
             /\ IsSteps(memo[{i}].steps, 1)
             /\ memo[{i}].steps[1].rel = i
  <2>1. memo[{i}] = BestAccessPath(i)
    <3>1. (CHOOSE j \in {i} : TRUE) = i
      OBVIOUS
    <3> QED BY <1>1, <3>1 DEF BasePlans
  <2> DEFINE how == IF UsesIndex(i) THEN "index" ELSE "seq"
             x == [rel |-> i, edge |-> 0, outer |-> FALSE, how |-> how]
  <2>2. memo[{i}].steps = <<x>>
    <3>1. BestAccessPath(i).steps = <<x>>
      BY DEF BestAccessPath
    <3> QED BY <2>1, <3>1
  <2> HIDE DEF how
  <2>3. x.rel = i
    OBVIOUS
  <2> HIDE DEF x
  <2>4. IsSteps(memo[{i}].steps, 1) /\ memo[{i}].steps[1] = x
    BY <2>2 DEF IsSteps
  <2>5. Cardinality({i}) = 1
    BY FS_Singleton
  <2> QED BY <2>3, <2>4, <2>5
<1>4. SearchTypeOK
  BY <1>1, <1>2, <1>3 DEF SearchTypeOK
<1>5. PlansWellFormed
  <2> SUFFICES ASSUME NEW i \in Ids PROVE WellFormed(memo[{i}], {i})
    BY <1>2 DEF PlansWellFormed
  <2>1. DOMAIN memo[{i}].steps = 1..1
    BY <1>3 DEF IsSteps
  <2>2. DOMAIN memo[{i}].steps = {1}
    BY <2>1
  <2>3. {memo[{i}].steps[j].rel : j \in DOMAIN memo[{i}].steps} = {i}
    BY <1>3, <2>2
  <2> QED BY <1>3, <2>1, <2>2, <2>3 DEF WellFormed
<1>6. SolvedBySize /\ SolvedIfReachable /\ Outcome
  BY <1>1 DEF SolvedBySize, SolvedIfReachable, Outcome
<1> QED BY <1>4, <1>5, <1>6 DEF IInv

\* What LastOf and WellFormed say depends on the plan table only.
LEMMA SameSearch ==
  ASSUME UNCHANGED input
  PROVE  /\ \A left, r : Connecting(left, r)' = Connecting(left, r)
         /\ \A p, s : WellFormed(p, s)' <=> WellFormed(p, s)
<1>1. \A left, r : Connecting(left, r)' = Connecting(left, r)
  BY SameGraph DEF Connecting
<1>2. ASSUME NEW p, NEW s PROVE WellFormed(p, s)' <=> WellFormed(p, s)
  BY SameGraph DEF WellFormed
<1> QED BY <1>1, <1>2

LEMMA StutterIInv == IInv /\ UNCHANGED searchVars => IInv'
<1> SUFFICES ASSUME IInv, UNCHANGED searchVars PROVE IInv'
  OBVIOUS
<1>1. UNCHANGED <<input, solved, memo, best, stage>>
  BY DEF searchVars
<1>2. SearchTypeOK'
  BY <1>1, SameGraph DEF IInv, SearchTypeOK, IsSteps
<1>3. PlansWellFormed'
  BY <1>1, SameSearch DEF IInv, PlansWellFormed
<1>4. SolvedBySize'
  BY <1>1, SameGraph DEF IInv, SolvedBySize
<1>5. SolvedIfReachable'
  <2>1. \A t : LastOf(t)' = LastOf(t)
    BY <1>1, SameSearch DEF LastOf
  <2> QED BY <1>1, <2>1 DEF IInv, SolvedIfReachable
<1>6. Outcome'
  BY <1>1, SameGraph DEF IInv, Outcome, Unsolved
<1> QED BY <1>2, <1>3, <1>4, <1>5, <1>6 DEF IInv

LEMMA FindBestPlanIInv == IInv /\ FindBestPlan => IInv'
<1> SUFFICES ASSUME IInv, FindBestPlan PROVE IInv'
  OBVIOUS
<1>1. UNCHANGED <<input, solved, memo>> /\ Unsolved = {}
  BY DEF FindBestPlan
<1>2. SearchTypeOK'
  BY <1>1, SameGraph DEF IInv, SearchTypeOK, IsSteps, FindBestPlan
<1>3. PlansWellFormed'
  BY <1>1, SameSearch DEF IInv, PlansWellFormed
<1>4. SolvedBySize'
  BY <1>1, SameGraph DEF IInv, SolvedBySize
<1>5. SolvedIfReachable'
  <2>1. \A t : LastOf(t)' = LastOf(t)
    BY <1>1, SameSearch DEF LastOf
  <2> QED BY <1>1, <2>1 DEF IInv, SolvedIfReachable
<1>6. Outcome'
  <2>1. CASE Ids \in DOMAIN memo
    <3>1. stage' = "planned" /\ best' = <<WithResidual(memo[Ids])>>
      BY <2>1 DEF FindBestPlan
    <3>2. best'[1].steps = memo[Ids].steps /\ best'[1].filters = Residual
      BY <3>1 DEF WithResidual
    <3> QED BY <1>1, <2>1, <3>1, <3>2, SameGraph DEF Outcome
  <2>2. CASE Ids \notin DOMAIN memo
    <3>1. stage' = "refused"
      BY <2>2 DEF FindBestPlan
    <3> QED BY <1>1, <2>2, <3>1, SameGraph DEF Outcome, Unsolved
  <2> QED BY <2>1, <2>2
<1> QED BY <1>2, <1>3, <1>4, <1>5, <1>6 DEF IInv

LEMMA SearchStepIInv == IInv /\ SearchStep => IInv'
<1> SUFFICES ASSUME IInv, SearchStep PROVE IInv'
  OBVIOUS
<1>1. UNCHANGED <<input, best, stage>> /\ stage = "search"
  BY DEF SearchStep
<1>2. PICK s \in Unsolved : SolveSubset(s) /\ \A t \in Unsolved \ {s} : Before(s, t)
  BY DEF SearchStep
<1>3. s \in SUBSET Ids /\ Cardinality(s) > 1 /\ s \notin solved /\ solved' = solved \cup {s}
  BY <1>2 DEF Unsolved, SolveSubset
<1>4. \A u \in SUBSET Ids : Cardinality(u) \in Nat
  BY IdsFinite DEF IInv, SearchTypeOK
<1>5. SolvedBySize'
  <2> SUFFICES ASSUME NEW t \in solved', NEW u \in SUBSET Ids,
                      1 < Cardinality(u), Cardinality(u) < Cardinality(t)
               PROVE  u \in solved'
    BY <1>1, SameGraph DEF SolvedBySize
  <2>1. CASE t \in solved
    BY <1>3, <2>1 DEF IInv, SolvedBySize
  <2>2. CASE t = s
    <3>1. ASSUME u \notin solved PROVE FALSE
      <4>1. u \in Unsolved \ {s}
        BY <1>3, <1>4, <2>2, <3>1 DEF Unsolved
      <4>2. Before(s, u)
        BY <1>2, <4>1
      <4> QED BY <1>3, <1>4, <2>2, <4>2 DEF Before
    <3> QED BY <1>3, <3>1
  <2> QED BY <1>3, <2>1, <2>2
<1>6. Outcome'
  BY <1>1 DEF Outcome
<1>7. CASE LastOf(s) = {} /\ UNCHANGED memo
  <2>1. SearchTypeOK'
    BY <1>1, <1>3, <1>7, SameGraph DEF IInv, SearchTypeOK, IsSteps
  <2>2. PlansWellFormed'
    BY <1>1, <1>7, SameSearch DEF IInv, PlansWellFormed
  <2>3. SolvedIfReachable'
    <3>1. \A t : LastOf(t)' = LastOf(t)
      BY <1>1, <1>7, SameSearch DEF LastOf
    <3> QED BY <1>3, <1>7, <3>1 DEF IInv, SolvedIfReachable
  <2> QED BY <1>5, <1>6, <2>1, <2>2, <2>3 DEF IInv
<1>8. ASSUME NEW r \in LastOf(s),
             memo' = [t \in DOMAIN memo \cup {s} |-> IF t = s THEN Extend(s, r) ELSE memo[t]]
      PROVE  IInv'
  <2>1. WellFormed(Extend(s, r), s) /\ IsSteps(Extend(s, r).steps, Cardinality(s))
    BY <1>3, ExtendWellFormed DEF IInv
  <2>2. DOMAIN memo' = DOMAIN memo \cup {s}
    BY <1>8
  <2>3. \A t \in DOMAIN memo' : memo'[t] = IF t = s THEN Extend(s, r) ELSE memo[t]
    BY <1>8
  <2>4. SearchTypeOK'
    <3>1. \A t \in DOMAIN memo' : IsSteps(memo'[t].steps, Cardinality(t))
      BY <2>1, <2>2, <2>3 DEF IInv, SearchTypeOK
    <3>2. DOMAIN memo' \subseteq SUBSET Ids /\ \A i \in Ids : {i} \in DOMAIN memo'
      BY <1>3, <2>2 DEF IInv, SearchTypeOK
    <3>3. solved' \subseteq {t \in SUBSET Ids : Cardinality(t) > 1}
      BY <1>3 DEF IInv, SearchTypeOK
    <3>4. input \in Inputs /\ stage \in {"search", "planned", "refused"}
      BY DEF IInv, SearchTypeOK
    <3> QED BY <1>1, <3>1, <3>2, <3>3, <3>4, SameGraph DEF SearchTypeOK, IsSteps
  <2>5. PlansWellFormed'
    <3>1. \A t \in DOMAIN memo' : WellFormed(memo'[t], t)
      BY <2>1, <2>2, <2>3 DEF IInv, PlansWellFormed
    <3> QED BY <1>1, <3>1, SameSearch DEF PlansWellFormed
  <2>6. SolvedIfReachable'
    <3> SUFFICES ASSUME NEW t \in solved', NEW q \in LastOf(t)' PROVE t \in DOMAIN memo'
      BY DEF SolvedIfReachable
    <3>1. q \in t /\ t \ {q} \in DOMAIN memo' /\ Connecting(t \ {q}, q) # {}
      BY <1>1, SameSearch DEF LastOf
    <3>2. CASE t = s
      BY <2>2, <3>2
    <3>3. CASE t \in solved
      <4>1. t \in SUBSET Ids
        BY <3>3 DEF IInv, SearchTypeOK
      <4>2. t \ {q} # s
        <5>1. Cardinality(t \ {q}) < Cardinality(t)
          BY <3>1, <4>1, IdsFinite DEF IInv, SearchTypeOK
        <5> QED BY <1>3, <3>3, <5>1 DEF IInv, SolvedBySize
      <4>3. q \in LastOf(t)
        BY <2>2, <3>1, <4>2 DEF LastOf
      <4> QED BY <2>2, <3>3, <4>3 DEF IInv, SolvedIfReachable
    <3> QED BY <1>3, <3>2, <3>3
  <2> QED BY <1>5, <1>6, <2>4, <2>5, <2>6 DEF IInv
<1> QED BY <1>2, <1>7, <1>8 DEF SolveSubset

\* The invariant holds in every reachable state of find_best_plan.
THEOREM SearchInvariant == SearchSpec => []IInv
<1>1. IInv /\ [SearchNext]_searchVars => IInv'
  BY StutterIInv, FindBestPlanIInv, SearchStepIInv DEF SearchNext
<1> QED BY InitIInv, <1>1, PTL DEF SearchSpec

\* Every plan the search keeps joins each of its relations once, each by a
\* predicate between it and an earlier one: no cartesian product, no relation
\* lost or doubled, for any number of relations.
THEOREM SearchWellFormed == SearchSpec => []PlansWellFormed
<1>1. IInv => PlansWellFormed
  BY DEF IInv
<1> QED BY SearchInvariant, <1>1, PTL

-----------------------------------------------------------------------------
(* Refusal *)

\* A plan for all relations crosses every cut: the first relation in it that
\* lies on the other side from its first one was joined by a crossing edge.
LEMMA PlannedIsConnected ==
  ASSUME IInv, Ids \in DOMAIN memo
  PROVE  Connected
<1> SUFFICES ASSUME NEW s \in SUBSET Ids, s # {}, s # Ids
             PROVE  \E k \in Edges : Refs(k) \cap s # {} /\ Refs(k) \ s # {}
  BY DEF Connected
<1> DEFINE n == Cardinality(Ids)
           rel(i) == memo[Ids].steps[i].rel
           D == {i \in 1..n : rel(i) \in s <=> rel(1) \notin s}
<1>1. n \in Nat
  BY IdsFinite DEF IInv, SearchTypeOK
<1>2. WellFormed(memo[Ids], Ids)
  BY DEF IInv, PlansWellFormed
<1>3. DOMAIN memo[Ids].steps = 1..n /\ {rel(i) : i \in 1..n} = Ids
  BY <1>2 DEF WellFormed
<1>4. \A i \in 1..n : i # 1 =>
        /\ memo[Ids].steps[i].edge \in Edges
        /\ \E j \in 1..(i - 1) : Refs(memo[Ids].steps[i].edge) = {rel(i), rel(j)}
  BY <1>2, <1>3 DEF WellFormed
<1> HIDE DEF n, rel
<1>5. D # {}
  <2>1. PICK x \in Ids : x \in s <=> rel(1) \notin s
    OBVIOUS
  <2>2. PICK i \in 1..n : rel(i) = x
    BY <1>3
  <2> QED BY <2>1, <2>2
<1>6. PICK m \in D : \A i \in D : m <= i
  <2>1. D \in SUBSET Nat
    BY <1>1
  <2> HIDE DEF D
  <2> QED BY <1>5, <2>1, MinExists
<1>7. m \in 1..n /\ m # 1
  OBVIOUS
<1>8. PICK j \in 1..(m - 1) : Refs(memo[Ids].steps[m].edge) = {rel(m), rel(j)}
  BY <1>4, <1>7
<1>9. j \in 1..n /\ j \notin D
  BY <1>1, <1>6, <1>7
<1>10. rel(j) \in s <=> rel(1) \in s
  BY <1>9
<1>11. rel(m) \in s <=> rel(j) \notin s
  BY <1>10
<1>12. memo[Ids].steps[m].edge \in Edges
  BY <1>4, <1>7
<1> QED BY <1>8, <1>11, <1>12

\* When every set has been tried, a largest planned set that is not all of the
\* relations is cut off: an edge out of it would have made a larger one.
LEMMA RefusedIsDisconnected ==
  ASSUME IInv, Unsolved = {}, Ids \notin DOMAIN memo
  PROVE  ~Connected
<1> SUFFICES ASSUME Connected PROVE FALSE
  OBVIOUS
<1> DEFINE S == {n \in Nat : \E u \in DOMAIN memo : n = Cardinality(u)}
<1>1. input \in Inputs /\ DOMAIN memo \subseteq SUBSET Ids /\ \A i \in Ids : {i} \in DOMAIN memo
  BY DEF IInv, SearchTypeOK
<1>2. PICK i \in Ids : TRUE
  BY <1>1, IdsFinite
<1>3. 1 \in S
  BY <1>1, FS_Singleton
<1>4. Cardinality(Ids) \in Nat /\ \A n \in S : n <= Cardinality(Ids)
  BY <1>1, IdsFinite
<1>5. PICK m \in S : \A n \in S : n <= m
  BY <1>3, <1>4, MaxExists
<1>6. PICK s \in DOMAIN memo : m = Cardinality(s)
  OBVIOUS
<1>7. s \in SUBSET Ids /\ s # Ids /\ s # {}
  <2>1. m >= 1
    BY <1>3, <1>5
  <2>2. s # {}
    BY <1>6, <2>1, FS_EmptySet
  <2> QED BY <1>1, <1>6, <2>2
<1>8. PICK k \in Edges : Refs(k) \cap s # {} /\ Refs(k) \ s # {}
  BY <1>7 DEF Connected
<1>9. PICK a, b \in Ids : Refs(k) = {a, b}
  BY <1>8 DEF Edges
<1>10. PICK y \in Ids : y \in Refs(k) /\ y \notin s /\ Refs(k) \ {y} \subseteq s
  BY <1>8, <1>9
<1> DEFINE t == s \cup {y}
<1>11. t \in SUBSET Ids /\ y \in t /\ t \ {y} = s
  BY <1>7, <1>10
<1>12. Cardinality(t) \in Nat /\ Cardinality(t) = m + 1
  BY <1>1, <1>6, <1>11, IdsFinite
<1>13. t \in solved
  <2>1. m >= 1 /\ m \in Nat
    BY <1>3, <1>5
  <2> QED BY <1>11, <1>12, <2>1 DEF Unsolved
<1>14. y \in LastOf(t)
  BY <1>6, <1>8, <1>10, <1>11 DEF LastOf, Connecting
<1>15. t \in DOMAIN memo
  BY <1>13, <1>14 DEF IInv, SolvedIfReachable
<1>16. m + 1 \in S
  BY <1>12, <1>15
<1> QED BY <1>5, <1>16

\* The search refuses a query exactly when its predicates leave some of its
\* relations unconnected, for any number of relations.
THEOREM RefusalExact == SearchSpec => []RefusedIffDisconnected
<1>1. IInv => RefusedIffDisconnected
  BY PlannedIsConnected, RefusedIsDisconnected DEF IInv, Outcome, RefusedIffDisconnected
<1> QED BY SearchInvariant, <1>1, PTL

-----------------------------------------------------------------------------
(* Conjuncts *)

\* A plan joins by as many different edges as it joins relations.
LEMMA TreeEdgesUsed ==
  ASSUME IInv, Ids \in DOMAIN memo, Cardinality(Edges) = Cardinality(Ids) - 1
  PROVE  {memo[Ids].steps[i].edge : i \in DOMAIN memo[Ids].steps \ {1}} = Edges
<1> DEFINE n == Cardinality(Ids)
           steps == memo[Ids].steps
           f == [i \in 1..n |-> steps[i].rel]
           g == [i \in 2..n |-> steps[i].edge]
           U == {steps[i].edge : i \in 2..n}
<1>1. input \in Inputs
  BY DEF IInv, SearchTypeOK
<1>2. n \in Nat /\ n # 0 /\ IsFiniteSet(Ids)
  BY <1>1, IdsFinite, FS_EmptySet
<1>3. WellFormed(memo[Ids], Ids)
  BY DEF IInv, PlansWellFormed
<1>4. DOMAIN steps = 1..n /\ {steps[i].rel : i \in 1..n} = Ids
  BY <1>3 DEF WellFormed
<1>5. \A i \in 2..n : /\ steps[i].edge \in Edges
                      /\ \E j \in 1..(i - 1) : Refs(steps[i].edge) = {steps[i].rel, steps[j].rel}
  <2>1. \A i \in 1..n : i # 1 =>
          /\ steps[i].edge \in Edges
          /\ \E j \in 1..(i - 1) : Refs(steps[i].edge) = {steps[i].rel, steps[j].rel}
    BY <1>3, <1>4 DEF WellFormed
  <2>2. \A i \in 2..n : i \in 1..n /\ i # 1
    BY <1>2
  <2> HIDE DEF n, steps
  <2> QED BY <2>1, <2>2
<1> HIDE DEF n, steps
<1>6. \A i, j \in 1..n : steps[i].rel = steps[j].rel => i = j
  <2>1. f \in Surjection(1..n, Ids)
    BY <1>4 DEF Surjection
  <2>2. IsFiniteSet(1..n) /\ Cardinality(1..n) = Cardinality(Ids)
    BY <1>2, FS_Interval DEF n
  <2>3. f \in Injection(1..n, Ids)
    BY <2>1, <2>2, FS_SurjSameCardinalityImpliesInj
  <2>4. \A i, j \in 1..n : f[i] = f[j] => i = j
    BY <2>3 DEF Injection, IsInjective
  <2> QED BY <2>4
<1>7. ASSUME NEW i \in 2..n, NEW j \in 2..n, i < j, steps[i].edge = steps[j].edge
      PROVE  FALSE
  <2>1. PICK a \in 1..(i - 1) : Refs(steps[i].edge) = {steps[i].rel, steps[a].rel}
    BY <1>5
  <2>2. steps[j].rel \in {steps[i].rel, steps[a].rel}
    BY <1>5, <1>7, <2>1
  <2>3. i \in 1..n /\ j \in 1..n /\ a \in 1..n /\ a < j
    BY <1>2, <1>7
  <2> QED BY <1>6, <1>7, <2>2, <2>3
<1>8. g \in Surjection(2..n, U)
  BY DEF Surjection
<1>9. g \in Injection(2..n, U)
  <2>1. \A i, j \in 2..n : g[i] = g[j] => i = j
    BY <1>2, <1>7
  <2> QED BY <2>1 DEF Injection, IsInjective
<1>10. IsFiniteSet(2..n) /\ Cardinality(2..n) = n - 1
  <2>1. 2 \in Int /\ n \in Int
    BY <1>2
  <2>2. IsFiniteSet(2..n) /\ Cardinality(2..n) = IF 2 > n THEN 0 ELSE n - 2 + 1
    BY <2>1, FS_Interval
  <2> QED BY <1>2, <2>2
<1>11. Cardinality(U) = n - 1
  BY <1>8, <1>9, <1>10, FS_Surjection
<1>12. U \in SUBSET Edges
  BY <1>5
<1>13. IsFiniteSet(Edges)
  <2>1. Edges \in SUBSET 1..Len(input.preds) /\ Len(input.preds) \in Nat
    BY <1>1, JoinSearchAssumption DEF Edges
  <2>2. IsFiniteSet(1..Len(input.preds))
    BY <2>1, FS_Interval
  <2> QED BY <2>1, <2>2, FS_Subset
<1>14. U = Edges
  BY <1>11, <1>12, <1>13, FS_Subset DEF n
<1>15. DOMAIN steps \ {1} = 2..n
  BY <1>2, <1>4
<1> QED BY <1>14, <1>15 DEF steps

\* A query with no more predicates between its relations than it has joins is
\* planned with all of its conjuncts, whatever order the search chooses.
THEOREM TreesKeepConjuncts == SearchSpec => []TreeKeepsConjuncts
<1>1. ASSUME IInv PROVE TreeKeepsConjuncts
  <2> SUFFICES ASSUME stage = "planned", Cardinality(Edges) = Cardinality(Ids) - 1
               PROVE  Applied(best[1]) = DOMAIN input.preds
    BY DEF TreeKeepsConjuncts
  <2>1. Ids \in DOMAIN memo /\ best[1].steps = memo[Ids].steps /\ best[1].filters = Residual
    BY <1>1 DEF IInv, Outcome
  <2>2. {best[1].steps[i].edge : i \in DOMAIN best[1].steps \ {1}} = Edges
    BY <1>1, <2>1, TreeEdgesUsed
  <2> DEFINE L == UNION {LocalFilters(i) : i \in Ids}
             P == DOMAIN input.preds
  <2>3. Applied(best[1]) = L \cup Residual \cup Edges
    BY <2>1, <2>2 DEF Applied
  <2>4. L \subseteq P /\ Residual \subseteq P /\ Edges \subseteq P
    BY DEF LocalFilters, Edges, Residual
  <2>5. \A k \in P : k \in Residual \/ k \in Edges \/ \E i \in Ids : k \in LocalFilters(i)
    BY DEF Residual
  <2>6. \A k : (\E i \in Ids : k \in LocalFilters(i)) => k \in L
    OBVIOUS
  <2> SUFFICES Applied(best[1]) = P
    OBVIOUS
  <2> HIDE DEF L, P
  <2>7. P \subseteq L \cup Residual \cup Edges
    BY <2>5, <2>6
  <2> QED BY <2>3, <2>4, <2>7
<1> QED BY SearchInvariant, <1>1, PTL

-----------------------------------------------------------------------------
(***************************************************************************)
(* Costs and row counts.  None of this needs more about the statistics     *)
(* than that row, page and distinct counts are natural numbers.            *)
(***************************************************************************)

\* A fraction of rows, and what an access path's filters are folded over.
Fractions == [num : Nat, den : Nat \ {0}]
Paths == [rows : Fractions, cost : Nat]

\* A product of natural numbers, and how it grows with one of them.
LEMMA Products ==
  ASSUME NEW a \in Nat, NEW x \in Nat, NEW y \in Nat
  PROVE  /\ a * x \in Nat
         /\ x <= y => a * x <= a * y
         /\ a # 0 /\ x # 0 => a * x # 0
OBVIOUS

\* A path through the natural numbers: what holds at 0 and is handed on from
\* each number below n to the next holds up to n.
LEMMA Handed ==
  ASSUME NEW n \in Nat, NEW P \in SUBSET Nat, 0 \in P,
         \A k \in 1..n : k - 1 \in P => k \in P
  PROVE  n \in P
<1> SUFFICES ASSUME (0..n) \ P # {} PROVE FALSE
  <2>1. n \in 0..n
    OBVIOUS
  <2> QED BY <2>1
<1>1. PICK m \in (0..n) \ P : \A k \in (0..n) \ P : m <= k
  <2>1. (0..n) \ P \in SUBSET Nat
    OBVIOUS
  <2> QED BY <2>1, MinExists
<1>2. m \in 1..n /\ m - 1 \in P
  BY <1>1
<1> QED BY <1>1, <1>2

\* Paths can be defined step by step along 0..n.
LEMMA Recursion ==
  ASSUME NEW n \in Nat, NEW x \in Paths, NEW step \in [1..n -> [Paths -> Paths]]
  PROVE  \E f \in [0..n -> Paths] : f[0] = x /\ \A k \in 1..n : f[k] = step[k][f[k - 1]]
<1> DEFINE Is(f, m) == f[0] = x /\ \A k \in 1..m : f[k] = step[k][f[k - 1]]
           P == {m \in Nat : m <= n => \E f \in [0..m -> Paths] : Is(f, m)}
<1>1. 0 \in P
  <2> DEFINE f == [k \in 0..0 |-> x]
  <2>1. f \in [0..0 -> Paths] /\ Is(f, 0)
    OBVIOUS
  <2> QED BY <2>1
<1>2. ASSUME NEW k \in 1..n, k - 1 \in P PROVE k \in P
  <2>1. PICK f \in [0..(k - 1) -> Paths] : Is(f, k - 1)
    BY <1>2
  <2> DEFINE y == step[k][f[k - 1]]
             g == [j \in 0..k |-> IF j = k THEN y ELSE f[j]]
  <2>2. f[k - 1] \in Paths
    OBVIOUS
  <2>3. y \in Paths
    BY <2>2
  <2> HIDE DEF y
  <2>4. g \in [0..k -> Paths]
    BY <2>3
  <2>5. g[0] = x
    BY <2>1
  <2>6. ASSUME NEW j \in 1..k PROVE g[j] = step[j][g[j - 1]]
    <3>1. CASE j = k
      <4>1. g[k] = y /\ g[k - 1] = f[k - 1]
        OBVIOUS
      <4> QED BY <3>1, <4>1 DEF y
    <3>2. CASE j # k
      <4>1. j \in 1..(k - 1) /\ g[j] = f[j] /\ g[j - 1] = f[j - 1]
        BY <3>2
      <4> QED BY <2>1, <4>1
    <3> QED BY <3>1, <3>2
  <2>7. Is(g, k)
    BY <2>5, <2>6
  <2> HIDE DEF g, Is
  <2> QED BY <2>4, <2>7
<1>3. P \in SUBSET Nat
  OBVIOUS
<1> HIDE DEF P
<1>4. n \in P
  BY <1>1, <1>2, <1>3, Handed
<1> QED BY <1>4 DEF P

\* rows_to_size gives a positive number.
LEMMA RowsToSizeType ==
  ASSUME NEW q \in Fractions
  PROVE  RowsToSize(q) \in Nat \ {0}
<1>1. 2 * q.num + q.den \in Nat /\ 2 * q.den \in Nat /\ 2 * q.den > 0
  BY DEF Fractions
<1>2. (2 * q.num + q.den) \div (2 * q.den) \in Int
  BY <1>1
<1> QED BY <1>2 DEF RowsToSize, Larger

LEMMA EstimateFilterType ==
  ASSUME NEW q \in Fractions, NEW sel \in Nat \ {0}
  PROVE  EstimateFilter(q, sel) \in Fractions
<1>1. q.den * sel \in Nat \ {0}
  BY Products DEF Fractions
<1> QED BY <1>1 DEF EstimateFilter, Fractions

\* The conjuncts' attributes.
LEMMA PredType ==
  ASSUME input \in Inputs, NEW k \in DOMAIN input.preds
  PROVE  Pred(k).eq \in BOOLEAN /\ Pred(k).ndv \in Nat /\ Pred(k).sel \in Nat \ {0}
BY JoinSearchAssumption DEF Pred

\* The filters on a scan leave a fraction of rows and a cost.
LEMMA WithFiltersType ==
  ASSUME input \in Inputs, NEW scan \in Paths, NEW ks
  PROVE  WithFilters(scan, ks) \in Paths
<1> DEFINE n == Len(input.preds)
           Then(k, p) == IF k \notin ks THEN p
                         ELSE [rows |-> EstimateFilter(p.rows, Pred(k).sel),
                               cost |-> p.cost + FilterCost(RowsToSize(p.rows))]
           f[k \in 0..n] ==
             IF k = 0 THEN scan
             ELSE IF k \notin ks THEN f[k - 1]
             ELSE [rows |-> EstimateFilter(f[k - 1].rows, Pred(k).sel),
                   cost |-> f[k - 1].cost + FilterCost(RowsToSize(f[k - 1].rows))]
           step == [k \in 1..n |-> [p \in Paths |-> Then(k, p)]]
<1>1. n \in Nat /\ DOMAIN input.preds = 1..n
  BY JoinSearchAssumption
<1>2. WithFilters(scan, ks) = f[n]
  BY DEF WithFilters
<1>3. ASSUME NEW k \in 1..n, NEW p \in Paths PROVE Then(k, p) \in Paths
  <2>1. p.rows \in Fractions /\ p.cost \in Nat
    BY DEF Paths
  <2>2. EstimateFilter(p.rows, Pred(k).sel) \in Fractions
    BY <1>1, <2>1, PredType, EstimateFilterType
  <2>3. FilterCost(RowsToSize(p.rows)) \in Nat
    BY <2>1, RowsToSizeType DEF FilterCost, CpuTuple
  <2> QED BY <2>1, <2>2, <2>3 DEF Paths
<1>4. step \in [1..n -> [Paths -> Paths]]
  BY <1>3
<1>5. \A k \in 1..n, p \in Paths : step[k][p] = Then(k, p)
  OBVIOUS
<1> HIDE DEF step, n, Then
<1>6. PICK g \in [0..n -> Paths] : g[0] = scan /\ \A k \in 1..n : g[k] = step[k][g[k - 1]]
  BY <1>1, <1>4, Recursion
<1>7. ASSUME NEW k \in 1..n PROVE g[k] = Then(k, g[k - 1])
  <2>1. k - 1 \in 0..n
    BY <1>1
  <2> QED BY <1>5, <1>6, <2>1
<1> DEFINE F(h) == [k \in 0..n |->
             IF k = 0 THEN scan
             ELSE IF k \notin ks THEN h[k - 1]
             ELSE [rows |-> EstimateFilter(h[k - 1].rows, Pred(k).sel),
                   cost |-> h[k - 1].cost + FilterCost(RowsToSize(h[k - 1].rows))]]
<1>8. g = F(g)
  <2>1. \A k \in 1..n : F(g)[k] = Then(k, g[k - 1])
    BY <1>1 DEF Then
  <2>2. F(g)[0] = scan
    BY <1>1
  <2>3. \A k \in 0..n : k = 0 \/ k \in 1..n
    BY <1>1
  <2>4. F(g) = [k \in 0..n |-> F(g)[k]]
    OBVIOUS
  <2> HIDE DEF F
  <2>5. \A k \in 0..n : F(g)[k] = g[k]
    BY <1>6, <1>7, <2>1, <2>2, <2>3
  <2> QED BY <2>4, <2>5
<1>9. f = F(f)
  <2>1. f = CHOOSE h : h = F(h)
    BY Zenon
  <2> HIDE DEF f, F
  <2> QED BY <1>8, <2>1, Zenon
<1> HIDE DEF f
<1>10. f[0] = scan /\ \A k \in 1..n : f[k] = Then(k, f[k - 1])
  BY <1>1, <1>9 DEF Then
<1> DEFINE P == {k \in Nat : k <= n => f[k] \in Paths}
<1>11. 0 \in P /\ P \in SUBSET Nat
  BY <1>10
<1>12. ASSUME NEW k \in 1..n, k - 1 \in P PROVE k \in P
  <2>1. f[k - 1] \in Paths
    BY <1>1, <1>12
  <2> QED BY <1>3, <1>10, <2>1
<1> HIDE DEF P
<1>13. n \in P
  BY <1>1, <1>11, <1>12, Handed
<1> QED BY <1>1, <1>2, <1>13 DEF P

\* An access path has a positive row estimate and a cost.
LEMMA AccessPathType ==
  ASSUME input \in Inputs, NEW i \in Ids
  PROVE  BestAccessPath(i).rows \in Nat \ {0} /\ BestAccessPath(i).cost \in Nat
<1> DEFINE t == Tables[input.rels[i]]
           q == [num |-> t.rows, den |-> 1]
<1>1. t.rows \in Nat /\ t.pages \in Nat
  <2>1. input.rels[i] \in DOMAIN Tables
    BY JoinSearchAssumption DEF Ids
  <2> QED BY <2>1, JoinSearchAssumption
<1>2. q \in Fractions
  BY <1>1 DEF Fractions
<1>3. SeqPath(i) \in Paths
  <2> DEFINE scan == [rows |-> q, cost |-> SeqScanCost(RowsToSize(q), t.pages)]
  <2>1. SeqScanCost(RowsToSize(q), t.pages) \in Nat
    BY <1>1, <1>2, RowsToSizeType DEF SeqScanCost, Larger, SeqPage, CpuTuple
  <2>2. scan \in Paths
    BY <1>2, <2>1 DEF Paths
  <2>3. SeqPath(i) = WithFilters(scan, LocalFilters(i))
    BY DEF SeqPath
  <2> HIDE DEF scan
  <2> QED BY <2>2, <2>3, WithFiltersType
<1>4. ASSUME IndexedEqualities(i) # {} PROVE IndexPath(i) \in Paths
  <2> DEFINE E == IndexedEqualities(i)
             k == CHOOSE k \in E : \A j \in E : k <= j
             p == EstimateFilter(q, Pred(k).sel)
             scan == [rows |-> p, cost |-> IndexScanCost(RowsToSize(p))]
  <2>1. E \in SUBSET Nat /\ E \subseteq DOMAIN input.preds
    BY JoinSearchAssumption DEF IndexedEqualities, LocalFilters
  <2>2. \E m \in E : \A n \in E : m <= n
    BY <1>4, <2>1, MinExists
  <2>3. k \in E
    BY <2>2
  <2>4. k \in DOMAIN input.preds
    BY <2>1, <2>3
  <2>5. IndexPath(i) = WithFilters(scan, LocalFilters(i) \ {k})
    BY DEF IndexPath
  <2> HIDE DEF q, k
  <2>6. p \in Fractions
    BY <1>2, <2>4, PredType, EstimateFilterType
  <2> HIDE DEF p
  <2>7. IndexScanCost(RowsToSize(p)) \in Nat
    BY <2>6, RowsToSizeType DEF IndexScanCost, RandomPage, CpuTuple, IndexTuple
  <2>8. scan \in Paths
    BY <2>6, <2>7 DEF Paths
  <2> HIDE DEF scan
  <2> QED BY <2>5, <2>8, WithFiltersType
<1>5. PICK path \in Paths : BestAccessPath(i).rows = RowsToSize(path.rows)
                             /\ BestAccessPath(i).cost = path.cost
  BY <1>3, <1>4 DEF BestAccessPath, UsesIndex
<1>6. path.rows \in Fractions /\ path.cost \in Nat
  BY DEF Paths
<1> QED BY <1>5, <1>6, RowsToSizeType

-----------------------------------------------------------------------------
(* Ways to join *)

\* The estimate of a join.
LEMMA EstimateJoinType ==
  ASSUME input \in Inputs, NEW k \in DOMAIN input.preds, NEW left, NEW right,
         left.rows \in Nat, right.rows \in Nat
  PROVE  EstimateJoin(left, right, k) \in Nat \ {0}
<1> DEFINE d == IF Pred(k).eq /\ Pred(k).ndv > 0 /\ Len(left.steps) = 1
                  THEN Pred(k).ndv ELSE 10
           q == [num |-> left.rows * right.rows, den |-> d]
<1>1. d \in Nat \ {0}
  BY PredType
<1>2. EstimateJoin(left, right, k) = RowsToSize(q)
  BY DEF EstimateJoin
<1> HIDE DEF d
<1>3. left.rows * right.rows \in Nat
  BY Products
<1>4. q \in Fractions
  BY <1>1, <1>3 DEF Fractions
<1> HIDE DEF q
<1> QED BY <1>2, <1>4, RowsToSizeType

\* A way to join, and what it costs: CostModel's view of it, from the two sides
\* and the rows of the result.
WayCost(how, outer, left, right, out) ==
  LET o == IF outer THEN right ELSE left
      n == IF outer THEN left ELSE right
  IN  CASE how = "nested loop" -> o.cost + o.rows * n.cost + NestedLoopCost(o.rows, n.rows)
        [] how = "hash"        -> o.cost + n.cost + HashJoinCost(o.rows, n.rows)
        [] how = "index loop"  -> o.cost + IndexNestedLoopCost(o.rows, out)

Ways == {"nested loop", "hash", "index loop"}

\* The list of candidates is one of three.
LEMMA Shapes ==
  ASSUME NEW S, NEW a \in S, NEW b \in S, NEW x \in S, NEW y \in S
  PROVE  /\ (<<a, b>> \o <<>>) \o <<>> = <<a, b>>
         /\ (<<a, b>> \o <<x>>) \o <<>> = <<a, b, x>>
         /\ (<<a, b>> \o <<x>>) \o <<y>> = <<a, b, x, y>>
<1>1. (<<a, b>> \o <<>>) \o <<>> = <<a, b>>
  OBVIOUS
<1>2. <<a, b>> \o <<x>> = <<a, b, x>>
  <2> DEFINE u == <<a, b>>
             v == <<x>>
             t == u \o v
             w == <<a, b, x>>
  <2>1. u \in Seq(S) /\ v \in Seq(S) /\ w \in Seq(S) /\ Len(u) = 2 /\ Len(v) = 1 /\ Len(w) = 3
    OBVIOUS
  <2>2. u[1] = a /\ u[2] = b /\ v[1] = x /\ w[1] = a /\ w[2] = b /\ w[3] = x
    OBVIOUS
  <2> HIDE DEF u, v, w
  <2>3. /\ t \in Seq(S) /\ Len(t) = Len(u) + Len(v)
        /\ \A i \in 1..(Len(u) + Len(v)) : t[i] = IF i <= Len(u) THEN u[i] ELSE v[i - Len(u)]
    BY <2>1, ConcatProperties
  <2> HIDE DEF t
  <2>4. t[1] = a /\ t[2] = b /\ t[3] = x
    BY <2>1, <2>2, <2>3
  <2>5. \A i \in 1..3 : t[i] = w[i]
    BY <2>2, <2>4
  <2>6. t = w
    BY <2>1, <2>3, <2>5, SeqEqual
  <2> QED BY <2>6 DEF t, u, v, w
<1>3. <<a, b, x>> \o <<>> = <<a, b, x>>
  OBVIOUS
<1>4. <<a, b, x>> \o <<y>> = <<a, b, x, y>>
  <2> DEFINE u == <<a, b, x>>
             v == <<y>>
             t == u \o v
             w == <<a, b, x, y>>
  <2>1. u \in Seq(S) /\ v \in Seq(S) /\ w \in Seq(S) /\ Len(u) = 3 /\ Len(v) = 1 /\ Len(w) = 4
    OBVIOUS
  <2>2. /\ u[1] = a /\ u[2] = b /\ u[3] = x /\ v[1] = y
        /\ w[1] = a /\ w[2] = b /\ w[3] = x /\ w[4] = y
    OBVIOUS
  <2> HIDE DEF u, v, w
  <2>3. /\ t \in Seq(S) /\ Len(t) = Len(u) + Len(v)
        /\ \A i \in 1..(Len(u) + Len(v)) : t[i] = IF i <= Len(u) THEN u[i] ELSE v[i - Len(u)]
    BY <2>1, ConcatProperties
  <2> HIDE DEF t
  <2>4. t[1] = a /\ t[2] = b /\ t[3] = x /\ t[4] = y
    BY <2>1, <2>2, <2>3
  <2>5. \A i \in 1..4 : t[i] = w[i]
    <3>1. \A i \in 1..4 : i = 1 \/ i = 2 \/ i = 3 \/ i = 4
      OBVIOUS
    <3> QED BY <2>2, <2>4, <3>1
  <2>6. t = w
    BY <2>1, <2>3, <2>5, SeqEqual
  <2> QED BY <2>6 DEF t, u, v, w
<1> QED BY <1>1, <1>2, <1>3, <1>4

\* The candidates of a join, in their order.
LEMMA CandidatesAre ==
  ASSUME NEW left, NEW right, NEW k
  PROVE  LET out == EstimateJoin(left, right, k)
             c(how, outer) == [how |-> how, outer |-> outer,
                               cost |-> WayCost(how, outer, left, right, out)]
             old == Len(left.steps) = 1 /\ Indexed(left.steps[1].rel, k)
             new == Indexed(right.steps[1].rel, k)
         IN  Candidates(left, right, k) =
               IF ~Pred(k).eq THEN <<c("nested loop", FALSE), c("nested loop", TRUE)>>
               ELSE IF new \/ old
                 THEN <<c("nested loop", FALSE), c("nested loop", TRUE), c("hash", FALSE),
                        c("index loop", ~new)>>
               ELSE <<c("nested loop", FALSE), c("nested loop", TRUE), c("hash", FALSE)>>
<1> DEFINE out == EstimateJoin(left, right, k)
           c(how, outer) == [how |-> how, outer |-> outer,
                             cost |-> WayCost(how, outer, left, right, out)]
           old == Len(left.steps) = 1 /\ Indexed(left.steps[1].rel, k)
           new == Indexed(right.steps[1].rel, k)
           eq == Pred(k).eq
           a == c("nested loop", FALSE)
           b == c("nested loop", TRUE)
           x == c("hash", FALSE)
           y == c("index loop", FALSE)
           z == c("index loop", TRUE)
           S == {a, b, x, y, z}
<1>1. /\ a = [how |-> "nested loop", outer |-> FALSE,
            cost |-> left.cost + left.rows * right.cost + NestedLoopCost(left.rows, right.rows)]
      /\ b = [how |-> "nested loop", outer |-> TRUE,
            cost |-> right.cost + right.rows * left.cost + NestedLoopCost(right.rows, left.rows)]
      /\ x = [how |-> "hash", outer |-> FALSE,
            cost |-> left.cost + right.cost + HashJoinCost(left.rows, right.rows)]
      /\ y = [how |-> "index loop", outer |-> FALSE,
            cost |-> left.cost + IndexNestedLoopCost(left.rows, out)]
      /\ z = [how |-> "index loop", outer |-> TRUE,
            cost |-> right.cost + IndexNestedLoopCost(right.rows, out)]
  BY DEF WayCost
<1>2. Candidates(left, right, k) =
        (<<a, b>> \o (IF ~eq THEN <<>> ELSE <<x>>))
          \o (IF ~eq THEN <<>> ELSE IF new THEN <<y>> ELSE IF old THEN <<z>> ELSE <<>>)
  BY <1>1 DEF Candidates
<1>3. a \in S /\ b \in S /\ x \in S /\ y \in S /\ z \in S
  OBVIOUS
<1>4. Candidates(left, right, k) =
        IF ~eq THEN <<a, b>> ELSE IF new \/ old THEN <<a, b, x, c("index loop", ~new)>>
        ELSE <<a, b, x>>
  <2>1. CASE ~eq
    <3> HIDE DEF a, b, x, y, z, eq, new, old, S
    <3>1. Candidates(left, right, k) = (<<a, b>> \o <<>>) \o <<>>
      BY <1>2, <2>1, Zenon
    <3>2. Candidates(left, right, k) = <<a, b>>
      BY <1>3, <3>1, Shapes, Zenon
    <3> QED BY <2>1, <3>2, Zenon
  <2>2. CASE eq /\ new
    <3>1. c("index loop", ~new) = y
      BY <2>2
    <3> HIDE DEF a, b, x, y, z, c, eq, new, old, S
    <3>2. Candidates(left, right, k) = (<<a, b>> \o <<x>>) \o <<y>>
      BY <1>2, <2>2, Zenon
    <3>3. (<<a, b>> \o <<x>>) \o <<y>> = <<a, b, x, y>>
      BY <1>3, Shapes
    <3>4. Candidates(left, right, k) = <<a, b, x, y>>
      BY <3>2, <3>3, Zenon
    <3> QED BY <2>2, <3>1, <3>4, Zenon
  <2>3. CASE eq /\ ~new /\ old
    <3>1. c("index loop", ~new) = z
      BY <2>3
    <3> HIDE DEF a, b, x, y, z, c, eq, new, old, S
    <3>2. Candidates(left, right, k) = (<<a, b>> \o <<x>>) \o <<z>>
      BY <1>2, <2>3, Zenon
    <3>3. (<<a, b>> \o <<x>>) \o <<z>> = <<a, b, x, z>>
      BY <1>3, Shapes
    <3>4. Candidates(left, right, k) = <<a, b, x, z>>
      BY <3>2, <3>3, Zenon
    <3> QED BY <2>3, <3>1, <3>4, Zenon
  <2>4. CASE eq /\ ~new /\ ~old
    <3> HIDE DEF a, b, x, y, z, c, eq, new, old, S
    <3>1. Candidates(left, right, k) = (<<a, b>> \o <<x>>) \o <<>>
      BY <1>2, <2>4, Zenon
    <3>2. Candidates(left, right, k) = <<a, b, x>>
      BY <1>3, <3>1, Shapes, Zenon
    <3> QED BY <2>4, <3>2, Zenon
  <2> QED BY <2>1, <2>2, <2>3, <2>4
<1> QED BY <1>4

\* What any way to join costs is a natural number, and grows with the cost of
\* the left side.
LEMMA WayCostFacts ==
  ASSUME NEW how \in Ways, NEW outer \in BOOLEAN, NEW p, NEW q, NEW right, NEW out \in Nat,
         p.rows \in Nat, p.cost \in Nat, q.rows = p.rows, q.cost \in Nat, p.cost <= q.cost,
         right.rows \in Nat, right.cost \in Nat
  PROVE  /\ WayCost(how, outer, p, right, out) \in Nat
         /\ WayCost(how, outer, p, right, out) <= WayCost(how, outer, q, right, out)
<1>1. /\ p.rows * right.rows \in Nat /\ right.rows * p.rows \in Nat
      /\ p.rows * right.cost \in Nat
      /\ right.rows * p.cost \in Nat /\ right.rows * q.cost \in Nat
      /\ right.rows * p.cost <= right.rows * q.cost
  BY Products
<1>2. /\ NestedLoopCost(p.rows, right.rows) \in Nat
      /\ NestedLoopCost(right.rows, p.rows) \in Nat
  <2>1. CpuTuple \div 100 = 1
    BY DEF CpuTuple
  <2> QED BY <1>1, <2>1 DEF NestedLoopCost
<1>3. HashJoinCost(p.rows, right.rows) \in Nat /\ HashJoinCost(right.rows, p.rows) \in Nat
  <2>1. ASSUME NEW l \in Nat, NEW r \in Nat PROVE HashJoinCost(l, r) \in Nat
    <3>1. Smaller(l, r) \in Nat /\ Larger(l, r) \in Nat
      BY DEF Smaller, Larger
    <3>2. \A n \in Nat : SpillPenalty(n) \in Nat
      BY DEF SpillPenalty, MemoryBudgetRows, SpillIoPerRow
    <3> QED BY <3>1, <3>2 DEF HashJoinCost, HashBuild, MemoryPerRow, CpuTuple
  <2> QED BY <2>1
<1>4. \A r \in Nat : IndexNestedLoopCost(r, out) \in Nat
  BY DEF IndexNestedLoopCost, RandomPage, CpuTuple, IndexTuple
<1>5. CASE how = "nested loop"
  <2>1. CASE outer
    <3>1. /\ WayCost(how, outer, p, right, out)
               = right.cost + right.rows * p.cost + NestedLoopCost(right.rows, p.rows)
          /\ WayCost(how, outer, q, right, out)
               = right.cost + right.rows * q.cost + NestedLoopCost(right.rows, p.rows)
      BY <1>5, <2>1 DEF WayCost
    <3> HIDE DEF WayCost, NestedLoopCost
    <3> QED BY <1>1, <1>2, <3>1
  <2>2. CASE ~outer
    <3>1. /\ WayCost(how, outer, p, right, out)
               = p.cost + p.rows * right.cost + NestedLoopCost(p.rows, right.rows)
          /\ WayCost(how, outer, q, right, out)
               = q.cost + p.rows * right.cost + NestedLoopCost(p.rows, right.rows)
      BY <1>5, <2>2 DEF WayCost
    <3> QED BY <1>1, <1>2, <3>1
  <2> QED BY <2>1, <2>2
<1>6. CASE how = "hash"
  BY <1>3, <1>6 DEF WayCost
<1>7. CASE how = "index loop"
  <2>1. CASE outer
    <3>1. /\ WayCost(how, outer, p, right, out) = right.cost + IndexNestedLoopCost(right.rows, out)
          /\ WayCost(how, outer, q, right, out) = right.cost + IndexNestedLoopCost(right.rows, out)
      BY <1>7, <2>1 DEF WayCost
    <3> QED BY <1>4, <3>1
  <2>2. CASE ~outer
    <3>1. /\ WayCost(how, outer, p, right, out) = p.cost + IndexNestedLoopCost(p.rows, out)
          /\ WayCost(how, outer, q, right, out) = q.cost + IndexNestedLoopCost(p.rows, out)
      BY <1>7, <2>2 DEF WayCost
    <3> QED BY <1>4, <3>1
  <2> QED BY <2>1, <2>2
<1> QED BY <1>5, <1>6, <1>7 DEF Ways

\* The candidates: there are some, and each costs what CostModel makes of it.
LEMMA CandidateFacts ==
  ASSUME input \in Inputs, NEW k \in DOMAIN input.preds, NEW left, NEW right,
         left.rows \in Nat, left.cost \in Nat, right.rows \in Nat, right.cost \in Nat
  PROVE  \E n \in 2..4 :
           /\ DOMAIN Candidates(left, right, k) = 1..n
           /\ \A i \in 1..n :
                LET c == Candidates(left, right, k)[i]
                IN  /\ c.how \in Ways /\ c.outer \in BOOLEAN /\ c.cost \in Nat
                    /\ c.cost = WayCost(c.how, c.outer, left, right,
                                        EstimateJoin(left, right, k))
<1> DEFINE out == EstimateJoin(left, right, k)
           c(how, outer) == [how |-> how, outer |-> outer,
                             cost |-> WayCost(how, outer, left, right, out)]
           old == Len(left.steps) = 1 /\ Indexed(left.steps[1].rel, k)
           new == Indexed(right.steps[1].rel, k)
           a == c("nested loop", FALSE)
           b == c("nested loop", TRUE)
           x == c("hash", FALSE)
           y == c("index loop", ~new)
           all == Candidates(left, right, k)
           Good(d) == /\ d.how \in Ways /\ d.outer \in BOOLEAN /\ d.cost \in Nat
                      /\ d.cost = WayCost(d.how, d.outer, left, right, out)
<1>1. out \in Nat
  BY EstimateJoinType
<1>2. all = IF ~Pred(k).eq THEN <<a, b>> ELSE IF new \/ old THEN <<a, b, x, y>>
            ELSE <<a, b, x>>
  BY CandidatesAre
<1> HIDE DEF out
<1>3. \A how \in Ways, outer \in BOOLEAN : WayCost(how, outer, left, right, out) \in Nat
  <2>1. left.cost <= left.cost
    OBVIOUS
  <2> QED BY <1>1, <2>1, WayCostFacts
<1>4. \A how \in Ways, outer \in BOOLEAN : Good(c(how, outer))
  BY <1>3
<1>5. Good(a) /\ Good(b) /\ Good(x) /\ Good(y)
  <2>1. /\ "nested loop" \in Ways /\ "hash" \in Ways /\ "index loop" \in Ways
        /\ (~new) \in BOOLEAN /\ TRUE \in BOOLEAN /\ FALSE \in BOOLEAN
    BY DEF Ways
  <2> HIDE DEF Good, c, new
  <2> QED BY <1>4, <2>1 DEF a, b, x, y
<1> HIDE DEF all, a, b, x, y, Good
<1>6. all = <<a, b>> \/ all = <<a, b, x>> \/ all = <<a, b, x, y>>
  BY <1>2
<1>7. \E n \in 2..4 : DOMAIN all = 1..n /\ \A i \in 1..n : Good(all[i])
  <2>1. CASE all = <<a, b>>
    <3>1. DOMAIN all = 1..2 /\ all[1] = a /\ all[2] = b
      BY <2>1
    <3>2. \A i \in 1..2 : i = 1 \/ i = 2
      OBVIOUS
    <3>3. \A i \in 1..2 : Good(all[i])
      BY <1>5, <3>1, <3>2
    <3> QED BY <3>1, <3>3
  <2>2. CASE all = <<a, b, x>>
    <3>1. DOMAIN all = 1..3 /\ all[1] = a /\ all[2] = b /\ all[3] = x
      BY <2>2
    <3>2. \A i \in 1..3 : i = 1 \/ i = 2 \/ i = 3
      OBVIOUS
    <3>3. \A i \in 1..3 : Good(all[i])
      BY <1>5, <3>1, <3>2
    <3> QED BY <3>1, <3>3
  <2>3. CASE all = <<a, b, x, y>>
    <3>1. DOMAIN all = 1..4 /\ all[1] = a /\ all[2] = b /\ all[3] = x /\ all[4] = y
      BY <2>3
    <3>2. \A i \in 1..4 : i = 1 \/ i = 2 \/ i = 3 \/ i = 4
      OBVIOUS
    <3>3. \A i \in 1..4 : Good(all[i])
      BY <1>5, <3>1, <3>2
    <3> QED BY <3>1, <3>3
  <2> QED BY <1>6, <2>1, <2>2, <2>3
<1> QED BY <1>7 DEF all, Good, out

\* Of two left sides that are themselves joins, of the same rows, each way to
\* join the dearer one costs at least as much: the principle of optimality.
LEMMA CandidatesGrow ==
  ASSUME input \in Inputs, NEW k \in DOMAIN input.preds, NEW p, NEW q, NEW right,
         p.rows \in Nat, p.cost \in Nat, q.rows = p.rows, q.cost \in Nat, p.cost <= q.cost,
         right.rows \in Nat, right.cost \in Nat, Len(p.steps) # 1, Len(q.steps) # 1
  PROVE  /\ DOMAIN Candidates(p, right, k) = DOMAIN Candidates(q, right, k)
         /\ \A i \in DOMAIN Candidates(q, right, k) :
              Candidates(p, right, k)[i].cost <= Candidates(q, right, k)[i].cost
<1> DEFINE out == EstimateJoin(p, right, k)
           c(left, how, outer) == [how |-> how, outer |-> outer,
                                   cost |-> WayCost(how, outer, left, right, out)]
           new == Indexed(right.steps[1].rel, k)
           a(left) == c(left, "nested loop", FALSE)
           b(left) == c(left, "nested loop", TRUE)
           x(left) == c(left, "hash", FALSE)
           y(left) == c(left, "index loop", ~new)
<1>1. out \in Nat
  BY EstimateJoinType
<1>2. EstimateJoin(q, right, k) = out
  BY DEF EstimateJoin
<1>3. ASSUME NEW l, l = p \/ l = q
      PROVE  Candidates(l, right, k) = IF ~Pred(k).eq THEN <<a(l), b(l)>>
                                       ELSE IF new THEN <<a(l), b(l), x(l), y(l)>>
                                       ELSE <<a(l), b(l), x(l)>>
  <2>1. EstimateJoin(l, right, k) = out /\ ~(Len(l.steps) = 1)
    BY <1>2, <1>3
  <2> HIDE DEF out
  <2> QED BY <2>1, CandidatesAre
<1> HIDE DEF out
<1>4. \A how \in Ways, outer \in BOOLEAN : c(p, how, outer).cost <= c(q, how, outer).cost
  BY <1>1, WayCostFacts
<1>5. /\ a(p).cost <= a(q).cost /\ b(p).cost <= b(q).cost /\ x(p).cost <= x(q).cost
      /\ y(p).cost <= y(q).cost
  <2>1. /\ "nested loop" \in Ways /\ "hash" \in Ways /\ "index loop" \in Ways
        /\ (~new) \in BOOLEAN /\ TRUE \in BOOLEAN /\ FALSE \in BOOLEAN
    BY DEF Ways
  <2> HIDE DEF c, new
  <2> QED BY <1>4, <2>1 DEF a, b, x, y
<1> DEFINE s == Candidates(p, right, k)
           t == Candidates(q, right, k)
<1>6. \/ s = <<a(p), b(p)>> /\ t = <<a(q), b(q)>>
      \/ s = <<a(p), b(p), x(p)>> /\ t = <<a(q), b(q), x(q)>>
      \/ s = <<a(p), b(p), x(p), y(p)>> /\ t = <<a(q), b(q), x(q), y(q)>>
  <2> HIDE DEF a, b, x, y, new
  <2> QED BY <1>3
<1> HIDE DEF a, b, x, y, s, t
<1>7. CASE s = <<a(p), b(p)>> /\ t = <<a(q), b(q)>>
  <2>1. /\ DOMAIN s = 1..2 /\ s[1] = a(p) /\ s[2] = b(p)
        /\ DOMAIN t = 1..2 /\ t[1] = a(q) /\ t[2] = b(q)
    BY <1>7
  <2>2. \A i \in 1..2 : i = 1 \/ i = 2
    OBVIOUS
  <2> QED BY <1>5, <2>1, <2>2 DEF s, t
<1>8. CASE s = <<a(p), b(p), x(p)>> /\ t = <<a(q), b(q), x(q)>>
  <2>1. /\ DOMAIN s = 1..3 /\ s[1] = a(p) /\ s[2] = b(p) /\ s[3] = x(p)
        /\ DOMAIN t = 1..3 /\ t[1] = a(q) /\ t[2] = b(q) /\ t[3] = x(q)
    BY <1>8
  <2>2. \A i \in 1..3 : i = 1 \/ i = 2 \/ i = 3
    OBVIOUS
  <2> QED BY <1>5, <2>1, <2>2 DEF s, t
<1>9. CASE s = <<a(p), b(p), x(p), y(p)>> /\ t = <<a(q), b(q), x(q), y(q)>>
  <2>1. /\ DOMAIN s = 1..4 /\ s[1] = a(p) /\ s[2] = b(p) /\ s[3] = x(p) /\ s[4] = y(p)
        /\ DOMAIN t = 1..4 /\ t[1] = a(q) /\ t[2] = b(q) /\ t[3] = x(q) /\ t[4] = y(q)
    BY <1>9
  <2>2. \A i \in 1..4 : i = 1 \/ i = 2 \/ i = 3 \/ i = 4
    OBVIOUS
  <2> QED BY <1>5, <2>1, <2>2 DEF s, t
<1> QED BY <1>6, <1>7, <1>8, <1>9

\* The first of the cheapest is one of them, and none is cheaper.
LEMMA CheapestIs ==
  ASSUME NEW s, NEW n \in Nat \ {0}, DOMAIN s = 1..n, \A i \in 1..n : s[i].cost \in Nat
  PROVE  \E i \in 1..n : Cheapest(s) = s[i] /\ \A j \in 1..n : s[i].cost <= s[j].cost
<1> DEFINE First(i) == \A j \in DOMAIN s : s[i].cost < s[j].cost
                                           \/ (s[i].cost = s[j].cost /\ i <= j)
           Costs == {s[i].cost : i \in 1..n}
<1>1. 1 \in 1..n
  OBVIOUS
<1>2. Costs \in SUBSET Nat /\ Costs # {}
  BY <1>1
<1>3. PICK m \in Costs : \A c \in Costs : m <= c
  BY <1>2, MinExists
<1> DEFINE At == {i \in 1..n : s[i].cost = m}
<1>4. At \in SUBSET Nat /\ At # {}
  BY <1>3
<1>5. PICK i \in At : \A j \in At : i <= j
  BY <1>4, MinExists
<1>6. First(i)
  <2> SUFFICES ASSUME NEW j \in 1..n
               PROVE  s[i].cost < s[j].cost \/ (s[i].cost = s[j].cost /\ i <= j)
    OBVIOUS
  <2>1. s[i].cost = m /\ m \in Nat /\ m <= s[j].cost /\ s[j].cost \in Nat
    BY <1>2, <1>3, <1>5
  <2>2. CASE s[j].cost = m
    BY <1>5, <2>1, <2>2
  <2>3. CASE s[j].cost # m
    BY <2>1, <2>3
  <2> QED BY <2>2, <2>3
<1> DEFINE f == CHOOSE x \in DOMAIN s : First(x)
<1>7. i \in DOMAIN s
  BY <1>5
<1>8. f \in DOMAIN s /\ First(f)
  <2> HIDE DEF First
  <2> QED BY <1>6, <1>7, Zenon
<1>9. Cheapest(s) = s[f]
  BY DEF Cheapest
<1> HIDE DEF f
<1>10. \A j \in 1..n : s[f].cost <= s[j].cost
  BY <1>8
<1> QED BY <1>8, <1>9, <1>10

-----------------------------------------------------------------------------
(* The plans that the search keeps *)

\* Every planned set has relations, and its plan an estimate and a cost.
Priced ==
  \A s \in DOMAIN memo :
    Cardinality(s) >= 1 /\ memo[s].rows \in Nat /\ memo[s].cost \in Nat

\* The row counts R and costs C that CostModel computes along a plan of n
\* relations.
Reckons(plan, n, R, C) ==
  LET right(i) == memo[{plan.steps[i].rel}]
  IN  /\ R[1] = right(1).rows /\ C[1] = right(1).cost
      /\ \A i \in 2..n :
           /\ R[i] = EstimateJoin([steps |-> SubSeq(plan.steps, 1, i - 1), rows |-> R[i - 1]],
                                  right(i), plan.steps[i].edge)
           /\ C[i] = WayCost(plan.steps[i].how, plan.steps[i].outer,
                             [rows |-> R[i - 1], cost |-> C[i - 1]], right(i), R[i])
      /\ R[n] = plan.rows /\ C[n] = plan.cost

Reckoned ==
  \A s \in DOMAIN memo : \E R, C \in [1..Cardinality(s) -> Nat] :
    Reckons(memo[s], Cardinality(s), R, C)

\* A set of several relations is solved when it has a plan, and its plan is a
\* cheapest one of those that join one relation to a smaller set's plan.
KeptCheapest ==
  \A s \in DOMAIN memo :
    Cardinality(s) > 1 =>
      /\ s \in solved
      /\ \E r \in LastOf(s) : memo[s] = Extend(s, r)
      /\ \A r \in LastOf(s) : memo[s].cost <= Extend(s, r).cost

\* The search returns when every set is solved.
Finished == stage = "planned" => Unsolved = {}

CInv == IInv /\ Priced /\ Reckoned /\ KeptCheapest /\ Finished

\* A prefix of a plan's steps.
LEMMA PrefixLen ==
  ASSUME NEW n \in Nat, NEW f, IsSteps(f, n)
  PROVE  Len(f) = n /\ \A m \in 0..n : Len(SubSeq(f, 1, m)) = m
<1> DEFINE S == {f[i] : i \in 1..n}
<1>1. f \in [1..n -> S]
  BY DEF IsSteps
<1>2. f \in Seq(S) /\ Len(f) = n
  BY <1>1
<1>3. ASSUME NEW m \in 0..n PROVE Len(SubSeq(f, 1, m)) = m
  BY <1>2, SubSeqProperties
<1> QED BY <1>2, <1>3

\* What a join returns depends on its left side's rows, and on whether that is
\* a base relation.
LEMMA EstimateSame ==
  ASSUME NEW p, NEW q, NEW right, NEW k, p.rows = q.rows,
         Len(p.steps) = 1 <=> Len(q.steps) = 1
  PROVE  EstimateJoin(p, right, k) = EstimateJoin(q, right, k)
BY DEF EstimateJoin

\* A base relation's plan is about that relation.
LEMMA BaseRel ==
  ASSUME IInv, NEW i \in Ids
  PROVE  /\ {i} \in DOMAIN memo /\ Cardinality({i}) = 1
         /\ memo[{i}].steps[1].rel = i /\ IsSteps(memo[{i}].steps, 1)
<1>1. {i} \in DOMAIN memo /\ Cardinality({i}) = 1
  BY FS_Singleton DEF IInv, SearchTypeOK
<1>2. WellFormed(memo[{i}], {i}) /\ IsSteps(memo[{i}].steps, 1)
  BY <1>1 DEF IInv, PlansWellFormed, SearchTypeOK
<1>3. {memo[{i}].steps[j].rel : j \in 1..1} = {i}
  BY <1>1, <1>2 DEF WellFormed
<1>4. memo[{i}].steps[1].rel \in {memo[{i}].steps[j].rel : j \in 1..1}
  OBVIOUS
<1> QED BY <1>1, <1>2, <1>3, <1>4

\* Joining one more relation: its estimate, its cost, and that no candidate is
\* cheaper.
LEMMA ExtendIs ==
  ASSUME IInv, Priced, NEW s \in SUBSET Ids, NEW r \in LastOf(s)
  PROVE  LET left == memo[s \ {r}]
             right == memo[{r}]
             k == FindConnectingEdge(s \ {r}, r)
             p == Extend(s, r)
         IN  /\ k \in DOMAIN input.preds
             /\ p.rows = EstimateJoin(left, right, k) /\ p.rows \in Nat /\ p.cost \in Nat
             /\ \E how \in Ways, outer \in BOOLEAN :
                  /\ p.steps = Append(left.steps, [rel |-> r, edge |-> k,
                                                   outer |-> outer, how |-> how])
                  /\ p.cost = WayCost(how, outer, left, right, p.rows)
             /\ \A i \in DOMAIN Candidates(left, right, k) :
                  p.cost <= Candidates(left, right, k)[i].cost
<1> DEFINE left == memo[s \ {r}]
           right == memo[{r}]
           k == FindConnectingEdge(s \ {r}, r)
           p == Extend(s, r)
           all == Candidates(left, right, k)
           out == EstimateJoin(left, right, k)
           c == Cheapest(all)
<1>1. r \in s /\ s \ {r} \in DOMAIN memo /\ Connecting(s \ {r}, r) # {} /\ r \in Ids
  BY DEF LastOf
<1>2. k \in DOMAIN input.preds
  <2>1. k \in Edges
    BY <1>1, EdgeFound DEF IInv, SearchTypeOK
  <2> QED BY <2>1 DEF Edges
<1>3. {r} \in DOMAIN memo /\ input \in Inputs
  BY <1>1 DEF IInv, SearchTypeOK
<1>4. /\ left.rows \in Nat /\ left.cost \in Nat
      /\ right.rows \in Nat /\ right.cost \in Nat
  BY <1>1, <1>3 DEF Priced
<1>5. right.steps[1].rel = r
  BY <1>1, BaseRel
<1>6. /\ p.steps = Append(left.steps, [rel |-> right.steps[1].rel, edge |-> k,
                                       outer |-> c.outer, how |-> c.how])
      /\ p.rows = out /\ p.cost = c.cost
  BY DEF Extend, GenerateBestCandidate, JoinPlan
<1> HIDE DEF p, k, left, right
<1>7. out \in Nat
  BY <1>2, <1>3, <1>4, EstimateJoinType
<1>8. PICK n \in 2..4 :
        /\ DOMAIN all = 1..n
        /\ \A i \in 1..n : /\ all[i].how \in Ways /\ all[i].outer \in BOOLEAN
                           /\ all[i].cost \in Nat
                           /\ all[i].cost = WayCost(all[i].how, all[i].outer, left, right, out)
  BY <1>2, <1>3, <1>4, CandidateFacts
<1> HIDE DEF all, out
<1>9. PICK i \in 1..n : c = all[i] /\ \A j \in 1..n : all[i].cost <= all[j].cost
  <2>1. n \in Nat \ {0}
    OBVIOUS
  <2> QED BY <1>8, <2>1, CheapestIs
<1>10. /\ c.how \in Ways /\ c.outer \in BOOLEAN /\ c.cost \in Nat
       /\ c.cost = WayCost(c.how, c.outer, left, right, out)
       /\ \A j \in DOMAIN all : c.cost <= all[j].cost
  BY <1>8, <1>9
<1> HIDE DEF c
<1>11. \E how \in Ways, outer \in BOOLEAN :
         /\ p.steps = Append(left.steps, [rel |-> r, edge |-> k, outer |-> outer, how |-> how])
         /\ p.cost = WayCost(how, outer, left, right, p.rows)
  BY <1>5, <1>6, <1>10
<1>12. /\ p.rows = out /\ p.rows \in Nat /\ p.cost \in Nat
       /\ \A j \in DOMAIN all : p.cost <= all[j].cost
  BY <1>6, <1>7, <1>10
<1> QED BY <1>2, <1>11, <1>12 DEF p, k, left, right, all, out

\* A step changes no plan that another was built from.
LEMMA ExtendSame ==
  ASSUME UNCHANGED input, NEW s, NEW r, memo'[s \ {r}] = memo[s \ {r}], memo'[{r}] = memo[{r}]
  PROVE  Extend(s, r)' = Extend(s, r)
<1>1. \A left, right, k : EstimateJoin(left, right, k)' = EstimateJoin(left, right, k)
  BY DEF EstimateJoin, Pred
<1>2. ASSUME NEW left, NEW right, NEW k
      PROVE  Candidates(left, right, k)' = Candidates(left, right, k)
  <2>1. EstimateJoin(left, right, k)' = EstimateJoin(left, right, k)
    BY <1>1
  <2> HIDE DEF EstimateJoin
  <2> QED BY <2>1 DEF Candidates, Pred, Indexed
<1>3. \A left, right, k : GenerateBestCandidate(left, right, k)'
                           = GenerateBestCandidate(left, right, k)
  BY <1>1, <1>2 DEF GenerateBestCandidate, JoinPlan
<1>4. FindConnectingEdge(s \ {r}, r)' = FindConnectingEdge(s \ {r}, r)
  BY SameSearch DEF FindConnectingEdge
<1> QED BY <1>3, <1>4 DEF Extend

\* The joined relation continues the row counts and the costs of the plan that
\* it is joined to.
LEMMA ExtendReckoned ==
  ASSUME IInv, Priced, Reckoned, NEW s \in SUBSET Ids, NEW r \in LastOf(s)
  PROVE  \E R, C \in [1..Cardinality(s) -> Nat] :
           Reckons(Extend(s, r), Cardinality(s), R, C)
<1> DEFINE rest == s \ {r}
           left == memo[rest]
           k == FindConnectingEdge(rest, r)
           n == Cardinality(rest)
           p == Extend(s, r)
           old == left.steps
           at(i) == memo[{p.steps[i].rel}]
<1>1. r \in s /\ rest \in DOMAIN memo /\ r \in Ids
  BY DEF LastOf
<1>2. n \in Nat /\ n >= 1 /\ Cardinality(s) = n + 1
  BY <1>1, IdsFinite DEF IInv, SearchTypeOK, Priced
<1>3. PICK how \in Ways, outer \in BOOLEAN :
        /\ p.steps = Append(old, [rel |-> r, edge |-> k, outer |-> outer, how |-> how])
        /\ p.cost = WayCost(how, outer, left, memo[{r}], p.rows)
  BY ExtendIs
<1>4. p.rows = EstimateJoin(left, memo[{r}], k) /\ p.rows \in Nat /\ p.cost \in Nat
  BY ExtendIs
<1>5. PICK R, C \in [1..n -> Nat] : Reckons(left, n, R, C)
  BY <1>1 DEF Reckoned
<1> DEFINE e == [rel |-> r, edge |-> k, outer |-> outer, how |-> how]
           R2 == [i \in 1..(n + 1) |-> IF i = n + 1 THEN p.rows ELSE R[i]]
           C2 == [i \in 1..(n + 1) |-> IF i = n + 1 THEN p.cost ELSE C[i]]
<1>6. e.rel = r /\ e.edge = k /\ e.outer = outer /\ e.how = how
  OBVIOUS
<1>7. IsSteps(old, n) /\ IsSteps(p.steps, n + 1)
  BY <1>1, <1>2, ExtendWellFormed DEF IInv, SearchTypeOK
<1> HIDE DEF e, p, k, left, n, rest, old
<1>8. p.steps = [i \in 1..(n + 1) |-> IF i = n + 1 THEN e ELSE old[i]]
  BY <1>2, <1>3, <1>7, AppendSteps DEF e
<1>9. /\ p.steps[n + 1] = e /\ \A i \in 1..n : p.steps[i] = old[i]
      /\ R2[n + 1] = p.rows /\ \A i \in 1..n : R2[i] = R[i]
      /\ C2[n + 1] = p.cost /\ \A i \in 1..n : C2[i] = C[i]
  BY <1>2, <1>8
<1>10. R2 \in [1..(n + 1) -> Nat] /\ C2 \in [1..(n + 1) -> Nat]
  BY <1>2, <1>4
<1> HIDE DEF R2, C2
<1>11. /\ Len(old) = n
       /\ \A m \in 0..n : Len(SubSeq(old, 1, m)) = m
       /\ \A m \in 0..(n + 1) : Len(SubSeq(p.steps, 1, m)) = m
  <2>1. n + 1 \in Nat
    BY <1>2
  <2> QED BY <1>2, <1>7, <2>1, PrefixLen
<1>12. /\ R[1] = memo[{old[1].rel}].rows /\ C[1] = memo[{old[1].rel}].cost
       /\ R[n] = left.rows /\ C[n] = left.cost
  BY <1>5 DEF Reckons, old
<1>13. R2[1] = at(1).rows /\ C2[1] = at(1).cost
  <2>1. 1 \in 1..n
    BY <1>2
  <2>2. R2[1] = R[1] /\ C2[1] = C[1] /\ p.steps[1] = old[1]
    BY <1>9, <2>1
  <2> QED BY <1>12, <2>2
<1>14. ASSUME NEW i \in 2..(n + 1)
       PROVE  /\ R2[i] = EstimateJoin([steps |-> SubSeq(p.steps, 1, i - 1), rows |-> R2[i - 1]],
                                      at(i), p.steps[i].edge)
              /\ C2[i] = WayCost(p.steps[i].how, p.steps[i].outer,
                                 [rows |-> R2[i - 1], cost |-> C2[i - 1]], at(i), R2[i])
  <2> DEFINE before == [steps |-> SubSeq(p.steps, 1, i - 1), rows |-> R2[i - 1]]
  <2>1. i - 1 \in 1..n /\ i - 1 \in 0..(n + 1) /\ i - 1 \in 0..n
    BY <1>2
  <2>2. before.rows = R[i - 1] /\ Len(before.steps) = i - 1
    BY <1>9, <1>11, <2>1
  <2>3. CASE i = n + 1
    <3>1. p.steps[i] = e /\ R2[i] = p.rows /\ C2[i] = p.cost
      BY <1>9, <2>3
    <3>2. at(i) = memo[{r}] /\ p.steps[i].edge = k
      BY <1>6, <3>1
    <3>3. before.rows = left.rows /\ (Len(before.steps) = 1 <=> Len(left.steps) = 1)
      BY <1>2, <1>11, <1>12, <2>2, <2>3 DEF old
    <3> HIDE DEF before
    <3>4. EstimateJoin(before, memo[{r}], k) = EstimateJoin(left, memo[{r}], k)
      BY <3>3, EstimateSame
    <3>5. R2[i] = EstimateJoin(before, at(i), p.steps[i].edge)
      BY <1>4, <3>1, <3>2, <3>4 DEF k, rest, p, left
    <3> DEFINE l == [rows |-> R2[i - 1], cost |-> C2[i - 1]]
    <3>6. l.rows = left.rows /\ l.cost = left.cost
      BY <1>2, <1>9, <1>12, <2>1, <2>3
    <3> HIDE DEF l
    <3>7. WayCost(how, outer, l, memo[{r}], p.rows) = WayCost(how, outer, left, memo[{r}], p.rows)
      BY <3>6 DEF WayCost
    <3>8. p.steps[i].how = how /\ p.steps[i].outer = outer
      BY <1>6, <3>1
    <3>9. C2[i] = WayCost(p.steps[i].how, p.steps[i].outer, l, at(i), R2[i])
      BY <1>3, <3>1, <3>2, <3>7, <3>8 DEF left, rest, p
    <3> QED BY <3>5, <3>9 DEF before, l
  <2>4. CASE i # n + 1
    <3> DEFINE was == [steps |-> SubSeq(old, 1, i - 1), rows |-> R[i - 1]]
    <3>1. i \in 2..n /\ i \in 1..n
      BY <1>2, <2>4
    <3>2. /\ R[i] = EstimateJoin(was, memo[{old[i].rel}], old[i].edge)
          /\ C[i] = WayCost(old[i].how, old[i].outer, [rows |-> R[i - 1], cost |-> C[i - 1]],
                            memo[{old[i].rel}], R[i])
      BY <1>5, <3>1 DEF Reckons, old
    <3>3. p.steps[i] = old[i] /\ R2[i] = R[i] /\ C2[i] = C[i] /\ R2[i - 1] = R[i - 1]
          /\ C2[i - 1] = C[i - 1]
      BY <1>9, <2>1, <3>1
    <3>4. was.rows = before.rows /\ (Len(was.steps) = 1 <=> Len(before.steps) = 1)
      BY <1>11, <2>1, <2>2
    <3> HIDE DEF was, before
    <3>5. EstimateJoin(before, at(i), p.steps[i].edge) = EstimateJoin(was, at(i), p.steps[i].edge)
      BY <3>4, EstimateSame
    <3>6. R2[i] = EstimateJoin(before, at(i), p.steps[i].edge)
      BY <3>2, <3>3, <3>5
    <3>7. C2[i] = WayCost(p.steps[i].how, p.steps[i].outer,
                          [rows |-> R2[i - 1], cost |-> C2[i - 1]], at(i), R2[i])
      BY <3>2, <3>3
    <3> QED BY <3>6, <3>7 DEF before
  <2> QED BY <2>3, <2>4
<1>15. Reckons(p, n + 1, R2, C2)
  BY <1>9, <1>13, <1>14 DEF Reckons
<1> QED BY <1>2, <1>10, <1>15 DEF p

-----------------------------------------------------------------------------
(* The second invariant is inductive *)

\* Plans join relations of the query.
LEMMA PlanRels ==
  ASSUME IInv, NEW s \in DOMAIN memo, NEW i \in 1..Cardinality(s)
  PROVE  memo[s].steps[i].rel \in Ids
<1> DEFINE p == memo[s]
<1>1. WellFormed(p, s) /\ s \subseteq Ids
  BY DEF IInv, SearchTypeOK, PlansWellFormed
<1> HIDE DEF p
<1>2. DOMAIN p.steps = 1..Cardinality(s) /\ {p.steps[j].rel : j \in DOMAIN p.steps} = s
  BY <1>1 DEF WellFormed
<1>3. p.steps[i].rel \in s
  BY <1>2
<1> QED BY <1>1, <1>3 DEF p

LEMMA InitCInv == SearchInit => CInv
<1> SUFFICES ASSUME SearchInit PROVE CInv
  OBVIOUS
<1>1. input \in Inputs /\ memo = BasePlans /\ stage = "search" /\ IInv
  BY InitIInv DEF SearchInit
<1>2. DOMAIN memo = {{i} : i \in Ids}
  BY <1>1 DEF BasePlans
<1>3. ASSUME NEW i \in Ids
      PROVE  memo[{i}].rows \in Nat /\ memo[{i}].cost \in Nat
  <2>1. memo[{i}] = BestAccessPath(i)
    <3>1. (CHOOSE j \in {i} : TRUE) = i
      OBVIOUS
    <3> QED BY <1>1, <3>1 DEF BasePlans
  <2> QED BY <1>1, <2>1, AccessPathType
<1>4. Priced
  BY <1>1, <1>2, <1>3, BaseRel DEF Priced
<1>5. Reckoned
  <2> SUFFICES ASSUME NEW s \in DOMAIN memo
               PROVE  \E R, C \in [1..Cardinality(s) -> Nat] :
                        Reckons(memo[s], Cardinality(s), R, C)
    BY DEF Reckoned
  <2>1. PICK i \in Ids : s = {i}
    BY <1>2
  <2> DEFINE R == [j \in 1..1 |-> memo[{i}].rows]
             C == [j \in 1..1 |-> memo[{i}].cost]
  <2>2. R \in [1..1 -> Nat] /\ C \in [1..1 -> Nat]
    BY <1>3
  <2>3. R[1] = memo[{i}].rows /\ C[1] = memo[{i}].cost
    OBVIOUS
  <2>4. memo[{i}].steps[1].rel = i
    BY <1>1, BaseRel
  <2> HIDE DEF R, C
  <2>5. Reckons(memo[{i}], 1, R, C)
    BY <2>3, <2>4 DEF Reckons
  <2>6. Cardinality(s) = 1
    BY <1>1, <2>1, BaseRel
  <2> QED BY <2>1, <2>2, <2>5, <2>6
<1>6. KeptCheapest
  <2>1. \A s \in DOMAIN memo : Cardinality(s) = 1
    BY <1>1, <1>2, BaseRel
  <2> QED BY <2>1 DEF KeptCheapest
<1>7. Finished
  BY <1>1 DEF Finished
<1> QED BY <1>1, <1>4, <1>5, <1>6, <1>7 DEF CInv

\* A plan reckons as it did while the base relations' plans stay.
LEMMA ReckonsSame ==
  ASSUME UNCHANGED input, \A i \in Ids : memo'[{i}] = memo[{i}]
  PROVE  \A p, R, C : \A n \in Nat :
           n >= 1 /\ (\A i \in 1..n : p.steps[i].rel \in Ids) /\ Reckons(p, n, R, C)
             => Reckons(p, n, R, C)'
<1> SUFFICES ASSUME NEW p, NEW R, NEW C, NEW n \in Nat, n >= 1,
                    \A i \in 1..n : p.steps[i].rel \in Ids, Reckons(p, n, R, C)
             PROVE  Reckons(p, n, R, C)'
  OBVIOUS
<1>1. \A left, right, k : EstimateJoin(left, right, k)' = EstimateJoin(left, right, k)
  BY DEF EstimateJoin, Pred
<1>2. \A i \in 1..n : memo'[{p.steps[i].rel}] = memo[{p.steps[i].rel}]
  OBVIOUS
<1>3. 1 \in 1..n /\ \A i \in 2..n : i \in 1..n
  OBVIOUS
<1> QED BY <1>1, <1>2, <1>3 DEF Reckons

\* A step that keeps the plans keeps what is known of them.
LEMMA PlansKept ==
  ASSUME CInv, UNCHANGED <<input, memo>>, solved \subseteq solved'
  PROVE  Priced' /\ Reckoned' /\ KeptCheapest'
<1>1. Priced'
  BY DEF CInv, Priced
<1>2. ASSUME NEW s \in DOMAIN memo
      PROVE  \E R, C \in [1..Cardinality(s) -> Nat] : Reckons(memo[s], Cardinality(s), R, C)'
  <2>1. PICK R, C \in [1..Cardinality(s) -> Nat] : Reckons(memo[s], Cardinality(s), R, C)
    BY DEF CInv, Reckoned
  <2>2. Cardinality(s) \in Nat /\ Cardinality(s) >= 1
    BY IdsFinite DEF CInv, IInv, SearchTypeOK, Priced
  <2>3. \A i \in 1..Cardinality(s) : memo[s].steps[i].rel \in Ids
    BY PlanRels DEF CInv
  <2> QED BY <2>1, <2>2, <2>3, ReckonsSame
<1>3. Reckoned'
  BY <1>2 DEF Reckoned
<1>4. KeptCheapest'
  <2>1. \A t : LastOf(t)' = LastOf(t)
    BY SameSearch DEF LastOf
  <2>2. \A t, r : Extend(t, r)' = Extend(t, r)
    BY ExtendSame
  <2> QED BY <2>1, <2>2 DEF CInv, KeptCheapest
<1> QED BY <1>1, <1>3, <1>4

\* solve_subset on a set that can be reached.
LEMMA SolvedKept ==
  ASSUME CInv, UNCHANGED input, NEW s \in Unsolved, solved' = solved \cup {s},
         NEW r \in LastOf(s), IsBest(s, r),
         memo' = [t \in DOMAIN memo \cup {s} |-> IF t = s THEN Extend(s, r) ELSE memo[t]]
  PROVE  Priced' /\ Reckoned' /\ KeptCheapest'
<1>1. s \in SUBSET Ids /\ Cardinality(s) > 1 /\ s \notin solved
  BY DEF Unsolved
<1>2. s \notin DOMAIN memo
  BY <1>1 DEF CInv, KeptCheapest
<1>3. DOMAIN memo' = DOMAIN memo \cup {s}
  OBVIOUS
<1>4. memo'[s] = Extend(s, r) /\ \A t \in DOMAIN memo : memo'[t] = memo[t]
  BY <1>2
<1>5. \A t \in SUBSET Ids : Cardinality(t) \in Nat
  BY IdsFinite DEF CInv, IInv, SearchTypeOK
<1>6. IInv /\ Priced /\ Reckoned /\ KeptCheapest
  BY DEF CInv
<1>7. Priced'
  <2>1. Extend(s, r).rows \in Nat /\ Extend(s, r).cost \in Nat
    BY <1>1, <1>6, ExtendIs
  <2>2. Cardinality(s) >= 1
    BY <1>1, <1>5
  <2> QED BY <1>3, <1>4, <1>6, <2>1, <2>2 DEF Priced
<1>8. \A i \in Ids : memo'[{i}] = memo[{i}]
  BY <1>4, <1>6, BaseRel
<1>9. Reckoned'
  <2> SUFFICES ASSUME NEW t \in DOMAIN memo'
               PROVE  \E R, C \in [1..Cardinality(t) -> Nat] :
                        Reckons(memo[t], Cardinality(t), R, C)'
    BY DEF Reckoned
  <2>1. PICK p : p = memo'[t]
    OBVIOUS
  <2>2. /\ t \in SUBSET Ids /\ Cardinality(t) >= 1
        /\ \A i \in 1..Cardinality(t) : p.steps[i].rel \in Ids
    <3>1. CASE t = s
      <4>1. WellFormed(p, s)
        BY <1>1, <1>4, <1>6, <2>1, <3>1, ExtendWellFormed DEF IInv
      <4>2. DOMAIN p.steps = 1..Cardinality(s) /\ {p.steps[j].rel : j \in DOMAIN p.steps} = s
        BY <4>1 DEF WellFormed
      <4>3. \A i \in 1..Cardinality(s) : p.steps[i].rel \in s
        BY <4>2
      <4> QED BY <1>1, <1>5, <3>1, <4>3
    <3>2. CASE t # s
      <4>1. t \in DOMAIN memo /\ p = memo[t]
        BY <1>3, <1>4, <2>1, <3>2
      <4>2. t \in SUBSET Ids /\ Cardinality(t) >= 1
        BY <1>6, <4>1 DEF IInv, SearchTypeOK, Priced
      <4> QED BY <1>6, <4>1, <4>2, PlanRels
    <3> QED BY <3>1, <3>2
  <2>3. PICK R, C \in [1..Cardinality(t) -> Nat] : Reckons(p, Cardinality(t), R, C)
    <3>1. CASE t = s
      BY <1>1, <1>4, <1>6, <2>1, <3>1, ExtendReckoned
    <3>2. CASE t # s
      <4>1. t \in DOMAIN memo /\ p = memo[t]
        BY <1>3, <1>4, <2>1, <3>2
      <4> QED BY <1>6, <4>1 DEF Reckoned
    <3> QED BY <3>1, <3>2
  <2>4. Reckons(p, Cardinality(t), R, C)'
    BY <1>5, <1>8, <2>2, <2>3, ReckonsSame
  <2>5. Reckons(memo[t], Cardinality(t), R, C)'
    BY <2>1, <2>4
  <2> QED BY <2>5
<1>10. KeptCheapest'
  <2>1. ASSUME NEW t \in DOMAIN memo', Cardinality(t) > 1
        PROVE  /\ LastOf(t)' = LastOf(t)
               /\ \A q \in LastOf(t) : Extend(t, q)' = Extend(t, q)
    <3>1. t \in SUBSET Ids /\ t \in solved'
      BY <1>1, <1>3, <1>6, <2>1 DEF KeptCheapest, IInv, SearchTypeOK
    <3>2. Cardinality(t) <= Cardinality(s)
      <4>1. CASE t = s
        BY <1>1, <1>5, <4>1
      <4>2. CASE t \in solved
        BY <1>1, <1>5, <1>6, <3>1, <4>2 DEF IInv, SolvedBySize
      <4> QED BY <3>1, <4>1, <4>2
    <3>3. ASSUME NEW q \in t PROVE t \ {q} # s /\ q \in Ids
      <4>1. Cardinality(t \ {q}) < Cardinality(t)
        BY <1>6, <3>1, IdsFinite DEF IInv, SearchTypeOK
      <4> QED BY <1>1, <1>5, <3>1, <3>2, <4>1
    <3>4. \A q \in t : t \ {q} \in DOMAIN memo' <=> t \ {q} \in DOMAIN memo
      BY <1>3, <3>3
    <3>5. LastOf(t)' = LastOf(t)
      BY <3>4, SameSearch DEF LastOf
    <3>6. ASSUME NEW q \in LastOf(t) PROVE Extend(t, q)' = Extend(t, q)
      <4>1. t \ {q} \in DOMAIN memo /\ q \in Ids
        BY <3>3 DEF LastOf
      <4>2. memo'[t \ {q}] = memo[t \ {q}] /\ memo'[{q}] = memo[{q}]
        BY <1>4, <1>8, <4>1
      <4> QED BY <4>2, ExtendSame
    <3> QED BY <3>5, <3>6
  <2>2. ASSUME NEW t \in DOMAIN memo', Cardinality(t) > 1
        PROVE  /\ t \in solved'
               /\ \E q \in LastOf(t) : memo'[t] = Extend(t, q)
               /\ \A q \in LastOf(t) : memo'[t].cost <= Extend(t, q).cost
    <3>1. CASE t = s
      <4>1. ASSUME NEW q \in LastOf(s) PROVE Extend(s, r).cost <= Extend(s, q).cost
        <5>1. Extend(s, r).cost \in Nat /\ Extend(s, q).cost \in Nat
          BY <1>1, <1>6, ExtendIs
        <5> QED BY <5>1 DEF IsBest
      <4> QED BY <1>4, <3>1, <4>1
    <3>2. CASE t # s
      <4>1. t \in DOMAIN memo /\ memo'[t] = memo[t]
        BY <1>3, <1>4, <3>2
      <4> QED BY <1>6, <2>2, <4>1 DEF KeptCheapest
    <3> QED BY <3>1, <3>2
  <2> QED BY <2>1, <2>2 DEF KeptCheapest
<1> QED BY <1>7, <1>9, <1>10

LEMMA NextCInv == CInv /\ [SearchNext]_searchVars => CInv'
<1> SUFFICES ASSUME CInv, [SearchNext]_searchVars PROVE CInv'
  OBVIOUS
<1>1. IInv /\ IInv'
  BY StutterIInv, FindBestPlanIInv, SearchStepIInv DEF CInv, SearchNext
<1>2. CASE UNCHANGED searchVars
  <2>1. UNCHANGED <<input, solved, memo, stage>>
    BY <1>2 DEF searchVars
  <2>2. Priced' /\ Reckoned' /\ KeptCheapest'
    BY <2>1, PlansKept
  <2>3. Finished'
    BY <2>1, SameGraph DEF CInv, Finished, Unsolved
  <2> QED BY <1>1, <2>2, <2>3 DEF CInv
<1>3. CASE FindBestPlan
  <2>1. UNCHANGED <<input, solved, memo>> /\ Unsolved = {}
    BY <1>3 DEF FindBestPlan
  <2>2. Priced' /\ Reckoned' /\ KeptCheapest'
    BY <2>1, PlansKept
  <2>3. Finished'
    BY <2>1, SameGraph DEF Finished, Unsolved
  <2> QED BY <1>1, <2>2, <2>3 DEF CInv
<1>4. CASE SearchStep
  <2>1. UNCHANGED <<input, stage>> /\ stage = "search"
    BY <1>4 DEF SearchStep
  <2>2. PICK s \in Unsolved : SolveSubset(s)
    BY <1>4 DEF SearchStep
  <2>3. solved' = solved \cup {s}
    BY <2>2 DEF SolveSubset
  <2>4. Priced' /\ Reckoned' /\ KeptCheapest'
    <3>1. CASE UNCHANGED memo
      BY <2>1, <2>3, <3>1, PlansKept
    <3>2. CASE \E r \in LastOf(s) :
                 /\ IsBest(s, r)
                 /\ memo' = [t \in DOMAIN memo \cup {s} |->
                               IF t = s THEN Extend(s, r) ELSE memo[t]]
      BY <2>1, <2>3, <3>2, SolvedKept
    <3> QED BY <2>2, <3>1, <3>2 DEF SolveSubset
  <2>5. Finished'
    BY <2>1 DEF Finished
  <2> QED BY <1>1, <2>4, <2>5 DEF CInv
<1> QED BY <1>2, <1>3, <1>4 DEF SearchNext

\* Every plan that the search keeps is a cheapest one of those that join one
\* relation to a kept plan, and CostModel's sums along it end in its estimates.
THEOREM SearchKeepsCheapest == SearchSpec => []CInv
<1> QED BY InitCInv, NextCInv, PTL DEF SearchSpec

-----------------------------------------------------------------------------
(* CostModel *)

\* Two functions that begin alike, and at each place agree if they agree at the
\* one before, are the same.
LEMMA SameAlong ==
  ASSUME NEW n \in Nat \ {0}, NEW f, NEW g,
         IsSteps(f, n), IsSteps(g, n), f[1] = g[1],
         \A i \in 2..n : f[i - 1] = g[i - 1] => f[i] = g[i]
  PROVE  f = g
<1> DEFINE D == {i \in 1..n : f[i] # g[i]}
<1>1. ASSUME D # {} PROVE FALSE
  <2>1. D \in SUBSET Nat
    OBVIOUS
  <2>2. PICK m \in D : \A i \in D : m <= i
    BY <1>1, <2>1, MinExists
  <2>3. m \in 2..n /\ m - 1 \in 1..n /\ ~(m <= m - 1)
    BY <2>2
  <2>4. f[m - 1] = g[m - 1]
    BY <2>2, <2>3
  <2> QED BY <2>2, <2>3, <2>4
<1>2. \A i \in 1..n : f[i] = g[i]
  BY <1>1
<1> QED BY <1>2 DEF IsSteps

\* One unfolding of a function that is defined along 1..n.
Along(n, a, e) == [i \in 1..n |-> IF i = 1 THEN a ELSE e[i]]

LEMMA Unfolded ==
  ASSUME NEW n \in Nat \ {0}, NEW a, NEW e
  PROVE  /\ IsSteps(Along(n, a, e), n) /\ Along(n, a, e)[1] = a
         /\ \A i \in 2..n : Along(n, a, e)[i] = e[i]
<1>1. \A i \in 1..n : Along(n, a, e)[i] = IF i = 1 THEN a ELSE e[i]
  BY DEF Along
<1>2. IsSteps(Along(n, a, e), n)
  BY DEF IsSteps, Along
<1>3. 1 \in 1..n /\ \A i \in 2..n : i \in 1..n /\ i # 1
  OBVIOUS
<1> QED BY <1>1, <1>2, <1>3

\* The sums that CostModel::estimate_cost computes are the ones it reckons with.
LEMMA RecomputedIs ==
  ASSUME NEW plan, NEW n \in Nat \ {0}, IsSteps(plan.steps, n),
         NEW R \in [1..n -> Nat], NEW C \in [1..n -> Nat], Reckons(plan, n, R, C)
  PROVE  Recomputed(plan) = plan.cost
<1> DEFINE right(i) == memo[{plan.steps[i].rel}]
           rows[i \in DOMAIN plan.steps] ==
             IF i = 1 THEN right(1).rows
             ELSE EstimateJoin([steps |-> SubSeq(plan.steps, 1, i - 1), rows |-> rows[i - 1]],
                               right(i), plan.steps[i].edge)
           cost[i \in DOMAIN plan.steps] ==
             IF i = 1 THEN right(1).cost
             ELSE LET l == [rows |-> rows[i - 1], cost |-> cost[i - 1]]
                      outer == IF plan.steps[i].outer THEN right(i) ELSE l
                      inner == IF plan.steps[i].outer THEN l ELSE right(i)
                  IN  CASE plan.steps[i].how = "nested loop" ->
                             outer.cost + outer.rows * inner.cost
                               + NestedLoopCost(outer.rows, inner.rows)
                        [] plan.steps[i].how = "hash" ->
                             outer.cost + inner.cost + HashJoinCost(outer.rows, inner.rows)
                        [] plan.steps[i].how = "index loop" ->
                             outer.cost + IndexNestedLoopCost(outer.rows, rows[i])
           Estimate(i, x) ==
             EstimateJoin([steps |-> SubSeq(plan.steps, 1, i - 1), rows |-> x],
                          right(i), plan.steps[i].edge)
           F(h) == [i \in DOMAIN plan.steps |->
                      IF i = 1 THEN right(1).rows
                      ELSE EstimateJoin([steps |-> SubSeq(plan.steps, 1, i - 1),
                                         rows |-> h[i - 1]],
                                        right(i), plan.steps[i].edge)]
           Way(i, x, y, z) == WayCost(plan.steps[i].how, plan.steps[i].outer,
                                      [rows |-> x, cost |-> y], right(i), z)
           G(r, h) == [i \in DOMAIN plan.steps |->
                         IF i = 1 THEN right(1).cost ELSE Way(i, r[i - 1], h[i - 1], r[i])]
<1>1. DOMAIN plan.steps = 1..n /\ Len(plan.steps) = n
  BY PrefixLen DEF IsSteps
<1>2. /\ R[1] = right(1).rows /\ C[1] = right(1).cost /\ C[n] = plan.cost
      /\ \A i \in 2..n : R[i] = Estimate(i, R[i - 1]) /\ C[i] = Way(i, R[i - 1], C[i - 1], R[i])
  BY DEF Reckons
<1>3. Recomputed(plan) = cost[Len(plan.steps)]
  BY DEF Recomputed
<1>4. rows = CHOOSE h : h = F(h)
  BY Zenon
<1>5. cost = CHOOSE h : h = G(rows, h)
  BY DEF WayCost
<1> HIDE DEF rows, cost, Way, Estimate
<1>6. \A i \in 1..n : i = 1 \/ i \in 2..n
  OBVIOUS
<1>7. IsSteps(R, n) /\ IsSteps(C, n)
  BY DEF IsSteps
<1>8. rows = R
  <2>1. ASSUME NEW h
        PROVE  /\ IsSteps(F(h), n) /\ F(h)[1] = right(1).rows
               /\ \A i \in 2..n : F(h)[i] = Estimate(i, h[i - 1])
    <3> DEFINE e == [i \in 1..n |-> Estimate(i, h[i - 1])]
    <3>1. F(h) = Along(n, right(1).rows, e)
      BY <1>1 DEF Estimate, Along
    <3>2. \A i \in 2..n : e[i] = Estimate(i, h[i - 1])
      OBVIOUS
    <3> HIDE DEF e, F, right
    <3> DEFINE f == Along(n, right(1).rows, e)
    <3>3. IsSteps(f, n) /\ f[1] = right(1).rows /\ \A i \in 2..n : f[i] = e[i]
      BY Unfolded
    <3> HIDE DEF f
    <3>4. F(h) = f
      BY <3>1 DEF f
    <3>5. IsSteps(F(h), n) /\ F(h)[1] = right(1).rows /\ \A i \in 2..n : F(h)[i] = e[i]
      BY <3>3, <3>4
    <3> QED BY <3>2, <3>5, Zenon
  <2> HIDE DEF F, right
  <2>2. F(R) = R
    <3>1. \A i \in 2..n : F(R)[i - 1] = R[i - 1] => F(R)[i] = R[i]
      BY <1>2, <2>1, Zenon
    <3>2. IsSteps(F(R), n) /\ F(R)[1] = R[1]
      BY <1>2, <2>1, Zenon
    <3> QED BY <1>7, <3>1, <3>2, SameAlong, Zenon
  <2>3. rows = F(rows)
    BY <1>4, <2>2, Zenon
  <2>4. IsSteps(rows, n) /\ rows[1] = R[1] /\ \A i \in 2..n : rows[i] = Estimate(i, rows[i - 1])
    BY <1>2, <2>1, <2>3, Zenon
  <2>5. \A i \in 2..n : rows[i - 1] = R[i - 1] => rows[i] = R[i]
    BY <1>2, <2>4, Zenon
  <2> QED BY <1>7, <2>4, <2>5, SameAlong, Zenon
<1>9. cost = C
  <2>1. ASSUME NEW h
        PROVE  /\ IsSteps(G(R, h), n) /\ G(R, h)[1] = right(1).cost
               /\ \A i \in 2..n : G(R, h)[i] = Way(i, R[i - 1], h[i - 1], R[i])
    <3> DEFINE e == [i \in 1..n |-> Way(i, R[i - 1], h[i - 1], R[i])]
    <3>1. G(R, h) = Along(n, right(1).cost, e)
      BY <1>1 DEF Along
    <3>2. \A i \in 2..n : e[i] = Way(i, R[i - 1], h[i - 1], R[i])
      OBVIOUS
    <3> HIDE DEF e, G, right
    <3> DEFINE f == Along(n, right(1).cost, e)
    <3>3. IsSteps(f, n) /\ f[1] = right(1).cost /\ \A i \in 2..n : f[i] = e[i]
      BY Unfolded
    <3> HIDE DEF f
    <3>4. G(R, h) = f
      BY <3>1 DEF f
    <3>5. IsSteps(G(R, h), n) /\ G(R, h)[1] = right(1).cost /\ \A i \in 2..n : G(R, h)[i] = e[i]
      BY <3>3, <3>4
    <3> QED BY <3>2, <3>5, Zenon
  <2>2. cost = CHOOSE h : h = G(R, h)
    BY <1>5, <1>8
  <2> HIDE DEF G, right
  <2>3. G(R, C) = C
    <3>1. \A i \in 2..n : G(R, C)[i - 1] = C[i - 1] => G(R, C)[i] = C[i]
      BY <1>2, <2>1, Zenon
    <3>2. IsSteps(G(R, C), n) /\ G(R, C)[1] = C[1]
      BY <1>2, <2>1, Zenon
    <3> QED BY <1>7, <3>1, <3>2, SameAlong, Zenon
  <2>4. cost = G(R, cost)
    BY <2>2, <2>3, Zenon
  <2>5. /\ IsSteps(cost, n) /\ cost[1] = C[1]
        /\ \A i \in 2..n : cost[i] = Way(i, R[i - 1], cost[i - 1], R[i])
    BY <1>2, <2>1, <2>4, Zenon
  <2>6. \A i \in 2..n : cost[i - 1] = C[i - 1] => cost[i] = C[i]
    BY <1>2, <2>5, Zenon
  <2> QED BY <1>7, <2>5, <2>6, SameAlong, Zenon
<1> QED BY <1>1, <1>2, <1>3, <1>9

\* cost_model.cpp "Mirrors PhysicalPlanner's cost composition exactly": what it
\* recomputes for a plan of any number of joins is what the search compared,
\* whichever algorithms were picked and whichever side became the outer one.
THEOREM CostModelMirrors == SearchSpec => []CostModelAgrees
<1>1. CInv => CostModelAgrees
  <2> SUFFICES ASSUME CInv, NEW s \in DOMAIN memo PROVE Recomputed(memo[s]) = memo[s].cost
    BY DEF CostModelAgrees
  <2>1. Cardinality(s) \in Nat \ {0} /\ IsSteps(memo[s].steps, Cardinality(s))
    BY IdsFinite DEF CInv, IInv, SearchTypeOK, Priced
  <2>2. PICK R, C \in [1..Cardinality(s) -> Nat] : Reckons(memo[s], Cardinality(s), R, C)
    BY DEF CInv, Reckoned
  <2> QED BY <2>1, <2>2, RecomputedIs
<1> QED BY <1>1, SearchKeepsCheapest, PTL

-----------------------------------------------------------------------------
(* The cheapest plan *)

\* The plans that join one more relation to a plan of f, a function from sets of
\* relations to sets of plans.
Via(s, r, f) ==
  LET k == FindConnectingEdge(s \ {r}, r)
      ways(left) == Candidates(left, memo[{r}], k)
  IN  UNION {{JoinPlan(left, memo[{r}], k, ways(left)[i]) :
                i \in DOMAIN ways(left)} : left \in f[s \ {r}]}

Joins(s, f) == UNION {Via(s, r, f) : r \in {r \in s : Connecting(s \ {r}, r) # {}}}

Subsets == (SUBSET Ids) \ {{}}

AllPlans(f) == [s \in Subsets |-> IF Cardinality(s) = 1 THEN {memo[s]} ELSE Joins(s, f)]

\* Such a plan's last join.
EndsWith(p, s, f, r, left) ==
  LET k == FindConnectingEdge(s \ {r}, r)
      all == Candidates(left, memo[{r}], k)
  IN  /\ Connecting(s \ {r}, r) # {} /\ left \in f[s \ {r}]
      /\ \E i \in DOMAIN all : p = JoinPlan(left, memo[{r}], k, all[i])

LEMMA LastJoin ==
  ASSUME NEW s, NEW f, NEW p \in Joins(s, f)
  PROVE  \E r \in s : \E left : EndsWith(p, s, f, r, left)
<1>1. PICK r \in {r \in s : Connecting(s \ {r}, r) # {}} : p \in Via(s, r, f)
  BY DEF Joins
<1> DEFINE k == FindConnectingEdge(s \ {r}, r)
           all(left) == Candidates(left, memo[{r}], k)
           Of(left) == {JoinPlan(left, memo[{r}], k, all(left)[i]) : i \in DOMAIN all(left)}
<1>2. p \in UNION {Of(left) : left \in f[s \ {r}]}
  BY <1>1 DEF Via
<1>3. PICK left \in f[s \ {r}] : p \in Of(left)
  <2> HIDE DEF Of
  <2> QED BY <1>2
<1>4. \E i \in DOMAIN all(left) : p = JoinPlan(left, memo[{r}], k, all(left)[i])
  BY <1>3
<1>5. EndsWith(p, s, f, r, left)
  BY <1>1, <1>3, <1>4 DEF EndsWith
<1> QED BY <1>1, <1>5

LEMMA JoinsSame ==
  ASSUME NEW s, NEW f, NEW g, \A r \in s : f[s \ {r}] = g[s \ {r}]
  PROVE  Joins(s, f) = Joins(s, g)
<1>1. \A r \in s : Via(s, r, f) = Via(s, r, g)
  BY DEF Via
<1> QED BY <1>1 DEF Joins

\* The sizes of the sets of relations when there are at most three.
LEMMA Sizes ==
  ASSUME input \in Inputs, Cardinality(Ids) <= 3
  PROVE  /\ Ids \in Subsets
         /\ \A s \in Subsets :
              /\ Cardinality(s) \in {1, 2, 3}
              /\ Cardinality(s) = 1 => \E i \in Ids : s = {i}
              /\ Cardinality(s) # 1 =>
                   \A r \in s : /\ s \ {r} \in Subsets
                                /\ Cardinality(s \ {r}) = Cardinality(s) - 1
<1>1. Ids \in Subsets
  BY IdsFinite DEF Subsets
<1>2. ASSUME NEW s \in Subsets
      PROVE  /\ Cardinality(s) \in {1, 2, 3}
             /\ Cardinality(s) = 1 => \E i \in Ids : s = {i}
             /\ Cardinality(s) # 1 =>
                  \A r \in s : /\ s \ {r} \in Subsets
                               /\ Cardinality(s \ {r}) = Cardinality(s) - 1
  <2>1. s \in SUBSET Ids /\ s # {}
    BY DEF Subsets
  <2>2. /\ IsFiniteSet(s) /\ Cardinality(s) \in Nat /\ Cardinality(Ids) \in Nat
        /\ Cardinality(s) <= Cardinality(Ids)
        /\ \A r \in s : /\ Cardinality(s \ {r}) \in Nat
                        /\ Cardinality(s) = Cardinality(s \ {r}) + 1
    BY <2>1, IdsFinite
  <2>3. Cardinality(s) # 0
    BY <2>1, <2>2, FS_EmptySet
  <2>4. Cardinality(s) = 1 => \E i \in Ids : s = {i}
    <3>1. Cardinality(s) = 1 => \E i : s = {i}
      BY <2>2, FS_Singleton
    <3> QED BY <2>1, <3>1
  <2>5. ASSUME Cardinality(s) # 1, NEW r \in s
        PROVE  s \ {r} \in Subsets /\ Cardinality(s \ {r}) = Cardinality(s) - 1
    <3>1. Cardinality(s \ {r}) = Cardinality(s) - 1 /\ Cardinality(s \ {r}) # 0
      BY <2>2, <2>3, <2>5
    <3>2. s \ {r} # {}
      BY <3>1, FS_EmptySet
    <3> QED BY <2>1, <3>1, <3>2 DEF Subsets
  <2> QED BY <2>2, <2>3, <2>4, <2>5
<1> QED BY <1>1, <1>2

\* What LeftDeepPlans collects for up to three relations.
LEMMA PlansAre ==
  ASSUME input \in Inputs, Cardinality(Ids) <= 3
  PROVE  \E plans : LeftDeepPlans = plans[Ids] /\ plans = AllPlans(plans)
<1> DEFINE plans[s \in (SUBSET Ids) \ {{}}] ==
             IF Cardinality(s) = 1 THEN {memo[s]}
             ELSE UNION {LET k == FindConnectingEdge(s \ {r}, r)
                             ways(left) == Candidates(left, memo[{r}], k)
                         IN  UNION {{JoinPlan(left, memo[{r}], k, ways(left)[i]) :
                                       i \in DOMAIN ways(left)} : left \in plans[s \ {r}]} :
                         r \in {r \in s : Connecting(s \ {r}, r) # {}}}
<1>1. LeftDeepPlans = plans[Ids]
  BY DEF LeftDeepPlans
<1>2. plans = CHOOSE f : f = AllPlans(f)
  BY DEF AllPlans, Joins, Via, Subsets
<1> HIDE DEF plans
<1>3. \A f : AllPlans(f) = [s \in Subsets |-> AllPlans(f)[s]]
  BY DEF AllPlans
<1>4. \A f : \A s \in Subsets :
        AllPlans(f)[s] = IF Cardinality(s) = 1 THEN {memo[s]} ELSE Joins(s, f)
  BY DEF AllPlans
<1> DEFINE a == AllPlans({})
           b == AllPlans(a)
           c == AllPlans(b)
<1>5. \A f, g, s : s \in Subsets /\ Cardinality(s) = 1 => AllPlans(f)[s] = AllPlans(g)[s]
  BY <1>4
<1>6. ASSUME NEW f, NEW g, NEW s \in Subsets, Cardinality(s) = 2
      PROVE  AllPlans(AllPlans(f))[s] = AllPlans(AllPlans(g))[s]
  <2>1. \A r \in s : AllPlans(f)[s \ {r}] = AllPlans(g)[s \ {r}]
    BY <1>5, <1>6, Sizes
  <2>2. Joins(s, AllPlans(f)) = Joins(s, AllPlans(g))
    BY <2>1, JoinsSame
  <2> QED BY <1>4, <1>6, <2>2
<1>7. ASSUME NEW f, NEW g, NEW s \in Subsets, Cardinality(s) = 3
      PROVE  AllPlans(AllPlans(AllPlans(f)))[s] = AllPlans(AllPlans(AllPlans(g)))[s]
  <2>1. \A r \in s : AllPlans(AllPlans(f))[s \ {r}] = AllPlans(AllPlans(g))[s \ {r}]
    BY <1>6, <1>7, Sizes
  <2>2. Joins(s, AllPlans(AllPlans(f))) = Joins(s, AllPlans(AllPlans(g)))
    BY <2>1, JoinsSame
  <2> QED BY <1>4, <1>7, <2>2
<1>8. c = AllPlans(c)
  <2> SUFFICES ASSUME NEW s \in Subsets PROVE c[s] = AllPlans(c)[s]
    BY <1>3
  <2>1. Cardinality(s) \in {1, 2, 3}
    BY Sizes
  <2>2. CASE Cardinality(s) = 1
    BY <1>5, <2>2
  <2>3. CASE Cardinality(s) = 2
    BY <1>6, <2>3
  <2>4. CASE Cardinality(s) = 3
    BY <1>7, <2>4
  <2> QED BY <2>1, <2>2, <2>3, <2>4
<1>9. plans = AllPlans(plans)
  <2> HIDE DEF c
  <2> QED BY <1>2, <1>8, Zenon
<1> QED BY <1>1, <1>9

\* The first edge between two relations, and so the estimate of their join, is
\* the same from both sides.
LEMMA PairEstimate ==
  ASSUME CInv, NEW x \in Ids, NEW y \in Ids, x # y
  PROVE  /\ FindConnectingEdge({x}, y) = FindConnectingEdge({y}, x)
         /\ \A k : EstimateJoin(memo[{x}], memo[{y}], k) = EstimateJoin(memo[{y}], memo[{x}], k)
<1>1. Connecting({x}, y) = Connecting({y}, x)
  <2>1. ASSUME NEW a \in Ids, NEW b \in Ids, NEW k \in Connecting({a}, b), a # b
        PROVE  k \in Connecting({b}, a)
    <3>1. k \in Edges /\ b \in Refs(k) /\ Refs(k) \ {b} \subseteq {a}
      BY <2>1 DEF Connecting
    <3>2. PICK i, j \in Ids : i # j /\ Refs(k) = {i, j}
      BY <3>1 DEF Edges
    <3>3. Refs(k) = {a, b}
      BY <3>1, <3>2
    <3> QED BY <3>1, <3>3 DEF Connecting
  <2> QED BY <2>1
<1>2. FindConnectingEdge({x}, y) = FindConnectingEdge({y}, x)
  BY <1>1 DEF FindConnectingEdge
<1>3. ASSUME NEW k
      PROVE  EstimateJoin(memo[{x}], memo[{y}], k) = EstimateJoin(memo[{y}], memo[{x}], k)
  <2>1. Len(memo[{x}].steps) = 1 /\ Len(memo[{y}].steps) = 1
    BY BaseRel, PrefixLen DEF CInv
  <2>2. memo[{x}].rows \in Nat /\ memo[{y}].rows \in Nat
    BY BaseRel DEF CInv, Priced
  <2>3. memo[{x}].rows * memo[{y}].rows = memo[{y}].rows * memo[{x}].rows
    BY <2>2
  <2> QED BY <2>1, <2>3 DEF EstimateJoin
<1> QED BY <1>2, <1>3

\* A set that has been solved and can be reached is planned, no dearer than any
\* way to join its last relation to a kept plan.
LEMMA ReachedAndKept ==
  ASSUME CInv, Unsolved = {}, NEW s \in SUBSET Ids, Cardinality(s) > 1,
         NEW r \in s, s \ {r} \in DOMAIN memo, Connecting(s \ {r}, r) # {}
  PROVE  LET all == Candidates(memo[s \ {r}], memo[{r}], FindConnectingEdge(s \ {r}, r))
         IN  /\ s \in DOMAIN memo /\ memo[s].cost \in Nat
             /\ FindConnectingEdge(s \ {r}, r) \in DOMAIN input.preds
             /\ \A i \in DOMAIN all : all[i].cost \in Nat /\ memo[s].cost <= all[i].cost
<1> DEFINE k == FindConnectingEdge(s \ {r}, r)
           all == Candidates(memo[s \ {r}], memo[{r}], k)
<1>1. r \in LastOf(s) /\ s \in solved /\ IInv /\ Priced /\ KeptCheapest
  BY DEF LastOf, Unsolved, CInv
<1>2. s \in DOMAIN memo
  BY <1>1 DEF IInv, SolvedIfReachable
<1>3. memo[s].cost \in Nat /\ memo[s].cost <= Extend(s, r).cost
  BY <1>1, <1>2 DEF Priced, KeptCheapest
<1>4. /\ k \in DOMAIN input.preds /\ Extend(s, r).cost \in Nat
      /\ \A i \in DOMAIN all : Extend(s, r).cost <= all[i].cost
  BY <1>1, ExtendIs
<1>5. r \in Ids /\ {r} \in DOMAIN memo /\ input \in Inputs
  BY <1>1, BaseRel DEF IInv, SearchTypeOK
<1>6. /\ memo[s \ {r}].rows \in Nat /\ memo[s \ {r}].cost \in Nat
      /\ memo[{r}].rows \in Nat /\ memo[{r}].cost \in Nat
  BY <1>1, <1>5 DEF Priced
<1> HIDE DEF k
<1>7. \A i \in DOMAIN all : all[i].cost \in Nat
  BY <1>4, <1>5, <1>6, CandidateFacts
<1> HIDE DEF all
<1>8. \A i \in DOMAIN all : memo[s].cost <= all[i].cost
  BY <1>3, <1>4, <1>7
<1> QED BY <1>2, <1>3, <1>4, <1>7, <1>8 DEF all, k

\* What the search keeps of two relations is as good a start as any.
LEMMA CheapestPair ==
  ASSUME CInv, Unsolved = {}, Cardinality(Ids) <= 3, NEW plans, plans = AllPlans(plans),
         NEW s \in Subsets, Cardinality(s) = 2, NEW p \in plans[s]
  PROVE  /\ s \in DOMAIN memo /\ memo[s].cost \in Nat /\ memo[s].rows \in Nat
         /\ p.cost \in Nat /\ memo[s].cost <= p.cost
         /\ p.rows = memo[s].rows /\ Len(p.steps) # 1 /\ Len(memo[s].steps) # 1
<1>1. input \in Inputs /\ IInv /\ Priced /\ KeptCheapest
  BY DEF CInv, IInv, SearchTypeOK
<1>2. \A t \in Subsets : plans[t] = IF Cardinality(t) = 1 THEN {memo[t]} ELSE Joins(t, plans)
  <2>1. \A t \in Subsets :
          AllPlans(plans)[t] = IF Cardinality(t) = 1 THEN {memo[t]} ELSE Joins(t, plans)
    BY DEF AllPlans
  <2> HIDE DEF AllPlans
  <2> QED BY <2>1
<1>3. p \in Joins(s, plans)
  <2>1. Cardinality(s) # 1
    OBVIOUS
  <2> QED BY <1>2, <2>1, Zenon
<1>20. PICK r \in s : \E left : EndsWith(p, s, plans, r, left)
  BY <1>3, LastJoin, Zenon
<1>4. PICK left : EndsWith(p, s, plans, r, left)
  BY <1>20
<1>5. s \ {r} \in Subsets /\ Cardinality(s \ {r}) = 1
  BY <1>1, Sizes
<1>6. PICK x \in Ids : s \ {r} = {x}
  BY <1>1, <1>5, Sizes
<1>7. left = memo[{x}]
  <2>1. left \in plans[s \ {r}]
    BY <1>4 DEF EndsWith
  <2>2. plans[s \ {r}] = {memo[s \ {r}]}
    BY <1>2, <1>5, Zenon
  <2> QED BY <1>6, <2>1, <2>2
<1>8. r \in Ids /\ s \in SUBSET Ids /\ x # r /\ s = {x, r}
  BY <1>6 DEF Subsets
<1> DEFINE k == FindConnectingEdge({x}, r)
           all == Candidates(memo[{x}], memo[{r}], k)
<1>9. PICK i \in DOMAIN all : p = JoinPlan(memo[{x}], memo[{r}], k, all[i])
  BY <1>4, <1>6, <1>7 DEF EndsWith
<1>10. {x} \in DOMAIN memo /\ {r} \in DOMAIN memo /\ Connecting({x}, r) # {}
  BY <1>1, <1>4, <1>6, <1>8, BaseRel DEF EndsWith
<1>11. /\ s \in DOMAIN memo /\ memo[s].cost \in Nat
       /\ all[i].cost \in Nat /\ memo[s].cost <= all[i].cost
  BY <1>6, <1>8, <1>9, <1>10, ReachedAndKept
<1>12. /\ p.cost = all[i].cost /\ p.rows = EstimateJoin(memo[{x}], memo[{r}], k)
       /\ \E e : p.steps = Append(memo[{x}].steps, e)
  BY <1>9 DEF JoinPlan
<1>13. memo[s].rows \in Nat /\ Len(memo[s].steps) = 2
  <2>1. IsSteps(memo[s].steps, 2)
    BY <1>1, <1>11 DEF IInv, SearchTypeOK
  <2> QED BY <1>1, <1>11, <2>1, PrefixLen DEF Priced
<1>14. Len(p.steps) = 2
  <2>1. PICK e : p.steps = Append(memo[{x}].steps, e)
    BY <1>12
  <2>2. IsSteps(memo[{x}].steps, 1)
    BY <1>1, BaseRel
  <2> DEFINE old == memo[{x}].steps
  <2> HIDE DEF old
  <2>3. 1 \in Nat /\ IsSteps(old, 1)
    BY <2>2 DEF old
  <2>4. Append(old, e) = [j \in 1..(1 + 1) |-> IF j = 1 + 1 THEN e ELSE old[j]]
    BY <2>3, AppendSteps
  <2>5. IsSteps(Append(old, e), 2)
    BY <2>4 DEF IsSteps
  <2>6. IsSteps(p.steps, 2)
    BY <2>1, <2>5 DEF old
  <2> QED BY <2>6, PrefixLen
<1>15. p.rows = memo[s].rows
  <2>1. PICK q \in LastOf(s) : memo[s] = Extend(s, q)
    BY <1>1, <1>11 DEF KeptCheapest
  <2>2. memo[s].rows = EstimateJoin(memo[s \ {q}], memo[{q}], FindConnectingEdge(s \ {q}, q))
    BY <1>1, <1>8, <2>1, ExtendIs
  <2>3. q = r \/ q = x
    BY <1>8 DEF LastOf
  <2>4. CASE q = r
    BY <1>6, <1>12, <2>2, <2>4
  <2>5. CASE q = x
    <3>1. s \ {q} = {r}
      BY <1>8, <2>5
    <3>2. memo[s].rows = EstimateJoin(memo[{r}], memo[{x}], FindConnectingEdge({r}, x))
      BY <2>2, <2>5, <3>1
    <3> QED BY <1>8, <1>12, <3>2, PairEstimate
  <2> QED BY <2>3, <2>4, <2>5
<1> QED BY <1>11, <1>12, <1>13, <1>14, <1>15

\* Of up to three relations the search returns a plan that no left-deep plan
\* without a cartesian product undercuts: what its header promises, in the case
\* in which the principle of optimality holds.
THEOREM CheapestFound == SearchSpec => []CheapestOfThree
<1>1. CInv => CheapestOfThree
  <2> SUFFICES ASSUME CInv, Cardinality(Ids) <= 3, stage = "planned", NEW p \in LeftDeepPlans
               PROVE  memo[Ids].cost <= p.cost
    BY DEF CheapestOfThree, CheapestPlan
  <2>1. input \in Inputs /\ IInv /\ Priced /\ Unsolved = {} /\ Ids \in DOMAIN memo
    BY DEF CInv, IInv, SearchTypeOK, Finished, Outcome
  <2>2. PICK plans : LeftDeepPlans = plans[Ids] /\ plans = AllPlans(plans)
    BY <2>1, PlansAre
  <2>3. Ids \in Subsets /\ Cardinality(Ids) \in {1, 2, 3} /\ memo[Ids].cost \in Nat
    BY <2>1, Sizes DEF Priced
  <2>4. plans[Ids] = IF Cardinality(Ids) = 1 THEN {memo[Ids]} ELSE Joins(Ids, plans)
    <3>1. AllPlans(plans)[Ids] = IF Cardinality(Ids) = 1 THEN {memo[Ids]} ELSE Joins(Ids, plans)
      BY <2>3 DEF AllPlans
    <3> HIDE DEF AllPlans
    <3> QED BY <2>2, <3>1
  <2>5. CASE Cardinality(Ids) = 1
    BY <2>2, <2>3, <2>4, <2>5
  <2>6. CASE Cardinality(Ids) = 2
    BY <2>1, <2>2, <2>3, <2>6, CheapestPair
  <2>7. CASE Cardinality(Ids) = 3
    <3>1. p \in Joins(Ids, plans)
      <4>1. Cardinality(Ids) # 1
        BY <2>7
      <4> QED BY <2>2, <2>4, <4>1, Zenon
    <3>20. PICK r \in Ids : \E left : EndsWith(p, Ids, plans, r, left)
      BY <3>1, LastJoin, Zenon
    <3>2. PICK left : EndsWith(p, Ids, plans, r, left)
      BY <3>20
    <3> DEFINE rest == Ids \ {r}
               kept == memo[rest]
               k == FindConnectingEdge(rest, r)
    <3>3. rest \in Subsets /\ Cardinality(rest) = 2
      BY <2>1, <2>3, <2>7, Sizes
    <3>4. /\ rest \in DOMAIN memo /\ kept.cost \in Nat /\ kept.rows \in Nat
          /\ left.cost \in Nat /\ kept.cost <= left.cost
          /\ left.rows = kept.rows /\ Len(left.steps) # 1 /\ Len(kept.steps) # 1
      <4>1. left \in plans[rest]
        BY <3>2 DEF EndsWith
      <4> QED BY <2>1, <2>2, <3>3, <4>1, CheapestPair
    <3>5. PICK i \in DOMAIN Candidates(left, memo[{r}], k) :
            p = JoinPlan(left, memo[{r}], k, Candidates(left, memo[{r}], k)[i])
      BY <3>2 DEF EndsWith
    <3>6. {r} \in DOMAIN memo /\ memo[{r}].rows \in Nat /\ memo[{r}].cost \in Nat
      BY <2>1, BaseRel DEF Priced
    <3>7. /\ k \in DOMAIN input.preds
          /\ \A j \in DOMAIN Candidates(kept, memo[{r}], k) :
               /\ Candidates(kept, memo[{r}], k)[j].cost \in Nat
               /\ memo[Ids].cost <= Candidates(kept, memo[{r}], k)[j].cost
      <4>1. /\ Ids \in SUBSET Ids /\ Cardinality(Ids) > 1
            /\ Ids \ {r} \in DOMAIN memo /\ Connecting(Ids \ {r}, r) # {}
        <5>1. Connecting(Ids \ {r}, r) # {}
          BY <3>2, Zenon DEF EndsWith
        <5> QED BY <2>7, <3>4, <5>1
      <4> QED BY <2>1, <4>1, ReachedAndKept
    <3>8. p.cost = Candidates(left, memo[{r}], k)[i].cost
      BY <3>5 DEF JoinPlan
    <3> HIDE DEF k, kept, rest
    <3>9. /\ DOMAIN Candidates(kept, memo[{r}], k) = DOMAIN Candidates(left, memo[{r}], k)
          /\ Candidates(kept, memo[{r}], k)[i].cost <= Candidates(left, memo[{r}], k)[i].cost
      BY <2>1, <3>4, <3>5, <3>6, <3>7, CandidatesGrow
    <3>10. Candidates(left, memo[{r}], k)[i].cost \in Nat
      BY <2>1, <3>4, <3>5, <3>6, <3>7, CandidateFacts
    <3> QED BY <2>3, <3>5, <3>7, <3>8, <3>9, <3>10
  <2> QED BY <2>3, <2>5, <2>6, <2>7
<1> QED BY <1>1, SearchKeepsCheapest, PTL
=============================================================================
