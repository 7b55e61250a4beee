----------------------------- MODULE JoinSearch -----------------------------
(***************************************************************************)
(* The join-order search of the physical planner: build_join_graph         *)
(* (optimizer/join_graph.cpp), AccessPathGenerator, JoinEnumerator's       *)
(* dynamic programming over sets of relations and the residual filters     *)
(* that plan_join_search puts on top (physical/physical_planner.cpp), with *)
(* the cost formulas of physical/cost.cpp.                                 *)
(*                                                                         *)
(* A conjunct of the query is a record: the names it refers to (refs),     *)
(* whether it also has an unqualified column (bare), whether it is an      *)
(* equality of a column with a column or a literal (eq), the names whose   *)
(* column in it is indexed, the larger distinct count of its two columns   *)
(* (ndv, 0 when unknown) and, for a filter, its selectivity 1 / sel.       *)
(*                                                                         *)
(* The code's doubles are exact here: costs are integers in units of       *)
(* 1/10000, a row estimate is a fraction until rows_to_size rounds it.     *)
(* A left-deep plan is the sequence of the relations in the order in which *)
(* they were joined, each with the predicate and the algorithm used.       *)
(***************************************************************************)
EXTENDS Integers, Sequences, FiniteSets

CONSTANTS
  Tables,   \* table name -> [rows, pages], from the statistics catalog
  Inputs    \* what collect may find: records [rels, preds] of sequences of names
            \* and of conjuncts

ASSUME JoinSearchAssumption ==
  /\ \A in \in Inputs : in.rels \in Seq(DOMAIN Tables) /\ in.rels # <<>>
                         /\ Len(in.preds) \in Nat /\ DOMAIN in.preds = 1..Len(in.preds)
  /\ \A t \in DOMAIN Tables : Tables[t].rows \in Nat /\ Tables[t].pages \in Nat
  /\ \A in \in Inputs : \A k \in DOMAIN in.preds :
       in.preds[k].eq \in BOOLEAN /\ in.preds[k].ndv \in Nat /\ in.preds[k].sel \in Nat \ {0}

VARIABLES
  input,  \* the relations and conjuncts below the node being planned
  solved, \* the sets of relations that solve_subset has visited
  memo,   \* memo_: a function from some sets of relations to their best plan
  best,   \* the plan returned
  stage   \* "search", "planned", or "refused" (an exception)

searchVars == <<input, solved, memo, best, stage>>

-----------------------------------------------------------------------------
(* physical/cost.cpp *)

CpuTuple == 100
SeqPage == 10000
RandomPage == 40000
IndexTuple == 50
HashBuild == 200
MemoryPerRow == 10
MemoryBudgetRows == 100000
SpillIoPerRow == 500

Larger(x, y) == IF x > y THEN x ELSE y
Smaller(x, y) == IF x < y THEN x ELSE y

SeqScanCost(rows, pages) == Larger(1, pages) * SeqPage + rows * CpuTuple
IndexScanCost(rows) == rows * (RandomPage + CpuTuple + IndexTuple)
FilterCost(rows) == rows * CpuTuple
NestedLoopCost(outer, inner) == outer * inner * (CpuTuple \div 100)
SpillPenalty(rows) ==
  IF rows <= MemoryBudgetRows THEN 0 ELSE (rows - MemoryBudgetRows) * SpillIoPerRow
HashJoinCost(l, r) ==
  Smaller(l, r) * (HashBuild + MemoryPerRow) + Larger(l, r) * CpuTuple + SpillPenalty(Smaller(l, r))
IndexNestedLoopCost(outer, out) ==
  outer * (RandomPage + CpuTuple + IndexTuple) + out * CpuTuple

-----------------------------------------------------------------------------
(* build_join_graph *)

Ids == DOMAIN input.rels
Pred(k) == input.preds[k]

\* find_relation: the first relation of that name.
FindRelation(name) ==
  CHOOSE i \in Ids : /\ input.rels[i] = name
                     /\ \A j \in Ids : input.rels[j] = name => i <= j

\* referenced_relation_ids has a result.
Classifiable(k) ==
  ~Pred(k).bare /\ \A a \in Pred(k).refs : \E i \in Ids : input.rels[i] = a

Refs(k) == {FindRelation(a) : a \in Pred(k).refs}

LocalFilters(i) == {k \in DOMAIN input.preds : Classifiable(k) /\ Refs(k) = {i}}

Edges == {k \in DOMAIN input.preds :
            Classifiable(k) /\ \E i, j \in Ids : i # j /\ Refs(k) = {i, j}}

\* Mutant of Residual: a conjunct over three relations is forgotten.
ResidualUnresolved == {k \in DOMAIN input.preds : ~Classifiable(k)}

Residual == {k \in DOMAIN input.preds :
               k \notin Edges /\ \A i \in Ids : k \notin LocalFilters(i)}

-----------------------------------------------------------------------------
(* AccessPathGenerator and CardinalityEstimator *)

\* rows_to_size of num / den.
RowsToSize(q) == Larger(1, (2 * q.num + q.den) \div (2 * q.den))

\* estimate_filter: max(1, rows / sel).
EstimateFilter(q, sel) ==
  IF q.num <= q.den * sel THEN [num |-> 1, den |-> 1]
                          ELSE [num |-> q.num, den |-> q.den * sel]

\* A Filter for each of the conjuncts ks, in order, over a scan.
WithFilters(scan, ks) ==
  LET f[k \in 0..Len(input.preds)] ==
        IF k = 0 THEN scan
        ELSE IF k \notin ks THEN f[k - 1]
        ELSE [rows |-> EstimateFilter(f[k - 1].rows, Pred(k).sel),
              cost |-> f[k - 1].cost + FilterCost(RowsToSize(f[k - 1].rows))]
  IN  f[Len(input.preds)]

IndexedEqualities(i) ==
  {k \in LocalFilters(i) : Pred(k).eq /\ input.rels[i] \in Pred(k).indexed}

SeqPath(i) ==
  LET t == Tables[input.rels[i]]
      q == [num |-> t.rows, den |-> 1]
  IN  WithFilters([rows |-> q, cost |-> SeqScanCost(RowsToSize(q), t.pages)],
                  LocalFilters(i))

\* find_indexed_equality takes the first; the other filters go on top.
IndexPath(i) ==
  LET k == CHOOSE k \in IndexedEqualities(i) :
             \A j \in IndexedEqualities(i) : k <= j
      q == EstimateFilter([num |-> Tables[input.rels[i]].rows, den |-> 1], Pred(k).sel)
  IN  WithFilters([rows |-> q, cost |-> IndexScanCost(RowsToSize(q))],
                  LocalFilters(i) \ {k})

UsesIndex(i) == IndexedEqualities(i) # {} /\ IndexPath(i).cost < SeqPath(i).cost

BestAccessPath(i) ==
  LET path == IF UsesIndex(i) THEN IndexPath(i) ELSE SeqPath(i)
  IN  [steps |-> <<[rel |-> i, edge |-> 0, outer |-> FALSE,
                    how |-> IF UsesIndex(i) THEN "index" ELSE "seq"]>>,
       rows |-> RowsToSize(path.rows), cost |-> path.cost]

\* estimate_join: the distinct counts are used only between two base relations.
EstimateJoin(left, right, k) ==
  LET denom == IF Pred(k).eq /\ Pred(k).ndv > 0 /\ Len(left.steps) = 1
                 THEN Pred(k).ndv ELSE 10
  IN  RowsToSize([num |-> left.rows * right.rows, den |-> denom])

-----------------------------------------------------------------------------
(* JoinEnumerator *)

\* Mutant of Connecting: the left side of the edge is not looked at.
ConnectingAnything(left, r) == {k \in Edges : r \in Refs(k)}

\* find_connecting_edge looks for one of these ...
Connecting(left, r) == {k \in Edges : r \in Refs(k) /\ Refs(k) \ {r} \subseteq left}

\* ... and takes the first.
FindConnectingEdge(left, r) ==
  CHOOSE k \in Connecting(left, r) : \A j \in Connecting(left, r) : k <= j

Indexed(i, k) == input.rels[i] \in Pred(k).indexed

\* A way to join: the algorithm, whether the new relation is the outer one,
\* and the cost, in the order in which generate_best_candidate makes them.
\* try_index_nested_loop probes the new relation if it can, and otherwise a
\* left side that is a base relation.
Candidates(left, right, k) ==
  LET r == right.steps[1].rel
      out == EstimateJoin(left, right, k)
      c(how, outer, cost) == [how |-> how, outer |-> outer, cost |-> cost]
  IN  <<c("nested loop", FALSE, left.cost + left.rows * right.cost
                                 + NestedLoopCost(left.rows, right.rows)),
        c("nested loop", TRUE, right.cost + right.rows * left.cost
                                 + NestedLoopCost(right.rows, left.rows))>>
      \o (IF ~Pred(k).eq THEN <<>>
          ELSE <<c("hash", FALSE, left.cost + right.cost
                                    + HashJoinCost(left.rows, right.rows))>>)
      \o (IF ~Pred(k).eq THEN <<>>
          ELSE IF Indexed(r, k)
            THEN <<c("index loop", FALSE, left.cost + IndexNestedLoopCost(left.rows, out))>>
          ELSE IF Len(left.steps) = 1 /\ Indexed(left.steps[1].rel, k)
            THEN <<c("index loop", TRUE, right.cost + IndexNestedLoopCost(right.rows, out))>>
          ELSE <<>>)

\* The first of the cheapest in a sequence of records with a cost.
Cheapest(s) ==
  s[CHOOSE i \in DOMAIN s :
      \A j \in DOMAIN s : s[i].cost < s[j].cost \/ (s[i].cost = s[j].cost /\ i <= j)]

\* Mutant of JoinPlan: the operands are never swapped.
JoinPlanUnswapped(left, right, k, c) ==
  [steps |-> Append(left.steps, [rel |-> right.steps[1].rel, edge |-> k,
                                 outer |-> FALSE, how |-> c.how]),
   rows |-> EstimateJoin(left, right, k), cost |-> c.cost]

JoinPlan(left, right, k, c) ==
  [steps |-> Append(left.steps, [rel |-> right.steps[1].rel, edge |-> k,
                                 outer |-> c.outer, how |-> c.how]),
   rows |-> EstimateJoin(left, right, k), cost |-> c.cost]

GenerateBestCandidate(left, right, k) ==
  JoinPlan(left, right, k, Cheapest(Candidates(left, right, k)))

\* Mutant of LastOf: sets grow only by relations that come later.
LastOfGrowing(s) ==
  {r \in s : /\ s \ {r} \in DOMAIN memo /\ Connecting(s \ {r}, r) # {}
             /\ \A t \in s : t <= r}

\* The relations that solve_subset can add last to reach s.
LastOf(s) == {r \in s : s \ {r} \in DOMAIN memo /\ Connecting(s \ {r}, r) # {}}

Extend(s, r) ==
  GenerateBestCandidate(memo[s \ {r}], memo[{r}], FindConnectingEdge(s \ {r}, r))

\* Mutant of IsBest: the first relation that fits is taken.
IsFirst(s, r) == \A t \in LastOf(s) : r <= t

\* Adding r last is the best way to reach s, and the first such.
IsBest(s, r) ==
  \A t \in LastOf(s) :
    \/ Extend(s, r).cost < Extend(s, t).cost
    \/ Extend(s, r).cost = Extend(s, t).cost /\ r <= t

Unsolved == {s \in SUBSET Ids : Cardinality(s) > 1} \ solved

\* Sets are visited by size, and among equals in the order of their bit masks,
\* in which the largest relation that only one of two sets has decides.
Before(s, t) ==
  \/ Cardinality(s) < Cardinality(t)
  \/ /\ Cardinality(s) = Cardinality(t) /\ s # t
     /\ \E i \in t \ s : \A j \in s \ t : j < i

SolveSubset(s) ==
  /\ solved' = solved \cup {s}
  /\ \/ LastOf(s) = {} /\ UNCHANGED memo
     \/ \E r \in LastOf(s) :
          /\ IsBest(s, r)
          /\ memo' = [t \in DOMAIN memo \cup {s} |-> IF t = s THEN Extend(s, r) ELSE memo[t]]

\* One iteration of find_best_plan's loops.
SearchStep ==
  /\ stage = "search"
  /\ \E s \in Unsolved :
       /\ \A t \in Unsolved \ {s} : Before(s, t)
       /\ SolveSubset(s)
  /\ UNCHANGED <<input, best, stage>>

\* plan_join_search: a Filter for every residual conjunct.
WithResidual(plan) ==
  LET f[n \in 0..Cardinality(Residual)] ==
        IF n = 0 THEN [rows |-> plan.rows, cost |-> plan.cost]
        ELSE [rows |-> Larger(1, f[n - 1].rows \div 10),
              cost |-> f[n - 1].cost + FilterCost(f[n - 1].rows)]
      top == f[Cardinality(Residual)]
  IN  [steps |-> plan.steps, filters |-> Residual, rows |-> top.rows, cost |-> top.cost]

\* find_best_plan returns, or throws when the relations are not connected.
FindBestPlan ==
  /\ stage = "search" /\ Unsolved = {}
  /\ IF Ids \in DOMAIN memo
       THEN stage' = "planned" /\ best' = <<WithResidual(memo[Ids])>>
       ELSE stage' = "refused" /\ best' = <<>>
  /\ UNCHANGED <<input, solved, memo>>

\* The search starts with every relation's access path.
BasePlans == [s \in {{i} : i \in Ids} |-> BestAccessPath(CHOOSE i \in s : TRUE)]

SearchInit ==
  /\ input \in Inputs
  /\ solved = {}
  /\ memo = BasePlans
  /\ best = <<>>
  /\ stage = "search"

SearchNext == SearchStep \/ FindBestPlan

SearchSpec == SearchInit /\ [][SearchNext]_searchVars

-----------------------------------------------------------------------------
\* The plan joins the relations of s, each once, and every one after the first
\* by a predicate between it and a relation that is already there.
WellFormed(plan, s) ==
  LET rel(i) == plan.steps[i].rel
  IN  /\ DOMAIN plan.steps = 1..Cardinality(s)
      /\ {rel(i) : i \in DOMAIN plan.steps} = s
      /\ \A i \in DOMAIN plan.steps \ {1} :
           /\ plan.steps[i].edge \in Edges
           /\ \E j \in 1..(i - 1) : Refs(plan.steps[i].edge) = {rel(i), rel(j)}

\* join_enumerator.hpp: the search returns a plan "covering every relation" and
\* a cartesian product is what it "deliberately refuses to generate".
PlansWellFormed == \A s \in DOMAIN memo : WellFormed(memo[s], s)

\* No set of relations is cut off from the others.
Connected ==
  \A s \in (SUBSET Ids) \ {{}, Ids} :
    \E k \in Edges : Refs(k) \cap s # {} /\ Refs(k) \ s # {}

\* join_enumerator.hpp: "Throws std::runtime_error if the graph isn't fully
\* connected", and only then, although plans grow by one relation at a time.
RefusedIffDisconnected ==
  /\ stage = "planned" => Connected
  /\ stage = "refused" => ~Connected

\* Every left-deep plan without a cartesian product.
LeftDeepPlans ==
  LET plans[s \in (SUBSET Ids) \ {{}}] ==
        IF Cardinality(s) = 1 THEN {memo[s]}
        ELSE UNION {LET k == FindConnectingEdge(s \ {r}, r)
                        ways(left) == Candidates(left, memo[{r}], k)
                    IN  UNION {{JoinPlan(left, memo[{r}], k, ways(left)[i]) :
                                  i \in DOMAIN ways(left)} : left \in plans[s \ {r}]} :
                    r \in {r \in s : Connecting(s \ {r}, r) # {}}}
  IN  plans[Ids]

\* join_enumerator.hpp: "Returns the cheapest complete join plan".
CheapestPlan ==
  stage = "planned" => \A p \in LeftDeepPlans : memo[Ids].cost <= p.cost

\* The principle of optimality that the search relies on holds for up to three
\* relations.  (The estimate of a larger set depends on the order in which it
\* was joined, so a dearer plan for it may be the better start.)
CheapestOfThree == Cardinality(Ids) <= 3 => CheapestPlan

\* CostModel::estimate_cost over the joins of a finished plan, from the row
\* counts annotated on its nodes.
Recomputed(plan) ==
  LET right(i) == memo[{plan.steps[i].rel}]
      rows[i \in DOMAIN plan.steps] ==
        IF i = 1 THEN right(1).rows
        ELSE EstimateJoin([steps |-> SubSeq(plan.steps, 1, i - 1), rows |-> rows[i - 1]],
                          right(i), plan.steps[i].edge)
      cost[i \in DOMAIN plan.steps] ==
        IF i = 1 THEN right(1).cost
        ELSE LET l == [rows |-> rows[i - 1], cost |-> cost[i - 1]]
                 outer == IF plan.steps[i].outer THEN right(i) ELSE l
                 inner == IF plan.steps[i].outer THEN l ELSE right(i)
             IN  CASE plan.steps[i].how = "nested loop" ->
                        outer.cost + outer.rows * inner.cost
                          + NestedLoopCost(outer.rows, inner.rows)
                   [] plan.steps[i].how = "hash" ->
                        outer.cost + inner.cost + HashJoinCost(outer.rows, inner.rows)
                   [] plan.steps[i].how = "index loop" ->
                        outer.cost + IndexNestedLoopCost(outer.rows, rows[i])
  IN  cost[Len(plan.steps)]

\* cost_model.cpp: above the scans, whose pages it has to guess, it "Mirrors
\* PhysicalPlanner's cost composition exactly", so what it recomputes for the
\* joins of a plan is what the search compared, whichever side became the outer.
CostModelAgrees == \A s \in DOMAIN memo : Recomputed(memo[s]) = memo[s].cost

\* The conjuncts that a finished plan applies somewhere.
Applied(plan) ==
  (UNION {LocalFilters(i) : i \in Ids}) \cup plan.filters
    \cup {plan.steps[i].edge : i \in DOMAIN plan.steps \ {1}}

\* With a predicate too many between the relations one of them is not applied
\* (see EveryConjunctApplied in QueryPlanner); without, none is lost.
TreeKeepsConjuncts ==
  stage = "planned" /\ Cardinality(Edges) = Cardinality(Ids) - 1
    => Applied(best[1]) = DOMAIN input.preds
=============================================================================
