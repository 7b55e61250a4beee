-------------------------- MODULE LogicalOptimizer --------------------------
(***************************************************************************)
(* The logical planner (logical/planner.cpp), the three rewriting passes   *)
(* of logical/optimizer.cpp and the search for the subtree that the        *)
(* physical planner hands to the join-order search, as operators on trees. *)
(*                                                                         *)
(* A condition is a sequence of conjuncts (split_and is this view of an    *)
(* AND); each conjunct has an identity, the names it refers to, and reads  *)
(* a column of its own.  Aggregate, Project, Sort and Limit differ only in *)
(* the columns they use, so they are one kind of node.                     *)
(***************************************************************************)
EXTENDS Integers, Sequences

LOCAL INSTANCE SequencesExt  \* FoldLeft, RemoveAt

CONSTANT Tables  \* table name -> a record with the schema catalog's row_count

\* The constant predicate TRUE.
True == [id |-> "TRUE", refs |-> {}, bare |-> FALSE, eq |-> FALSE,
         indexed |-> {}, ndv |-> 0, sel |-> 10]

Scan(t, columns) == [kind |-> "scan", table |-> t, columns |-> columns]
Filter(cond, in) == [kind |-> "filter", cond |-> cond, input |-> in]
Join(type, cond, l, r) ==
  [kind |-> "join", type |-> type, cond |-> cond, left |-> l, right |-> r]
Above(uses, in) == [kind |-> "above", uses |-> uses, input |-> in]

-----------------------------------------------------------------------------
\* LogicalPlanner::plan: scans in a left-deep tree, WHERE, and the rest of the
\* statement on top; SELECT * adds no Project.
LogicalPlanOf(stmt) ==
  LET join(tree, j) == Join(j.type, j.cond, tree, Scan(j.table, {}))
      from == FoldLeft(join, Scan(stmt.from, {}), stmt.joins)
      where == IF stmt.where = <<>> THEN from ELSE Filter(stmt.where, from)
  IN  IF stmt.columns = {} THEN where ELSE Above(stmt.columns, where)

RECURSIVE Aliases(_)
Aliases(p) ==
  CASE p.kind = "scan" -> {p.table}
    [] p.kind = "join" -> Aliases(p.left) \cup Aliases(p.right)
    [] OTHER           -> Aliases(p.input)

ReferencedTables(cond) == UNION {cond[i].refs : i \in DOMAIN cond}

Names(cond) == {cond[i].id : i \in DOMAIN cond}

-----------------------------------------------------------------------------
\* wrap_filters: one Filter per conjunct, the first innermost.
WrapFilters(p, conjuncts) ==
  LET wrap(tree, c) == Filter(<<c>>, tree) IN FoldLeft(wrap, p, conjuncts)

\* Mutant of SplitFilter: only what spans both sides stays.
SplitFilterLossy(cond, join) ==
  LET onLeft(c) == c.refs \cap Aliases(join.left) # {}
      onRight(c) == c.refs \cap Aliases(join.right) # {}
  IN  WrapFilters(
        Join(join.type, join.cond,
             WrapFilters(join.left, SelectSeq(cond, LAMBDA c : onLeft(c) /\ ~onRight(c))),
             WrapFilters(join.right, SelectSeq(cond, LAMBDA c : onRight(c) /\ ~onLeft(c)))),
        SelectSeq(cond, LAMBDA c : onLeft(c) /\ onRight(c)))

\* A Filter over a Join: what refers to one side only moves onto that side, the
\* rest stays above.
SplitFilter(cond, join) ==
  LET onLeft(c) == c.refs \cap Aliases(join.left) # {}
      onRight(c) == c.refs \cap Aliases(join.right) # {}
  IN  WrapFilters(
        Join(join.type, join.cond,
             WrapFilters(join.left, SelectSeq(cond, LAMBDA c : onLeft(c) /\ ~onRight(c))),
             WrapFilters(join.right, SelectSeq(cond, LAMBDA c : onRight(c) /\ ~onLeft(c)))),
        SelectSeq(cond, LAMBDA c : onLeft(c) = onRight(c)))

RECURSIVE PushPredicates(_)
PushPredicates(p) ==
  CASE p.kind = "filter" -> LET in == PushPredicates(p.input)
                            IN  IF in.kind = "join" THEN SplitFilter(p.cond, in)
                                                    ELSE Filter(p.cond, in)
    [] p.kind = "join"   -> Join(p.type, p.cond, PushPredicates(p.left), PushPredicates(p.right))
    [] p.kind = "above"  -> Above(p.uses, PushPredicates(p.input))
    [] p.kind = "scan"   -> p

\* Mutant of Needed: a join's own condition is forgotten.
NeededAbove(p, needed) ==
  needed \cup (CASE p.kind = "above" -> p.uses
                 [] p.kind = "filter" -> Names(p.cond)
                 [] p.kind = "join"  -> {})

\* The columns that the inputs of a node must deliver.
Needed(p, needed) == needed \cup (IF p.kind = "above" THEN p.uses ELSE Names(p.cond))

RECURSIVE PushProjections(_, _)
PushProjections(p, needed) ==
  CASE p.kind = "scan"   -> Scan(p.table, needed)
    [] p.kind = "filter" -> Filter(p.cond, PushProjections(p.input, Needed(p, needed)))
    [] p.kind = "join"   -> Join(p.type, p.cond, PushProjections(p.left, Needed(p, needed)),
                                                 PushProjections(p.right, Needed(p, needed)))
    [] p.kind = "above"  -> Above(p.uses, PushProjections(p.input, Needed(p, needed)))

-----------------------------------------------------------------------------
\* all_inner looks only at joins directly below joins.
RECURSIVE AllInner(_)
AllInner(p) ==
  p.kind = "join" => p.type = "inner" /\ AllInner(p.left) /\ AllInner(p.right)

EstimateJoinRows(l, r) == LET n == (l * r) \div 10 IN IF n > 1 THEN n ELSE 1

RECURSIVE EstimateRows(_)
EstimateRows(p) ==
  CASE p.kind = "scan"   -> Tables[p.table].row_count
    [] p.kind = "filter" -> LET n == EstimateRows(p.input) \div 10 IN IF n > 1 THEN n ELSE 1
    [] p.kind = "join"   -> EstimateJoinRows(EstimateRows(p.left), EstimateRows(p.right))
    [] OTHER             -> 1000

\* extract_join_tree: the leaves in order, and the conditions from the root down.
RECURSIVE Leaves(_)
Leaves(p) == IF p.kind = "join" THEN Leaves(p.left) \o Leaves(p.right) ELSE <<p>>

RECURSIVE Conditions(_)
Conditions(p) ==
  IF p.kind = "join" THEN <<p.cond>> \o Conditions(p.left) \o Conditions(p.right) ELSE <<>>

\* The conditions that link two nodes, as best_pair tests it.
Linking(conds, l, r) ==
  {k \in DOMAIN conds : /\ ReferencedTables(conds[k]) \cap Aliases(l) # {}
                        /\ ReferencedTables(conds[k]) \cap Aliases(r) # {}}

\* best_pair: of the pairs that some condition links the first with the fewest
\* estimated rows; without any, the first two nodes.
BestPair(nodes, conds) ==
  LET pairs == {ij \in (DOMAIN nodes) \X (DOMAIN nodes) :
                  ij[1] < ij[2] /\ Linking(conds, nodes[ij[1]], nodes[ij[2]]) # {}}
      cost(ij) == EstimateJoinRows(EstimateRows(nodes[ij[1]]), EstimateRows(nodes[ij[2]]))
      earlier(x, y) == x[1] < y[1] \/ (x[1] = y[1] /\ x[2] <= y[2])
  IN  IF pairs = {} THEN <<1, 2>>
      ELSE CHOOSE x \in pairs : \A y \in pairs :
             cost(x) < cost(y) \/ (cost(x) = cost(y) /\ earlier(x, y))

\* Mutant of Without: the first node goes instead of the first of the pair.
WithoutFirst(nodes, ij) == RemoveAt(RemoveAt(nodes, ij[2]), 1)

\* The nodes without a pair of them, the larger index removed first.
Without(nodes, ij) == RemoveAt(RemoveAt(nodes, ij[2]), ij[1])

\* greedy_join_order: the pair is joined with the first condition that links it
\* and goes to the end; conditions left over at the end are gone.
RECURSIVE GreedyJoinOrder(_, _)
GreedyJoinOrder(nodes, conds) ==
  IF Len(nodes) = 1 THEN nodes[1]
  ELSE LET ij == BestPair(nodes, conds)
           l == nodes[ij[1]]
           r == nodes[ij[2]]
           links == Linking(conds, l, r)
           k == CHOOSE k \in links : \A m \in links : k <= m
           rest == Without(nodes, ij)
       IN  IF links = {}
             THEN GreedyJoinOrder(Append(rest, Join("inner", <<True>>, l, r)), conds)
             ELSE GreedyJoinOrder(Append(rest, Join("inner", conds[k], l, r)), RemoveAt(conds, k))

\* Two leaves are rebuilt as they were, three or more are ordered greedily.
Reordered(join) ==
  IF ~AllInner(join) \/ Len(Leaves(join)) = 2 THEN join
  ELSE GreedyJoinOrder(Leaves(join), Conditions(join))

RECURSIVE ReorderJoins(_)
ReorderJoins(p) ==
  CASE p.kind = "join"   -> Reordered(Join(p.type, p.cond, ReorderJoins(p.left),
                                                           ReorderJoins(p.right)))
    [] p.kind = "filter" -> Filter(p.cond, ReorderJoins(p.input))
    [] p.kind = "above"  -> Above(p.uses, ReorderJoins(p.input))
    [] p.kind = "scan"   -> p

-----------------------------------------------------------------------------
\* is_join_search_candidate
RECURSIVE IsCandidate(_)
IsCandidate(p) ==
  IF p.kind = "filter" THEN IsCandidate(p.input) ELSE p.kind = "join" /\ AllInner(p)

\* plan_node goes down from the root and hands the first candidate it meets on
\* each way to the search.
RECURSIVE JoinSearchRoots(_)
JoinSearchRoots(p) ==
  IF IsCandidate(p) THEN <<p>>
  ELSE CASE p.kind = "join" -> JoinSearchRoots(p.left) \o JoinSearchRoots(p.right)
         [] p.kind = "scan" -> <<>>
         [] OTHER           -> JoinSearchRoots(p.input)

\* collect: the scans from left to right and the conjuncts from the root down.
RECURSIVE Scans(_)
Scans(p) ==
  CASE p.kind = "scan" -> <<p>>
    [] p.kind = "join" -> Scans(p.left) \o Scans(p.right)
    [] OTHER           -> Scans(p.input)

RECURSIVE Conjuncts(_)
Conjuncts(p) ==
  CASE p.kind = "filter" -> p.cond \o Conjuncts(p.input)
    [] p.kind = "join"   -> p.cond \o Conjuncts(p.left) \o Conjuncts(p.right)
    [] p.kind = "above"  -> Conjuncts(p.input)
    [] p.kind = "scan"   -> <<>>

\* The types of all joins in a tree.
RECURSIVE JoinTypes(_)
JoinTypes(p) ==
  CASE p.kind = "join" -> {p.type} \cup JoinTypes(p.left) \cup JoinTypes(p.right)
    [] p.kind = "scan" -> {}
    [] OTHER           -> JoinTypes(p.input)
=============================================================================
