---------------------------- MODULE QueryPlanner ----------------------------
(***************************************************************************)
(* From a parsed SELECT to a physical plan, as CLI, web server, coordinator*)
(* and plan cache all do it: LogicalPlanner::plan, the three passes of     *)
(* optimize(), and generate_physical_plan with its join-order search.      *)
(* Composes LogicalOptimizer (operators on trees) and JoinSearch (the      *)
(* search, one set of relations at a time).                                *)
(***************************************************************************)
EXTENDS JoinSearch

INSTANCE LogicalOptimizer

CONSTANT
  Statements  \* records [from, joins, where, columns]; joins is a sequence of
              \* [type, table, cond], columns is {} for SELECT *

VARIABLES
  stmt,  \* the statement
  tree,  \* the logical plan, once there is one
  pass   \* what runs next: "plan", "push", "project", "reorder", "physical",
         \* "search", or "done"

vars == <<stmt, tree, pass, searchVars>>

\* collect: what the search is given of a subtree.
InputOf(root) ==
  [rels |-> [i \in DOMAIN Scans(root) |-> Scans(root)[i].table],
   preds |-> Conjuncts(root)]

Init ==
  /\ stmt \in Statements
  /\ tree = <<>> /\ pass = "plan"
  /\ input = [rels |-> <<>>, preds |-> <<>>]
  /\ solved = {} /\ memo = <<>> /\ best = <<>> /\ stage = "idle"

\* One pass over the whole tree.
Rewrites(this, next, result) ==
  /\ pass = this /\ pass' = next
  /\ tree' = result
  /\ UNCHANGED <<stmt, searchVars>>

PlanStatement       == Rewrites("plan", "push", LogicalPlanOf(stmt))
PushPredicatesPass  == Rewrites("push", "project", PushPredicates(tree))
PushProjectionsPass == Rewrites("project", "reorder", PushProjections(tree, {}))
ReorderJoinsPass    == Rewrites("reorder", "physical", ReorderJoins(tree))

\* The subtree that plan_node hands to the search, if there is one.  (Its trees
\* are left-deep below an outer join, so there is at most one.)
Roots == JoinSearchRoots(tree)

\* plan_join_search begins with the access paths.
StartSearch ==
  /\ pass = "physical" /\ Roots # <<>>
  /\ input' = InputOf(Roots[1])
  /\ solved' = {} /\ memo' = BasePlans' /\ best' = <<>> /\ stage' = "search"
  /\ pass' = "search"
  /\ UNCHANGED <<stmt, tree>>

\* Without a candidate plan_node only chooses an operator for every node.
PlanWithoutSearch ==
  /\ pass = "physical" /\ Roots = <<>>
  /\ pass' = "done"
  /\ UNCHANGED <<stmt, tree, searchVars>>

Search == pass = "search" /\ SearchStep /\ UNCHANGED <<stmt, tree, pass>>

EndSearch == pass = "search" /\ FindBestPlan /\ pass' = "done" /\ UNCHANGED <<stmt, tree>>

Next ==
  \/ PlanStatement \/ PushPredicatesPass \/ PushProjectionsPass \/ ReorderJoinsPass
  \/ StartSearch \/ PlanWithoutSearch \/ Search \/ EndSearch

Spec == Init /\ [][Next]_vars

-----------------------------------------------------------------------------
StatementTables == {stmt.from} \cup {stmt.joins[j].table : j \in DOMAIN stmt.joins}

\* Type invariant: the tree always scans every table of the statement once, and
\* the search runs when it should, on what collect can find.
TypeOK ==
  /\ pass \in {"plan", "push", "project", "reorder", "physical", "search", "done"}
  /\ stage \in {"idle", "search", "planned", "refused"}
  /\ pass = "search" <=> stage = "search"
  /\ stage = "search" /\ solved = {} => input \in Inputs
  /\ pass # "plan" =>
       /\ {Scans(tree)[i].table : i \in DOMAIN Scans(tree)} = StatementTables
       /\ Len(Scans(tree)) = Len(stmt.joins) + 1
       /\ Len(Roots) <= 1

\* The conjuncts of the statement.
OnConjuncts(j) == {stmt.joins[j].cond[i] : i \in DOMAIN stmt.joins[j].cond}
WhereConjuncts == {stmt.where[i] : i \in DOMAIN stmt.where}
Asked == WhereConjuncts \cup UNION {OnConjuncts(j) : j \in DOMAIN stmt.joins}

\* A query that is planned, not refused.
Planned == pass = "done" /\ stage # "refused"

\* The conjuncts that the physical plan applies: the search's, and those of the
\* nodes that were planned one by one.
PlannedConjuncts ==
  LET of(tr) == {Conjuncts(tr)[i] : i \in DOMAIN Conjuncts(tr)}
  IN  IF stage = "planned"
        THEN (of(tree) \ of(Roots[1])) \cup {Pred(k) : k \in Applied(best[1])}
        ELSE of(tree)

\* Every join is inner with an ON condition over two tables, one conjunct of
\* which links them, and the WHERE clause links no further pair.
Simple ==
  /\ \A j \in DOMAIN stmt.joins :
       /\ stmt.joins[j].type = "inner"
       /\ Cardinality(ReferencedTables(stmt.joins[j].cond)) = 2
       /\ Cardinality({c \in OnConjuncts(j) : Cardinality(c.refs) = 2}) = 1
  /\ \A c \in WhereConjuncts : Cardinality(c.refs) # 2

\* Such a query is planned with exactly the conjuncts it asked for, wherever
\* pushdown, reordering, the graph and the search move them.
SimpleKept == Simple /\ Planned => PlannedConjuncts = Asked

\* optimizer.cpp, Rule 2: "At each Scan, record only those columns so the executor
\* skips the rest."  No column that is selected, or that a conjunct on that
\* table reads, is skipped, although joins are reordered afterwards.
ScansReadWhatIsUsed ==
  pass \notin {"plan", "push", "project"} /\ stmt.columns # {} =>
    \A i \in DOMAIN Scans(tree) :
      stmt.columns \cup {c.id : c \in {c \in Asked : Scans(tree)[i].table \in c.refs}}
        \subseteq Scans(tree)[i].columns

\* join_graph.hpp: "Every Filter predicate and every Join's condition in the
\* subtree is split into AND-conjuncts and reclassified", and what is neither a
\* filter nor an edge is put on top: no conjunct of a planned query is lost.
EveryConjunctApplied == Planned => Asked \subseteq PlannedConjuncts

\* join_graph.hpp: "an outer join anywhere in the subtree" makes
\* is_join_search_candidate false, so no outer join is reordered.
OuterJoinsNotSearched ==
  pass = "physical" => \A i \in DOMAIN Roots : JoinTypes(Roots[i]) = {"inner"}

\* join_enumerator.hpp: the search throws when "some pair of relations would
\* require a cartesian product", so no query of inner joins whose own
\* predicates connect its tables is refused.
LinkedQueriesPlanned ==
  stage = "refused" /\ (\A j \in DOMAIN stmt.joins : stmt.joins[j].type = "inner") =>
    \E s \in SUBSET StatementTables \ {{}, StatementTables} :
      \A c \in Asked : c.bare \/ Cardinality(c.refs) # 2 \/ c.refs \subseteq s
                                                         \/ c.refs \cap s = {}

\* logical_plan.hpp: projected_columns "empty means all columns", which is what
\* SELECT * needs of every scan.
StarReadsAllColumns ==
  pass \notin {"plan", "push", "project"} /\ stmt.columns = {} =>
    \A i \in DOMAIN Scans(tree) : Scans(tree)[i].columns = {}
=============================================================================
