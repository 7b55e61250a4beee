---------------------------- MODULE Coordinator -----------------------------
(***************************************************************************)
(* Distributed execution of one query (distributed/coordinator.cpp): what  *)
(* is distributed and what falls back, the worker calls of each strategy   *)
(* in their order, recovery of a call that failed, and the merge of the    *)
(* workers' answers.                                                       *)
(*                                                                         *)
(* A list of rows is a set of occurrences <<source, row>>, so a row that   *)
(* arrives from two workers counts twice; a joined row is a pair of        *)
(* occurrences.  Filters below the join and HAVING, ORDER BY, LIMIT and    *)
(* the projection above the merge see the same rows on either path and are *)
(* left out, and so are column names.                                      *)
(***************************************************************************)
EXTENDS Literals, FiniteSets, Sequences, FiniteSetsExt, SequencesExt

CONSTANTS
  NumWorkers,  \* workers.size()
  Lefts,       \* the left tables to consider: sets of rows [id, key, val]
  Rights,      \* the right tables
  Queries,     \* the plans to consider, see QueryType
  Estimates,   \* optimizer's row estimates for a side of the join
  kBroadcastEligible,
  Hash         \* fnv1a64 of a key's string

Workers == 0..(NumWorkers - 1)

\* What unwrap() and the tests after it see of a plan.  core: one relation, a
\* join of two, or anything else.  kind and condition: HashJoin only compares
\* for equality.  func over left.val, "none" for no aggregate; group by
\* nothing, by the left join key or by left.val.
QueryType ==
  {q \in [core : {"single", "join", "other"}, kind : {"hash", "loop"},
          condition : {"eq", "less"},
          func : {"none", "COUNT", "SUM", "AVG", "MIN", "MAX"},
          group : {"none", "key", "val"}] :
     /\ q.kind = "hash" => q.condition = "eq"
     /\ q.func = "none" => q.group = "none"}

ASSUME CoordinatorAssumption ==
  /\ NumWorkers \in Nat \ {0}
  /\ Queries \subseteq QueryType
  /\ Estimates \subseteq Nat /\ kBroadcastEligible \in Nat
  /\ \A table \in Lefts \cup Rights : \A r \in table :
       r.id \in Int /\ Hash[LiteralToString(r.key)] \in Nat

VARIABLES
  left, right,  \* the tables, as the coordinator loaded them in full
  loaded,       \* Workers -> [left, right]: what each worker loaded at its start
  query,        \* the plan being run
  strategy,     \* "none", "single", "broadcast_left", "broadcast_right", "shuffle"
  pc,           \* "idle", "running", "hung" (in recv), "done" or "error"
  todo,         \* the worker calls still to make, in order
  gathered,     \* [left, right]: the rows collected for the exchange
  answers,      \* Workers -> what the worker's last plan returned
  result        \* the rows returned to the caller

tables == <<left, right, loaded>>
vars == <<tables, query, strategy, pc, todo, gathered, answers, result>>

-----------------------------------------------------------------------------
\* partition_of the row's id, which is how a table is split over the workers.
PartitionOf(id) == id % NumWorkers

\* filter_table_to_partition: worker w's rows of a table, as occurrences.
Partition(table, w) == {w} \X {r \in table : PartitionOf(r.id) = w}

\* load_worker_partition, and filter_database_to_partition of the full copy.
Share(w) == [left |-> Partition(left, w), right |-> Partition(right, w)]

\* The coordinator's own full copy.
Here == NumWorkers
FullCopy(table) == {Here} \X table

\* hash_partition_of a join key.
HashPartitionOf(v) == Hash[LiteralToString(v)] % NumWorkers

-----------------------------------------------------------------------------
\* Execution (execution/operators.cpp).
Matches(q, a, b) ==
  IF q.kind = "hash" THEN LiteralToString(a) = LiteralToString(b)
  ELSE IF q.condition = "eq" THEN LiteralEqual(a, b) ELSE LiteralLess(a, b)

Join(q, ls, rs) == {p \in ls \X rs : Matches(q, p[1][2].key, p[2][2].key)}

\* The left row of an occurrence in the aggregate's input, and its group.
LeftRow(q, e) == IF q.core = "single" THEN e[2] ELSE e[1][2]
GroupOf(q, e) ==
  CASE q.group = "none" -> <<>>
    [] q.group = "key"  -> LiteralToString(LeftRow(q, e).key)
    [] q.group = "val"  -> LiteralToString(LeftRow(q, e).val)

\* The non-null arguments of the aggregate.
Args(q, es) == {e \in es : ~IsNull(LeftRow(q, e).val)}
Sum(q, es)  == MapThenSumSet(LAMBDA e : LeftRow(q, e).val[2], Args(q, es))
Count(q, es) == Cardinality(Args(q, es))

\* An average is kept as the fraction sum / count; with no argument it is 0.0.
Average(sum, count) == IF count > 0 THEN <<sum, count>> ELSE <<0, 1>>

\* One group's value.  AVG is computed here only when it was not split.
Aggregated(q, es) ==
  LET vals == {LeftRow(q, e).val : e \in Args(q, es)}
  IN  CASE q.func = "COUNT" -> Count(q, es)
        [] q.func = "SUM"   -> Sum(q, es)
        [] q.func = "AVG"   -> Average(Sum(q, es), Count(q, es))
        [] q.func = "MIN"   -> IF vals = {} THEN Null
                               ELSE CHOOSE v \in vals : \A u \in vals : ~LiteralLess(u, v)
        [] q.func = "MAX"   -> IF vals = {} THEN Null
                               ELSE CHOOSE v \in vals : \A u \in vals : ~LiteralLess(v, u)

\* The single row of an aggregate without GROUP BY over no rows at all.
OverNothing(q) == IF q.func \in {"COUNT", "SUM"} THEN 0 ELSE Null

\* HashAggregateExec.  With split, an AVG yields its SUM and COUNT columns.
HashAggregate(q, es, split) ==
  LET Value(g) == IF split /\ q.func = "AVG" THEN <<Sum(q, g), Count(q, g)>>
                                             ELSE Aggregated(q, g)
      groups == {GroupOf(q, e) : e \in es}
  IN  IF groups = {} /\ q.group = "none"
        THEN {[key |-> <<>>, value |-> IF split /\ q.func = "AVG" THEN <<0, 0>>
                                                                  ELSE OverNothing(q)]}
        ELSE {[key |-> g, value |-> Value({e \in es : GroupOf(q, e) = g})] : g \in groups}

\* What build_executor and run_to_completion give for the whole plan.
Execute(q, es, split) == IF q.func = "none" THEN es ELSE HashAggregate(q, es, split)

\* The query run on one node: the reference for every other path.
Local(q) ==
  Execute(q, IF q.core = "single" THEN FullCopy(left)
             ELSE Join(q, FullCopy(left), FullCopy(right)), FALSE)

\* An output row without the sources of its occurrences.
Output(q, e) ==
  IF q.func # "none" THEN e
  ELSE IF q.core = "single" THEN e[2] ELSE <<e[1][2], e[2][2]>>

\* A list of output rows: how often each occurs.
Listing(q, es) ==
  [o \in {Output(q, e) : e \in es} |-> Cardinality({e \in es : Output(q, e) = o})]

-----------------------------------------------------------------------------
\* Mutant of GroupByCoLocated: any GROUP BY over a shuffle skips the merge.
AnyGroupByCoLocated == strategy = "shuffle" /\ query.group # "none"

\* partition_key_is_safe_for_group_by.
GroupByCoLocated == strategy = "shuffle" /\ query.group = "key"

\* What a worker call computes from worker w's share of the data: a side of the
\* join, or the worker's plan over its share and the rows sent along.
CallResult(w, what, share) ==
  LET target(side) == {e \in gathered[side] : HashPartitionOf(e[2].key) = w}
      input == CASE strategy = "single" -> share.left
                 [] strategy = "broadcast_left" ->
                      Join(query, gathered.left, share.right)
                 [] strategy = "broadcast_right" ->
                      Join(query, share.left, gathered.right)
                 [] strategy = "shuffle" -> Join(query, target("left"), target("right"))
  IN  CASE what \in {"left", "right"} -> share[what]
        [] what = "plan" -> Execute(query, input, ~GroupByCoLocated)

\* merge_partial_aggregates for one group: its partial values in worker order.
\* MIN and MAX start from the first partial, whatever it is.
Merged(q, partials) ==
  LET sums == FoldLeft(LAMBDA a, p : <<a[1] + p[1], a[2] + p[2]>>, <<0, 0>>, partials)
  IN  CASE q.func \in {"COUNT", "SUM"} -> FoldLeft(LAMBDA a, p : a + p, 0, partials)
        [] q.func = "AVG" -> Average(sums[1], sums[2])
        [] q.func = "MIN" -> FoldLeft(LAMBDA a, p : IF LiteralLess(p, a) THEN p ELSE a,
                                      partials[1], partials)
        [] q.func = "MAX" -> FoldLeft(LAMBDA a, p : IF LiteralLess(a, p) THEN p ELSE a,
                                      partials[1], partials)

MergePartialAggregates(q) ==
  LET rows(w, g) == {x \in answers[w] : x.key = g}
      keys == {x.key : x \in UNION {answers[w] : w \in Workers}}
      partials(g) == FlattenSeq([i \in 1..NumWorkers |->
                        SetToSeq({x.value : x \in rows(i - 1, g)})])
  IN  {[key |-> g, value |-> Merged(q, partials(g))] : g \in keys}

\* The concatenation of the workers' answers, as a listing.
Concatenation(q) ==
  LET rows == UNION {{w} \X answers[w] : w \in Workers}
  IN  [o \in {Output(q, x[2]) : x \in rows} |->
         Cardinality({x \in rows : Output(q, x[2]) = o})]

-----------------------------------------------------------------------------
\* One call for each of whats, worker by worker.
EachWorker(whats) ==
  [i \in 1..(NumWorkers * Len(whats)) |->
     <<(i - 1) \div Len(whats), whats[1 + ((i - 1) % Len(whats))]>>]

\* The calls a strategy makes: gather, then run the plan on every worker.
Calls(s) ==
  CASE s = "single"          -> EachWorker(<<"plan">>)
    [] s = "broadcast_left"  -> EachWorker(<<"left">>) \o EachWorker(<<"plan">>)
    [] s = "broadcast_right" -> EachWorker(<<"right">>) \o EachWorker(<<"plan">>)
    [] s = "shuffle"         -> EachWorker(<<"left", "right">>) \o EachWorker(<<"plan">>)

\* The strategies run_distributed_query may take for a two-relation join: the
\* bandit chooses, and it may explore, so every legal arm is possible.
JoinStrategies(leftEst, rightEst) ==
  LET canLeft  == leftEst <= kBroadcastEligible
      canRight == rightEst <= kBroadcastEligible
      preferLeft == canLeft /\ (~canRight \/ leftEst <= rightEst)
  IN  {"shuffle"} \cup
      IF canLeft \/ canRight
        THEN {IF preferLeft THEN "broadcast_left" ELSE "broadcast_right"} ELSE {}

\* Mutant of Starts: the strategy is not recorded.
StartsUnrecorded(q, s) ==
  /\ query' = q /\ pc' = "running" /\ todo' = Calls(s)
  /\ UNCHANGED <<tables, strategy, gathered, answers, result>>

\* The query begins: nothing is called yet.
Starts(q, s) ==
  /\ query' = q /\ strategy' = s
  /\ pc' = "running" /\ todo' = Calls(s)
  /\ UNCHANGED <<tables, gathered, answers, result>>

SubmitSingle(q) ==
  /\ pc = "idle" /\ q.core = "single"
  /\ Starts(q, "single")

SubmitJoin(q) ==
  /\ pc = "idle" /\ q.core = "join"
  /\ \E l, r \in Estimates : \E s \in JoinStrategies(l, r) :
       /\ s = "shuffle" => q.condition = "eq"
       /\ Starts(q, s)

\* resolve_join_keys throws before anything else happens in run_shuffle_join.
ShuffleRefused(q) ==
  /\ pc = "idle" /\ q.core = "join" /\ q.condition # "eq"
  /\ \E l, r \in Estimates : "shuffle" \in JoinStrategies(l, r)
  /\ query' = q /\ strategy' = "shuffle" /\ pc' = "error"
  /\ UNCHANGED <<tables, todo, gathered, answers, result>>

\* run_fallback.
Fallback(q) ==
  /\ pc = "idle" /\ q.core = "other"
  /\ query' = q /\ pc' = "done"
  /\ result' = Listing(q, Local(q))
  /\ UNCHANGED <<tables, strategy, todo, gathered, answers>>

\* The call at the head of todo yields its rows, computed from this share.
Receive(share) ==
  LET w == Head(todo)[1]
      what == Head(todo)[2]
      rows == CallResult(w, what, share)
  IN  /\ todo' = Tail(todo) /\ pc' = "running"
      /\ IF what = "plan"
           THEN answers' = [answers EXCEPT ![w] = rows] /\ UNCHANGED gathered
           ELSE gathered' = [gathered EXCEPT ![what] = @ \cup rows] /\ UNCHANGED answers
      /\ UNCHANGED <<tables, query, strategy, result>>

\* call_worker_execute: the worker answers 200.
WorkerAnswers ==
  /\ pc = "running" /\ todo # <<>>
  /\ Receive(loaded[Head(todo)[1]])

\* call_worker_or_recover: no connection, a broken one or another status.  The
\* coordinator runs the same plan over the worker's share of its own copy.
Recover ==
  /\ pc = "running" /\ todo # <<>>
  /\ Receive(Share(Head(todo)[1]))

\* The worker accepts the connection and does not answer: the timeout covers
\* connect() only, recv() waits.
WorkerHangs ==
  /\ pc = "running" /\ todo # <<>>
  /\ pc' = "hung"
  /\ UNCHANGED <<tables, query, strategy, todo, gathered, answers, result>>

\* It answers after all, or its connection breaks and the call is recovered.
HangEnds ==
  /\ pc = "hung"
  /\ Receive(loaded[Head(todo)[1]]) \/ Receive(Share(Head(todo)[1]))

\* The merge, and finish().
Finish ==
  /\ pc = "running" /\ todo = <<>>
  /\ pc' = "done"
  /\ result' = IF query.func = "none" \/ GroupByCoLocated THEN Concatenation(query)
               ELSE Listing(query, MergePartialAggregates(query))
  /\ UNCHANGED <<tables, query, strategy, todo, gathered, answers>>

-----------------------------------------------------------------------------
NoQuery == [core |-> "other", kind |-> "loop", condition |-> "eq",
            func |-> "none", group |-> "none"]

Init ==
  /\ left \in Lefts /\ right \in Rights
  /\ loaded = [w \in Workers |-> Share(w)]
  /\ query = NoQuery /\ strategy = "none" /\ pc = "idle" /\ todo = <<>>
  /\ gathered = [left |-> {}, right |-> {}]
  /\ answers = [w \in Workers |-> {}]
  /\ result = <<>>

Submit(q) == SubmitSingle(q) \/ SubmitJoin(q) \/ ShuffleRefused(q) \/ Fallback(q)

Next ==
  \/ \E q \in Queries : Submit(q)
  \/ WorkerAnswers
  \/ Recover
  \/ WorkerHangs
  \/ HangEnds
  \/ Finish

Spec == Init /\ [][Next]_vars

\* The coordinator is a sequential program that keeps running: a call that is
\* not stuck in recv() returns, and then the next statement runs.
FairSpec == Spec /\ WF_vars(WorkerAnswers \/ Recover) /\ WF_vars(Finish)

-----------------------------------------------------------------------------
\* Type invariant: the calls left belong to the strategy, in its order.
TypeOK ==
  /\ query \in QueryType
  /\ strategy \in {"none", "single", "broadcast_left", "broadcast_right", "shuffle"}
  /\ pc \in {"idle", "running", "hung", "done", "error"}
  /\ strategy = "none" => todo = <<>>
  /\ strategy # "none" => IsSuffix(todo, Calls(strategy))
  /\ DOMAIN answers = Workers

\* README, the fault-tolerance result: "still produced results identical to the
\* healthy-cluster baseline".  Whichever calls fail and are recovered, and
\* whichever strategy the bandit picks, the rows returned are those of the same
\* plan run on one node, each as often.
MatchesLocal == pc = "done" => result = Listing(query, Local(query))

\* The comment on broadcast and shuffle, "both are always individually *correct*
\* for a 2-relation join": what a shuffle returns is what one node returns.
ShuffleMatchesLocal ==
  pc = "done" /\ strategy = "shuffle" => result = Listing(query, Local(query))

\* What falls back is what would otherwise be "attempted unsoundly", so what is
\* distributed is sound, down to a MIN of which one worker has no argument ...
MinMatchesLocal ==
  pc = "done" /\ query.func = "MIN" => result = Listing(query, Local(query))

\* ... and an AVG over no rows ("splitting AVG into SUM+COUNT since per-worker
\* averages can't be correctly averaged back together").
AvgMatchesLocal ==
  pc = "done" /\ query.func = "AVG" => result = Listing(query, Local(query))

\* Comment on broadcast and shuffle: "both are always individually *correct* for
\* a 2-relation join".  So the choice never makes a query fail.
StrategyNeverFails == pc # "error"

\* Comment on kWorkerCallTimeoutMs: a hung worker "shouldn't be able to stall an
\* otherwise-recoverable query".
QueryCompletes == pc \in {"running", "hung"} ~> pc \in {"done", "error"}
=============================================================================
