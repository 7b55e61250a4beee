----------------------------- MODULE Execution ------------------------------
(***************************************************************************)
(* Single-node execution of one physical plan (execution/): build_executor *)
(* turns the plan into a tree of pull iterators, run_to_completion opens   *)
(* the root, calls next() until it returns nothing, and closes it.         *)
(*                                                                         *)
(* Every plan that the planner makes for a statement over at most two      *)
(* tables is a chain of one-child nodes (WHERE, HAVING, aggregate, sort,   *)
(* limit, projection) over node 0, an access path or a join of two.  An    *)
(* access path is a SeqScan or an IndexScan below the Filters of the       *)
(* table's own conditions.  A call of next() goes down the chain and its   *)
(* answer comes back up, one node to a step; an operator's fields are what *)
(* it keeps between calls.                                                 *)
(***************************************************************************)
EXTENDS Literals, FiniteSets, Sequences, FiniteSetsExt, SequencesExt

CONSTANTS
  Columns,      \* the column names of both tables, in order
  Expressions,  \* the expressions of the plans and the operands of each
  Inputs,       \* what to run: a plan and the rows of both tables
  Throw         \* what evaluating an expression that throws yields

IsSequence(s) == Len(s) \in Nat /\ s = [k \in 1..Len(s) |-> s[k]]

\* The k-th of a set of positions, and the rows at these positions, in order.
Nth(S, k) == CHOOSE x \in S : Cardinality({y \in S : y <= x}) = k
RowsAt(rows, S) == [k \in 1..Cardinality(S) |-> rows[Nth(S, k)]]

\* A plan: the join algorithm (IndexNestedLoopJoin runs as a loop), join_type,
\* which build_executor ignores, the access path of each table (the probe value of
\* an IndexScan of its key, <<>> for a SeqScan, and the predicates of the Filters
\* from the bottom up), the join condition, and the nodes above from the bottom up.
ASSUME ExecutionAssumption ==
  \A in \in Inputs :
    /\ IsSequence(in.plan.ops) /\ IsSequence(in.left) /\ IsSequence(in.right)
    /\ in.plan.join \in {"none", "loop", "hash"}
    /\ in.plan.type \in {"inner", "left"}
    /\ \A name \in {"l", "r"} : IsSequence(in.plan.access[name].preds)
    /\ \A i \in DOMAIN in.plan.ops :
         /\ in.plan.ops[i].op \in {"filter", "aggregate", "sort", "limit", "project"}
         /\ in.plan.ops[i].op = "limit" => in.plan.ops[i].count \in Nat
         /\ in.plan.ops[i].op = "sort" => IsSequence(in.plan.ops[i].items)

VARIABLES
  plan, left, right,  \* what is executed on which data
  status,    \* "build", "open", "run", "done" or "error" (an exception)
  opened,    \* how many nodes have returned from open()
  scanned,   \* pos_ of the left scan
  join,      \* [rows: right_rows_ or build_, current: current_left_ (at most one
             \*  row), rest: the right rows still to be tried with it]
  held,      \* node -> rows_ of a sort, groups or results_ of an aggregate
  pos,       \* node -> pos_ or emitted_
  call,      \* [dir, node, row]: next() of that node was called ("ask") or has
             \* returned a row or the end
  produced,  \* node -> rows_produced_
  out        \* the rows of the ExecutionResult

vars == <<plan, left, right, status, opened, scanned, join, held, pos, call, produced, out>>
data == <<plan, left, right>>

-----------------------------------------------------------------------------
(* RowSchema: names of columns, and the aggregates computed below. *)

TableSchema(name) ==
  [cols |-> [i \in DOMAIN Columns |-> <<name, Columns[i]>>], aggs |-> <<>>]

Extended(s, t) == [cols |-> s.cols \o t.cols, aggs |-> s.aggs \o t.aggs]

\* RowSchema::resolve: 0 when nothing fits or an unqualified name is ambiguous.
Resolve(s, table, column) ==
  LET fits == {i \in DOMAIN s.cols :
                 s.cols[i][2] = column /\ table \in {"", s.cols[i][1]}}
  IN  IF fits = {} \/ (table = "" /\ Cardinality(fits) > 1) THEN 0 ELSE Min(fits)

ResolveAggregate(s, func, arg) ==
  LET fits == {i \in DOMAIN s.aggs : s.aggs[i].func = func /\ s.aggs[i].arg = arg}
  IN  IF fits = {} THEN 0 ELSE s.aggs[Min(fits)].index

-----------------------------------------------------------------------------
(* expr_eval.cpp, over well-typed expressions *)

Bool(b) == <<"bool", b>>
Booleans == {Bool(TRUE), Bool(FALSE)}  \* literal_truthy throws on any other value

\* Comparisons have two values: with NULL, = and < are false and <= is true.
\* The others are these negated or with their sides swapped; arithmetic on NULL
\* throws (literal_as_double).
Binary(op, l, r) ==
  CASE op = "="  -> Bool(LiteralEqual(l, r))
    [] op = "<"  -> Bool(LiteralLess(l, r))
    [] op = "<=" -> Bool(~LiteralLess(r, l))
    [] op = "AND" -> Bool(l[2] /\ r[2])
    [] op = "OR"  -> Bool(l[2] \/ r[2])
    [] op = "+"   -> IF IsNull(l) \/ IsNull(r) THEN Throw ELSE <<"int", l[2] + r[2]>>

Evaluate(expr, row, s) ==
  LET at(i) == IF i = 0 THEN Throw ELSE row[i]
      value[e \in Expressions] ==
        CASE e.kind = "literal"  -> e.value
          [] e.kind = "column"   -> at(Resolve(s, e.table, e.column))
          [] e.kind = "function" -> at(ResolveAggregate(s, e.func, e.arg))
          [] e.kind = "not"      ->
               LET v == value[e.operand]
               IN  IF v = Throw THEN Throw ELSE Bool(~v[2])
          [] e.kind = "binary"   ->
               LET l == value[e.left]
                   r == value[e.right]
               IN  IF Throw \in {l, r} THEN Throw ELSE Binary(e.op, l, r)
  IN  value[expr]

-----------------------------------------------------------------------------
(* The plan *)

Root == Len(plan.ops)  \* the root; its consumer is run_to_completion
Op(i) == plan.ops[i]
Blocking(i) == Op(i).op \in {"sort", "aggregate"}

DisplayName(e) == IF e.kind = "column" THEN e.column ELSE "expr"

\* Executor::schema of every node.
Schemas ==
  LET s[i \in 0..Root] ==
        IF i = 0
          THEN IF plan.join = "none" THEN TableSchema("l")
               ELSE Extended(TableSchema("l"), TableSchema("r"))
        ELSE CASE Op(i).op = "aggregate" ->
                    LET by == Op(i).by
                        aggs == Op(i).aggs
                    IN  [cols |-> [j \in DOMAIN by |->
                                     <<IF by[j].kind = "column" THEN by[j].table ELSE "",
                                       DisplayName(by[j])>>]
                                  \o [j \in DOMAIN aggs |-> <<"", aggs[j].alias>>],
                         aggs |-> [j \in DOMAIN aggs |->
                                     [func |-> aggs[j].func, arg |-> aggs[j].arg,
                                      index |-> Len(by) + j]]]
               [] Op(i).op = "project" ->
                    [cols |-> [j \in DOMAIN Op(i).exprs |-> <<"", DisplayName(Op(i).exprs[j])>>],
                     aggs |-> <<>>]
               [] OTHER -> s[i - 1]
  IN  s

\* The value of e on a row that node i received from the node below.
ValueAt(i, e, row) == Evaluate(e, row, Schemas[i - 1])

\* HashJoinExec's constructor: <<left key, right key>>, if the condition is an
\* equality of a column of each side.
HashKeys ==
  LET c == plan.cond
      on(e, name) == e.kind = "column" /\ Resolve(TableSchema(name), e.table, e.column) # 0
  IN  IF c.kind # "binary" \/ c.op # "=" THEN <<>>
      ELSE IF on(c.left, "l") /\ on(c.right, "r") THEN <<c.left, c.right>>
      ELSE IF on(c.right, "l") /\ on(c.left, "r") THEN <<c.right, c.left>>
      ELSE <<>>

-----------------------------------------------------------------------------
(* HashAggregateExec *)

NoInput == [sum |-> 0, count |-> 0, min |-> Null, max |-> Null]

\* One aggregate's state after one more row, on which its argument is v.
Accumulate(acc, agg, v) ==
  IF agg.func = "COUNT" /\ agg.arg.kind = "star" THEN [acc EXCEPT !.count = @ + 1]
  ELSE IF IsNull(v) THEN acc
  ELSE   CASE agg.func = "COUNT" -> [acc EXCEPT !.count = @ + 1]
           [] agg.func \in {"SUM", "AVG"} -> [acc EXCEPT !.sum = @ + v[2], !.count = @ + 1]
           [] agg.func = "MIN" ->
                IF IsNull(acc.min) \/ LiteralLess(v, acc.min) THEN [acc EXCEPT !.min = v] ELSE acc
           [] agg.func = "MAX" ->
                IF IsNull(acc.max) \/ LiteralLess(acc.max, v) THEN [acc EXCEPT !.max = v] ELSE acc

\* The arguments of the aggregates of node i, and its group key, on a row.  COUNT
\* does not evaluate a star, the others throw on it.
Arguments(i, row) ==
  [j \in DOMAIN Op(i).aggs |->
     IF Op(i).aggs[j].arg.kind # "star" THEN ValueAt(i, Op(i).aggs[j].arg, row)
     ELSE IF Op(i).aggs[j].func = "COUNT" THEN Null ELSE Throw]
GroupKey(i, row) == [j \in DOMAIN Op(i).by |-> ValueAt(i, Op(i).by[j], row)]
KeyString(key) == [j \in DOMAIN key |-> LiteralToString(key[j])]

\* The groups, in the order in which they were first seen, with one more row.
AddRow(i, groups, row) ==
  LET key == GroupKey(i, row)
      args == Arguments(i, row)
      known == \E g \in DOMAIN groups : groups[g].str = KeyString(key)
      all == IF known THEN groups
             ELSE Append(groups, [key |-> key, str |-> KeyString(key),
                                  accs |-> [j \in DOMAIN args |-> NoInput]])
      g == CHOOSE g \in DOMAIN all : all[g].str = KeyString(key)
  IN  [all EXCEPT ![g].accs = [j \in DOMAIN args |-> Accumulate(@[j], Op(i).aggs[j], args[j])]]

\* An average is the pair of its sum and its count.
Value(agg, acc) ==
  CASE agg.func = "COUNT" -> <<"int", acc.count>>
    [] agg.func = "SUM"   -> <<"float", acc.sum>>
    [] agg.func = "AVG"   -> IF acc.count > 0 THEN <<"float", acc.sum, acc.count>>
                             ELSE <<"float", 0, 1>>
    [] agg.func = "MIN"   -> acc.min
    [] agg.func = "MAX"   -> acc.max

\* The output rows; without GROUP BY there is always one.
Results(i, groups) ==
  LET aggs == Op(i).aggs
      nothing(f) == CASE f = "COUNT" -> <<"int", 0>> [] f = "SUM" -> <<"float", 0>>
                      [] OTHER -> Null
  IN  IF Op(i).by = <<>> /\ groups = <<>>
        THEN <<[j \in DOMAIN aggs |-> nothing(aggs[j].func)]>>
        ELSE [g \in DOMAIN groups |->
                groups[g].key \o [j \in DOMAIN aggs |-> Value(aggs[j], groups[g].accs[j])]]

-----------------------------------------------------------------------------
(* SortExec *)

\* The comparator given to std::sort.
SortsBefore(i, a, b) ==
  LET va(j) == ValueAt(i, Op(i).items[j].expr, a)
      vb(j) == ValueAt(i, Op(i).items[j].expr, b)
  IN  \E j \in DOMAIN Op(i).items :
        /\ \A k \in 1..(j - 1) : LiteralEqual(va(k), vb(k))
        /\ ~LiteralEqual(va(j), vb(j))
        /\ Op(i).items[j].asc <=> LiteralLess(va(j), vb(j))

\* It is called on every two rows that are neighbours in the end, and goes on to
\* a key only if the rows agree on the keys before it.
SortThrows(i, rows) ==
  LET v(j, x) == ValueAt(i, Op(i).items[j].expr, rows[x])
  IN  \E j \in DOMAIN Op(i).items, x, y \in DOMAIN rows :
        /\ x # y /\ v(j, x) = Throw
        /\ \A k \in 1..(j - 1) : v(k, x) = v(k, y) /\ ~IsNull(v(k, x))

\* What std::sort requires of it, as a relation on positions.
StrictWeakOrder(less, S) ==
  LET tied(x, y) == <<x, y>> \notin less /\ <<y, x>> \notin less
  IN  \A x, y, z \in S :
        /\ <<x, y>> \in less => <<y, x>> \notin less
        /\ <<x, y>> \in less /\ <<y, z>> \in less => <<x, z>> \in less
        /\ tied(x, y) /\ tied(y, z) => tied(x, z)

\* The rearrangements of a sequence that put nothing before what is less.
Rearranged(rows, less) ==
  {[x \in DOMAIN rows |-> rows[p[x]]] :
     p \in {p \in SetToSeqs(DOMAIN rows) :
              \A x, y \in DOMAIN rows : x < y => <<p[y], p[x]>> \notin less}}

\* The pairs of positions of rows that Less relates.
PairsWith(rows, Less(_, _)) ==
  UNION {IF x # y /\ Less(x, y) THEN {<<x, y>>} ELSE {} : x, y \in DOMAIN rows}

\* Ties may come out in any order, and anything may when the comparator is not
\* a strict weak order, as with a NULL among other keys.
Sorted(i, rows) ==
  UNION {Rearranged(rows, IF StrictWeakOrder(less, DOMAIN rows) THEN less ELSE {}) :
           less \in {PairsWith(rows, LAMBDA x, y : SortsBefore(i, rows[x], rows[y]))}}

-----------------------------------------------------------------------------
(* The calls *)

Init ==
  /\ \E in \in Inputs : plan = in.plan /\ left = in.left /\ right = in.right
  /\ status = "build"
  /\ opened = 0
  /\ scanned = 0
  /\ join = [rows |-> <<>>, current |-> <<>>, rest |-> <<>>]
  /\ held = [i \in 1..Root |-> <<>>]
  /\ pos = [i \in 1..Root |-> 0]
  /\ call = [dir |-> "none", node |-> 0, row |-> <<>>]
  /\ produced = [i \in 0..Root |-> 0]
  /\ out = <<>>

fields == <<scanned, join, held, pos>>

Ask(i) == call' = [dir |-> "ask", node |-> i, row |-> <<>>] /\ UNCHANGED produced
GiveEnd(i) == call' = [dir |-> "end", node |-> i, row |-> <<>>] /\ UNCHANGED produced
Give(i, row) == /\ call' = [dir |-> "row", node |-> i, row |-> row]
                /\ produced' = [produced EXCEPT ![i] = @ + 1]

\* Mutant of Answered: the end of a child's rows is not noticed.
AnsweredRow(i) == status # "error" /\ call.dir = "row" /\ call.node = i - 1

\* next() of node i was called; it is node i whose child has answered.
Asked(i) == status # "error" /\ call.dir = "ask" /\ call.node = i
Answered(i) == status # "error" /\ call.dir \in {"row", "end"} /\ call.node = i - 1

Fail == status' = "error" /\ UNCHANGED <<data, opened, fields, call, produced, out>>

\* build_executor.
BuildExecutor ==
  /\ status = "build"
  /\ IF plan.join = "hash" /\ HashKeys = <<>> THEN Fail
     ELSE status' = "open" /\ UNCHANGED <<data, opened, fields, call, produced, out>>

Opening(i) == status = "open" /\ opened = i /\ call.dir = "none"

\* What a table's access path makes of one of its rows: IndexScanExec skips the
\* rows that the probe does not equal, each FilterExec those on which its
\* predicate is false; any value but a boolean throws.
Passes(name, row) ==
  LET path == plan.access[name]
      value(j) == Evaluate(path.preds[j], row, TableSchema(name))
      stops == {j \in DOMAIN path.preds : value(j) # Bool(TRUE)}
  IN  IF path.probe # <<>> /\ ~LiteralEqual(row[1], path.probe[1]) THEN Bool(FALSE)
      ELSE IF stops = {} THEN Bool(TRUE) ELSE value(Min(stops))

\* The rows of the right side of a join.
RightRows == RowsAt(right, {y \in DOMAIN right : Passes("r", right[y]) = Bool(TRUE)})
RightThrows ==
  plan.join # "none" /\ \E y \in DOMAIN right : Passes("r", right[y]) \notin Booleans

\* open() of the scan or the join, which drains its right side; an
\* unordered_multimap gives rows of the same key back in some fixed order.
OpenSource ==
  /\ Opening(0)
  /\ IF RightThrows THEN Fail
     ELSE /\ scanned' = 0
          /\ \E rows \in IF plan.join = "hash" THEN Rearranged(RightRows, {}) ELSE {RightRows} :
               join' = [rows |-> rows, current |-> <<>>, rest |-> <<>>]
          /\ opened' = 1
          /\ UNCHANGED <<data, status, held, pos, call, produced, out>>

OpenStreaming(i) ==
  /\ Opening(i) /\ ~Blocking(i)
  /\ pos' = [pos EXCEPT ![i] = 0]
  /\ opened' = i + 1
  /\ UNCHANGED <<data, status, scanned, join, held, call, produced, out>>

\* A sort or an aggregate reads all of its input while it is opened.
OpenBlocking(i) ==
  /\ Opening(i) /\ Blocking(i)
  /\ held' = [held EXCEPT ![i] = <<>>]
  /\ Ask(i - 1)
  /\ UNCHANGED <<data, status, opened, scanned, join, pos, out>>

Collect(i) ==
  /\ Answered(i) /\ opened = i /\ call.dir = "row"
  /\ LET throws == Op(i).op = "aggregate" /\
                     Throw \in ToSet(GroupKey(i, call.row)) \cup ToSet(Arguments(i, call.row))
         more == IF Op(i).op = "sort" THEN Append(held[i], call.row)
                                      ELSE AddRow(i, held[i], call.row)
     IN  IF throws THEN Fail
         ELSE /\ held' = [held EXCEPT ![i] = more]
              /\ Ask(i - 1)
              /\ UNCHANGED <<data, status, opened, scanned, join, pos, out>>

Opened(i) ==
  /\ Answered(i) /\ opened = i /\ call.dir = "end"
  /\ IF Op(i).op = "sort" /\ SortThrows(i, held[i]) THEN Fail
       ELSE /\ \E rows \in IF Op(i).op = "sort" THEN Sorted(i, held[i])
                                                ELSE {Results(i, held[i])} :
                 held' = [held EXCEPT ![i] = rows]
            /\ pos' = [pos EXCEPT ![i] = 0]
            /\ opened' = i + 1
            /\ call' = [dir |-> "none", node |-> i, row |-> <<>>]
            /\ UNCHANGED <<data, status, scanned, join, produced, out>>

-----------------------------------------------------------------------------
(* next() of a scan or a join *)

\* The rows ahead of the left access path that it does not skip, and whether it
\* throws on the first of them.
ScanFits(n) == Passes("l", left[n]) # Bool(FALSE)
ScanAhead == {n \in DOMAIN left : n > scanned /\ ScanFits(n)}
ScanThrows == ScanAhead # {} /\ Passes("l", left[Min(ScanAhead)]) \notin Booleans

\* Mutant of ScanEnd: pos_ is advanced before it is compared.
ScanEndPassed == scanned + 1

ScanEnd == Len(left)

ScanFails ==
  /\ Asked(0) /\ (plan.join = "none" \/ join.rest = <<>>) /\ ScanThrows
  /\ Fail

ScanNext ==
  /\ Asked(0) /\ plan.join = "none" /\ ~ScanThrows
  /\ IF ScanAhead = {} THEN scanned' = ScanEnd /\ GiveEnd(0)
     ELSE scanned' = Min(ScanAhead) /\ Give(0, left[Min(ScanAhead)])
  /\ UNCHANGED <<data, status, opened, join, held, pos, out>>

\* Mutant of Candidates: the right side goes on where it stopped.
CandidatesLeft(l) == IF join.current = <<>> THEN join.rows ELSE join.rest

\* A left and a right row have the same key string.
KeysMeet(l, r) ==
  LET key(e, row, name) == LiteralToString(Evaluate(e, row, TableSchema(name)))
  IN  key(HashKeys[1], l, "l") = key(HashKeys[2], r, "r")

\* The right rows to try with a left row: all of them, or those with its key.
Candidates(l) ==
  IF plan.join = "loop" THEN join.rows
  ELSE RowsAt(join.rows, {y \in DOMAIN join.rows : KeysMeet(l, join.rows[y])})

AdvanceLeft ==
  /\ Asked(0) /\ plan.join # "none" /\ join.rest = <<>> /\ ~ScanThrows
  /\ IF ScanAhead = {}
       THEN scanned' = ScanEnd /\ UNCHANGED join /\ GiveEnd(0)
       ELSE LET l == left[Min(ScanAhead)]
            IN  /\ scanned' = Min(ScanAhead)
                /\ join' = [join EXCEPT !.current = l, !.rest = Candidates(l)]
                /\ UNCHANGED <<call, produced>>
  /\ UNCHANGED <<data, status, opened, held, pos, out>>

\* The loop evaluates its condition; a hash join trusts the key.
TryRight ==
  /\ Asked(0) /\ plan.join # "none" /\ join.rest # <<>>
  /\ LET combined == join.current \o Head(join.rest)
         holds == IF plan.join = "hash" THEN Bool(TRUE)
                  ELSE Evaluate(plan.cond, combined, Schemas[0])
     IN  IF holds \notin Booleans THEN Fail
         ELSE /\ join' = [join EXCEPT !.rest = Tail(@)]
              /\ IF holds = Bool(TRUE) THEN Give(0, combined) ELSE UNCHANGED <<call, produced>>
              /\ UNCHANGED <<data, status, opened, scanned, held, pos, out>>

-----------------------------------------------------------------------------
(* next() of the nodes above *)

\* A blocking node answers from what it holds, a limit that is used up answers
\* by itself, and the others ask their child.
AnswerHeld(i) ==
  /\ Asked(i) /\ Blocking(i)
  /\ IF pos[i] >= Len(held[i]) THEN GiveEnd(i) /\ UNCHANGED pos
     ELSE Give(i, held[i][pos[i] + 1]) /\ pos' = [pos EXCEPT ![i] = @ + 1]
  /\ UNCHANGED <<data, status, opened, scanned, join, held, out>>

\* Mutant of LimitReached: one row more is fetched.
LimitPassed(i) == Op(i).op = "limit" /\ pos[i] > Op(i).count

LimitReached(i) == Op(i).op = "limit" /\ pos[i] >= Op(i).count

AskChild(i) ==
  /\ Asked(i) /\ ~Blocking(i)
  /\ IF LimitReached(i) THEN GiveEnd(i) ELSE Ask(i - 1)
  /\ UNCHANGED <<data, status, opened, fields, out>>

Streaming(i, op) == Answered(i) /\ opened > i /\ call.dir = "row" /\ Op(i).op = op

FilterRow(i) ==
  /\ Streaming(i, "filter")
  /\ LET v == ValueAt(i, Op(i).pred, call.row)
     IN  IF v \notin Booleans THEN Fail
         ELSE /\ IF v = Bool(TRUE) THEN Give(i, call.row) ELSE Ask(i - 1)
              /\ UNCHANGED <<data, status, opened, fields, out>>

ProjectRow(i) ==
  /\ Streaming(i, "project")
  /\ LET row == [j \in DOMAIN Op(i).exprs |-> ValueAt(i, Op(i).exprs[j], call.row)]
     IN  IF Throw \in ToSet(row) THEN Fail
         ELSE Give(i, row) /\ UNCHANGED <<data, status, opened, fields, out>>

LimitRow(i) ==
  /\ Streaming(i, "limit")
  /\ pos' = [pos EXCEPT ![i] = @ + 1]
  /\ Give(i, call.row)
  /\ UNCHANGED <<data, status, opened, scanned, join, held, out>>

PassEnd(i) ==
  /\ Answered(i) /\ opened > i /\ call.dir = "end"
  /\ GiveEnd(i)
  /\ UNCHANGED <<data, status, opened, fields, out>>

-----------------------------------------------------------------------------
(* run_to_completion *)

Run ==
  /\ Opening(Root + 1)
  /\ status' = "run"
  /\ Ask(Root)
  /\ UNCHANGED <<data, opened, fields, out>>

TakeRow ==
  /\ status = "run" /\ call.dir = "row" /\ call.node = Root
  /\ out' = Append(out, call.row)
  /\ Ask(Root)
  /\ UNCHANGED <<data, status, opened, fields>>

Close ==
  /\ status = "run" /\ call.dir = "end" /\ call.node = Root
  /\ status' = "done"
  /\ UNCHANGED <<data, opened, fields, call, produced, out>>

Next ==
  \/ BuildExecutor \/ OpenSource
  \/ ScanFails \/ ScanNext \/ AdvanceLeft \/ TryRight
  \/ \E i \in 1..Root :
       \/ OpenStreaming(i) \/ OpenBlocking(i) \/ Collect(i) \/ Opened(i)
       \/ AnswerHeld(i) \/ AskChild(i)
       \/ FilterRow(i) \/ ProjectRow(i) \/ LimitRow(i) \/ PassEnd(i)
  \/ Run \/ TakeRow \/ Close

Spec == Init /\ [][Next]_vars /\ WF_vars(Next)

-----------------------------------------------------------------------------
(* What a plan means *)

\* The groups of a sequence of rows, by the position of their first row, and the
\* rows of the x-th row's group that aggregate j takes.
SameGroup(i, rows, x, y) == KeyString(GroupKey(i, rows[x])) = KeyString(GroupKey(i, rows[y]))
Firsts(i, rows) == {x \in DOMAIN rows : \A y \in 1..(x - 1) : ~SameGroup(i, rows, x, y)}
Argument(i, rows, j, y) == Arguments(i, rows[y])[j]
Members(i, rows, j, x) ==
  {y \in DOMAIN rows : /\ SameGroup(i, rows, x, y)
                       /\ Op(i).aggs[j].arg.kind = "star" \/ ~IsNull(Argument(i, rows, j, y))}

SumOver(i, rows, j, S) == MapThenSumSet(LAMBDA y : Argument(i, rows, j, y)[2], S)

\* That group's value of the aggregate.
GroupValue(i, rows, j, x) ==
  LET of == Members(i, rows, j, x)
      vals == {Argument(i, rows, j, y) : y \in of}
      sum == SumOver(i, rows, j, of)
  IN  CASE Op(i).aggs[j].func = "COUNT" -> <<"int", Cardinality(of)>>
        [] Op(i).aggs[j].func = "SUM" -> <<"float", sum>>
        [] Op(i).aggs[j].func = "AVG" ->
             IF of = {} THEN <<"float", 0, 1>> ELSE <<"float", sum, Cardinality(of)>>
        [] Op(i).aggs[j].func = "MIN" ->
             IF of = {} THEN Null ELSE CHOOSE v \in vals : \A u \in vals : ~LiteralLess(u, v)
        [] Op(i).aggs[j].func = "MAX" ->
             IF of = {} THEN Null ELSE CHOOSE v \in vals : \A u \in vals : ~LiteralLess(v, u)

Aggregation(i, rows) ==
  IF Op(i).by = <<>> /\ rows = <<>> THEN Results(i, <<>>)
  ELSE [g \in 1..Cardinality(Firsts(i, rows)) |->
          LET x == Nth(Firsts(i, rows), g)
          IN  GroupKey(i, rows[x]) \o [j \in DOMAIN Op(i).aggs |-> GroupValue(i, rows, j, x)]]

\* A row has the key that a table is probed for, and all of its conditions hold.
Qualifies(name, row) ==
  /\ plan.access[name].probe # <<>> => LiteralEqual(row[1], plan.access[name].probe[1])
  /\ \A p \in ToSet(plan.access[name].preds) :
       Evaluate(p, row, TableSchema(name)) = Bool(TRUE)

\* The rows of the left input, by their positions, and those of the right.
Probed == {x \in DOMAIN left : Qualifies("l", left[x])}
Rights == RowsAt(right, {y \in DOMAIN right : Qualifies("r", right[y])})

\* The pairs of positions of a row of it and one of the right that join.
Matches(rows) ==
  {p \in Probed \X DOMAIN rows :
     Evaluate(plan.cond, left[p[1]] \o rows[p[2]], Schemas[0]) = Bool(TRUE)}

\* Of a set of pairs those up to the y-th row of the right with the x-th of the
\* left, and the rows that the pairs stand for, in that order.
PairsUpTo(P, x, y) == {p \in P : p[1] < x \/ (p[1] = x /\ p[2] <= y)}
NthPair(P, k) == CHOOSE p \in P : Cardinality(PairsUpTo(P, p[1], p[2])) = k
PairRows(rows, P) ==
  [k \in 1..Cardinality(P) |-> left[NthPair(P, k)[1]] \o rows[NthPair(P, k)[2]]]

\* The rows of the left input, joined with those of the right in a join.
Joined(rows) ==
  IF plan.join = "none" THEN RowsAt(left, Probed) ELSE PairRows(rows, Matches(rows))

\* The rows in order of the sort keys, or in any order if one of them is NULL.
Ordered(i, rows) ==
  LET items == DOMAIN Op(i).items
      key(x, j) == ValueAt(i, Op(i).items[j].expr, rows[x])
      before(x, y) == \E j \in items :
        /\ \A k \in 1..(j - 1) : LiteralEqual(key(x, k), key(y, k))
        /\ IF Op(i).items[j].asc THEN LiteralLess(key(x, j), key(y, j))
                                 ELSE LiteralLess(key(y, j), key(x, j))
      nulls == \E x \in DOMAIN rows, j \in items : IsNull(key(x, j))
  IN  UNION {Rearranged(rows, less) :
               less \in {IF nulls THEN {} ELSE PairsWith(rows, before)}}

\* What node i may make of its input.
Kept(i, rows) == {x \in DOMAIN rows : ValueAt(i, Op(i).pred, rows[x]) = Bool(TRUE)}
Projected(i, row) == [j \in DOMAIN Op(i).exprs |-> ValueAt(i, Op(i).exprs[j], row)]
Apply(i, rows) ==
  CASE Op(i).op = "filter"    -> {RowsAt(rows, Kept(i, rows))}
    [] Op(i).op = "project"   -> {[x \in DOMAIN rows |-> Projected(i, rows[x])]}
    [] Op(i).op = "limit"     -> {SubSeq(rows, 1, Min({Op(i).count, Len(rows)}))}
    [] Op(i).op = "aggregate" -> {Aggregation(i, rows)}
    [] Op(i).op = "sort"      -> Ordered(i, rows)

\* The sequences of rows that each node may stand for.
Meanings ==
  LET m[i \in 0..Root] ==
        IF i = 0 THEN {Joined(rs) : rs \in IF plan.join = "hash" THEN Rearranged(Rights, {}) ELSE {Rights}}
        ELSE UNION {Apply(i, rows) : rows \in m[i - 1]}
  IN  m

-----------------------------------------------------------------------------
\* The phases, and the positions and counters of the operators in their ranges:
\* no scan advances past its table, every node has its fields.
TypeOK ==
  /\ status \in {"build", "open", "run", "done", "error"}
  /\ opened \in 0..(Root + 1)
  /\ scanned \in 0..Len(left)
  /\ DOMAIN held = 1..Root /\ DOMAIN pos = 1..Root /\ DOMAIN produced = 0..Root
  /\ call.dir \in {"none", "ask", "row", "end"} /\ call.node \in 0..Root

\* A key that is NULL on both sides of a hash join, which only the hash join
\* takes to be equal.
NullMeetsNull ==
  /\ plan.join = "hash"
  /\ \E x \in Probed, r \in ToSet(Rights) :
       /\ HashKeys # <<>>
       /\ IsNull(Evaluate(HashKeys[1], left[x], TableSchema("l")))
       /\ IsNull(Evaluate(HashKeys[2], r, TableSchema("r")))

Answers == status = "done" => out \in Meanings[Root]

\* README.md: index scans and index joins "execute as their non-indexed
\* equivalents -- correct output".  Whichever operators were chosen, what next()
\* has returned when an inner query is done is an answer to it, unless NULL keys
\* met in a hash join.
RowsAsPlanned == status = "done" /\ plan.type = "inner" /\ ~NullMeetsNull => Answers

NoLimitAbove(i) == \A j \in (i + 1)..Root : Op(j).op # "limit"

\* A LIMIT never fetches a row that it does not return.
LimitStops == \A i \in 1..Root : Op(i).op = "limit" => produced[i - 1] <= Op(i).count

\* From node to node the counters add up: a scan and a loop join return no more
\* rows than their tables give, no other node more than it was given (an
\* aggregate may return one row for none), and when the query is done a
\* projection, a limit and a sort that no limit cut short have returned every
\* row that they took, and the result has the root's rows.
CountsAddUp ==
  /\ \A i \in 1..Root :
       /\ produced[i] <= produced[i - 1] \/ (Op(i).op = "aggregate" /\ produced[i] <= 1)
       /\ status = "done" /\ (Op(i).op \in {"project", "limit"} \/ (Op(i).op = "sort" /\ NoLimitAbove(i)))
            => produced[i] = produced[i - 1]
  /\ plan.join = "none" => produced[0] <= Len(left)
  /\ plan.join = "loop" => produced[0] <= Len(left) * Len(right)
  /\ status = "done" => Len(out) = produced[Root]

\* EXPLAIN ANALYZE prints rows_produced as a node's actual rows: they add up, and
\* are the size of the node's result unless a LIMIT above it stopped asking.
ActualRows ==
  /\ LimitStops /\ CountsAddUp
  /\ status = "done" /\ ~NullMeetsNull =>
       \A i \in 0..Root : NoLimitAbove(i) => \E m \in Meanings[i] : produced[i] = Len(m)

\* run_to_completion ends, with the rows or an exception.
QueryEnds == <>(status \in {"done", "error"})

\* A LEFT JOIN keeps the left rows that match nothing.
OuterRowsKept ==
  status = "done" /\ plan.type = "left" /\ plan.ops = <<>>
    => \A l \in ToSet(left) : \E x \in DOMAIN out : SubSeq(out[x], 1, Len(l)) = l

\* An equality is the same condition in a hash join and in a loop.
HashJoinsAgree == plan.type = "inner" => Answers

\* std::sort is given what it requires: a strict weak order of the rows.
ComparatorLawful ==
  \A i \in 1..Root : Op(i).op = "sort" =>
    StrictWeakOrder(PairsWith(held[i], LAMBDA x, y : SortsBefore(i, held[i][x], held[i][y])),
                    DOMAIN held[i])

\* generate_best_candidate: a condition that the search takes for an equality
\* can be run as a hash join.
HashJoinsRun == plan.join = "hash" => status # "error"
=============================================================================
