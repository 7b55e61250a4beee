----------------------------- MODULE PlanCodec ------------------------------
(***************************************************************************)
(* The structures that travel as JSON and their codecs: expressions        *)
(* (parser/ast.hpp) and physical plans (physical/physical_plan.hpp), the   *)
(* codec of the plan cache (integration/plan_serializer.cpp), and the rows *)
(* and requests of the worker protocol (distributed/row_json.cpp,          *)
(* worker_service.cpp, Coordinator's call_worker_execute).                 *)
(*                                                                         *)
(* The serializer has one function per structure and direction, each a     *)
(* list of fields in a fixed order; a table of fields per structure stands *)
(* for both.  An optional or a child pointer is a sequence of at most one  *)
(* element.  A double is a number of hundredths.                           *)
(***************************************************************************)
EXTENDS JsonText, FiniteSets

---------------------------------------------------------------------------
(* The structures: how a field is written and read.                        *)

Enum(names)    == <<"enum", names>>
Str            == <<"str">>
OptStr         == <<"opt_str">>
Double         == <<"double">>
Whole          == <<"int">>        \* int64_t and size_t, through a double
Boolean        == <<"bool">>
Struct(name)   == <<"struct", name>>
Child(name)    == <<"child", name>>
ListOf(type)   == <<"list", type>>

ExprKinds    == {"Column", "Literal", "BinaryOp", "UnaryOp", "Function", "Wildcard"}
LiteralKinds == {"Integer", "Float", "Str", "Boolean", "Null"}
BinaryOps    == {"Eq", "Neq", "Lt", "Gt", "Lte", "Gte", "And", "Or", "Add", "Sub", "Mul", "Div"}
UnaryOps     == {"Not", "Neg"}
JoinTypes    == {"Inner", "Left", "Right", "Cross"}
PlanKinds    == {"SeqScan", "IndexScan", "Filter", "NestedLoopJoin", "HashJoin",
                 "IndexNestedLoopJoin", "HashAggregate", "Project", "Sort", "Limit",
                 "ExternalRows"}

LiteralFields ==
    << <<"kind", Enum(LiteralKinds)>>, <<"int_val", Whole>>, <<"float_val", Double>>,
       <<"str_val", Str>>, <<"bool_val", Boolean>> >>

ExprFields ==
    << <<"kind", Enum(ExprKinds)>>, <<"table", OptStr>>, <<"column", Str>>,
       <<"literal", Struct("Literal")>>, <<"left", Child("Expr")>>,
       <<"binary_op", Enum(BinaryOps)>>, <<"right", Child("Expr")>>,
       <<"unary_op", Enum(UnaryOps)>>, <<"operand", Child("Expr")>>,
       <<"func_name", Str>>, <<"args", ListOf(Struct("Expr"))>> >>

AggregateFields == << <<"func", Str>>, <<"arg", Struct("Expr")>>, <<"alias", OptStr>> >>
OrderByFields   == << <<"expression", Struct("Expr")>>, <<"ascending", Boolean>> >>
OutputFields    == << <<"expr", Struct("Expr")>>, <<"alias", OptStr>> >>
CostFields      == << <<"cpu", Double>>, <<"io", Double>>, <<"memory", Double>> >>

PlanFields ==
    << <<"kind", Enum(PlanKinds)>>, <<"estimated_cost", Struct("Cost")>>,
       <<"estimated_rows", Whole>>, <<"cardinality_reasoning", Str>>,
       <<"cardinality_confidence", Double>>, <<"table_name", Str>>, <<"alias", OptStr>>,
       <<"projected_columns", ListOf(Str)>>, <<"index_column", Str>>,
       <<"index_probe_value", Struct("Expr")>>, <<"predicate", Struct("Expr")>>,
       <<"input", Child("Plan")>>, <<"join_type", Enum(JoinTypes)>>,
       <<"condition", Struct("Expr")>>, <<"left", Child("Plan")>>, <<"right", Child("Plan")>>,
       <<"group_by", ListOf(Struct("Expr"))>>, <<"aggregates", ListOf(Struct("Aggregate"))>>,
       <<"expressions", ListOf(Struct("Output"))>>, <<"order_by", ListOf(Struct("OrderBy"))>>,
       <<"count", Whole>> >>

\* The member initializers of the structures.  OrderByItem::ascending has
\* none, and is never left unset: the writer always writes it.
NewLiteral == [kind |-> "Null", int_val |-> 0, float_val |-> 0, str_val |-> <<>>, bool_val |-> FALSE]
NewExpr ==
    [kind |-> "Wildcard", table |-> <<>>, column |-> <<>>, literal |-> NewLiteral, left |-> <<>>,
     binary_op |-> "Eq", right |-> <<>>, unary_op |-> "Not", operand |-> <<>>,
     func_name |-> <<>>, args |-> <<>>]
NewCost == [cpu |-> 0, io |-> 0, memory |-> 0]
NewPlan ==
    [kind |-> "SeqScan", estimated_cost |-> NewCost, estimated_rows |-> 0,
     cardinality_reasoning |-> <<>>, cardinality_confidence |-> 100, table_name |-> <<>>,
     alias |-> <<>>, projected_columns |-> <<>>, index_column |-> <<>>,
     index_probe_value |-> NewExpr, predicate |-> NewExpr, input |-> <<>>,
     join_type |-> "Inner", condition |-> NewExpr, left |-> <<>>, right |-> <<>>,
     group_by |-> <<>>, aggregates |-> <<>>, expressions |-> <<>>, order_by |-> <<>>, count |-> 0]

FieldsOf(name) ==
    CASE name = "Literal"   -> LiteralFields
      [] name = "Expr"      -> ExprFields
      [] name = "Aggregate" -> AggregateFields
      [] name = "OrderBy"   -> OrderByFields
      [] name = "Output"    -> OutputFields
      [] name = "Cost"      -> CostFields
      [] name = "Plan"      -> PlanFields

New(name) ==
    CASE name = "Literal"   -> NewLiteral
      [] name = "Expr"      -> NewExpr
      [] name = "Aggregate" -> [func |-> <<>>, arg |-> NewExpr, alias |-> <<>>]
      [] name = "OrderBy"   -> [expression |-> NewExpr, ascending |-> FALSE]
      [] name = "Output"    -> [expr |-> NewExpr, alias |-> <<>>]
      [] name = "Cost"      -> NewCost
      [] name = "Plan"      -> NewPlan

---------------------------------------------------------------------------
(* The constructors of ast.hpp and physical_plan.hpp.                      *)

make_column(table, column)   == [NewExpr EXCEPT !.kind = "Column", !.table = table, !.column = column]
make_literal(l)              == [NewExpr EXCEPT !.kind = "Literal", !.literal = l]
make_binary_op(l, op, r)     == [NewExpr EXCEPT !.kind = "BinaryOp", !.left = <<l>>,
                                                !.binary_op = op, !.right = <<r>>]
make_unary_op(op, e)         == [NewExpr EXCEPT !.kind = "UnaryOp", !.unary_op = op, !.operand = <<e>>]
make_function(name, args)    == [NewExpr EXCEPT !.kind = "Function", !.func_name = name, !.args = args]

LitInteger(n) == [NewLiteral EXCEPT !.kind = "Integer", !.int_val = n]
LitFloat(f)   == [NewLiteral EXCEPT !.kind = "Float", !.float_val = f]
LitStr(s)     == [NewLiteral EXCEPT !.kind = "Str", !.str_val = s]
LitBoolean(b) == [NewLiteral EXCEPT !.kind = "Boolean", !.bool_val = b]

make_scan(kind, table, alias, cols, cost, rows) ==
    [NewPlan EXCEPT !.kind = kind, !.table_name = table, !.alias = alias,
       !.projected_columns = cols, !.estimated_cost = cost, !.estimated_rows = rows]
make_unary(kind, input, cost, rows) ==
    [NewPlan EXCEPT !.kind = kind, !.input = <<input>>, !.estimated_cost = cost, !.estimated_rows = rows]
make_join(kind, type, condition, left, right, cost, rows) ==
    [NewPlan EXCEPT !.kind = kind, !.join_type = type, !.condition = condition,
       !.left = <<left>>, !.right = <<right>>, !.estimated_cost = cost, !.estimated_rows = rows]

---------------------------------------------------------------------------
(* Writing.  *_to_json of plan_serializer.cpp: every field of the table,   *)
(* in its order.                                                           *)

RECURSIVE Write(_, _)
Write(type, v) ==
    CASE type[1] = "enum"    -> make_string(<<v>>)
      [] type[1] = "str"     -> make_string(v)
      [] type[1] = "opt_str" -> IF v = <<>> THEN make_null ELSE make_string(v[1])
      [] type[1] = "double"  -> make_number(v)
      [] type[1] = "int"     -> make_number(ToDouble(v))
      [] type[1] = "bool"    -> make_bool(v)
      [] type[1] = "list"    -> make_array([i \in DOMAIN v |-> Write(type[2], v[i])])
      [] type[1] = "child"   -> IF v = <<>> THEN make_null ELSE Write(Struct(type[2]), v[1])
      [] type[1] = "struct"  ->
           LET fields == FieldsOf(type[2])
           IN  make_object([i \in DOMAIN fields |->
                 << <<fields[i][1]>>, Write(fields[i][2], v[fields[i][1]]) >>])

---------------------------------------------------------------------------
(* Reading.  *_from_json: a field that is there is read by its type, one   *)
(* that is not keeps its initial value.  Only an unknown enum name throws. *)

RECURSIVE Readable(_, _)
Readable(type, j) ==
    CASE type[1] = "enum"   -> \E name \in type[2] : as_string(j, <<>>) = <<name>>
      [] type[1] = "struct" ->
           LET fields == FieldsOf(type[2])
           IN  \A i \in DOMAIN fields :
                 LET at == Find(j, <<fields[i][1]>>)
                 IN  at # <<>> => Readable(fields[i][2], at[1])
      [] type[1] = "child"  -> KindOf(j) = "Object" => Readable(Struct(type[2]), j)
      [] type[1] = "list"   -> KindOf(j) = "Array" =>
                                 \A i \in DOMAIN j[2] : Readable(type[2], j[2][i])
      [] OTHER -> TRUE

\* A field of this type read from j, when it held old.
RECURSIVE Read(_, _, _)
Read(type, j, old) ==
    CASE type[1] = "enum"    -> as_string(j, <<>>)[1]
      [] type[1] = "str"     -> as_string(j, <<>>)
      [] type[1] = "opt_str" -> IF KindOf(j) = "String" THEN <<j[2]>> ELSE old
      [] type[1] \in {"double", "int"} -> as_number(j, 0)
      [] type[1] = "bool"    -> as_bool(j, FALSE)
      [] type[1] = "list"    ->
           IF KindOf(j) # "Array" THEN old
           ELSE AtOnce([i \in DOMAIN j[2] |-> Read(type[2], j[2][i], <<>>)])
      [] type[1] = "child"   -> IF KindOf(j) = "Object" THEN <<Read(Struct(type[2]), j, old)>> ELSE old
      [] type[1] = "struct"  ->
           LET fields == FieldsOf(type[2])
               new    == New(type[2])
           IN  [f \in {fields[i][1] : i \in DOMAIN fields} |->
                  LET type_of == (CHOOSE i \in DOMAIN fields : fields[i][1] = f)
                      at      == Find(j, <<f>>)
                  IN  IF at = <<>> THEN new[f] ELSE Read(fields[type_of][2], at[1], new[f])]

serialize_plan(plan) == to_json(Write(Struct("Plan"), plan))

\* plan_from_json, or a throw: the plans read, at most one.
PlanFromJson(j) ==
    IF Readable(Struct("Plan"), j) THEN <<Read(Struct("Plan"), j, NewPlan)>> ELSE <<>>

deserialize_plan(text) ==
    LET r == parse_json(text) IN IF r.ok THEN PlanFromJson(r.val) ELSE <<>>

---------------------------------------------------------------------------
(* The worker protocol.  A value of a row is written with a letter for its *)
(* kind and, unless it is NULL, its value.                                 *)

RowCode == [Integer |-> "i", Float |-> "f", Str |-> "s", Boolean |-> "b", Null |-> "n"]

row_literal_to_json(v) ==
    LET held == CASE v.kind = "Integer" -> <<make_number(ToDouble(v.int_val))>>
                  [] v.kind = "Float"   -> <<make_number(v.float_val)>>
                  [] v.kind = "Str"     -> <<make_string(v.str_val)>>
                  [] v.kind = "Boolean" -> <<make_bool(v.bool_val)>>
                  [] v.kind = "Null"    -> <<>>
    IN  make_object(<< << <<"k">>, make_string(<<RowCode[v.kind]>>) >> >>
                      \o (IF held = <<>> THEN <<>> ELSE << << <<"v">>, held[1] >> >>))

row_literal_from_json(j) ==
    LET k    == Find(j, <<"k">>)
        at   == Find(j, <<"v">>)
        v    == IF at = <<>> THEN make_null ELSE at[1]
        kind == IF k = <<>> THEN <<"n">> ELSE as_string(k[1], <<>>)
    IN  CASE kind = <<"i">> -> LitInteger(as_number(v, 0))
          [] kind = <<"f">> -> LitFloat(as_number(v, 0))
          [] kind = <<"s">> -> LitStr(as_string(v, <<>>))
          [] kind = <<"b">> -> LitBoolean(as_bool(v, FALSE))
          [] OTHER          -> NewLiteral

rows_to_json(rows) ==
    make_array([i \in DOMAIN rows |->
      make_array([c \in DOMAIN rows[i] |-> row_literal_to_json(rows[i][c])])])

rows_from_json(j) ==
    IF KindOf(j) # "Array" THEN <<>>
    ELSE [i \in DOMAIN j[2] |->
           IF KindOf(j[2][i]) # "Array" THEN <<>>
           ELSE [c \in DOMAIN j[2][i][2] |-> row_literal_from_json(j[2][i][2][c])]]

\* The request of call_worker_execute: the plan, and the row sets by their
\* slots (a sequence of <<slot, rows>>) when there are any.  A slot is named
\* by its decimal digits on both sides (to_string, stoul).
RequestText(plan, slots) ==
    LET ext == make_object([i \in DOMAIN slots |->
                 << <<slots[i][1]>>, make_object(<< << <<"rows">>, rows_to_json(slots[i][2]) >> >>) >>])
    IN  to_json(make_object(
          << << <<"plan">>, parse_json(serialize_plan(plan)).val >> >>
            \o (IF slots = <<>> THEN <<>> ELSE << << <<"external_rows">>, ext >> >>)))

\* The rows of a slot of a request, or of an answer.
RowsOf(j) == LET at == Find(j, <<"rows">>) IN IF at = <<>> THEN <<>> ELSE rows_from_json(at[1])

\* What the worker reads from a request: a plan and row sets, or a throw.
WorkerReads(text) ==
    LET body   == parse_json(text)
        plan   == IF body.ok THEN Find(body.val, <<"plan">>) ELSE <<>>
        read   == IF plan = <<>> THEN <<>> ELSE deserialize_plan(to_json(plan[1]))
        ext    == Find(body.val, <<"external_rows">>)
    IN  IF read = <<>> THEN <<>>
        ELSE << [plan  |-> read[1],
                 slots |-> IF ext = <<>> \/ KindOf(ext[1]) # "Object" THEN <<>>
                           ELSE [i \in DOMAIN ext[1][2] |->
                                  << ext[1][2][i][1][1], RowsOf(ext[1][2][i][2]) >>]] >>

\* The worker's answer and what the coordinator reads from it, or a throw.
ResponseText(columns, rows) ==
    to_json(make_object(
      << << <<"columns">>, make_array([i \in DOMAIN columns |-> make_string(columns[i])]) >>,
         << <<"rows">>, rows_to_json(rows) >> >>))

ResponseRead(text) ==
    LET body == parse_json(text)
        cols == Find(body.val, <<"columns">>)
    IN  IF ~body.ok THEN <<>> ELSE
        << [columns |-> IF cols = <<>> \/ KindOf(cols[1]) # "Array" THEN <<>>
                        ELSE [i \in DOMAIN cols[1][2] |-> as_string(cols[1][2][i], <<>>)],
            rows    |-> RowsOf(body.val)] >>
=============================================================================
