---------------------------- MODULE MCExecution -----------------------------
(***************************************************************************)
(* Instances of Execution for TLC: tables l(key, val) and r(key, val).     *)
(***************************************************************************)
EXTENDS Execution

MCColumns == <<"key", "val">>

Int1 == <<"int", 1>>
Int2 == <<"int", 2>>

Tables(rows, n) == UNION {[1..k -> rows] : k \in 0..n}
LeftRows == {<<Int1, Int2>>, <<Int2, Int1>>, <<Int1, Null>>, <<Null, Int1>>}
MCLefts  == Tables(LeftRows, 2)
MCRights == Tables({<<Int1, Int1>>, <<Int2, Int2>>, <<Null, Int2>>}, 2)

Col(t, c) == [kind |-> "column", table |-> t, column |-> c]
Lit(v) == [kind |-> "literal", value |-> v]
Fun(f, e) == [kind |-> "function", func |-> f, arg |-> e]
Not(e) == [kind |-> "not", operand |-> e]
Bin(op, l, r) == [kind |-> "binary", op |-> op, left |-> l, right |-> r]
Star == [kind |-> "star"]

Where(p) == [op |-> "filter", pred |-> p]
Select(es) == [op |-> "project", exprs |-> es]
Limit(n) == [op |-> "limit", count |-> n]
OrderBy(items) == [op |-> "sort", items |-> items]
Asc(e) == [expr |-> e, asc |-> TRUE]
Desc(e) == [expr |-> e, asc |-> FALSE]
GroupBy(es, aggs) == [op |-> "aggregate", by |-> es, aggs |-> aggs]
Agg(f, e) == [func |-> f, arg |-> e, alias |-> f]

Path(probe, preds) == [probe |-> probe, preds |-> preds]
Joining(alg, type, cond, l, r, ops) ==
  [join |-> alg, type |-> type, cond |-> cond, access |-> [l |-> l, r |-> r], ops |-> ops]
Of(alg, type, cond, probe, ops) ==
  Joining(alg, type, cond, Path(probe, <<>>), Path(<<>>, <<>>), ops)
LKey == Col("l", "key")
LVal == Col("l", "val")
RKey == Col("r", "key")
RVal == Col("r", "val")
SameKey == Bin("=", LKey, RKey)
OneTable(ops) == Of("none", "inner", SameKey, <<>>, ops)

\* Statements over one table ...
MCSingle ==
  {OneTable(<<GroupBy(<<LKey>>, <<Agg("COUNT", Star), Agg("SUM", LVal), Agg("MIN", LVal)>>),
              Where(Bin("<", Lit(Int1), Fun("COUNT", Star))), OrderBy(<<Asc(LKey)>>), Limit(1)>>),
   OneTable(<<GroupBy(<<>>, <<Agg("COUNT", LVal), Agg("AVG", LVal), Agg("MAX", LVal)>>)>>),
   OneTable(<<GroupBy(<<LKey>>, <<Agg("SUM", Star)>>)>>),
   OneTable(<<OrderBy(<<Asc(Col("", "val")), Desc(LKey)>>), Limit(2), Select(<<LVal>>)>>),
   OneTable(<<Where(Bin("OR", Not(Bin("<=", LVal, Lit(Int1))), Bin("=", LKey, Lit(Int1)))), Limit(0)>>),
   OneTable(<<Select(<<Bin("+", LVal, Lit(Int1))>>)>>),
   OneTable(<<OrderBy(<<Asc(LKey), Asc(Col("", "none"))>>)>>),
   Of("none", "inner", SameKey, <<Int1>>, <<Limit(1)>>),
   Of("none", "inner", SameKey, <<Null>>, <<>>)}

\* ... and over two.  An unqualified key is ambiguous.
MCJoins ==
  {Of("loop", "inner", SameKey, <<>>, <<Where(Bin("<=", LVal, Col("r", "val"))), Select(<<LVal, RKey>>)>>),
   Of("loop", "inner", Bin("<", LKey, RKey), <<>>, <<Limit(2)>>),
   Of("loop", "inner", Bin("=", Col("", "key"), Lit(Int1)), <<>>, <<>>),
   Of("hash", "inner", SameKey, <<>>, <<OrderBy(<<Desc(Col("r", "val"))>>), Limit(1)>>),
   Of("hash", "inner", Bin("=", RKey, LKey), <<Int1>>, <<GroupBy(<<RKey>>, <<Agg("COUNT", Star)>>)>>),
   Joining("loop", "inner", SameKey, Path(<<>>, <<Bin("=", Bin("+", LVal, Lit(Int1)), Lit(Int2))>>),
           Path(<<Int1>>, <<>>), <<Limit(1)>>),
   Joining("loop", "inner", SameKey, Path(<<Int1>>, <<>>), Path(<<Int2>>, <<Bin("+", RVal, Lit(Int1))>>), <<>>),
   Joining("hash", "inner", SameKey, Path(<<>>, <<Bin("=", LVal, Lit(Int1))>>),
           Path(<<Int2>>, <<Bin("<=", RVal, Lit(Int2)), Not(Bin("<", RVal, Lit(Int2)))>>), <<>>)}

\* One plan for each of the divergences.
MCOuter    == {Of("loop", "left", SameKey, <<>>, <<>>)}
MCNulls    == {Of("hash", "inner", SameKey, <<>>, <<>>)}
MCOrder    == {OneTable(<<OrderBy(<<Desc(LKey)>>)>>)}
MCComputed == {Of("hash", "inner", Bin("=", Bin("+", LKey, Lit(Int1)), RKey), <<>>, <<>>)}

\* The expressions of these plans, three operators deep at most.
Atoms ==
  [kind : {"column"}, table : {"", "l", "r"}, column : {"key", "val", "none"}]
    \cup [kind : {"literal"}, value : {Int1, Int2, Null}] \cup {Fun("COUNT", Star)}
Compound(S) ==
  S \cup [kind : {"not"}, operand : S]
    \cup [kind : {"binary"}, op : {"=", "<", "<=", "OR", "+"}, left : S, right : S]
MCExpressions == Compound(Compound(Compound(Atoms)))

Over(plans, lefts, rights) == [plan : plans, left : lefts, right : rights]
MCInputs == Over(MCSingle, Tables(LeftRows, 3), {<<>>}) \cup Over(MCJoins \cup MCComputed, MCLefts, MCRights)
MCOuterInputs    == Over(MCOuter, MCLefts, MCRights)
MCNullInputs     == Over(MCNulls, MCLefts, MCRights)
MCOrderInputs    == Over(MCOrder, MCLefts, {<<>>})
MCComputedInputs == Over(MCComputed, MCLefts, MCRights)
=============================================================================
