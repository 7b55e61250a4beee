---------------------------- MODULE MCQueryText -----------------------------
(***************************************************************************)
(* Query texts, plans and rows for QueryText.                              *)
(***************************************************************************)
EXTENDS QueryText

Id(name) == <<"Identifier", <<name>> >>
K(kind)  == <<kind>>
Num(n)   == <<"Integer", n>>
Star     == K("Star")
a        == Id("a")
b        == Id("b")
t        == Id("t")
u        == Id("u")

From(columns)    == <<K("Select")>> \o columns \o <<K("From"), t>>
Where(condition) == From(<<Star>>) \o <<K("Where")>> \o condition

---------------------------------------------------------------------------
(* Conditions: two operators in every order, with every grouping and with  *)
(* NOT or - before the operands.  Each is a sequence of texts, numbered by  *)
(* the choices as digits.                                                   *)

FewOps == <<K("Or"), K("And"), K("Eq"), K("Minus"), K("Star")>>
None   == << <<>> >>
Signs  == << <<>>, <<K("Not")>>, <<K("Minus")>> >>
LP == <<K("LParen")>>
RP == <<K("RParen")>>

\* The choice of the n-th element, and what is left for the other choices.
Pick(seq, n) == seq[(n % Len(seq)) + 1]
Rest(seq, n) == n \div Len(seq)

\* All of F(o1, o2, s1, s2, s3).
All(ops, signs, F(_, _, _, _, _)) ==
    [i \in 1 .. Len(ops)^2 * Len(signs)^3 |->
       LET n == i - 1
           m == n \div Len(ops)^2
       IN  F(Pick(ops, n), Pick(ops, Rest(ops, n)),
             Pick(signs, m), Pick(signs, Rest(signs, m)), Pick(signs, Rest(signs, Rest(signs, m))))]

Flat3(o, p, x, y, z)      == Where(x \o <<a, o>> \o y \o <<Num(1), p>> \o z \o <<b>>)
LeftFirst(o, p, x, y, z)  == Where(x \o LP \o y \o <<a, o>> \o z \o <<Num(1)>> \o RP \o <<p, b>>)
RightFirst(o, p, x, y, z) == Where(x \o <<a, o>> \o y \o LP \o z \o <<Num(1), p, b>> \o RP)
Inner(o, p, x, y, z)      == Where(x \o LP \o y \o <<a>> \o RP \o <<o>> \o z \o <<Num(1), p, b>>)

---------------------------------------------------------------------------
(* Whole statements: every clause, its variants, and texts that are cut.   *)

Count  == <<Id("count"), K("LParen"), Star, K("RParen")>>
Sum(x) == <<Id("sum"), K("LParen")>> \o x \o <<K("RParen")>>
On     == <<K("On"), t, K("Dot"), a, K("Eq"), u, K("Dot"), a>>
JoinOf(words) == From(<<Star>>) \o words \o <<K("Join"), u>> \o On
Sorted(order) == <<K("Order"), K("By")>> \o order

Statements ==
    << From(<<Star>>), From(<<a>>), From(<<a, K("Comma"), b>>), From(<<a, b>>), From(<<a, K("As"), b>>),
      From(<<t, K("Dot"), Star>>), From(<<t, K("Dot"), a>>), From(Count), From(Sum(<<a>>)),
      From(Sum(<<>>)), From(Sum(<<a, K("Comma"), b>>)), From(Count \o <<K("As"), a>>),
      From(<<a>>) \o <<u>>, From(<<a>>) \o <<K("As"), u>>,
      From(<<<<"StringLit", <<"a">> >>>>), From(<<<<"StringLit", <<"\"", "\\", "\n", "\t">> >>>>),
      From(<<K("True"), K("Comma"), K("False"), K("Comma"), K("Null")>>),
      JoinOf(<<>>), JoinOf(<<K("Inner")>>), JoinOf(<<K("Left")>>), JoinOf(<<K("Right")>>),
      JoinOf(<<K("Cross")>>), JoinOf(<<>>) \o <<K("Join"), Id("v"), K("As"), b>> \o On,
      From(<<Star>>) \o <<K("Cross"), K("Join"), u>>, From(<<Star>>) \o <<K("Left"), u>> \o On,
      From(<<a>> \o <<K("Comma")>> \o Count) \o <<K("Group"), K("By"), a>>,
      From(<<a>> \o <<K("Comma")>> \o Count) \o <<K("Group"), K("By"), a, K("Comma"), b>>,
      From(<<a>>) \o <<K("Group"), K("By"), a, K("Having")>> \o Count \o <<K("Gt"), Num(1)>>,
      From(<<a>>) \o Sorted(<<a>>), From(<<a>>) \o Sorted(<<a, K("Asc")>>), From(<<a>>) \o Sorted(<<a, K("Desc")>>),
      From(<<a>>) \o Sorted(<<a, K("Desc"), K("Comma"), b>>),
      From(<<a>>) \o <<K("Limit"), Num(1)>>, From(<<a>>) \o <<K("Limit"), Num(0)>>,
      From(<<a>>) \o Sorted(<<a>>) \o <<K("Limit"), Num(2)>>,
      \* refused
      <<>>, <<K("Select")>>, From(<<>>), From(<<a, K("As"), Num(1)>>), From(<<a>>) \o <<K("As")>>,
      From(<<a>>) \o <<K("Group"), a>>, From(<<a>>) \o <<K("Order"), a>>, From(<<a>>) \o <<K("Limit"), a>>,
      From(<<a, K("Dot")>>), From(Sum(<<Star, a>>)), Where(LP \o <<a>>), Where(<<a, K("Neq")>>),
      Where(<<a, K("Neq"), b>>), Where(<<a, K("Gt"), b>>), Where(<<a, K("Gt"), <<"Float", 150>> >>),
      Where(<<a, K("Lte"), b>>), Where(<<a, K("Gte"), b>>) >>

\* A first query from Few, a second one from all of the texts.
Few     == Statements \o All(FewOps, None, Flat3) \o All(FewOps, None, LeftFirst)
             \o All(FewOps, None, RightFirst) \o All(<<K("Eq")>>, Signs, Inner)
More    == All(<<K("And"), K("Eq")>>, Signs, Flat3) \o All(<<K("Minus")>>, Signs, Flat3)
             \o All(<<K("Eq")>>, Signs, LeftFirst) \o All(<<K("Eq")>>, Signs, RightFirst)
             \o All(<<K("Lt"), K("Plus"), K("Slash")>>, None, Flat3)
MCTexts == Few \o More
MCAsks  == <<DOMAIN Few, DOMAIN MCTexts>>

\* Floats that print alike, for the text of the plan cache's key.
Above(tok)   == Where(<<a, K("Gt"), tok>>)
MCFloatTexts == << Above(<<"Float", 150>>), Above(<<"Float", 123>>), Above(<<"Float", 124>>) >>
MCFloatAsks == <<DOMAIN MCFloatTexts, DOMAIN MCFloatTexts>>

\* Characters and numbers that JSON text does not carry.
MCOddTexts == << From(<<<<"StringLit", <<"\r">> >>>>), From(<<<<"StringLit", <<"\f">> >>>>), From(<<Num(Mantissa + 1)>>) >>
MCOddAsks  == <<1 .. 3, 1 .. 3>>

---------------------------------------------------------------------------
(* An optimizer that puts every part of the statement into the plan, and   *)
(* uses every kind of node.                                                *)

Cost(n) == [cpu |-> n, io |-> n + 1, memory |-> n + 2]

ScanOf(ref, where) ==
    LET probe == /\ where # <<>> /\ where[1].kind = "BinaryOp" /\ where[1].binary_op = "Eq"
                 /\ where[1].left[1].kind = "Column" /\ where[1].right[1].kind = "Literal"
        scan  == make_scan(IF probe THEN "IndexScan" ELSE "SeqScan", ref.table_name, ref.alias,
                           << <<"a">>, <<"b">> >>, Cost(1), 3)
    IN  CASE probe        -> [scan EXCEPT !.index_column = where[1].left[1].column,
                                          !.index_probe_value = where[1].right[1]]
          [] where = <<>> -> scan
          [] OTHER        -> [make_unary("Filter", scan, Cost(2), 2) EXCEPT !.predicate = where[1],
                                !.cardinality_reasoning = <<"default">>, !.cardinality_confidence = 50]

JoinKind == [Inner |-> "HashJoin", Left |-> "NestedLoopJoin", Right |-> "NestedLoopJoin", Cross |-> "IndexNestedLoopJoin"]

RECURSIVE Joined(_, _)
Joined(left, joins) ==
    IF joins = <<>> THEN left
    ELSE LET j == Head(joins)
         IN  Joined(make_join(JoinKind[j.join_type], j.join_type, j.condition, left, ScanOf(j.table, <<>>),
                              Cost(4), 4), SubSeq(joins, 2, Len(joins)))

MCPlanOf(s) ==
    LET core    == Joined(ScanOf(s.from, s.where_clause), s.joins)
        grouped == IF s.group_by = <<>> THEN core
                   ELSE [make_unary("HashAggregate", core, Cost(5), 2) EXCEPT !.group_by = s.group_by,
                          !.aggregates = << [func |-> <<"count">>, arg |-> NewExpr, alias |-> <<>>] >>]
        kept    == IF s.having = <<>> THEN grouped
                   ELSE [make_unary("Filter", grouped, Cost(6), 1) EXCEPT !.predicate = s.having[1]]
        output  == [make_unary("Project", kept, Cost(7), 1) EXCEPT !.expressions =
                     [i \in DOMAIN s.columns |->
                        [expr  |-> CASE s.columns[i].kind = "Expression" -> s.columns[i].expr[1]
                                     [] s.columns[i].kind = "Wildcard" -> NewExpr
                                     [] OTHER -> make_column(<<s.columns[i].qualified_table>>, <<"*">>),
                         alias |-> s.columns[i].alias]]]
        sorted  == IF s.order_by = <<>> THEN output
                   ELSE [make_unary("Sort", output, Cost(8), 1) EXCEPT !.order_by = s.order_by]
    IN  IF s.limit = <<>> THEN sorted
        ELSE [make_unary("Limit", sorted, Cost(9), 1) EXCEPT !.count = s.limit[1]]

---------------------------------------------------------------------------
(* Fragments and rows.                                                     *)

External(slot) ==
    [make_scan("ExternalRows", <<"broadcast">>, <<>>, << <<"t", ".", "a">> >>, NewCost, 2) EXCEPT !.count = slot]
Shipped == make_join("HashJoin", "Inner",
                     make_binary_op(make_column(<< <<"t">> >>, <<"a">>), "Eq", make_column(<< <<"u">> >>, <<"a">>)),
                     External(0), ScanOf([table_name |-> <<"u">>, alias |-> <<>>], <<>>), Cost(4), 4)

\* A row with a value of every kind, NULL and the characters JSON escapes.
AllKinds == << LitInteger(0), LitInteger(7), LitFloat(150), LitStr(<<"a", "\"", "\\", "\n", "\t">>),
               LitStr(<<>>), LitBoolean(TRUE), LitBoolean(FALSE), NewLiteral >>
MCRowSets == { <<>>, << <<>> >>, <<AllKinds>>, <<Reverse(AllKinds), AllKinds>> }
MCFragments ==
    { [plan |-> ScanOf([table_name |-> <<"t">>, alias |-> << <<"x">> >>], <<>>), slots |-> <<>>],
      [plan |-> Shipped, slots |-> << <<"0", <<AllKinds>> >> >>],
      [plan |-> Shipped, slots |-> << <<"0", <<>> >>, <<"1", <<AllKinds, AllKinds>> >> >>] }
\* Rows with a carriage return, as a CSV file with CRLF line ends has them.
MCOddRowSets == {<< <<LitStr(<<"a", "\r">>)>> >>, << <<LitInteger(Mantissa + 1)>> >>}

MCPrepared == LET table == PreparedTexts IN table
MCCalls    == LET table == AllCalls IN table
=============================================================================
