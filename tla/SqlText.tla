------------------------------ MODULE SqlText -------------------------------
(***************************************************************************)
(* The SQL front end: the recursive-descent parser (parser/parser.cpp,     *)
(* syntax trees of parser/ast.hpp) and the canonical printer whose text is *)
(* the plan cache's key (parser/sql_printer.cpp).                          *)
(*                                                                         *)
(* A text is the sequence of tokens that the lexer (parser/lexer.cpp)      *)
(* makes of it: <<kind>>, or <<kind, value>> for identifiers and literals. *)
(* The printer's text is given as tokens too; the lexer reads the printed  *)
(* characters as these tokens.                                             *)
(***************************************************************************)
EXTENDS PlanCodec

CONSTANT
    SigDigits   \* significant digits of `os << double` (6 in C++)

ASSUME SigDigitsAssumption == SigDigits \in Nat \ {0}

---------------------------------------------------------------------------
(* Expressions, by precedence.  Each function parses from a position.      *)

BinaryOpOf ==
    [Or |-> "Or", And |-> "And", Eq |-> "Eq", Neq |-> "Neq", Lt |-> "Lt", Gt |-> "Gt",
     Lte |-> "Lte", Gte |-> "Gte", Plus |-> "Add", Minus |-> "Sub", Star |-> "Mul", Slash |-> "Div"]

Comparisons == {"Eq", "Neq", "Lt", "Gt", "Lte", "Gte"}

RECURSIVE parse_or(_, _), parse_and(_, _), parse_not(_, _), parse_comparison(_, _),
          parse_additive(_, _), parse_multiplicative(_, _), parse_unary(_, _),
          parse_primary(_, _), parse_expr_list(_, _, _),
          MoreOr(_, _, _), MoreAnd(_, _, _), MoreAdditive(_, _, _), MoreMultiplicative(_, _, _)

parse_expr(text, pos) == parse_or(text, pos)

\* The loops: while the next token is an operator of the level, what was
\* parsed so far becomes its left operand.
MoreOr(text, left, pos) ==
    IF KindAt(text, pos) # "Or" THEN Parsed(left, pos)
    ELSE Then(parse_and(text, pos + 1), LAMBDA right, p :
           MoreOr(text, make_binary_op(left, "Or", right), p))

parse_or(text, pos) == Then(parse_and(text, pos), LAMBDA left, p : MoreOr(text, left, p))

MoreAnd(text, left, pos) ==
    IF KindAt(text, pos) # "And" THEN Parsed(left, pos)
    ELSE Then(parse_not(text, pos + 1), LAMBDA right, p :
           MoreAnd(text, make_binary_op(left, "And", right), p))

parse_and(text, pos) == Then(parse_not(text, pos), LAMBDA left, p : MoreAnd(text, left, p))

parse_not(text, pos) ==
    IF KindAt(text, pos) = "Not"
      THEN Then(parse_not(text, pos + 1), LAMBDA e, p : Parsed(make_unary_op("Not", e), p))
      ELSE parse_comparison(text, pos)

\* At most one comparison: no loop.
parse_comparison(text, pos) ==
    Then(parse_additive(text, pos), LAMBDA left, p :
      IF KindAt(text, p) \notin Comparisons THEN Parsed(left, p)
      ELSE Then(parse_additive(text, p + 1), LAMBDA right, q :
             Parsed(make_binary_op(left, BinaryOpOf[KindAt(text, p)], right), q)))

\* Mutant: the rest of the sum becomes the right operand.
MoreAdditiveRight(text, left, pos) ==
    IF KindAt(text, pos) \notin {"Plus", "Minus"} THEN Parsed(left, pos)
    ELSE Then(parse_additive(text, pos + 1), LAMBDA right, p :
           Parsed(make_binary_op(left, BinaryOpOf[KindAt(text, pos)], right), p))

MoreAdditive(text, left, pos) ==
    IF KindAt(text, pos) \notin {"Plus", "Minus"} THEN Parsed(left, pos)
    ELSE Then(parse_multiplicative(text, pos + 1), LAMBDA right, p :
           MoreAdditive(text, make_binary_op(left, BinaryOpOf[KindAt(text, pos)], right), p))

parse_additive(text, pos) ==
    Then(parse_multiplicative(text, pos), LAMBDA left, p : MoreAdditive(text, left, p))

MoreMultiplicative(text, left, pos) ==
    IF KindAt(text, pos) \notin {"Star", "Slash"} THEN Parsed(left, pos)
    ELSE Then(parse_unary(text, pos + 1), LAMBDA right, p :
           MoreMultiplicative(text, make_binary_op(left, BinaryOpOf[KindAt(text, pos)], right), p))

parse_multiplicative(text, pos) ==
    Then(parse_unary(text, pos), LAMBDA left, p : MoreMultiplicative(text, left, p))

parse_unary(text, pos) ==
    IF KindAt(text, pos) = "Minus"
      THEN Then(parse_unary(text, pos + 1), LAMBDA e, p : Parsed(make_unary_op("Neg", e), p))
      ELSE parse_primary(text, pos)

parse_expr_list(text, pos, acc) ==
    Then(parse_expr(text, pos), LAMBDA e, p :
      IF KindAt(text, p) = "Comma" THEN parse_expr_list(text, p + 1, Append(acc, e))
      ELSE Parsed(Append(acc, e), p))

\* name(...): no argument, the star of COUNT(*), or a list.
Call(text, pos, name) ==
    Then(CASE KindAt(text, pos) = "RParen" -> Parsed(<<>>, pos)
           [] KindAt(text, pos) = "Star"   -> Parsed(<<NewExpr>>, pos + 1)
           [] OTHER                        -> parse_expr_list(text, pos, <<>>),
         LAMBDA args, p : Expect(text, p, "RParen", LAMBDA q : Parsed(make_function(name, args), q)))

parse_primary(text, pos) ==
    LET tok == Peek(text, pos) IN
    CASE tok[1] = "LParen" ->
           Then(parse_expr(text, pos + 1), LAMBDA e, p :
             Expect(text, p, "RParen", LAMBDA q : Parsed(e, q)))
      [] tok[1] = "Integer"   -> Parsed(make_literal(LitInteger(tok[2])), pos + 1)
      [] tok[1] = "Float"     -> Parsed(make_literal(LitFloat(tok[2])), pos + 1)
      [] tok[1] = "StringLit" -> Parsed(make_literal(LitStr(tok[2])), pos + 1)
      [] tok[1] = "True"      -> Parsed(make_literal(LitBoolean(TRUE)), pos + 1)
      [] tok[1] = "False"     -> Parsed(make_literal(LitBoolean(FALSE)), pos + 1)
      [] tok[1] = "Null"      -> Parsed(make_literal(NewLiteral), pos + 1)
      [] tok[1] = "Identifier" /\ KindAt(text, pos + 1) = "LParen" -> Call(text, pos + 2, tok[2])
      [] tok[1] = "Identifier" /\ KindAt(text, pos + 1) = "Dot" ->
           LET next == Peek(text, pos + 2)
           IN  CASE next[1] = "Identifier" -> Parsed(make_column(<<tok[2]>>, next[2]), pos + 3)
                 [] next[1] = "Star"       -> Parsed(make_column(<<tok[2]>>, <<"*">>), pos + 3)
                 [] OTHER                  -> Thrown
      [] tok[1] = "Identifier" /\ KindAt(text, pos + 1) \notin {"LParen", "Dot"} ->
           Parsed(make_column(<<>>, tok[2]), pos + 1)
      [] OTHER -> Thrown

---------------------------------------------------------------------------
(* The clauses of SELECT.                                                  *)

\* AS name, or a name alone (an alias), or nothing.
OptAlias(text, pos) ==
    CASE KindAt(text, pos) = "As" ->
           IF KindAt(text, pos + 1) = "Identifier" THEN Parsed(<<text[pos + 1][2]>>, pos + 2) ELSE Thrown
      [] KindAt(text, pos) = "Identifier" -> Parsed(<<text[pos][2]>>, pos + 1)
      [] OTHER -> Parsed(<<>>, pos)

SelectItem(kind, expr, alias, table) ==
    [kind |-> kind, expr |-> expr, alias |-> alias, qualified_table |-> table]

\* t.* arrives from parse_primary as a column named "*".
parse_select_item(text, pos) ==
    IF KindAt(text, pos) = "Star" THEN Parsed(SelectItem("Wildcard", <<>>, <<>>, <<>>), pos + 1)
    ELSE Then(parse_expr(text, pos), LAMBDA e, p :
           IF e.kind = "Column" /\ e.table # <<>> /\ e.column = <<"*">>
             THEN Parsed(SelectItem("QualifiedWildcard", <<>>, <<>>, e.table[1]), p)
             ELSE Then(OptAlias(text, p), LAMBDA alias, q :
                    Parsed(SelectItem("Expression", <<e>>, alias, <<>>), q)))

RECURSIVE parse_select_list(_, _, _)
parse_select_list(text, pos, acc) ==
    Then(parse_select_item(text, pos), LAMBDA item, p :
      IF KindAt(text, p) = "Comma" THEN parse_select_list(text, p + 1, Append(acc, item))
      ELSE Parsed(Append(acc, item), p))

parse_table_ref(text, pos) ==
    Expect(text, pos, "Identifier", LAMBDA p :
      Then(OptAlias(text, p), LAMBDA alias, q :
        Parsed([table_name |-> text[pos][2], alias |-> alias], q)))

JoinTypeOf == [Join |-> "Inner", Inner |-> "Inner", Left |-> "Left", Right |-> "Right", Cross |-> "Cross"]

\* Every join has an ON clause, a cross join too.
parse_join(text, pos) ==
    LET type == JoinTypeOf[KindAt(text, pos)]
        Body(p) == Then(parse_table_ref(text, p), LAMBDA table, q :
                     Expect(text, q, "On", LAMBDA r :
                       Then(parse_expr(text, r), LAMBDA e, s :
                         Parsed([join_type |-> type, table |-> table, condition |-> e], s))))
    IN  IF KindAt(text, pos) = "Join" THEN Body(pos + 1) ELSE Expect(text, pos + 1, "Join", Body)

RECURSIVE Joins(_, _, _)
Joins(text, pos, acc) ==
    IF KindAt(text, pos) \notin DOMAIN JoinTypeOf THEN Parsed(acc, pos)
    ELSE Then(parse_join(text, pos), LAMBDA j, p : Joins(text, p, Append(acc, j)))

RECURSIVE parse_order_by_list(_, _, _)
parse_order_by_list(text, pos, acc) ==
    Then(parse_expr(text, pos), LAMBDA e, p :
      LET item == [expression |-> e, ascending |-> KindAt(text, p) # "Desc"]
          q    == IF KindAt(text, p) \in {"Asc", "Desc"} THEN p + 1 ELSE p
      IN  IF KindAt(text, q) = "Comma" THEN parse_order_by_list(text, q + 1, Append(acc, item))
          ELSE Parsed(Append(acc, item), q))

\* An optional clause: a keyword, then what F parses, as a sequence.
OptExpr(text, pos, keyword) ==
    IF KindAt(text, pos) # keyword THEN Parsed(<<>>, pos)
    ELSE Then(parse_expr(text, pos + 1), LAMBDA e, p : Parsed(<<e>>, p))

GroupBy(text, pos) ==
    IF KindAt(text, pos) # "Group" THEN Parsed(<<>>, pos)
    ELSE Expect(text, pos + 1, "By", LAMBDA p : parse_expr_list(text, p, <<>>))

OrderBy(text, pos) ==
    IF KindAt(text, pos) # "Order" THEN Parsed(<<>>, pos)
    ELSE Expect(text, pos + 1, "By", LAMBDA p : parse_order_by_list(text, p, <<>>))

Limit(text, pos) ==
    IF KindAt(text, pos) # "Limit" THEN Parsed(<<>>, pos)
    ELSE Expect(text, pos + 1, "Integer", LAMBDA p : Parsed(<<text[p - 1][2]>>, p))

\* Parser::parse and parse_select.  What follows the last clause is not
\* looked at.
parse(text) ==
    Expect(text, 1, "Select", LAMBDA p0 :
      Then(parse_select_list(text, p0, <<>>), LAMBDA columns, p1 :
        Expect(text, p1, "From", LAMBDA p2 :
          Then(parse_table_ref(text, p2), LAMBDA from, p3 :
            Then(Joins(text, p3, <<>>), LAMBDA joins, p4 :
              Then(OptExpr(text, p4, "Where"), LAMBDA where, p5 :
                Then(GroupBy(text, p5), LAMBDA group_by, p6 :
                  Then(OptExpr(text, p6, "Having"), LAMBDA having, p7 :
                    Then(OrderBy(text, p7), LAMBDA order_by, p8 :
                      Then(Limit(text, p8), LAMBDA limit, p9 :
                        Parsed([columns |-> columns, from |-> from, joins |-> joins,
                                where_clause |-> where, group_by |-> group_by, having |-> having,
                                order_by |-> order_by, limit |-> limit], p9)))))))))))

---------------------------------------------------------------------------
(* The canonical printer.                                                  *)

\* os << double: SigDigits significant digits (a tie to the even digit), a
\* whole value without a point, and from 10^SigDigits on with an exponent.
\* The value is in hundredths.
FloatToken(f) ==
    LET unit  == CHOOSE u \in {10^k : k \in 0 .. 9} :      \* weight of the last digit kept
                   /\ f < u * 10^SigDigits
                   /\ u = 1 \/ f >= (u \div 10) * 10^SigDigits
        down  == f \div unit
        rest  == 2 * (f % unit)
        shown == unit * (IF rest > unit \/ (rest = unit /\ down % 2 = 1) THEN down + 1 ELSE down)
    IN  IF shown % 100 = 0 /\ shown \div 100 < 10^SigDigits
          THEN <<"Integer", shown \div 100>> ELSE <<"Float", shown>>

LiteralTokens(l) ==
    << CASE l.kind = "Integer" -> <<"Integer", l.int_val>>
         [] l.kind = "Float"   -> FloatToken(l.float_val)
         [] l.kind = "Str"     -> <<"StringLit", l.str_val>>
         [] l.kind = "Boolean" -> IF l.bool_val THEN <<"True">> ELSE <<"False">>
         [] l.kind = "Null"    -> <<"Null">> >>

OpToken == [op \in BinaryOps |-> <<CHOOSE t \in DOMAIN BinaryOpOf : BinaryOpOf[t] = op>>]

Separated(seqs) ==
    FlattenSeq(AtOnce([i \in DOMAIN seqs |-> IF i = 1 THEN seqs[i] ELSE << <<"Comma">> >> \o seqs[i]]))

Name(s) == << <<"Identifier", s>> >>

\* Binary operations are always in parentheses, the others never.
RECURSIVE print_expr(_)
print_expr(e) ==
    CASE e.kind = "Column" ->
           (IF e.table = <<>> THEN <<>> ELSE Name(e.table[1]) \o << <<"Dot">> >>)
             \o (IF e.column = <<"*">> THEN << <<"Star">> >> ELSE Name(e.column))
      [] e.kind = "Literal"  -> LiteralTokens(e.literal)
      [] e.kind = "BinaryOp" ->
           << <<"LParen">> >> \o print_expr(e.left[1]) \o <<OpToken[e.binary_op]>>
             \o print_expr(e.right[1]) \o << <<"RParen">> >>
      [] e.kind = "UnaryOp"  ->
           << IF e.unary_op = "Not" THEN <<"Not">> ELSE <<"Minus">> >> \o print_expr(e.operand[1])
      [] e.kind = "Function" ->
           Name(e.func_name) \o << <<"LParen">> >>
             \o Separated([i \in DOMAIN e.args |-> print_expr(e.args[i])]) \o << <<"RParen">> >>
      [] e.kind = "Wildcard" -> << <<"Star">> >>

\* Mutant: the alias of an output column is not printed.
print_item_no_alias(item) ==
    CASE item.kind = "Wildcard"          -> << <<"Star">> >>
      [] item.kind = "QualifiedWildcard" -> Name(item.qualified_table) \o << <<"Dot">>, <<"Star">> >>
      [] item.kind = "Expression"        -> print_expr(item.expr[1])

print_item(item) ==
    CASE item.kind = "Wildcard"          -> << <<"Star">> >>
      [] item.kind = "QualifiedWildcard" -> Name(item.qualified_table) \o << <<"Dot">>, <<"Star">> >>
      [] item.kind = "Expression"        ->
           print_expr(item.expr[1])
             \o (IF item.alias = <<>> THEN <<>> ELSE << <<"As">> >> \o Name(item.alias[1]))

print_table(ref) == Name(ref.table_name) \o (IF ref.alias = <<>> THEN <<>> ELSE Name(ref.alias[1]))

print_join(j) ==
    << <<j.join_type>>, <<"Join">> >> \o print_table(j.table) \o << <<"On">> >> \o print_expr(j.condition)

Clause(words, seqs) == IF seqs = <<>> THEN <<>> ELSE words \o Separated(seqs)

to_canonical_sql(s) ==
    << <<"Select">> >> \o Separated([i \in DOMAIN s.columns |-> print_item(s.columns[i])])
      \o << <<"From">> >> \o print_table(s.from)
      \o FlattenSeq(AtOnce([i \in DOMAIN s.joins |-> print_join(s.joins[i])]))
      \o Clause(<< <<"Where">> >>, [i \in DOMAIN s.where_clause |-> print_expr(s.where_clause[i])])
      \o Clause(<< <<"Group">>, <<"By">> >>, [i \in DOMAIN s.group_by |-> print_expr(s.group_by[i])])
      \o Clause(<< <<"Having">> >>, [i \in DOMAIN s.having |-> print_expr(s.having[i])])
      \o Clause(<< <<"Order">>, <<"By">> >>,
                [i \in DOMAIN s.order_by |->
                   print_expr(s.order_by[i].expression)
                     \o << IF s.order_by[i].ascending THEN <<"Asc">> ELSE <<"Desc">> >>])
      \o Clause(<< <<"Limit">> >>, [i \in DOMAIN s.limit |-> << <<"Integer", s.limit[i]>> >>])
=============================================================================
