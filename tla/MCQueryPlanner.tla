--------------------------- MODULE MCQueryPlanner ---------------------------
(***************************************************************************)
(* Instances of QueryPlanner for TLC: statements over three and four       *)
(* tables of different sizes.                                              *)
(***************************************************************************)
EXTENDS QueryPlanner

MCTables == [a |-> [rows |-> 40, pages |-> 1, row_count |-> 40],
             b |-> [rows |-> 7,  pages |-> 1, row_count |-> 90],
             c |-> [rows |-> 12, pages |-> 3, row_count |-> 12],
             d |-> [rows |-> 3,  pages |-> 1, row_count |-> 3]]

\* The schema catalog has the first two tables smallest.
MCTablesSmall == [t \in DOMAIN MCTables |->
                    [MCTables[t] EXCEPT !.row_count = IF t \in {"a", "b"} THEN 2 ELSE 90]]

MCConjunct(id, refs, eq, indexed, ndv, sel) ==
  [id |-> id, refs |-> refs, bare |-> FALSE, eq |-> eq,
   indexed |-> indexed, ndv |-> ndv, sel |-> sel]

\* An equality of an indexed key, a second one, a comparison.
MCKey(id, x, y) == MCConjunct(id, {x, y}, TRUE, {y}, 5, 10)
MCEqual(id, x, y) == MCConjunct(id, {x, y}, TRUE, {}, 0, 10)
MCLess(id, x, y) == MCConjunct(id, {x, y}, FALSE, {}, 0, 10)

\* Filters on one table: an indexed equality and a range.
MCProbe(id, x) == MCConjunct(id, {x}, TRUE, {x}, 0, 20)
MCRange(id, x) == MCConjunct(id, {x}, FALSE, {}, 0, 3)

\* A conjunct with an unqualified column, and one over three tables.
MCBare == [MCRange("bare", "a") EXCEPT !.refs = {}, !.bare = TRUE]
MCThree == MCConjunct("abc", {"a", "b", "c"}, FALSE, {}, 0, 10)

MCOnB == {<<MCKey("ab", "a", "b")>>, <<MCKey("ab", "a", "b"), MCLess("ab2", "a", "b")>>,
          <<MCProbe("a", "a")>>, <<MCLess("ab2", "a", "b"), MCRange("b", "b")>>}
MCOnC == {<<MCKey("bc", "b", "c")>>, <<MCEqual("ac", "a", "c")>>,
          <<MCEqual("ac", "a", "c"), MCKey("bc", "b", "c")>>,
          <<MCRange("c", "c")>>, <<MCKey("bc", "b", "c"), MCProbe("a2", "a")>>}
MCOnD == {<<MCKey("cd", "c", "d")>>, <<MCEqual("ad", "a", "d")>>,
          <<MCEqual("ac2", "a", "c"), MCEqual("bd", "b", "d")>>}
MCWhere == {<<>>, <<MCProbe("a3", "a"), MCRange("a4", "a")>>, <<MCLess("ac3", "a", "c")>>,
            <<MCRange("c2", "c"), MCBare>>, <<MCThree>>}

MCJoins == [type : {"inner", "left"}, table : {"b"}, cond : MCOnB]

MCStatements ==
  [from : {"a"}, where : MCWhere, columns : {{}, {"name"}},
   joins : {<<b, c>> : b \in MCJoins,
                       c \in [type : {"inner", "left"}, table : {"c"}, cond : MCOnC]}]
  \cup
  [from : {"a"}, where : {<<>>, <<MCLess("ac3", "a", "c")>>}, columns : {{"name"}},
   joins : {<<b, c, d>> : b \in {j \in MCJoins : j.type = "inner"},
                          c \in [type : {"inner"}, table : {"c"}, cond : MCOnC],
                          d \in [type : {"inner"}, table : {"d"}, cond : MCOnD]}]

\* What collect finds in the optimized plans of these statements.
MCRoots(s) ==
  JoinSearchRoots(ReorderJoins(PushProjections(PushPredicates(LogicalPlanOf(s)), {})))
MCInputs == {InputOf(MCRoots(s)[1]) : s \in {s \in MCStatements : MCRoots(s) # <<>>}}
=============================================================================
