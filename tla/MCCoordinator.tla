---------------------------- MODULE MCCoordinator ---------------------------
(***************************************************************************)
(* Instances of Coordinator for TLC: two workers, two rows to a table.     *)
(***************************************************************************)
EXTENDS Coordinator

Tables(ids, keys, vals) ==
  UNION {{{[id |-> i, key |-> f[i][1], val |-> f[i][2]] : i \in present} :
            f \in [present -> keys \X vals]} : present \in SUBSET ids}

Ints == {<<"int", n>> : n \in {1, 2}}

\* Ids 1 and 2 belong to different workers.
MCLefts  == Tables({1, 2}, Ints \cup {Null}, {<<"int", 1>>, <<"int", 2>>, Null})
MCFloats == Tables({1, 2}, {<<"float", 1>>, <<"float", 2>>}, {Null})
MCRights == Tables({1, 2}, Ints \cup {Null}, {Null})

\* A hash that sends the keys to both workers, and a float of the same value as
\* an integer elsewhere than that integer.
MCHash == [s \in {LiteralToString(v) : v \in Ints \cup {Null, <<"float", 1>>, <<"float", 2>>}} |->
             IF s \in {<<"%d", 1>>, <<"%f", 2>>} THEN 1 ELSE 0]

Plans(cores, kinds, conditions, funcs, groups) ==
  {q \in [core : cores, kind : kinds, condition : conditions,
          func : funcs, group : groups] : q \in QueryType}

\* Plain joins and scans, COUNT and SUM with or without GROUP BY, AVG with it.
MCQueries ==
  Plans({"single", "join", "other"}, {"hash", "loop"}, {"eq"},
        {"none", "COUNT", "SUM"}, {"none", "key", "val"})
    \cup Plans({"single", "join"}, {"hash"}, {"eq"}, {"AVG"}, {"key", "val"})
    \cup Plans({"join"}, {"loop"}, {"less"}, {"none"}, {"none"})

\* One plan for each of the divergences.
MCMin  == Plans({"single"}, {"hash"}, {"eq"}, {"MIN"}, {"none"})
MCAvg  == Plans({"single"}, {"hash"}, {"eq"}, {"AVG"}, {"none"})
MCLoop == Plans({"join"}, {"loop"}, {"eq"}, {"none"}, {"none"})
MCLess == Plans({"join"}, {"loop"}, {"less"}, {"none"}, {"none"})
=============================================================================
