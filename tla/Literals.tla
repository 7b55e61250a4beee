------------------------------ MODULE Literals ------------------------------
(***************************************************************************)
(* The values of execution/value_ops.cpp: NULL, or a kind and a number.    *)
(***************************************************************************)
EXTENDS Integers

CONSTANT Null  \* SQL NULL

IsNull(v) == v = Null
LiteralEqual(a, b) == ~IsNull(a) /\ ~IsNull(b) /\ a[2] = b[2]
LiteralLess(a, b)  == ~IsNull(a) /\ ~IsNull(b) /\ a[2] < b[2]

\* std::to_string prints an integer and a float of the same value differently:
\* a string is the format it was printed with and the number printed.
LiteralToString(v) ==
  IF IsNull(v) THEN <<"<null>", 0>>
  ELSE IF v[1] = "int" THEN <<"%d", v[2]>> ELSE <<"%f", v[2]>>
=============================================================================
