----------------------------- MODULE TextReader -----------------------------
(***************************************************************************)
(* What the two recursive-descent parsers of the program share (the SQL    *)
(* parser, parser/parser.cpp, and the JSON parser, util/json.cpp): a       *)
(* position in a text, a look at the element there, and exceptions.  The   *)
(* elements of a text are tuples whose first component is their kind.      *)
(***************************************************************************)
EXTENDS Sequences, Naturals

\* A parse from a position gives a value and the position after it, or throws.
Parsed(val, pos) == [ok |-> TRUE, val |-> val, pos |-> pos]
Thrown           == [ok |-> FALSE, val |-> <<>>, pos |-> 0]

\* The same sequence, computed at once.
AtOnce(seq) == <<>> \o seq

\* An exception leaves the callers too.
Then(r, F(_, _)) ==
    LET parse == r IN IF parse.ok THEN F(parse.val, parse.pos) ELSE Thrown

\* peek(): past the last element there is an end mark.
Peek(text, pos) == IF pos <= Len(text) THEN text[pos] ELSE <<"end">>
KindAt(text, pos) == Peek(text, pos)[1]

\* expect(): consumes an element of this kind or throws.
Expect(text, pos, kind, F(_)) ==
    IF KindAt(text, pos) = kind THEN F(pos + 1) ELSE Thrown
=============================================================================
