------------------------------ MODULE JsonText ------------------------------
(***************************************************************************)
(* util/json.hpp and util/json.cpp: the JSON values, their writer and the  *)
(* recursive-descent parser that the plan cache, the worker protocol, the  *)
(* statistics and the learning files go through.                           *)
(*                                                                         *)
(* A string is a sequence of characters.  Only the characters that the     *)
(* writer or the parser treats specially are told apart; a field name, a   *)
(* table name or an enum name is one opaque character.  A text is a        *)
(* sequence of lexemes: a character c is <<c>>, a whole number is          *)
(* <<"num", n>>, and the words true, false and null are one lexeme each (a *)
(* word that is cut is refused like a missing one, json.cpp:165-182).  The *)
(* compact writer emits no whitespace, so skipping it is left out.         *)
(***************************************************************************)
EXTENDS TextReader, SequencesExt

CONSTANT
    Mantissa    \* integers up to this one are exact as doubles (2^53 in C++)

ASSUME MantissaAssumption == Mantissa \in Nat \ {0}

---------------------------------------------------------------------------
(* Values.  An object is the sequence of its <<key, value>> entries, in    *)
(* the order of their first insertion.                                     *)

make_null      == <<"Null">>
make_bool(b)   == <<"Bool", b>>
make_number(n) == <<"Number", n>>
make_string(s) == <<"String", s>>
make_array(s)  == <<"Array", AtOnce(s)>>
make_object(s) == <<"Object", AtOnce(s)>>

KindOf(j) == j[1]

\* JsonObject::operator[] followed by an assignment: an entry with the same
\* key is overwritten where it is, another one goes to the end.
Assign(entries, key, val) ==
    IF \E i \in DOMAIN entries : entries[i][1] = key
      THEN [i \in DOMAIN entries |->
              IF entries[i][1] = key THEN <<key, val>> ELSE entries[i]]
      ELSE Append(entries, <<key, val>>)

\* JsonValue::find: the values of the entry with this key, at most one.
Find(j, key) ==
    IF KindOf(j) = "Object" /\ \E i \in DOMAIN j[2] : j[2][i][1] = key
      THEN << j[2][CHOOSE i \in DOMAIN j[2] : j[2][i][1] = key][2] >>
      ELSE <<>>

as_number(j, default) == IF KindOf(j) = "Number" THEN j[2] ELSE default
as_string(j, default) == IF KindOf(j) = "String" THEN j[2] ELSE default
as_bool(j, default)   == IF KindOf(j) = "Bool"   THEN j[2] ELSE default

\* static_cast<double>(int64_t): above Mantissa only every second integer
\* is a double, and a tie goes to the even one.  Numbers are taken below
\* 2 * Mantissa, where doubles are two apart.
ToDouble(n) ==
    IF n <= Mantissa \/ n % 2 = 0 THEN n
    ELSE IF n % 4 = 1 THEN n - 1 ELSE n + 1

---------------------------------------------------------------------------
(* The writer.                                                             *)

\* Mutant: a backslash is written as it is.
EscapedNoBackslash(c) ==
    CASE c = "\"" -> << <<"\\">>, <<"\"">> >>
      [] c = "\n" -> << <<"\\">>, <<"n">> >>
      [] c = "\t" -> << <<"\\">>, <<"t">> >>
      [] OTHER    -> << <<c>> >>

\* What write_escaped_string emits for one character: the five escapes with
\* a letter, \u00XX for the other control characters (represented by the
\* form feed), and everything else as it is.
Escaped(c) ==
    CASE c = "\"" -> << <<"\\">>, <<"\"">> >>
      [] c = "\\" -> << <<"\\">>, <<"\\">> >>
      [] c = "\n" -> << <<"\\">>, <<"n">> >>
      [] c = "\t" -> << <<"\\">>, <<"t">> >>
      [] c = "\r" -> << <<"\\">>, <<"r">> >>
      [] c = "\f" -> << <<"\\">>, <<"u">>, <<"0">>, <<"0">>, <<"0">>, <<"c">> >>
      [] OTHER    -> << <<c>> >>

Commas(seqs) ==
    FlattenSeq(AtOnce([i \in DOMAIN seqs |-> IF i = 1 THEN seqs[i] ELSE << <<",">> >> \o seqs[i]]))

write_escaped_string(s) ==
    << <<"\"">> >> \o FlattenSeq(AtOnce([i \in DOMAIN s |-> Escaped(s[i])])) \o << <<"\"">> >>

RECURSIVE to_json(_)
to_json(j) ==
    CASE KindOf(j) = "Null"   -> << <<"null">> >>
      [] KindOf(j) = "Bool"   -> << IF j[2] THEN <<"true">> ELSE <<"false">> >>
      [] KindOf(j) = "Number" -> << <<"num", j[2]>> >>
      [] KindOf(j) = "String" -> write_escaped_string(j[2])
      [] KindOf(j) = "Array"  ->
           << <<"[">> >> \o Commas([i \in DOMAIN j[2] |-> to_json(j[2][i])])
             \o << <<"]">> >>
      [] KindOf(j) = "Object" ->
           << <<"{">> >>
             \o Commas([i \in DOMAIN j[2] |->
                         write_escaped_string(j[2][i][1]) \o << <<":">> >>
                           \o to_json(j[2][i][2])])
             \o << <<"}">> >>

---------------------------------------------------------------------------
(* The parser.                                                             *)

\* The characters of a string up to its closing quote.  After a backslash
\* the letters n and t stand for newline and tab; any other character,
\* r and u included, stands for itself.
RECURSIVE Characters(_, _, _)
Characters(text, pos, acc) ==
    IF pos > Len(text) THEN Thrown
    ELSE IF text[pos] = <<"\"">> THEN Parsed(acc, pos + 1)
    ELSE IF text[pos] # <<"\\">> THEN Characters(text, pos + 1, Append(acc, text[pos][1]))
    ELSE LET esc == KindAt(text, pos + 1)
             c   == CASE esc = "n" -> "\n" [] esc = "t" -> "\t" [] OTHER -> esc
         IN  Characters(text, pos + 2, Append(acc, c))

parse_raw_string(text, pos) ==
    Expect(text, pos, "\"", LAMBDA p : Characters(text, p, <<>>))

RECURSIVE parse_value(_, _), Elements(_, _, _), Members(_, _, _)

\* The elements of an array from pos, after those in acc, and the bracket.
Elements(text, pos, acc) ==
    Then(parse_value(text, pos), LAMBDA v, p :
      IF KindAt(text, p) = "," THEN Elements(text, p + 1, Append(acc, v))
      ELSE Expect(text, p, "]", LAMBDA q : Parsed(make_array(Append(acc, v)), q)))

\* One member of an object, and the members from pos, after the entries in
\* acc, and the brace.
Member(text, pos) ==
    Then(parse_raw_string(text, pos), LAMBDA key, p :
      Expect(text, p, ":", LAMBDA q :
        Then(parse_value(text, q), LAMBDA v, r : Parsed(<<key, v>>, r))))

Members(text, pos, acc) ==
    Then(Member(text, pos), LAMBDA m, p :
      LET entries == Assign(acc, m[1], m[2])
      IN  IF KindAt(text, p) = "," THEN Members(text, p + 1, entries)
          ELSE Expect(text, p, "}", LAMBDA q : Parsed(make_object(entries), q)))

\* The first character decides, and what is none of the others must be a
\* number: the end of the text is no number and throws.
parse_value(text, pos) ==
    LET c == Peek(text, pos) IN
    CASE c = <<"{">> -> IF KindAt(text, pos + 1) = "}"
                          THEN Parsed(make_object(<<>>), pos + 2)
                          ELSE Members(text, pos + 1, <<>>)
      [] c = <<"[">> -> IF KindAt(text, pos + 1) = "]"
                          THEN Parsed(make_array(<<>>), pos + 2)
                          ELSE Elements(text, pos + 1, <<>>)
      [] c = <<"\"">> -> Then(parse_raw_string(text, pos), LAMBDA s, p : Parsed(make_string(s), p))
      [] c \in {<<"true">>, <<"false">>} -> Parsed(make_bool(c = <<"true">>), pos + 1)
      [] c = <<"null">> -> Parsed(make_null, pos + 1)
      [] c[1] = "num"   -> Parsed(make_number(c[2]), pos + 1)
      [] OTHER          -> Thrown

\* parse_json: the text after the value is not looked at.
parse_json(text) == parse_value(text, 1)
=============================================================================
