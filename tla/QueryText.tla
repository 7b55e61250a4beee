----------------------------- MODULE QueryText ------------------------------
(***************************************************************************)
(* Every text and every plan that the optimizer exchanges, end to end: a   *)
(* query text is parsed, its canonical text is the key of the plan cache,  *)
(* the plan is stored and served as JSON (plan_with_cache of               *)
(* integration/cached_planner.cpp), and plan fragments with their rows     *)
(* travel to a worker and rows travel back (call_worker_execute of         *)
(* distributed/coordinator.cpp and the worker's /worker/execute handler).  *)
(* The catalogs do not change here: their part of the key, expiry and the  *)
(* cache's own faults are in PlanCache.                                    *)
(***************************************************************************)
EXTENDS SqlText, HttpMessage

CONSTANTS
    Texts,       \* a sequence of query texts
    Asks,        \* Asks[n]: which of them the n-th exchange may ask for
    PlanOf(_),   \* the optimizer: the physical plan of a statement
    Fragments,   \* plans that the coordinator ships, with their row sets
    RowSets,     \* rows that a worker answers with
    Prepared,    \* FrontEnd of each text, computed once
    Calls        \* CallsOf all fragments and row sets, computed once

\* What becomes of a query text: its parse and, if it parses, its key in the
\* plan cache (the text that build_cache_key hashes; hashes do not collide
\* here), its plan, and what a later query reads back of the plan.
FrontEnd(text) ==
    LET read == parse(text)
        plan == PlanOf(read.val)
    IN  IF ~read.ok THEN [parse |-> read, key |-> <<>>, plan |-> <<>>, stored |-> <<>>]
        ELSE [parse |-> read, key |-> to_canonical_sql(read.val), plan |-> <<plan>>,
              stored |-> deserialize_plan(serialize_plan(plan))]

\* The route's handler: the plan is run, or something throws.
Handler(body, rows) == IF WorkerReads(body) = <<>> THEN <<>> ELSE << ResponseText(<< <<"a">> >>, rows) >>

\* call_worker_execute: anything but a whole answer with status 200 sends the
\* caller to recovery, and an answer that is no JSON throws.
Outcome(resp) ==
    IF resp = <<>> \/ resp[1].start # <<"HTTP", 200>> THEN [how |-> "recover", rows |-> <<>>]
    ELSE LET read == ResponseRead(resp[1].body)
         IN  IF read = <<>> THEN [how |-> "throw", rows |-> <<>>]
                            ELSE [how |-> "answer", rows |-> read[1].rows]

\* The ways a message may arrive: whether all of it did, and what was read.
Arrivals(message) == {<< FlattenSeq(d) = message, read_message(d) >> : d \in Deliveries(message)}

\* The ways a call may go: the request arrives, and then its answer.
CallsOf(fragment, rows) ==
    LET request == Request("/worker/execute", RequestText(fragment.plan, fragment.slots))
        Reply(req) == handle_request(req, "/worker/execute", Handler(req.body, rows))
        Replies(req) == IF req = <<>> THEN {<<FALSE, <<>> >>} ELSE Arrivals(Reply(req[1]))
        Worker(req) == IF req = <<>> THEN <<>> ELSE WorkerReads(req[1].body)
    IN  UNION { { [sent |-> fragment, rows |-> rows, arrived |-> there[1] /\ back[1],
                   worker |-> Worker(there[2]), outcome |-> Outcome(back[2])] : back \in Replies(there[2]) } :
                there \in Arrivals(request) }

\* The two tables.  TLC computes them before its search and counts no
\* coverage inside them, which is why the actions read constants.
PreparedTexts == AtOnce([t \in DOMAIN Texts |-> FrontEnd(Texts[t])])
AllCalls      == UNION {CallsOf(f, rows) : f \in Fragments, rows \in RowSets}

ASSUME TablesAssumption == Prepared = PreparedTexts /\ Calls = AllCalls

VARIABLES
    turn,     \* exchanges so far
    cache,    \* the plan cache: per key, the text whose plan is stored
    answer,   \* the last exchange if it was a query: how it was answered
    wire      \* the last exchange if it was a call of a worker

vars == <<turn, cache, answer, wire>>

Answer(text, how, plan) == << [text |-> text, how |-> how, plan |-> plan] >>

Init == turn = 0 /\ cache = <<>> /\ answer = <<>> /\ wire = <<>>

\* parser.parse() throws: nothing was looked up or stored.
AskRefused(text) ==
    /\ ~Prepared[text].parse.ok
    /\ answer' = Answer(text, "error", <<>>)
    /\ UNCHANGED cache

\* A value is found under the key: its plan is read back and returned, or
\* reading it throws.
AskHit(text) ==
    /\ Prepared[text].parse.ok
    /\ Prepared[text].key \in DOMAIN cache
    /\ LET read == Prepared[cache[Prepared[text].key]].stored
       IN  answer' = Answer(text, IF read = <<>> THEN "error" ELSE "hit", read)
    /\ UNCHANGED cache

\* Mutant: the entry is stored under the text as it was typed.
AskMissRawKey(text) ==
    /\ Prepared[text].parse.ok
    /\ Prepared[text].key \notin DOMAIN cache
    /\ cache' = cache @@ (Texts[text] :> text)
    /\ answer' = Answer(text, "miss", Prepared[text].plan)

\* Otherwise the query is planned, the plan stored and returned.
AskMiss(text) ==
    /\ Prepared[text].parse.ok
    /\ Prepared[text].key \notin DOMAIN cache
    /\ cache' = cache @@ (Prepared[text].key :> text)
    /\ answer' = Answer(text, "miss", Prepared[text].plan)

Ask(text) ==
    /\ AskRefused(text) \/ AskHit(text) \/ AskMiss(text)
    /\ wire' = <<>>

\* call_worker_execute, whatever the network makes of it.
CallWorker(call) ==
    /\ wire' = <<call>>
    /\ answer' = <<>>
    /\ UNCHANGED cache

Next ==
    /\ turn < Len(Asks)
    /\ turn' = turn + 1
    /\ \/ \E text \in Asks[turn + 1] : Ask(text)
       \/ \E call \in Calls : CallWorker(call)

Spec == Init /\ [][Next]_vars

---------------------------------------------------------------------------
TypeOK ==
    /\ turn \in 0 .. Len(Asks)
    /\ \A key \in DOMAIN cache : Prepared[cache[key]].parse.ok /\ Prepared[cache[key]].key = key
    /\ \A i \in DOMAIN answer : /\ answer[i].text \in DOMAIN Texts
                                /\ answer[i].how \in {"error", "hit", "miss"}
                                /\ answer[i].how = "error" <=> answer[i].plan = <<>>
    /\ \A i \in DOMAIN wire : wire[i].sent \in Fragments /\ wire[i].rows \in RowSets

\* A query is answered with its own plan, whatever was asked before: the
\* canonical text tells any two statements apart (cache_key.cpp:60-64 hashes
\* it alone), and what the serializer stored reads back as the same plan
\* (cached_planner.cpp:37-41 returns it unchecked).
ServedPlanIsForStatement ==
    \A i \in DOMAIN answer : answer[i].plan # <<>> => answer[i].plan = Prepared[answer[i].text].plan

\* The key of the plan cache differs for different statements
\* (cache_key.cpp:60-64, sql_printer.cpp:36): a hit finds the entry of the
\* statement that is asked.  Floats are printed with six digits, so this does
\* not hold of texts with floats.
CacheKeyDiffersForDifferentPredicate ==
    \A i \in DOMAIN answer :
      answer[i].how = "hit" => Prepared[cache[Prepared[answer[i].text].key]].parse.val = Prepared[answer[i].text].parse.val

\* A worker runs the plan and reads the rows that the coordinator sent, and
\* the coordinator reads the rows that the worker answered, across two
\* codecs and the re-serialization in worker_service.cpp:53.
WorkerReadsWhatWasSent ==
    \A i \in DOMAIN wire :
      wire[i].arrived => /\ wire[i].worker = <<wire[i].sent>>
                         /\ wire[i].outcome = [how |-> "answer", rows |-> wire[i].rows]

\* http_client.hpp:16-20: a call that goes wrong is "reported as
\* "unreachable" instead of crashing the coordinator mid-query".  Wherever
\* the connection ends and however it is cut into chunks, a worker runs what
\* was sent or nothing, and the coordinator gets all the rows or recovers.
CallsWholeOrNothing ==
    \A i \in DOMAIN wire :
      /\ wire[i].worker \in {<<>>, <<wire[i].sent>>}
      /\ \/ wire[i].outcome.how = "recover"
         \/ wire[i].outcome = [how |-> "answer", rows |-> wire[i].rows]

---------------------------------------------------------------------------
(* The reference for the parser: an expression written with the fewest     *)
(* parentheses under SQL's precedences.                                    *)

Binds ==
    [Or |-> 1, And |-> 2, Eq |-> 4, Neq |-> 4, Lt |-> 4, Gt |-> 4, Lte |-> 4, Gte |-> 4,
     Add |-> 5, Sub |-> 5, Mul |-> 6, Div |-> 6]

RECURSIVE Unparse(_, _)
Unparse(e, least) ==
    LET level == CASE e.kind = "BinaryOp" -> Binds[e.binary_op]
                   [] e.kind = "UnaryOp"  -> IF e.unary_op = "Not" THEN 3 ELSE 7
                   [] OTHER -> 8
        left  == IF level = 4 THEN 5 ELSE level   \* comparisons do not chain
        bare  == CASE e.kind = "BinaryOp" ->
                        Unparse(e.left[1], left) \o <<OpToken[e.binary_op]>>
                          \o Unparse(e.right[1], level + 1)
                   [] e.kind = "UnaryOp" ->
                        << IF level = 3 THEN <<"Not">> ELSE <<"Minus">> >> \o Unparse(e.operand[1], level)
                   [] OTHER -> print_expr(e)
    IN  IF level < least THEN << <<"LParen">> >> \o bare \o << <<"RParen">> >> ELSE bare

\* The tree of a condition follows SQL's precedences and associativity
\* (parser.cpp:236-317): written with the fewest parentheses it needs, a
\* condition that was typed without any comes out as the tokens that were
\* read.
TreeFollowsPrecedence ==
    \A i \in DOMAIN answer :
      LET text == Texts[answer[i].text]
          read == Prepared[answer[i].text].parse
          at   == {p \in DOMAIN text : text[p][1] = "Where"}
      IN  ( /\ read.ok
            /\ at # {}
            /\ \A p \in DOMAIN text : text[p][1] \notin {"LParen", "Group", "Having", "Order", "Limit"} )
          => Unparse(read.val.where_clause[1], 1)
               = SubSeq(text, (CHOOSE p \in at : TRUE) + 1, read.pos - 1)

\* A query that is answered was read to its end.  The parser does not look
\* past the last clause it knows (parser.cpp:75-84), so this does not hold:
\* a = b = c is answered as a = b.
WholeTextRead ==
    \A i \in DOMAIN answer :
      answer[i].how # "error" => Prepared[answer[i].text].parse.pos = Len(Texts[answer[i].text]) + 1

=============================================================================
