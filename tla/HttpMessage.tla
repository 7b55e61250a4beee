---------------------------- MODULE HttpMessage -----------------------------
(***************************************************************************)
(* HTTP/1.1 between the coordinator and its workers: the client of         *)
(* distributed/http_client.cpp and the server of web/http_server.cpp.      *)
(*                                                                         *)
(* A message is a sequence of lexemes: the start line, header lines, the   *)
(* blank line, and the body.  Sizes count lexemes.  One recv gives one     *)
(* chunk, which may end anywhere; a connection that ends early has         *)
(* delivered a prefix, however it ended.  Header lines other than          *)
(* Content-Length are alike, both ends write it as a number, and a header  *)
(* block of five lines stays below the readers' limit of 1 MiB.            *)
(***************************************************************************)
EXTENDS JsonText

Header == <<"Header">>
Blank  == <<"Blank">>

\* http_post_json's request, and what write_response sends.
Request(path, body) ==
    << <<"POST", path>>, Header, Header, <<"Content-Length", Len(body)>>, Header, Blank >> \o body
Response(status, body) ==
    << <<"HTTP", status>>, Header, <<"Content-Length", Len(body)>>, Header, Blank >> \o body

---------------------------------------------------------------------------
(* read_response and read_request.                                         *)

\* Mutant: a connection that ends early ends the body.
read_body_cut(body, more, content_length) ==
    LET all == body \o FlattenSeq(more)
    IN  << IF Len(all) < content_length THEN all ELSE SubSeq(all, 1, content_length) >>

\* recv until the body has its length: longer is cut, shorter is no message.
read_body(body, more, content_length) ==
    LET all == body \o FlattenSeq(more)
    IN  IF Len(all) < content_length THEN <<>> ELSE << SubSeq(all, 1, content_length) >>

\* recv until the blank line is there, then the body: << [start, body] >>, or
\* <<>> for nullopt and false.
read_message(chunks) ==
    LET Arrived(n) == FlattenSeq(SubSeq(chunks, 1, n))
        BlankIn(buf) == \E i \in DOMAIN buf : buf[i] = Blank
        heads == {n \in DOMAIN chunks : BlankIn(Arrived(n))}
        first == CHOOSE n \in heads : \A m \in heads : n <= m
        buf   == Arrived(first)
        ends  == CHOOSE i \in DOMAIN buf : buf[i] = Blank /\ \A j \in 1 .. i - 1 : buf[j] # Blank
        sizes == {i \in 1 .. ends : buf[i][1] = "Content-Length"}
        last  == CHOOSE i \in sizes : \A j \in sizes : j <= i
        body  == read_body(SubSeq(buf, ends + 1, Len(buf)),
                           SubSeq(chunks, first + 1, Len(chunks)),
                           IF sizes = {} THEN 0 ELSE buf[last][2])
    IN  IF heads = {} \/ body = <<>> THEN <<>>
        ELSE << [start |-> buf[1], body |-> body[1]] >>

---------------------------------------------------------------------------
(* One connection of the server.                                           *)

\* handle_connection once a request was read: reply is what the route's
\* handler makes of its body, << >> when it throws; another path is not found.
\* Whether the connection's thread answers at all is up to the network.
handle_request(req, path, reply) ==
    CASE req.start # <<"POST", path>> -> Response(404, << <<"not found">> >>)
      [] req.start = <<"POST", path>> /\ reply = <<>> ->
           Response(500, to_json(make_object(<< << <<"error">>, make_string(<<"what">>) >> >>)))
      [] OTHER -> Response(200, reply[1])

\* What may arrive of a message: nothing, or a prefix in one or two chunks,
\* cut at and next to the ends of the header block and of the body.
Deliveries(message) ==
    LET n    == Len(message)
        h    == CHOOSE i \in DOMAIN message : message[i] = Blank
        cuts == {1, h - 1, h, h + 1, n - 1, n} \cap 1 .. n
    IN  {<<>>} \cup {<< SubSeq(message, 1, i) >> : i \in cuts}
          \cup {<< SubSeq(message, 1, i), SubSeq(message, i + 1, j) >> :
                  <<i, j>> \in {p \in cuts \X cuts : p[1] < p[2]}}
=============================================================================
