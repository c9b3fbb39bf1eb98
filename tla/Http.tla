-------------------------------- MODULE Http --------------------------------
(***************************************************************************)
(* http_client_socket and http_server_socket (socket/protocol/http.h) at   *)
(* the two ends of a connection.  Both run under a socket_server, which    *)
(* calls ready_read() while bytes are buffered; what is written arrives    *)
(* complete and in order (StreamSocket), if the connection lasts.          *)
(*                                                                         *)
(* A byte of the connection is a byte of a body; a line up to its "\r\n"   *)
(* is one token, because nothing happens before the line is complete.      *)
(* Of the headers those remain that the code looks at, and one other field *)
(* for the application; so does the request line, whose URL the server     *)
(* reads and drops.                                                        *)
(***************************************************************************)
EXTENDS Integers, SequencesExt

CONSTANTS Requests,        \* what the client's application asks for
          Answers,         \* what the server's application answers, by method and by close
          MaxRequests,     \* bound: requests in a run
          AfterBody,       \* whether a request may follow one that has a body
          AfterClose,      \* whether it may follow one that asks to close the connection
          FirstLengths     \* what the client's length may be before it is ever set

NoLength == -1             \* no Content-Length; for the client, length_until_close

ASSUME HttpAssumption ==
  /\ MaxRequests \in Nat /\ AfterBody \in BOOLEAN /\ AfterClose \in BOOLEAN
  /\ FirstLengths \subseteq Nat \cup {NoLength}
  /\ \A r \in Requests : /\ r.length \in Nat \cup {NoLength} /\ r.body \in Nat /\ r.close \in BOOLEAN
                         /\ r.fields \in Nat

VARIABLES
  alive,        \* whether the client's socket is connected
  up, down,    \* what is under way to the server and to the client
  requests,    \* m_requests
  client,      \* m_status, m_response_line, m_response, m_expected_length
  serving,      \* m_status, m_request_line, m_expected_length, and what m_request got last
  left,         \* what m_request still holds of the requests before
  failed,      \* whether bad_message was reported while the connection lasted, or worse
  begun,       \* history: the client's status before it was ever set
  sent,        \* history: what the client's application wrote
  received,    \* history: what http_request_received() got
  answered,    \* history: what it returned
  delivered    \* history: what http_response_received() got

httpVars == <<alive, up, down, requests, client, serving, left, failed,
              begun, sent, received, answered, delivered>>

-----------------------------------------------------------------------------
(* What is written.                                                        *)

\* A token of message number i: its kind, the method or code, and a number: of a byte its
\* place, of a length that length, and of a start line the other field of the headers, 0 if
\* there is none.
Token(is, i, first, n) == [is |-> is, of |-> i, first |-> first, n |-> n]
Byte(i, k) == Token("byte", i, "", k)

\* The start line, the headers and the empty line, then the body.
Written(m, i) ==
  <<Token("start", i, m.first, m.fields)>>
  \o (IF m.close THEN <<Token("close", i, "", 0)>> ELSE <<>>)
  \o (IF m.length # NoLength THEN <<Token("length", i, "", m.length)>> ELSE <<>>)
  \o <<Token("end", i, "", 0)>>
  \o [k \in 1..m.body |-> Byte(i, k)]

\* A message as far as it was read, and the state of a socket between two messages.
Nothing == [of |-> 0, first |-> "", length |-> NoLength, close |-> FALSE, fields |-> 0]
Ready == [status |-> "reading_status", line |-> <<>>, message |-> Nothing, expected |-> 0]

-----------------------------------------------------------------------------
(* Both sockets read lines in the same way.                                *)

\* Whether the line is what it was written as, with no bytes in front.
Clean(s) == s.line = <<>>

\* A byte is no end of a line.
Gather(s, t) == [s EXCEPT !.line = Append(@, t)]

StartLine(s, t) == [s EXCEPT !.line = <<>>, !.message.of = t.of,
                             !.message.first = IF Clean(s) THEN t.first ELSE "garbled",
                             !.message.fields = t.n,
                             !.status = "reading_headers"]
Header(s, t) ==
  [s EXCEPT !.line = <<>>,
            !.message.length = IF t.is = "length" /\ Clean(s) THEN t.n ELSE @,
            !.message.close = @ \/ (t.is = "close" /\ Clean(s))]

\* Lines that are refused: no start line where one must be, or no header and no empty line.
Refused(s, t) ==
  \/ s.status = "reading_status" /\ t.is # "byte" /\ ~(t.is = "end" /\ Clean(s)) /\ ~(t.is = "start" /\ Clean(s))
  \/ s.status = "reading_headers" /\ (t.is = "start" \/ (t.is = "end" /\ ~Clean(s)))

\* A line that is neither refused nor the end of the headers; empty ones before the first are ignored.
Line(s, t) == CASE t.is = "byte" -> Gather(s, t)
                [] t.is = "start" -> StartLine(s, t)
                [] t.is = "end" -> s
                [] OTHER -> Header(s, t)

EndsHeaders(s, t) == s.status = "reading_headers" /\ t.is = "end" /\ Clean(s)

Body(s) == s.status = "reading_body"
Expects(s, length) == [s EXCEPT !.status = "reading_body", !.expected = length]
TakenIn(s, t) == [s EXCEPT !.line = Append(@, t), !.expected = @ - 1]

-----------------------------------------------------------------------------
(* The client.                                                             *)

NoBody(message, request) == message.first \in {"204", "304"} \/ request.first = "HEAD"

\* Mutant: the state is kept when a response is handed over.
EmitStays(c, connected) ==
  \/ requests = <<>> /\ failed' = TRUE /\ alive' = connected /\ UNCHANGED <<requests, client, delivered>>
  \/ /\ requests # <<>>
     /\ delivered' = Append(delivered, [request |-> Head(requests).of, message |-> c.message, body |-> c.line])
     /\ requests' = Tail(requests)
     /\ client' = [c EXCEPT !.message = Nothing, !.line = <<>>]
     /\ alive' = (connected /\ ~(c.message.close \/ Head(requests).close))
     /\ UNCHANGED failed

\* emit_response(): the oldest request is taken to be the one that was answered, and the
\* socket is disconnected if either of the two said so.  With no request there is no front().
Emit(c, connected) ==
  \/ requests = <<>> /\ failed' = TRUE /\ alive' = connected /\ UNCHANGED <<requests, client, delivered>>
  \/ /\ requests # <<>>
     /\ delivered' = Append(delivered, [request |-> Head(requests).of, message |-> c.message, body |-> c.line])
     /\ requests' = Tail(requests)
     /\ client' = Ready
     /\ alive' = (connected /\ ~(c.message.close \/ Head(requests).close))
     /\ UNCHANGED failed

\* What comes after the headers.
ClientEnd(c) ==
  LET interim == c.message.first = "100"
      unasked == ~interim /\ requests = <<>>
      others == <<requests, delivered, alive>>
  IN  CASE interim -> client' = [c EXCEPT !.status = "reading_status"] /\ UNCHANGED <<others, failed>>
        [] unasked -> failed' = TRUE /\ UNCHANGED <<client, others>>
        [] ~interim /\ ~unasked /\ NoBody(c.message, Head(requests)) -> Emit(c, TRUE)
        [] OTHER -> client' = Expects(c, c.message.length) /\ UNCHANGED <<others, failed>>

\* ready_read() for a line, and for a byte of the body; with nothing left to expect the
\* response is complete, which is found out when the next byte is there.
ClientLine(t) ==
  /\ ~Body(client)
  /\ IF EndsHeaders(client, t) THEN ClientEnd(client)
     ELSE /\ failed' = Refused(client, t)
          /\ client' = IF Refused(client, t) THEN client ELSE Line(client, t)
          /\ UNCHANGED <<requests, delivered, alive>>

ClientBody(t) ==
  /\ Body(client) /\ client.expected # 0
  /\ LET c == IF client.expected = NoLength THEN Gather(client, t) ELSE TakenIn(client, t)
     IN  IF c.expected = 0 THEN Emit(c, TRUE)
         ELSE client' = c /\ UNCHANGED <<requests, delivered, alive, failed>>

ClientReads ==
  /\ alive /\ down # <<>> /\ ~failed
  /\ \/ Body(client) /\ client.expected = 0 /\ Emit(client, TRUE) /\ UNCHANGED down
     \/ (ClientLine(Head(down)) \/ ClientBody(Head(down))) /\ down' = Tail(down)
  /\ UNCHANGED <<up, serving, left, begun, sent, received, answered>>

\* Mutant: the latest request is answered first.
WriteRequestInFront(r) ==
  LET i == Len(sent) + 1
  IN  /\ i <= MaxRequests /\ ~failed
      /\ ~AfterBody => \A k \in 1..Len(sent) : sent[k].length = NoLength
      /\ ~AfterClose => \A k \in 1..Len(sent) : ~sent[k].close
      /\ sent' = Append(sent, r)
      /\ requests' = <<[first |-> r.first, close |-> r.close, of |-> i]>> \o requests
      /\ up' = IF alive /\ r.first # "" THEN up \o Written(r, i) ELSE up
      /\ UNCHANGED <<alive, down, client, serving, left, failed, begun, received, answered, delivered>>

\* http_write_request(): what cannot be sent is remembered as well.
WriteRequest(r) ==
  LET i == Len(sent) + 1
  IN  /\ i <= MaxRequests /\ ~failed
      /\ ~AfterBody => \A k \in 1..Len(sent) : sent[k].length = NoLength
      /\ ~AfterClose => \A k \in 1..Len(sent) : ~sent[k].close
      /\ sent' = Append(sent, r)
      /\ requests' = Append(requests, [first |-> r.first, close |-> r.close, of |-> i])
      /\ up' = IF alive /\ r.first # "" THEN up \o Written(r, i) ELSE up
      /\ UNCHANGED <<alive, down, client, serving, left, failed, begun, received, answered, delivered>>

\* disconnected(): the end of the connection may be the end of a body.
Disconnected ==
  IF Body(client) /\ client.expected = NoLength THEN Emit(client, FALSE)
  ELSE alive' = FALSE /\ UNCHANGED <<client, requests, delivered, failed>>

\* The connection is lost with all that was under way, and the watcher reports a hangup.
ConnectionLost ==
  /\ alive /\ ~failed /\ Disconnected
  /\ up' = <<>> /\ down' = <<>>
  /\ UNCHANGED <<serving, left, begun, sent, received, answered>>

\* The client has disconnected, and what it had written may be lost.
RestLost ==
  /\ ~alive /\ up # <<>> /\ ~failed /\ up' = <<>>
  /\ UNCHANGED <<alive, down, requests, client, serving, left, failed, begun, sent, received, answered,
                 delivered>>

-----------------------------------------------------------------------------
(* The server.                                                             *)

\* m_request, which is never reset: a header that the latest request lacks is an earlier one's.
Over(message) ==
  [message EXCEPT !.length = IF @ = NoLength THEN left.length ELSE @,
                  !.close = @ \/ left.close,
                  !.fields = IF @ = 0 THEN left.fields ELSE @]

\* http_write_response(http_request_received(m_request)): the application may move from the
\* request or leave it as it is, and after a body the socket goes on reading one.
Respond(s) ==
  /\ received' = Append(received, [message |-> Over(s.message), body |-> s.line])
  /\ \E a \in Answers[<<s.message.first, Over(s.message).close>>] :
       /\ answered' = Append(answered, a)
       /\ down' = IF alive THEN down \o Written(a, Len(answered) + 1) ELSE down
  /\ left' \in {Nothing, Over(s.message)}
  /\ serving' = [Ready EXCEPT !.status = IF Body(s) THEN "reading_body" ELSE "reading_status"]
  /\ UNCHANGED failed

ServerEnd(s) ==
  IF Over(s.message).length = NoLength THEN Respond(s)
  ELSE serving' = Expects(s, Over(s.message).length) /\ UNCHANGED <<down, left, received, answered, failed>>

\* Bytes in front of a method become part of it.
ServerRefuses(t) == Refused(serving, t) /\ ~(serving.status = "reading_status" /\ t.is = "start")

ServerLine(t) ==
  /\ ~Body(serving)
  /\ IF EndsHeaders(serving, t) THEN ServerEnd(serving)
     ELSE /\ failed' = ServerRefuses(t)
          /\ serving' = IF ServerRefuses(t) THEN serving ELSE Line(serving, t)
          /\ UNCHANGED <<down, left, received, answered>>

\* With nothing left to expect a request is answered, none of the bytes is read, and for
\* these ready_read() is called again, without end.
ServerBody(t) ==
  /\ Body(serving)
  /\ LET s == TakenIn(serving, t)
     IN  IF serving.expected = 0 THEN failed' = TRUE /\ UNCHANGED <<serving, down, left, received, answered>>
         ELSE IF s.expected = 0 THEN Respond(s)
         ELSE serving' = s /\ UNCHANGED <<down, left, received, answered, failed>>

ServerReads ==
  /\ up # <<>> /\ ~failed
  /\ ServerLine(Head(up)) \/ ServerBody(Head(up))
  /\ up' = Tail(up)
  /\ UNCHANGED <<alive, requests, client, begun, sent, delivered>>

-----------------------------------------------------------------------------

Kinds == {"reading_status", "reading_headers", "reading_body"}

\* The client's public constructor sets neither the status nor the length.  A status that is
\* none of the three is treated as the first; a length counts only where a body is read.
HttpInit ==
  /\ alive = TRUE /\ up = <<>> /\ down = <<>> /\ requests = <<>>
  /\ begun \in Kinds
  /\ IF begun = "reading_status" THEN client = Ready
     ELSE client \in {[Ready EXCEPT !.status = begun, !.expected = n] : n \in FirstLengths}
  /\ serving = Ready /\ left = Nothing /\ failed = FALSE
  /\ sent = <<>> /\ received = <<>> /\ answered = <<>> /\ delivered = <<>>

HttpNext == \/ \E r \in Requests : WriteRequest(r)
            \/ ClientReads \/ ServerReads \/ ConnectionLost \/ RestLost

\* Both socket_servers go on serving their socket while there is something to read.
HttpFairness ==
  /\ []<>~(alive /\ down # <<>> /\ ~failed) \/ []<><<down' # down \/ client' # client>>_<<down, client>>
  /\ []<>~(up # <<>> /\ ~failed) \/ []<><<up' # up>>_up

HttpSpec == HttpInit /\ [][HttpNext]_httpVars /\ HttpFairness

-----------------------------------------------------------------------------
(* Properties.                                                             *)

HttpTypeOK ==
  /\ begun \in Kinds
  /\ alive \in BOOLEAN /\ failed \in BOOLEAN
  /\ \A s \in {client, serving} :
       s.status \in Kinds /\ s.expected \in Nat \cup {NoLength} /\ s.message.of \in 0..MaxRequests
  /\ Len(requests) <= Len(sent) /\ Len(sent) <= MaxRequests

\* What the applications must keep to for MessagesArriveWhole: a request has a body only if it
\* says how long it is and is then the last, as is one that asks to close; an answer is no
\* interim one, and it has the body that its headers announce, or none where none may be.
Orderly ==
  /\ ~AfterBody /\ ~AfterClose
  /\ \A r \in Requests :
       /\ r.first # "" /\ r.body = IF r.length = NoLength THEN 0 ELSE r.length
       /\ \A a \in Answers[<<r.first, r.close>>] :
            /\ a.length \in Nat \cup {NoLength} /\ a.body \in Nat /\ a.close \in BOOLEAN
            /\ a.fields \in Nat /\ a.first # "100"
            /\ IF NoBody(a, r) THEN a.body = 0
               ELSE a.length = a.body \/ (a.length = NoLength /\ r.close)

(* The two sockets understand each other: no line is refused, no response comes that   *)
(* nobody asked for, and no handler is called again and again for bytes it does not    *)
(* read (ready_read of both).                                                          *)
PeersUnderstandEachOther == ~failed

(* The server's application gets the requests as they were written but for the URL,    *)
(* each once, in order, with its whole body and all of its headers, wherever the       *)
(* connection cuts them; a field that it does not have may be one of an earlier        *)
(* request's, and nothing else may (m_request is handed over and never reset).         *)
RequestsArriveWhole ==
  /\ Len(received) <= Len(sent)
  /\ \A i \in DOMAIN received :
       LET m == received[i].message
       IN  /\ m.of = i /\ m.first = sent[i].first /\ m.length = sent[i].length /\ m.close = sent[i].close
           /\ \/ m.fields = sent[i].fields
              \/ sent[i].fields = 0 /\ \E k \in 1..(i - 1) : m.fields = sent[k].fields
           /\ received[i].body = [k \in 1..sent[i].body |-> Byte(i, k)]

(* However requests are written one behind the other, every response is handed over    *)
(* with the request that it answers, once, and in order (m_requests, emit_response).   *)
ResponsesMatchRequests ==
  \A i \in DOMAIN delivered :
    /\ delivered[i].request = i /\ delivered[i].message.of = i
    /\ i <= Len(answered) /\ delivered[i].message.first = answered[i].first

(* A response whose length was announced is handed over with all of its body and       *)
(* nothing else, even if the connection is lost; one that ends with the connection is  *)
(* at least a beginning of it (ready_read, disconnected).                              *)
BodiesAreWhole ==
  \A i \in DOMAIN delivered \cap DOMAIN answered :
    LET whole == [k \in 1..answered[i].body |-> Byte(i, k)]
    IN  IF answered[i].length = NoLength THEN IsPrefix(delivered[i].body, whole)
        ELSE delivered[i].body = whole

(* Every request is answered as long as the connection lasts, unless an answer only    *)
(* ends with it or, announced with no length at all, waits for bytes to come after it; *)
(* if the client's status, which its constructor does not set, began as it should.     *)
EveryRequestIsAnswered ==
  \A i \in 1..MaxRequests :
    begun = "reading_status" /\ <>(Len(sent) >= i) =>
      \/ <>(Len(delivered) >= i \/ ~alive)
      \/ <>[](Body(client) /\ client.expected \in {NoLength, 0})

(* Requests arrive whole; if the client's status, which its constructor does not set,  *)
(* began as it should, so do the responses, with their requests and in order.          *)
MessagesArriveWhole ==
  /\ RequestsArriveWhole
  /\ begun = "reading_status" =>
       HttpTypeOK /\ PeersUnderstandEachOther /\ ResponsesMatchRequests /\ BodiesAreWhole

=============================================================================
