------------------------------- MODULE HttpServer -------------------------------
(***************************************************************************)
(* net::HttpServer with HttpResponse: what it makes of the requests that   *)
(* clients send in arbitrary pieces.  parseRequest() is one step for each  *)
(* turn of its loop.  TcpConnection has neither a context nor shutdown()   *)
(* yet; they are modelled from how this code uses them.                    *)
(***************************************************************************)
EXTENDS HttpContext

CONSTANTS
    Conns,         \* connections, each with a client
    Programs,      \* the sequences of messages a client may send
    CallbackCloses \* what the application's callback may give to
                   \* setCloseConnection(), if it does not leave it alone

\* A message is a request line, good or not, headers and a body.
ASSUME ProgramsAssumption ==
    Programs \subseteq Seq([line : RequestLines, headers : Seq(Headers), body : Seq(Symbols)])
ASSUME CallbackAssumption == CallbackCloses \subseteq BOOLEAN

VARIABLES
    program,     \* the messages of each client
    waits,       \* whether it waits for an answer before it goes on
    sent,        \* how many of them the client has sent
    inbound,     \* what the network holds
    buffer,      \* the input buffer of the connection
    context,     \* its HttpContext
    handler,     \* onMessage(): "idle", "parsing" (in the loop of parseRequest),
                 \* "bad" or "ok" (what parseRequest returned)
    handled,     \* the requests given to httpCallback_
    answers,     \* what was sent back: the status, and whether the length is given
    shut,        \* shutdown() was called
    ended        \* "no", or how the process ended: "aborted", "spinning"

vars == <<program, waits, sent, inbound, buffer, context, handler, handled, answers, shut, ended>>

\* onConnection() gives each connection a context.
Init ==
    /\ program \in [Conns -> Programs]
    /\ waits \in [Conns -> BOOLEAN]
    /\ sent = [c \in Conns |-> 0]
    /\ inbound = [c \in Conns |-> <<>>]
    /\ buffer = [c \in Conns |-> <<>>]
    /\ context = [c \in Conns |-> NewContext]
    /\ handler = [c \in Conns |-> "idle"]
    /\ handled = [c \in Conns |-> <<>>]
    /\ answers = [c \in Conns |-> <<>>]
    /\ shut = [c \in Conns |-> FALSE]
    /\ ended = "no"

------------------------------------------------------------------------------
(* The clients.                                                            *)

OnWire(m) ==
    <<m.line, CR, LF>> \o FlattenSeq([i \in DOMAIN m.headers |-> <<m.headers[i], CR, LF>>])
                       \o <<CR, LF>> \o m.body

\* A client that asks for it, or of the old version, reads until the connection ends.
ReadsToEnd(m) ==
    LET values == {m.headers[i].value : i \in {j \in DOMAIN m.headers : m.headers[j].field = "Connection"}}
    IN "close" \in values \/ (m.line.version = "kHttp10" /\ "Keep-Alive" \notin values)

\* The answers whose end the client knows.
Received(c) ==
    IF shut[c] THEN Len(answers[c])
    ELSE Cardinality({i \in DOMAIN answers[c] :
             answers[c][i].length /\ (i \in DOMAIN program[c] => ~ReadsToEnd(program[c][i]))})

SendMessage(c) ==
    /\ sent[c] < Len(program[c])
    /\ waits[c] => Received(c) >= sent[c] /\ ~shut[c]
    /\ sent' = [sent EXCEPT ![c] = @ + 1]
    /\ inbound' = [inbound EXCEPT ![c] = @ \o OnWire(program[c][sent[c] + 1])]
    /\ UNCHANGED <<program, waits, buffer, context, handler, handled, answers, shut, ended>>

------------------------------------------------------------------------------
(* The server.                                                             *)

\* Sends an answer and perhaps shuts down; after that nothing more is sent.
Answer(c, response, close) ==
    /\ answers' = IF shut[c] THEN answers ELSE [answers EXCEPT ![c] = Append(@, response)]
    /\ shut' = [shut EXCEPT ![c] = @ \/ close]

\* HttpResponse::appendToBuffer: the length is given when the connection stays open.
appendToBuffer(closeConnection) == [status |-> "answered", length |-> ~closeConnection]

BadRequest == [status |-> "bad", length |-> FALSE]

\* Variant of Closes: forgets the version.
ClosesIfAsked(request) == request.headers["Connection"] = "close"

\* Whether onRequest() proposes to close the connection.
Closes(request) ==
    \/ request.headers["Connection"] = "close"
    \/ request.version = "kHttp10" /\ request.headers["Connection"] # "Keep-Alive"

\* onRequest() with a callback that leaves the proposal or not; the default one
\* always closes.
onRequest(c, request) ==
    \E closeConnection \in {Closes(request)} \cup CallbackCloses :
        Answer(c, appendToBuffer(closeConnection), closeConnection)

clientVars == <<program, waits, sent>>

\* k symbols are read into the buffer, and onMessage() is called.
Arrive(c, k) ==
    /\ handler[c] = "idle"
    /\ k \in 1..Len(inbound[c])
    /\ inbound' = [inbound EXCEPT ![c] = SubSeq(@, k + 1, Len(@))]
    /\ buffer' = [buffer EXCEPT ![c] = @ \o SubSeq(inbound[c], 1, k)]
    /\ handler' = [handler EXCEPT ![c] = "parsing"]
    /\ UNCHANGED <<clientVars, context, handled, answers, shut, ended>>

InState(c, state) == handler[c] = "parsing" /\ context[c].state = state
HasLine(c) == findCRLF(buffer[c]) # 0

\* The first line is a request line: it stays in the buffer when it is bad.
ParseRequestLine(c) ==
    LET line == FirstLine(buffer[c]) IN
    /\ InState(c, "kExpectRequestLine")
    /\ HasLine(c)
    /\ ~AssertFails(context[c].request, line)
    /\ context' = [context EXCEPT ![c].request = processRequestLine(@, line),
                                  ![c].state = IF Succeeds(line) THEN "kExpectHeaders" ELSE @]
    /\ buffer' = IF Succeeds(line) THEN [buffer EXCEPT ![c] = AfterLine(@)] ELSE buffer
    /\ handler' = IF Succeeds(line) THEN handler ELSE [handler EXCEPT ![c] = "bad"]
    /\ UNCHANGED <<clientVars, inbound, handled, answers, shut, ended>>

ParseHeader(c) ==
    LET line == FirstLine(buffer[c]) IN
    /\ InState(c, "kExpectHeaders")
    /\ HasLine(c)
    /\ HasColon(line)
    /\ context' = [context EXCEPT ![c].request = addHeader(@, line[1])]
    /\ buffer' = [buffer EXCEPT ![c] = AfterLine(@)]
    /\ UNCHANGED <<clientVars, inbound, handler, handled, answers, shut, ended>>

\* Any line without a colon ends the headers, and with them the request.
ParseEnd(c) ==
    /\ InState(c, "kExpectHeaders")
    /\ HasLine(c)
    /\ ~HasColon(FirstLine(buffer[c]))
    /\ context' = [context EXCEPT ![c].state = "kGotAll"]
    /\ buffer' = [buffer EXCEPT ![c] = AfterLine(@)]
    /\ handler' = [handler EXCEPT ![c] = "ok"]
    /\ UNCHANGED <<clientVars, inbound, handled, answers, shut, ended>>

NeedsMore(c) ==
    /\ InState(c, "kExpectRequestLine") \/ InState(c, "kExpectHeaders")
    /\ ~HasLine(c)
    /\ handler' = [handler EXCEPT ![c] = "ok"]
    /\ UNCHANGED <<clientVars, inbound, buffer, context, handled, answers, shut, ended>>

\* The assertion in setMethod() fails.
Aborts(c) ==
    /\ InState(c, "kExpectRequestLine")
    /\ HasLine(c)
    /\ AssertFails(context[c].request, FirstLine(buffer[c]))

\* The loop of parseRequest() does nothing in these states, for ever.
Spins(c) == InState(c, "kExpectBody") \/ InState(c, "kGotAll")

End(c) ==
    /\ Aborts(c) \/ Spins(c)
    /\ ended' = IF Aborts(c) THEN "aborted" ELSE "spinning"
    /\ UNCHANGED <<clientVars, inbound, buffer, context, handler, handled, answers, shut>>

\* The rest of onMessage().  A second request waits in the buffer for more data.
Return(c) ==
    /\ handler[c] \in {"bad", "ok"}
    /\ handler' = [handler EXCEPT ![c] = "idle"]
    /\ IF handler[c] = "bad" THEN Answer(c, BadRequest, TRUE)
       ELSE IF gotAll(context[c]) THEN onRequest(c, context[c].request)
       ELSE UNCHANGED <<answers, shut>>
    /\ handled' = IF gotAll(context[c])
                  THEN [handled EXCEPT ![c] = Append(@, context[c].request)] ELSE handled
    /\ context' = IF gotAll(context[c])
                  THEN [context EXCEPT ![c] = reset(@)] ELSE context
    /\ UNCHANGED <<clientVars, inbound, buffer, ended>>

Server(c) ==
    \/ \E k \in 1..Len(inbound[c]) : Arrive(c, k)
    \/ ParseRequestLine(c) \/ ParseHeader(c) \/ ParseEnd(c) \/ NeedsMore(c)
    \/ End(c) \/ Return(c)

Next ==
    /\ ended = "no"
    /\ \E c \in Conns : SendMessage(c) \/ Server(c)

Spec == Init /\ [][Next]_vars

\* What was sent arrives, and the server handles it.
Fairness == \A c \in Conns : WF_vars(ended = "no" /\ Server(c))

FairSpec == Spec /\ Fairness

------------------------------------------------------------------------------

\* The request that a message carries, as far as its first n headers tell.
PartOf(m, n) ==
    [method |-> m.line.method, version |-> m.line.version, path |-> m.line.path,
     query |-> m.line.query,
     headers |-> [f \in Fields |->
        LET mine == {i \in 1..n : m.headers[i].field = f}
        IN IF mine = {} THEN "" ELSE m.headers[Max(mine)].value]]

RequestOf(m) == PartOf(m, Len(m.headers))

\* The parser knows no bodies: a body that begins like a request is taken for one.
ReadsAsRequest(body) == body # <<>> /\ Succeeds(<<Head(body)>>)

\* The callback is given the requests that the client sent, in order and whole,
\* however the stream was cut: nothing of one leaks into the next, and after a
\* bad request or a body none is made up - up to the first body that itself reads
\* as a request, for which the parser makes one up (HttpContext.cc:51-107,
\* HttpServer.cc:41-57).
RequestsIntact ==
    \A c \in Conns : \A i \in DOMAIN handled[c] :
        (\A j \in DOMAIN program[c] : j < i => ~ReadsAsRequest(program[c][j].body))
            => i <= Len(program[c]) /\ handled[c][i] = RequestOf(program[c][i])

\* What the parser was written for: a good request line, headers, no body.
WellFormed(m) == Succeeds(<<m.line>>) /\ m.body = <<>>

\* The loop of parseRequest() never spins, and the assertion of setMethod() fails
\* only for a client that has sent something else than well-formed requests and
\* that the server has shut down on.  One refused line is enough: it stays in the
\* buffer, method_ stays set, and the next piece of the same message makes the
\* server parse it again (HttpContext.cc:57-72, HttpRequest.h:42-44).
EndsOnlyOnBadRequest ==
    /\ ended # "spinning"
    /\ ended = "aborted" =>
          \E c \in Conns : /\ handler[c] = "parsing" /\ shut[c]
                           /\ \E i \in 1..sent[c] : ~WellFormed(program[c][i])

\* setMethod() asserts that a request's method has not been set before
\* (HttpRequest.h:44).
MethodSetOnce == ended # "aborted"

\* A client that waits for its answers gets one for each request, and can tell where
\* it ends: by its length or, as a client that asked for that and one of HTTP/1.0 do
\* in any case, because the server shuts the connection down (HttpServer.cc:46-72).
EveryRequestAnswered ==
    \A c \in Conns : \A i \in 1..3 :
        waits[c] /\ sent[c] = i ~> (Received(c) >= i \/ ended # "no")
================================================================================
