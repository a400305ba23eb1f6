------------------------------ MODULE HttpContext ------------------------------
(***************************************************************************)
(* net::HttpContext and net::HttpRequest: the parser that HttpServer runs  *)
(* over the input buffer of a connection whenever data arrives.            *)
(*                                                                         *)
(* The buffer is a sequence of symbols: CR, LF, and the texts between them *)
(* that a client writes in one go - a request line, a header, a text       *)
(* without a space or a colon.  Two texts with no CRLF between them are    *)
(* one line to the parser.                                                 *)
(***************************************************************************)
EXTENDS Integers, Sequences, FiniteSets, SequencesExt, FiniteSetsExt

CR == [type |-> "CR"]
LF == [type |-> "LF"]
Text == [type |-> "text"]

Methods == {"GET", "POST", "HEAD", "PUT", "DELETE"}
Fields  == {"Connection", "Host"}

\* A request line; version "none" stands for a line with a single space.
RequestLine(method, path, query, version) ==
    [type |-> "request", method |-> method, path |-> path, query |-> query, version |-> version]

Header(field, value) == [type |-> "header", field |-> field, value |-> value]

\* What is between two CRLFs, and all that a client can send.
RequestLines == [type : {"request"}, method : STRING, path : STRING, query : STRING, version : STRING]
Headers      == [type : {"header"}, field : Fields, value : STRING]
Symbols      == {CR, LF, Text} \cup RequestLines \cup Headers

\* HttpRequest(); a field that is not in headers_ has the value that getHeader()
\* returns for it.
NewRequest == [method |-> "kInvalid", version |-> "kUnknown", path |-> "", query |-> "",
               headers |-> [f \in Fields |-> ""]]

NewContext == [state |-> "kExpectRequestLine", request |-> NewRequest]

\* Variant of reset: a request starts with the headers of the one before.
resetKeepsHeaders(context) ==
    [state |-> "kExpectRequestLine", request |-> [NewRequest EXCEPT !.headers = context.request.headers]]

\* Variant of reset: leaves method_ alone.
resetKeepsMethod(context) ==
    [state |-> "kExpectRequestLine", request |-> [NewRequest EXCEPT !.method = context.request.method]]

reset(context) == NewContext

gotAll(context) == context.state = "kGotAll"

\* The assertion of setMethod(), which is called for a line with a space in it.
HasSpace(line) == \E i \in DOMAIN line : line[i].type \in {"request", "header"}
AssertFails(request, line) == HasSpace(line) /\ request.method # "kInvalid"

\* request_ after processRequestLine(): it keeps what was set before the line
\* turned out to be bad.
processRequestLine(request, line) ==
    LET r == line[1]
        withMethod == [request EXCEPT !.method = r.method]
        withTarget == [withMethod EXCEPT !.path = r.path,
                                         !.query = IF r.query = "" THEN @ ELSE r.query]
    IN IF Len(line) # 1 \/ r.type # "request" \/ r.method \notin Methods THEN request
       ELSE IF r.version = "none" THEN withMethod
       ELSE IF r.version \in {"kHttp10", "kHttp11"} THEN [withTarget EXCEPT !.version = r.version]
       ELSE withTarget

\* Its result.
Succeeds(line) ==
    /\ Len(line) = 1
    /\ line[1].type = "request"
    /\ line[1].method \in Methods
    /\ line[1].version \in {"kHttp10", "kHttp11"}

\* addHeader(); of two headers with the same name the last one counts.
addHeader(request, header) == [request EXCEPT !.headers[header.field] = header.value]

HasColon(line) == Len(line) = 1 /\ line[1].type = "header"

\* Where the first CRLF of a buffer is, 0 if there is none.
findCRLF(buffer) ==
    LET found == {i \in 1..(Len(buffer) - 1) : buffer[i] = CR /\ buffer[i + 1] = LF}
    IN IF found = {} THEN 0 ELSE Min(found)

FirstLine(buffer) == SubSeq(buffer, 1, findCRLF(buffer) - 1)

\* retrieveUntil(crlf + 2)
AfterLine(buffer) == SubSeq(buffer, findCRLF(buffer) + 2, Len(buffer))
================================================================================
