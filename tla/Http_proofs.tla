----------------------------- MODULE Http_proofs -----------------------------
(***************************************************************************)
(* Proofs about HttpServer and about the Buffer that it parses.            *)
(*                                                                         *)
(* HttpServer: for any programs of any number of clients, and however the  *)
(* network cuts their streams, the callback gets the requests as they were *)
(* sent, and well-formed requests never end the process.                   *)
(*                                                                         *)
(* Buffer: for every initial size and every length each operation keeps    *)
(* the indices in order and inside the vector, the assertions of           *)
(* makeSpace() hold, and what can be read is the queue of bytes of         *)
(* ByteQueue.tla.                                                          *)
(***************************************************************************)
EXTENDS HttpServer, Buffer, SequenceLemmas

------------------------------------------------------------------------------
(* HttpServer: types.                                                      *)

States   == {"kExpectRequestLine", "kExpectHeaders", "kGotAll"}
Texts    == STRING \cup {"", "kInvalid", "kUnknown"}
Requests == [method : Texts, version : Texts, path : Texts, query : Texts,
             headers : [Fields -> Texts]]
Contexts == [state : States, request : Requests]
Messages == [line : RequestLines, headers : Seq(Headers), body : Seq(Symbols)]

HttpTypeOK ==
    /\ program \in [Conns -> Programs]
    /\ sent \in [Conns -> Nat]
    /\ inbound \in [Conns -> Seq(Symbols)]
    /\ buffer \in [Conns -> Seq(Symbols)]
    /\ context \in [Conns -> Contexts]
    /\ handler \in [Conns -> {"idle", "parsing", "bad", "ok"}]
    /\ handled \in [Conns -> Seq(Requests)]
    /\ shut \in [Conns -> BOOLEAN]

LEMMA SymbolType ==
    ASSUME NEW r \in Symbols
    PROVE  /\ r.type = "request" => r \in RequestLines
           /\ r.type = "header" => r \in Headers
  <1>1. r \in RequestLines => r.type = "request"
    BY DEF RequestLines
  <1>2. r \in Headers => r.type = "header"
    BY DEF Headers
  <1>3. r \in {CR, LF, Text} => r.type # "request" /\ r.type # "header"
    BY DEF CR, LF, Text
  <1> QED
    BY <1>1, <1>2, <1>3 DEF Symbols

LEMMA NewRequestType == NewRequest \in Requests /\ NewContext \in Contexts
  <1>1. [f \in Fields |-> ""] \in [Fields -> Texts]
    BY DEF Texts
  <1>2. NewRequest \in Requests
    BY <1>1 DEF NewRequest, Requests, Texts
  <1> QED
    BY <1>2 DEF NewContext, Contexts, States

LEMMA RequestLineType ==
    ASSUME NEW request \in Requests, NEW line \in Seq(Symbols)
    PROVE  processRequestLine(request, line) \in Requests
  <1> DEFINE r == line[1]
             withMethod == [request EXCEPT !.method = r.method]
             withTarget == [withMethod EXCEPT !.path = r.path,
                                              !.query = IF r.query = "" THEN @ ELSE r.query]
             whole == [withTarget EXCEPT !.version = r.version]
  <1>1. CASE Len(line) # 1 \/ r.type # "request" \/ r.method \notin Methods
    <2>1. processRequestLine(request, line) = request
      BY <1>1, Zenon DEF processRequestLine
    <2> QED
      BY <2>1
  <1>2. CASE ~(Len(line) # 1 \/ r.type # "request" \/ r.method \notin Methods)
    <2>1. r \in Symbols /\ r.type = "request"
      BY <1>2, ElementOfSeq
    <2>2. r \in RequestLines
      BY <2>1, SymbolType
    <2> HIDE DEF r
    <2>3. withMethod \in Requests
      BY <2>2 DEF Requests, RequestLines, Texts
    <2> HIDE DEF withMethod
    <2>4. withTarget \in Requests
      BY <2>2, <2>3 DEF Requests, RequestLines, Texts
    <2> HIDE DEF withTarget
    <2>5. whole \in Requests
      BY <2>2, <2>4 DEF Requests, RequestLines, Texts
    <2> HIDE DEF whole
    <2>6. processRequestLine(request, line) \in {request, withMethod, withTarget, whole}
      BY DEF processRequestLine, whole, withTarget, withMethod, r
    <2> QED
      BY <2>3, <2>4, <2>5, <2>6
  <1> QED
    BY <1>1, <1>2

LEMMA AddHeaderType ==
    ASSUME NEW request \in Requests, NEW h \in Headers
    PROVE  addHeader(request, h) \in Requests
  BY DEF addHeader, Requests, Headers, Texts

LEMMA FindCRLFType ==
    ASSUME NEW b \in Seq(Symbols)
    PROVE  \/ findCRLF(b) = 0
           \/ /\ findCRLF(b) \in 1 .. Len(b) - 1
              /\ b[findCRLF(b)] = CR /\ b[findCRLF(b) + 1] = LF
              /\ \A i \in 1 .. Len(b) - 1 : b[i] = CR /\ b[i + 1] = LF => findCRLF(b) <= i
  <1> DEFINE found == {i \in 1 .. (Len(b) - 1) : b[i] = CR /\ b[i + 1] = LF}
  <1>1. CASE found = {}
    BY <1>1 DEF findCRLF
  <1>2. CASE found # {}
    <2>0. Len(b) \in Nat
      BY LenProperties
    <2>1. found \in SUBSET Nat
      BY <2>0
    <2>2. PICK m \in found : \A n \in found : m <= n
      <3> HIDE DEF found
      <3> QED
        BY <1>2, <2>1, LeastNatural
    <2>3. findCRLF(b) = CHOOSE x \in found : \A y \in found : x <= y
      BY <1>2, Zenon DEF findCRLF, Min
    <2>4. findCRLF(b) \in found /\ \A y \in found : findCRLF(b) <= y
      <3> HIDE DEF found
      <3> QED
        BY <2>2, <2>3
    <2> QED
      BY <2>4
  <1> QED
    BY <1>1, <1>2

LEMMA LineType ==
    ASSUME NEW b \in Seq(Symbols)
    PROVE  FirstLine(b) \in Seq(Symbols) /\ AfterLine(b) \in Seq(Symbols)
  <1>0. Len(b) \in Nat
    BY LenProperties
  <1>1. findCRLF(b) \in Nat /\ findCRLF(b) <= Len(b)
    BY <1>0, FindCRLFType
  <1>2. \A i \in 1 .. findCRLF(b) - 1 : b[i] \in Symbols
    BY <1>0, <1>1, ElementOfSeq
  <1>3. \A i \in findCRLF(b) + 2 .. Len(b) : b[i] \in Symbols
    BY <1>0, <1>1, ElementOfSeq
  <1> QED
    BY <1>0, <1>1, <1>2, <1>3, SubSeqProperties DEF FirstLine, AfterLine


LEMMA OnWireType ==
    ASSUME NEW m \in Messages
    PROVE  OnWire(m) \in Seq(Symbols)
  <1> DEFINE pieces == [i \in DOMAIN m.headers |-> <<m.headers[i], CR, LF>>]
  <1>1. m.line \in Symbols /\ CR \in Symbols /\ LF \in Symbols
    BY DEF Symbols, Messages
  <1>2. m.headers \in Seq(Headers) /\ m.body \in Seq(Symbols)
    BY DEF Messages
  <1>3. \A i \in DOMAIN m.headers : m.headers[i] \in Symbols
    BY <1>2, ElementOfSeq, LenProperties DEF Symbols
  <1>4. Len(m.headers) \in Nat /\ DOMAIN m.headers = 1 .. Len(m.headers)
    BY <1>2, LenProperties
  <1>5. pieces \in Seq(Seq(Symbols))
    <2>1. \A i \in 1 .. Len(m.headers) : <<m.headers[i], CR, LF>> \in Seq(Symbols)
      BY <1>1, <1>3, <1>4
    <2> QED
      BY <1>4, <2>1, SeqDef
  <1>6. FlattenSeq(pieces) \in Seq(Symbols)
    BY <1>5, FlattenType
  <1>7. <<m.line, CR, LF>> \in Seq(Symbols) /\ <<CR, LF>> \in Seq(Symbols)
    BY <1>1
  <1> HIDE DEF pieces
  <1>8. (<<m.line, CR, LF>> \o FlattenSeq(pieces)) \o <<CR, LF>> \o m.body \in Seq(Symbols)
    BY <1>2, <1>6, <1>7, ConcatProperties
  <1> QED
    BY <1>8 DEF OnWire, pieces

\* A message of a program.
LEMMA MessageType ==
    ASSUME HttpTypeOK, NEW c \in Conns, NEW i \in 1 .. Len(program[c])
    PROVE  program[c][i] \in Messages
  <1>1. program[c] \in Seq(Messages)
    BY ProgramsAssumption DEF HttpTypeOK, Messages
  <1> QED
    BY <1>1, ElementOfSeq

------------------------------------------------------------------------------
(* The parser and the handler of a connection.                             *)

ParserSound(c) ==
    /\ handler[c] = "parsing" => context[c].state # "kGotAll"
    /\ context[c].state = "kGotAll" => handler[c] = "ok"
    /\ handler[c] = "bad" => context[c].state = "kExpectRequestLine"
    /\ context[c].state = "kExpectRequestLine" /\ context[c].request.method # "kInvalid"
          => shut[c] \/ handler[c] = "bad"

\* The process ends only in setMethod(), for a line that was refused before.
EndSound ==
    /\ ended # "spinning"
    /\ ended = "aborted" =>
          \E c \in Conns : /\ handler[c] = "parsing" /\ context[c].state = "kExpectRequestLine"
                           /\ context[c].request.method # "kInvalid"

ParserInv ==
    /\ HttpTypeOK
    /\ \A c \in Conns : ParserSound(c)
    /\ EndSound

LEMMA InitParser == Init => ParserInv
  <1> SUFFICES ASSUME Init PROVE ParserInv
    OBVIOUS
  <1>1. HttpTypeOK
    <2>1. <<>> \in Seq(Symbols) /\ <<>> \in Seq(Requests)
      BY EmptySeq
    <2> QED
      BY <2>1, NewRequestType DEF Init, HttpTypeOK
  <1>2. ASSUME NEW c \in Conns PROVE ParserSound(c)
    BY DEF Init, ParserSound, NewContext, NewRequest
  <1> QED
    BY <1>1, <1>2 DEF ParserInv, EndSound, Init

\* A step that leaves the parser of every connection alone.
LEMMA SendParser ==
    ASSUME ParserInv, ended = "no", NEW c \in Conns, SendMessage(c)
    PROVE  ParserInv'
  <1>1. HttpTypeOK
    BY DEF ParserInv
  <1>2. sent[c] + 1 \in 1 .. Len(program[c])
    <2>1. sent[c] \in Nat /\ sent[c] < Len(program[c])
      BY <1>1 DEF SendMessage, HttpTypeOK
    <2>2. Len(program[c]) \in Nat
      <3>1. program[c] \in Seq(Messages)
        BY <1>1, ProgramsAssumption DEF HttpTypeOK, Messages
      <3> QED
        BY <3>1, LenProperties
    <2> QED
      BY <2>1, <2>2
  <1>3. OnWire(program[c][sent[c] + 1]) \in Seq(Symbols)
    BY <1>1, <1>2, MessageType, OnWireType
  <1>4. inbound[c] \o OnWire(program[c][sent[c] + 1]) \in Seq(Symbols)
    BY <1>1, <1>3, ConcatProperties DEF HttpTypeOK
  <1>5. HttpTypeOK'
    BY <1>1, <1>4 DEF HttpTypeOK, SendMessage
  <1>6. \A d \in Conns : ParserSound(d)'
    BY DEF ParserInv, ParserSound, SendMessage
  <1> QED
    BY <1>5, <1>6 DEF ParserInv, EndSound, SendMessage

LEMMA ArriveParser ==
    ASSUME ParserInv, ended = "no", NEW c \in Conns, NEW k, Arrive(c, k)
    PROVE  ParserInv'
  <1>1. HttpTypeOK
    BY DEF ParserInv
  <1>2. inbound[c] \in Seq(Symbols) /\ buffer[c] \in Seq(Symbols) /\ k \in 1 .. Len(inbound[c])
    BY <1>1 DEF HttpTypeOK, Arrive
  <1>3. Len(inbound[c]) \in Nat /\ k \in Nat
    BY <1>2, LenProperties
  <1>4. /\ SubSeq(inbound[c], k + 1, Len(inbound[c])) \in Seq(Symbols)
        /\ SubSeq(inbound[c], 1, k) \in Seq(Symbols)
    <2>1. /\ \A i \in k + 1 .. Len(inbound[c]) : inbound[c][i] \in Symbols
          /\ \A i \in 1 .. k : inbound[c][i] \in Symbols
      BY <1>2, <1>3, ElementOfSeq
    <2> QED
      BY <1>3, <2>1, SubSeqProperties
  <1>5. buffer[c] \o SubSeq(inbound[c], 1, k) \in Seq(Symbols)
    BY <1>2, <1>4, ConcatProperties
  <1>6. HttpTypeOK'
    BY <1>1, <1>4, <1>5 DEF HttpTypeOK, Arrive, clientVars
  <1>7. ASSUME NEW d \in Conns PROVE ParserSound(d)'
    <2>1. ParserSound(d)
      BY DEF ParserInv
    <2> QED
      BY <1>1, <2>1 DEF ParserSound, Arrive, HttpTypeOK
  <1> QED
    BY <1>6, <1>7 DEF ParserInv, EndSound, Arrive

LEMMA ParseRequestLineParser ==
    ASSUME ParserInv, ended = "no", NEW c \in Conns, ParseRequestLine(c)
    PROVE  ParserInv'
  <1> DEFINE line == FirstLine(buffer[c])
             request == processRequestLine(context[c].request, line)
  <1>1. HttpTypeOK
    BY DEF ParserInv
  <1>2. line \in Seq(Symbols) /\ AfterLine(buffer[c]) \in Seq(Symbols) /\ context[c] \in Contexts
    BY <1>1, LineType DEF HttpTypeOK
  <1>3. request \in Requests
    BY <1>2, RequestLineType DEF Contexts
  <1>4. /\ handler[c] = "parsing" /\ context[c].state = "kExpectRequestLine"
        /\ context' = [context EXCEPT ![c].request = request,
                                      ![c].state = IF Succeeds(line) THEN "kExpectHeaders" ELSE @]
        /\ buffer' = IF Succeeds(line) THEN [buffer EXCEPT ![c] = AfterLine(@)] ELSE buffer
        /\ handler' = IF Succeeds(line) THEN handler ELSE [handler EXCEPT ![c] = "bad"]
        /\ UNCHANGED <<clientVars, inbound, handled, answers, shut, ended>>
    BY DEF ParseRequestLine, InState
  <1> HIDE DEF request, line
  <1>5. /\ context'[c] \in Contexts
        /\ context'[c].state = IF Succeeds(line) THEN "kExpectHeaders" ELSE "kExpectRequestLine"
        /\ \A d \in Conns : d # c => context'[d] = context[d]
        /\ context' \in [Conns -> Contexts]
    BY <1>1, <1>2, <1>3, <1>4 DEF HttpTypeOK, Contexts, States
  <1>6. HttpTypeOK'
    BY <1>1, <1>2, <1>4, <1>5 DEF HttpTypeOK, clientVars
  <1>7. ASSUME NEW d \in Conns PROVE ParserSound(d)'
    <2>1. ParserSound(d)
      BY DEF ParserInv
    <2>2. CASE d = c
      BY <1>1, <1>4, <1>5, <2>2 DEF ParserSound, HttpTypeOK
    <2>3. CASE d # c
      BY <1>1, <1>4, <1>5, <2>1, <2>3 DEF ParserSound, HttpTypeOK
    <2> QED
      BY <2>2, <2>3
  <1> QED
    BY <1>4, <1>6, <1>7 DEF ParserInv, EndSound

LEMMA ParseHeaderParser ==
    ASSUME ParserInv, ended = "no", NEW c \in Conns, ParseHeader(c)
    PROVE  ParserInv'
  <1> DEFINE line == FirstLine(buffer[c])
             request == addHeader(context[c].request, line[1])
  <1>1. HttpTypeOK
    BY DEF ParserInv
  <1>2. line \in Seq(Symbols) /\ AfterLine(buffer[c]) \in Seq(Symbols) /\ context[c] \in Contexts
    BY <1>1, LineType DEF HttpTypeOK
  <1>3. request \in Requests
    <2>1. Len(line) = 1 /\ line[1].type = "header"
      BY DEF ParseHeader, HasColon
    <2>2. line[1] \in Headers
      BY <1>2, <2>1, ElementOfSeq, SymbolType
    <2> QED
      BY <1>2, <2>2, AddHeaderType DEF Contexts
  <1>4. /\ handler[c] = "parsing" /\ context[c].state = "kExpectHeaders"
        /\ context' = [context EXCEPT ![c].request = request]
        /\ buffer' = [buffer EXCEPT ![c] = AfterLine(@)]
        /\ UNCHANGED <<clientVars, inbound, handler, handled, answers, shut, ended>>
    BY DEF ParseHeader, InState
  <1> HIDE DEF request, line
  <1>5. /\ context'[c].state = "kExpectHeaders"
        /\ \A d \in Conns : d # c => context'[d] = context[d]
        /\ context' \in [Conns -> Contexts]
    BY <1>1, <1>2, <1>3, <1>4 DEF HttpTypeOK, Contexts, States
  <1>6. HttpTypeOK'
    BY <1>1, <1>2, <1>4, <1>5 DEF HttpTypeOK, clientVars
  <1>7. ASSUME NEW d \in Conns PROVE ParserSound(d)'
    <2>1. ParserSound(d)
      BY DEF ParserInv
    <2>2. CASE d = c
      BY <1>1, <1>4, <1>5, <2>2 DEF ParserSound, HttpTypeOK
    <2>3. CASE d # c
      BY <1>1, <1>4, <1>5, <2>1, <2>3 DEF ParserSound, HttpTypeOK
    <2> QED
      BY <2>2, <2>3
  <1> QED
    BY <1>4, <1>6, <1>7 DEF ParserInv, EndSound

LEMMA ParseEndParser ==
    ASSUME ParserInv, ended = "no", NEW c \in Conns, ParseEnd(c)
    PROVE  ParserInv'
  <1>1. HttpTypeOK
    BY DEF ParserInv
  <1>2. AfterLine(buffer[c]) \in Seq(Symbols) /\ context[c] \in Contexts
    BY <1>1, LineType DEF HttpTypeOK
  <1>3. /\ handler[c] = "parsing"
        /\ context' = [context EXCEPT ![c].state = "kGotAll"]
        /\ buffer' = [buffer EXCEPT ![c] = AfterLine(@)]
        /\ handler' = [handler EXCEPT ![c] = "ok"]
        /\ UNCHANGED <<clientVars, inbound, handled, answers, shut, ended>>
    BY DEF ParseEnd, InState
  <1>4. /\ context'[c].state = "kGotAll"
        /\ \A d \in Conns : d # c => context'[d] = context[d]
        /\ context' \in [Conns -> Contexts]
    BY <1>1, <1>2, <1>3 DEF HttpTypeOK, Contexts, States
  <1>5. HttpTypeOK'
    BY <1>1, <1>2, <1>3, <1>4 DEF HttpTypeOK, clientVars
  <1>6. ASSUME NEW d \in Conns PROVE ParserSound(d)'
    <2>1. ParserSound(d)
      BY DEF ParserInv
    <2>2. CASE d = c
      BY <1>1, <1>3, <1>4, <2>2 DEF ParserSound, HttpTypeOK
    <2>3. CASE d # c
      BY <1>1, <1>3, <1>4, <2>1, <2>3 DEF ParserSound, HttpTypeOK
    <2> QED
      BY <2>2, <2>3
  <1> QED
    BY <1>3, <1>5, <1>6 DEF ParserInv, EndSound

LEMMA NeedsMoreParser ==
    ASSUME ParserInv, ended = "no", NEW c \in Conns, NeedsMore(c)
    PROVE  ParserInv'
  <1>1. HttpTypeOK
    BY DEF ParserInv
  <1>2. HttpTypeOK'
    BY <1>1 DEF HttpTypeOK, NeedsMore, clientVars
  <1>3. ASSUME NEW d \in Conns PROVE ParserSound(d)'
    <2>1. ParserSound(d) /\ ParserSound(c)
      BY DEF ParserInv
    <2> QED
      BY <1>1, <2>1 DEF ParserSound, NeedsMore, InState, HttpTypeOK
  <1> QED
    BY <1>2, <1>3 DEF ParserInv, EndSound, NeedsMore

LEMMA EndParser ==
    ASSUME ParserInv, ended = "no", NEW c \in Conns, End(c)
    PROVE  ParserInv'
  <1>1. HttpTypeOK /\ ParserSound(c) /\ context[c].state \in States
    BY DEF ParserInv, HttpTypeOK, Contexts
  <1>2. ~Spins(c)
    BY <1>1 DEF Spins, InState, ParserSound, States
  <1>3. Aborts(c)
    BY <1>2 DEF End
  <1>4. /\ handler[c] = "parsing" /\ context[c].state = "kExpectRequestLine"
        /\ context[c].request.method # "kInvalid"
    BY <1>3 DEF Aborts, InState, AssertFails
  <1>5. /\ HttpTypeOK' /\ ended' = "aborted"
        /\ handler' = handler /\ context' = context
    BY <1>1, <1>3 DEF HttpTypeOK, End, clientVars
  <1>6. \A d \in Conns : ParserSound(d)'
    BY DEF ParserInv, ParserSound, End
  <1> QED
    BY <1>4, <1>5, <1>6 DEF ParserInv, EndSound

LEMMA ReturnParser ==
    ASSUME ParserInv, ended = "no", NEW c \in Conns, Return(c)
    PROVE  ParserInv'
  <1>1. HttpTypeOK /\ ParserSound(c) /\ context[c] \in Contexts
    BY DEF ParserInv, HttpTypeOK
  <1>2. /\ handler[c] \in {"bad", "ok"}
        /\ handler' = [handler EXCEPT ![c] = "idle"]
        /\ UNCHANGED <<clientVars, inbound, buffer, ended>>
    BY DEF Return
  <1>3. /\ shut' \in [Conns -> BOOLEAN]
        /\ \A d \in Conns : shut[d] => shut'[d]
        /\ handler[c] = "bad" => shut'[c]
    <2>1. CASE handler[c] = "bad"
      <3>1. shut' = [shut EXCEPT ![c] = @ \/ TRUE]
        BY <2>1 DEF Return, Answer
      <3> QED
        BY <1>1, <3>1 DEF HttpTypeOK
    <2>2. CASE handler[c] # "bad" /\ gotAll(context[c])
      <3>1. PICK closeConnection : closeConnection \in BOOLEAN /\ shut' = [shut EXCEPT ![c] = @ \/ closeConnection]
        BY <2>2, CallbackAssumption DEF Return, onRequest, Answer, Closes
      <3> QED
        BY <1>1, <2>2, <3>1 DEF HttpTypeOK
    <2>3. CASE handler[c] # "bad" /\ ~gotAll(context[c])
      <3>1. shut' = shut
        BY <2>3 DEF Return
      <3> QED
        BY <1>1, <2>3, <3>1 DEF HttpTypeOK
    <2> QED
      BY <2>1, <2>2, <2>3
  <1>4. /\ context' = IF gotAll(context[c]) THEN [context EXCEPT ![c] = NewContext] ELSE context
        /\ handled' = IF gotAll(context[c])
                      THEN [handled EXCEPT ![c] = Append(@, context[c].request)] ELSE handled
    BY DEF Return, reset
  <1>5. /\ context' \in [Conns -> Contexts]
        /\ \A d \in Conns : d # c => context'[d] = context[d]
        /\ context'[c] = IF gotAll(context[c]) THEN NewContext ELSE context[c]
    BY <1>1, <1>4, NewRequestType DEF HttpTypeOK
  <1>6. handled' \in [Conns -> Seq(Requests)]
    <2>1. context[c].request \in Requests /\ handled[c] \in Seq(Requests)
      BY <1>1 DEF HttpTypeOK, Contexts
    <2>2. Append(handled[c], context[c].request) \in Seq(Requests)
      BY <2>1, AppendProperties
    <2> QED
      BY <1>1, <1>4, <2>2 DEF HttpTypeOK
  <1>7. HttpTypeOK'
    BY <1>1, <1>2, <1>3, <1>5, <1>6 DEF HttpTypeOK, clientVars
  <1>8. ASSUME NEW d \in Conns PROVE ParserSound(d)'
    <2>1. ParserSound(d)
      BY DEF ParserInv
    <2>2. CASE d = c
      <3>1. handler'[c] = "idle"
        BY <1>1, <1>2 DEF HttpTypeOK
      <3>2. CASE gotAll(context[c])
        <4>1. context'[c] = NewContext
          BY <1>5, <3>2
        <4>2. NewContext.state = "kExpectRequestLine" /\ NewContext.request.method = "kInvalid"
          BY Zenon DEF NewContext, NewRequest
        <4> QED
          BY <2>2, <3>1, <4>1, <4>2 DEF ParserSound
      <3>3. CASE ~gotAll(context[c])
        <4>1. context'[c] = context[c] /\ context[c].state # "kGotAll"
          BY <1>5, <3>3 DEF gotAll
        <4> QED
          BY <1>1, <1>3, <2>2, <3>1, <4>1 DEF ParserSound
      <3> QED
        BY <3>2, <3>3
    <2>3. CASE d # c
      BY <1>1, <1>2, <1>3, <1>5, <2>1, <2>3 DEF ParserSound, HttpTypeOK
    <2> QED
      BY <2>2, <2>3
  <1>9. EndSound'
    BY <1>2 DEF EndSound
  <1> QED
    BY <1>7, <1>8, <1>9 DEF ParserInv

LEMMA NextParser == ParserInv /\ [Next]_vars => ParserInv'
  <1> SUFFICES ASSUME ParserInv, [Next]_vars PROVE ParserInv'
    OBVIOUS
  <1>1. CASE Next
    <2>1. PICK c \in Conns : SendMessage(c) \/ Server(c)
      BY <1>1 DEF Next
    <2>2. ended = "no"
      BY <1>1 DEF Next
    <2> QED
      BY <2>1, <2>2, SendParser, ArriveParser, ParseRequestLineParser, ParseHeaderParser,
         ParseEndParser, NeedsMoreParser, EndParser, ReturnParser, Zenon DEF Server
  <1>2. CASE UNCHANGED vars
    BY <1>2 DEF vars, ParserInv, HttpTypeOK, ParserSound, EndSound
  <1> QED
    BY <1>1, <1>2

LEMMA ParserAlways == Spec => []ParserInv
  BY InitParser, NextParser, PTL DEF Spec

------------------------------------------------------------------------------
(* Lines at the front of a stream of which a part has arrived.             *)

\* What comes after a prefix that has arrived whole.
LEMMA DropPrefix ==
    ASSUME NEW S, NEW b \in Seq(S), NEW i \in Seq(S), NEW p \in Seq(S), NEW r \in Seq(S),
           b \o i = p \o r, Len(p) <= Len(b)
    PROVE  SubSeq(b, Len(p) + 1, Len(b)) \o i = r
  <1> DEFINE m == Len(p)
             after == SubSeq(b, m + 1, Len(b))
  <1>1. Len(b) \in Nat /\ m \in Nat /\ m <= Len(b)
    BY LenProperties
  <1>2. \A j \in 1 .. m : b[j] = p[j]
    <2> TAKE j \in 1 .. m
    <2>1. j \in 1 .. Len(b) + Len(i) /\ j \in 1 .. Len(p) + Len(r) /\ j <= Len(b) /\ j <= Len(p)
      BY <1>1, LenProperties
    <2>2. (b \o i)[j] = b[j] /\ (p \o r)[j] = p[j]
      BY <2>1, ConcatProperties
    <2> QED
      BY <2>2
  <1>3. SubSeq(b, 1, m) = p
    <2>1. \A j \in 1 .. m : b[j] \in S
      BY <1>1, ElementOfSeq
    <2>2. /\ SubSeq(b, 1, m) \in Seq(S) /\ Len(SubSeq(b, 1, m)) = m
          /\ \A j \in 1 .. m : SubSeq(b, 1, m)[j] = b[j]
      BY <1>1, <2>1, SubSeqProperties
    <2> QED
      BY <1>2, <2>2, SeqEqual
  <1>4. b = p \o after
    <2>1. SubSeq(b, 1, m) \o SubSeq(b, m + 1, Len(b)) = SubSeq(b, 1, Len(b))
      <3>1. 1 \in 1 .. Len(b) + 1 /\ m \in 1 - 1 .. Len(b) /\ Len(b) \in m .. Len(b)
        BY <1>1
      <3> HIDE DEF m
      <3> QED
        BY <3>1, ConcatAdjacentSubSeq
    <2> QED
      BY <1>3, <2>1, SubSeqFull
  <1>5. after \in Seq(S)
    <2>1. \A j \in m + 1 .. Len(b) : b[j] \in S
      BY <1>1, ElementOfSeq
    <2> QED
      BY <1>1, <2>1, SubSeqProperties
  <1> HIDE DEF after, m
  <1>6. Associates(p, after, i)
    BY <1>5, ConcatAssociates, Zenon
  <1>7. p \o (after \o i) = p \o r
    BY <1>4, <1>6 DEF Associates
  <1>8. after \o i \in Seq(S)
    BY <1>5, ConcatProperties
  <1>9. after \o i = r
    BY <1>7, <1>8, ConcatSimplifications, Zenon
  <1> QED
    BY <1>9 DEF after, m

\* The first line is the one text in front of the first CRLF.
LEMMA TextLine ==
    ASSUME NEW b \in Seq(Symbols), NEW i \in Seq(Symbols), NEW r \in Seq(Symbols),
           NEW x \in Symbols, x # CR, b \o i = <<x, CR, LF>> \o r, findCRLF(b) # 0
    PROVE  FirstLine(b) = <<x>> /\ AfterLine(b) \o i = r
  <1> DEFINE k == findCRLF(b)
             p == <<x, CR, LF>>
  <1>0. CR \in Symbols /\ LF \in Symbols
    BY DEF Symbols
  <1>1. /\ Len(b) \in Nat /\ Len(i) \in Nat /\ Len(r) \in Nat
        /\ p \in Seq(Symbols) /\ Len(p) = 3
        /\ b \o i = p \o r
    BY <1>0, LenProperties
  <1>2. /\ k \in 1 .. Len(b) - 1 /\ b[k] = CR /\ b[k + 1] = LF
        /\ \A j \in 1 .. Len(b) - 1 : b[j] = CR /\ b[j + 1] = LF => k <= j
    BY FindCRLFType
  <1>3. \A j \in 1 .. 3 : j <= Len(b) => b[j] = p[j]
    <2> SUFFICES ASSUME NEW j \in 1 .. 3, j <= Len(b) PROVE b[j] = p[j]
      OBVIOUS
    <2>1. j \in 1 .. Len(b) + Len(i) /\ j \in 1 .. Len(p) + Len(r) /\ j <= Len(p)
      BY <1>1
    <2>2. (b \o i)[j] = b[j] /\ (p \o r)[j] = p[j]
      <3> HIDE DEF p
      <3> QED
        BY <1>1, <2>1, ConcatProperties
    <2> QED
      BY <2>2
  <1>4. p[1] = x /\ p[2] = CR /\ p[3] = LF
    OBVIOUS
  <1> HIDE DEF p, k
  <1>5. k # 1
    BY <1>1, <1>2, <1>3, <1>4
  <1>6. Len(b) >= 3
    BY <1>1, <1>2, <1>5
  <1>7. b[1] = x /\ b[2] = CR /\ b[3] = LF
    BY <1>1, <1>3, <1>4, <1>6
  <1>8. k = 2
    <2>1. 2 \in 1 .. Len(b) - 1 /\ 2 + 1 = 3
      BY <1>1, <1>6
    <2>2. k <= 2
      BY <1>2, <1>7, <2>1
    <2> QED
      BY <1>1, <1>2, <1>5, <2>2
  <1>9. FirstLine(b) = <<x>>
    <2>1. FirstLine(b) = SubSeq(b, 1, 1)
      BY <1>8 DEF FirstLine, k
    <2>2. SubSeq(b, 1, 1) = <<b[1]>> \o SubSeq(b, 2, 1)
      BY <1>1, <1>6, SubSeqRecursiveFirst
    <2>3. SubSeq(b, 2, 1) = <<>>
      BY SubSeqEmpty
    <2>4. <<x>> \o <<>> = <<x>>
      BY ConcatEmptySeq
    <2> QED
      BY <1>7, <2>1, <2>2, <2>3, <2>4
  <1>10. AfterLine(b) = SubSeq(b, 4, Len(b))
    BY <1>8 DEF AfterLine, k
  <1>11. SubSeq(b, Len(p) + 1, Len(b)) \o i = r
    <2>1. Len(p) <= Len(b)
      BY <1>1, <1>6
    <2> QED
      BY <1>1, <2>1, DropPrefix, Zenon
  <1> QED
    BY <1>1, <1>9, <1>10, <1>11

\* The empty line.
LEMMA EmptyLine ==
    ASSUME NEW b \in Seq(Symbols), NEW i \in Seq(Symbols), NEW r \in Seq(Symbols),
           b \o i = <<CR, LF>> \o r, findCRLF(b) # 0
    PROVE  FirstLine(b) = <<>> /\ AfterLine(b) \o i = r
  <1> DEFINE k == findCRLF(b)
             p == <<CR, LF>>
  <1>0. CR \in Symbols /\ LF \in Symbols
    BY DEF Symbols
  <1>1. /\ Len(b) \in Nat /\ Len(i) \in Nat /\ Len(r) \in Nat
        /\ p \in Seq(Symbols) /\ Len(p) = 2
        /\ b \o i = p \o r
    BY <1>0, LenProperties
  <1>2. /\ k \in 1 .. Len(b) - 1
        /\ \A j \in 1 .. Len(b) - 1 : b[j] = CR /\ b[j + 1] = LF => k <= j
    BY FindCRLFType
  <1>3. Len(b) >= 2
    BY <1>1, <1>2
  <1>4. \A j \in 1 .. 2 : b[j] = p[j]
    <2> SUFFICES ASSUME NEW j \in 1 .. 2 PROVE b[j] = p[j]
      OBVIOUS
    <2>1. j \in 1 .. Len(b) + Len(i) /\ j \in 1 .. Len(p) + Len(r) /\ j <= Len(p) /\ j <= Len(b)
      BY <1>1, <1>3
    <2>2. (b \o i)[j] = b[j] /\ (p \o r)[j] = p[j]
      <3> HIDE DEF p
      <3> QED
        BY <1>1, <2>1, ConcatProperties
    <2> QED
      BY <2>2
  <1>5. b[1] = CR /\ b[2] = LF
    BY <1>4
  <1> HIDE DEF p, k
  <1>6. k = 1
    <2>1. 1 \in 1 .. Len(b) - 1 /\ 1 + 1 = 2
      BY <1>1, <1>3
    <2>2. k <= 1
      BY <1>2, <1>5, <2>1
    <2> QED
      BY <1>1, <1>2, <2>2
  <1>7. FirstLine(b) = <<>>
    BY <1>6, SubSeqEmpty DEF FirstLine, k
  <1>8. AfterLine(b) = SubSeq(b, 3, Len(b))
    BY <1>6 DEF AfterLine, k
  <1>9. SubSeq(b, Len(p) + 1, Len(b)) \o i = r
    <2>1. Len(p) <= Len(b)
      BY <1>1, <1>3
    <2> QED
      BY <1>1, <2>1, DropPrefix, Zenon
  <1> QED
    BY <1>1, <1>7, <1>8, <1>9

\* A stream whose first line is not a good request line, and never will be.
Stuck(t) == t # <<>> /\ ~Succeeds(<<t[1]>>)

LEMMA StuckLine ==
    ASSUME NEW b \in Seq(Symbols), NEW i \in Seq(Symbols), Stuck(b \o i), findCRLF(b) # 0
    PROVE  ~Succeeds(FirstLine(b))
  <1>1. Len(b) \in Nat /\ Len(i) \in Nat
    BY LenProperties
  <1>2. findCRLF(b) \in 1 .. Len(b) - 1
    BY FindCRLFType
  <1>3. (b \o i)[1] = b[1]
    <2>1. 1 \in 1 .. Len(b) + Len(i) /\ 1 <= Len(b)
      BY <1>1, <1>2
    <2> QED
      BY <2>1, ConcatProperties
  <1>4. /\ Len(FirstLine(b)) = findCRLF(b) - 1
        /\ findCRLF(b) - 1 >= 1 => FirstLine(b)[1] = b[1]
    <2>1. \A j \in 1 .. findCRLF(b) - 1 : b[j] \in Symbols
      BY <1>1, <1>2, ElementOfSeq
    <2>2. findCRLF(b) - 1 \in Int
      BY <1>1, <1>2
    <2>3. /\ Len(SubSeq(b, 1, findCRLF(b) - 1)) = IF 1 <= findCRLF(b) - 1 THEN findCRLF(b) - 1 - 1 + 1 ELSE 0
          /\ \A j \in 1 .. findCRLF(b) - 1 - 1 + 1 : SubSeq(b, 1, findCRLF(b) - 1)[j] = b[1 + j - 1]
      BY <2>1, <2>2, SubSeqProperties
    <2> QED
      BY <1>1, <1>2, <2>3 DEF FirstLine
  <1>5. SUFFICES ASSUME Succeeds(FirstLine(b)) PROVE FALSE
    OBVIOUS
  <1>6. Len(FirstLine(b)) = 1 /\ FirstLine(b)[1] = b[1]
    <2>1. Len(FirstLine(b)) = 1
      BY <1>5 DEF Succeeds
    <2>2. findCRLF(b) - 1 >= 1
      <3> DEFINE k == findCRLF(b)
                 n == Len(FirstLine(b))
      <3>1. n = k - 1 /\ n = 1
        BY <1>4, <2>1
      <3> HIDE DEF k, n
      <3>2. k - 1 >= 1
        BY <3>1
      <3> QED
        BY <3>2 DEF k
    <2> QED
      BY <1>4, <2>1, <2>2
  <1>7. Len(<<b[1]>>) = 1 /\ <<b[1]>>[1] = b[1]
    OBVIOUS
  <1>8. Succeeds(<<b[1]>>)
    BY <1>5, <1>6, <1>7 DEF Succeeds
  <1> QED
    BY <1>3, <1>8 DEF Stuck

\* It stays so when more is sent.
LEMMA StuckMore ==
    ASSUME NEW t \in Seq(Symbols), NEW u \in Seq(Symbols), Stuck(t)
    PROVE  Stuck(t \o u)
  <1>1. Len(t) \in Nat \ {0} /\ Len(u) \in Nat
    BY EmptySeq, LenProperties DEF Stuck
  <1>2. t \o u # <<>>
    BY <1>1, TailConcat DEF Stuck
  <1>3. (t \o u)[1] = t[1]
    <2>1. 1 \in 1 .. Len(t) + Len(u) /\ 1 <= Len(t)
      BY <1>1
    <2> QED
      BY <2>1, ConcatProperties
  <1> QED
    BY <1>2, <1>3 DEF Stuck

------------------------------------------------------------------------------
(* What the clients put on the wire.                                       *)

\* The headers of a message.
HeaderPieces(h) == [i \in DOMAIN h |-> <<h[i], CR, LF>>]
HeaderWire(h)   == FlattenSeq(HeaderPieces(h))

\* What comes in a message after its line and its first n headers.
RestOf(m, n) == HeaderWire(SubSeq(m.headers, n + 1, Len(m.headers))) \o (<<CR, LF>> \o m.body)

\* The messages of a program from the n-th on, up to the k-th.
Pieces(p, n, k) == [i \in 1 .. k - n |-> OnWire(p[n + i])]
Wires(p, n, k)  == FlattenSeq(Pieces(p, n, k))

LEMMA HeaderPiecesType ==
    ASSUME NEW h \in Seq(Headers)
    PROVE  /\ HeaderPieces(h) \in Seq(Seq(Symbols)) /\ Len(HeaderPieces(h)) = Len(h)
           /\ HeaderWire(h) \in Seq(Symbols)
  <1>1. CR \in Symbols /\ LF \in Symbols
    BY DEF Symbols
  <1>2. Len(h) \in Nat /\ DOMAIN h = 1 .. Len(h)
    BY LenProperties
  <1>3. \A i \in 1 .. Len(h) : <<h[i], CR, LF>> \in Seq(Symbols)
    <2> TAKE i \in 1 .. Len(h)
    <2>1. h[i] \in Symbols
      BY ElementOfSeq DEF Symbols
    <2> QED
      BY <1>1, <2>1
  <1>4. HeaderPieces(h) \in [1 .. Len(h) -> Seq(Symbols)]
    BY <1>2, <1>3 DEF HeaderPieces
  <1>5. HeaderPieces(h) \in Seq(Seq(Symbols))
    BY <1>2, <1>4, SeqDef
  <1>6. Len(HeaderPieces(h)) = Len(h)
    BY <1>2, <1>4, <1>5, LenProperties
  <1> QED
    BY <1>5, <1>6, FlattenType DEF HeaderWire

LEMMA RestType ==
    ASSUME NEW m \in Messages, NEW n \in 0 .. Len(m.headers)
    PROVE  /\ SubSeq(m.headers, n + 1, Len(m.headers)) \in Seq(Headers)
           /\ <<CR, LF>> \o m.body \in Seq(Symbols)
           /\ RestOf(m, n) \in Seq(Symbols)
  <1>1. m.headers \in Seq(Headers) /\ m.body \in Seq(Symbols) /\ <<CR, LF>> \in Seq(Symbols)
    BY DEF Messages, Symbols
  <1>2. Len(m.headers) \in Nat /\ n \in Nat
    BY <1>1, LenProperties
  <1>3. \A i \in n + 1 .. Len(m.headers) : m.headers[i] \in Headers
    BY <1>1, <1>2, ElementOfSeq
  <1>4. SubSeq(m.headers, n + 1, Len(m.headers)) \in Seq(Headers)
    BY <1>2, <1>3, SubSeqProperties
  <1>5. <<CR, LF>> \o m.body \in Seq(Symbols)
    BY <1>1, ConcatProperties
  <1>6. HeaderWire(SubSeq(m.headers, n + 1, Len(m.headers))) \in Seq(Symbols)
    BY <1>4, HeaderPiecesType
  <1> QED
    BY <1>4, <1>5, <1>6, ConcatProperties DEF RestOf

\* A message begins with its line.
LEMMA WireOfMessage ==
    ASSUME NEW m \in Messages
    PROVE  OnWire(m) = <<m.line, CR, LF>> \o RestOf(m, 0)
  <1> DEFINE a == <<m.line, CR, LF>>
             h == HeaderWire(m.headers)
             e == <<CR, LF>>
             b == m.body
  <1>1. /\ a \in Seq(Symbols) /\ h \in Seq(Symbols) /\ e \in Seq(Symbols) /\ b \in Seq(Symbols)
        /\ e \o b \in Seq(Symbols) /\ m.headers \in Seq(Headers)
    <2>1. m.line \in Symbols /\ CR \in Symbols /\ LF \in Symbols
      BY DEF Symbols, Messages
    <2>2. m.headers \in Seq(Headers) /\ b \in Seq(Symbols)
      BY DEF Messages
    <2>3. h \in Seq(Symbols)
      BY <2>2, HeaderPiecesType
    <2>4. e \in Seq(Symbols) /\ a \in Seq(Symbols)
      BY <2>1
    <2> QED
      BY <2>2, <2>3, <2>4, ConcatProperties
  <1>2. OnWire(m) = ((a \o h) \o e) \o b
    BY DEF OnWire, HeaderWire, HeaderPieces
  <1>3. RestOf(m, 0) = h \o (e \o b)
    <2>1. SubSeq(m.headers, 0 + 1, Len(m.headers)) = m.headers
      BY <1>1, SubSeqFull
    <2> QED
      BY <2>1 DEF RestOf
  <1> HIDE DEF a, h, e, b
  <1>4. Associates(a \o h, e, b) /\ Associates(a, h, e \o b)
    <2>1. a \o h \in Seq(Symbols)
      BY <1>1, ConcatProperties
    <2> QED
      BY <1>1, <2>1, ConcatAssociates, Zenon
  <1> QED
    BY <1>2, <1>3, <1>4 DEF Associates, a

\* The next header.
LEMMA RestFirst ==
    ASSUME NEW m \in Messages, NEW n \in Nat, n < Len(m.headers)
    PROVE  RestOf(m, n) = <<m.headers[n + 1], CR, LF>> \o RestOf(m, n + 1)
  <1> DEFINE h  == SubSeq(m.headers, n + 1, Len(m.headers))
             t  == SubSeq(m.headers, n + 2, Len(m.headers))
             a  == <<m.headers[n + 1], CR, LF>>
             e  == <<CR, LF>> \o m.body
  <1>1. m.headers \in Seq(Headers) /\ Len(m.headers) \in Nat
    BY LenProperties DEF Messages
  <1>2. /\ n \in 0 .. Len(m.headers) /\ n + 1 \in 0 .. Len(m.headers)
        /\ n + 1 \in 1 .. Len(m.headers) /\ (n + 1) + 1 = n + 2
        /\ Len(m.headers) \in n + 1 .. Len(m.headers)
    BY <1>1
  <1>3. h \in Seq(Headers) /\ t \in Seq(Headers) /\ e \in Seq(Symbols)
    BY <1>2, RestType
  <1>4. m.headers[n + 1] \in Headers
    BY <1>1, <1>2, ElementOfSeq
  <1>5. h = <<m.headers[n + 1]>> \o t
    BY <1>1, <1>2, SubSeqRecursiveFirst
  <1>6. a \in Seq(Symbols)
    BY <1>4 DEF Symbols
  <1>7. RestOf(m, n) = HeaderWire(h) \o e /\ RestOf(m, n + 1) = HeaderWire(t) \o e
    BY <1>2 DEF RestOf
  <1>8. HeaderPieces(h) = <<a>> \o HeaderPieces(t)
    <2>1. /\ HeaderPieces(h) \in Seq(Seq(Symbols)) /\ Len(HeaderPieces(h)) = Len(h)
          /\ HeaderPieces(t) \in Seq(Seq(Symbols)) /\ Len(HeaderPieces(t)) = Len(t)
      BY <1>3, HeaderPiecesType
    <2> DEFINE x == <<m.headers[n + 1]>>
               z == HeaderPieces(t)
               y == <<a>>
    <2>2. /\ x \in Seq(Headers) /\ Len(x) = 1 /\ x[1] = m.headers[n + 1]
          /\ y \in Seq(Seq(Symbols)) /\ Len(y) = 1 /\ y[1] = a
      <3> HIDE DEF a
      <3> QED
        BY <1>4, <1>6
    <2>7. z \in Seq(Seq(Symbols)) /\ Len(z) = Len(t)
      BY <2>1
    <2>3. Len(h) = 1 + Len(t) /\ Len(t) \in Nat
      <3> HIDE DEF h, t, x
      <3> QED
        BY <1>3, <1>5, <2>2, ConcatProperties, LenProperties DEF x
    <2>4. Len(y \o z) = 1 + Len(t) /\ y \o z \in Seq(Seq(Symbols))
      <3>1. Len(y) = 1 /\ y \in Seq(Seq(Symbols))
        BY <2>2
      <3> HIDE DEF y, z, t, a, x, h, e
      <3>2. Len(y \o z) = Len(y) + Len(z) /\ y \o z \in Seq(Seq(Symbols))
        BY <2>7, <3>1, ConcatProperties, Zenon
      <3> QED
        BY <2>7, <3>1, <3>2
    <2>5. \A i \in 1 .. 1 + Len(t) : HeaderPieces(h)[i] = (y \o z)[i]
      <3> TAKE i \in 1 .. 1 + Len(t)
      <3>1. (y \o z)[i] = IF i <= 1 THEN y[i] ELSE z[i - 1]
        <4>1. Len(y) = 1 /\ y \in Seq(Seq(Symbols))
          BY <2>2
        <4> HIDE DEF y, z, t, a, x, h, e
        <4>2. \A j \in 1 .. Len(y) + Len(z) : (y \o z)[j] = IF j <= Len(y) THEN y[j] ELSE z[j - Len(y)]
          <5> DEFINE T == Seq(Symbols)
          <5>1. y \in Seq(T) /\ z \in Seq(T)
            BY <2>7, <4>1
          <5> HIDE DEF T
          <5> QED
            BY <5>1, ConcatProperties
        <4> QED
          BY <2>3, <2>7, <4>1, <4>2
      <3>2. h[i] = IF i <= 1 THEN x[i] ELSE t[i - 1]
        <4> HIDE DEF h, t, x
        <4> QED
          BY <1>3, <1>5, <2>2, ConcatProperties DEF x
      <3>3. DOMAIN h = 1 .. Len(h) /\ DOMAIN t = 1 .. Len(t)
        BY <1>3, LenProperties
      <3>4. HeaderPieces(h)[i] = <<h[i], CR, LF>>
        BY <2>3, <3>3 DEF HeaderPieces
      <3>5. CASE i = 1
        <4>1. (y \o z)[i] = a /\ h[i] = m.headers[n + 1]
          BY <2>2, <3>1, <3>2, <3>5
        <4> QED
          BY <3>4, <4>1
      <3>6. CASE i # 1
        <4>1. i - 1 \in 1 .. Len(t) /\ ~(i <= 1)
          BY <2>3, <3>6
        <4>2. z[i - 1] = <<t[i - 1], CR, LF>>
          BY <3>3, <4>1 DEF HeaderPieces
        <4> HIDE DEF h, t, z, y
        <4> QED
          BY <3>1, <3>2, <3>4, <4>1, <4>2
      <3> QED
        BY <3>5, <3>6
    <2> HIDE DEF h, t, y, z
    <2>6. HeaderPieces(h) = y \o z
      BY <2>1, <2>3, <2>4, <2>5, SeqEqual
    <2> QED
      BY <2>6 DEF y, z
  <1>9. HeaderWire(h) = a \o HeaderWire(t)
    <2> HIDE DEF a, h, t
    <2>1. <<a>> \in Seq(Seq(Symbols)) /\ HeaderPieces(t) \in Seq(Seq(Symbols))
      BY <1>3, <1>6, HeaderPiecesType
    <2>2. FlattenSeq(<<a>> \o HeaderPieces(t)) = FlattenSeq(<<a>>) \o FlattenSeq(HeaderPieces(t))
      BY <2>1, FlattenConcat
    <2>3. FlattenSeq(<<a>>) = a
      BY <1>6, FlattenOne
    <2> QED
      BY <1>8, <2>2, <2>3 DEF HeaderWire
  <1>10. HeaderWire(t) \in Seq(Symbols)
    BY <1>3, HeaderPiecesType
  <1> HIDE DEF a, h, t, e
  <1>11. Associates(a, HeaderWire(t), e)
    BY <1>3, <1>6, <1>10, ConcatAssociates, Zenon
  <1> QED
    BY <1>7, <1>9, <1>11 DEF Associates, a

\* The end of the headers.
LEMMA RestLast ==
    ASSUME NEW m \in Messages
    PROVE  RestOf(m, Len(m.headers)) = <<CR, LF>> \o m.body
  <1>1. m.headers \in Seq(Headers) /\ Len(m.headers) \in Nat
    BY LenProperties DEF Messages
  <1>2. SubSeq(m.headers, Len(m.headers) + 1, Len(m.headers)) = <<>>
    BY <1>1, SubSeqEmpty
  <1>3. HeaderPieces(<<>>) = <<>>
    <2>1. <<>> \in Seq(Headers) /\ Len(<<>>) = 0
      BY EmptySeq
    <2>2. HeaderPieces(<<>>) \in Seq(Seq(Symbols)) /\ Len(HeaderPieces(<<>>)) = 0
      BY <2>1, HeaderPiecesType
    <2> QED
      BY <2>2, EmptySeq
  <1>4. HeaderWire(<<>>) = <<>>
    BY <1>3, FlattenEmpty DEF HeaderWire
  <1>5. <<CR, LF>> \o m.body \in Seq(Symbols)
    BY <1>1, RestType
  <1> QED
    BY <1>2, <1>4, <1>5, ConcatEmptySeq DEF RestOf

LEMMA PiecesType ==
    ASSUME NEW p \in Seq(Messages), NEW n \in Nat, NEW k \in Nat, n <= k, k <= Len(p)
    PROVE  /\ Pieces(p, n, k) \in Seq(Seq(Symbols))
           /\ Len(Pieces(p, n, k)) = k - n
           /\ Wires(p, n, k) \in Seq(Symbols)
  <1>1. Len(p) \in Nat /\ k - n \in Nat
    BY LenProperties
  <1>2. \A i \in 1 .. k - n : OnWire(p[n + i]) \in Seq(Symbols)
    <2> TAKE i \in 1 .. k - n
    <2>1. n + i \in 1 .. Len(p)
      BY <1>1
    <2>2. p[n + i] \in Messages
      BY <2>1, ElementOfSeq
    <2> QED
      BY <2>2, OnWireType
  <1>3. Pieces(p, n, k) \in [1 .. k - n -> Seq(Symbols)]
    BY <1>2 DEF Pieces
  <1>4. Pieces(p, n, k) \in Seq(Seq(Symbols))
    BY <1>1, <1>3, SeqDef
  <1>5. Len(Pieces(p, n, k)) = k - n
    <2> DEFINE d == k - n
               s == Pieces(p, n, k)
    <2>1. d \in Nat /\ s \in [1 .. d -> Seq(Symbols)] /\ s \in Seq(Seq(Symbols))
      BY <1>1, <1>3, <1>4
    <2> HIDE DEF d, s
    <2>2. Len(s) = d
      BY <2>1, LenProperties
    <2> QED
      BY <2>2 DEF d, s
  <1> QED
    BY <1>4, <1>5, FlattenType DEF Wires

LEMMA WiresNone ==
    ASSUME NEW p \in Seq(Messages), NEW n \in Nat, n <= Len(p)
    PROVE  Wires(p, n, n) = <<>>
  <1>1. Pieces(p, n, n) \in Seq(Seq(Symbols)) /\ Len(Pieces(p, n, n)) = 0
    BY PiecesType
  <1>2. Pieces(p, n, n) = <<>>
    BY <1>1, EmptySeq
  <1> QED
    BY <1>2, FlattenEmpty DEF Wires

LEMMA WiresFirst ==
    ASSUME NEW p \in Seq(Messages), NEW n \in Nat, NEW k \in Nat, n < k, k <= Len(p)
    PROVE  Wires(p, n, k) = OnWire(p[n + 1]) \o Wires(p, n + 1, k)
  <1> DEFINE s == Pieces(p, n, k)
             t == Pieces(p, n + 1, k)
             w == OnWire(p[n + 1])
             u == SubSeq(s, 2, Len(s))
  <1>0. n <= k /\ n + 1 <= k /\ n + 1 \in Nat /\ k - n \in Nat \ {0} /\ Len(p) \in Nat
    BY LenProperties
  <1>1. /\ s \in Seq(Seq(Symbols)) /\ Len(s) = k - n
        /\ t \in Seq(Seq(Symbols)) /\ Len(t) = k - (n + 1)
    BY <1>0, PiecesType
  <1>2. s[1] = w
    BY <1>0 DEF Pieces
  <1>3. \A i \in 1 .. k - (n + 1) : s[i + 1] = t[i]
    <2> TAKE i \in 1 .. k - (n + 1)
    <2>1. i + 1 \in 1 .. k - n /\ n + (i + 1) = (n + 1) + i
      BY <1>0
    <2> QED
      BY <2>1 DEF Pieces
  <1>4. w \in Seq(Symbols)
    <2>1. 1 \in 1 .. Len(s)
      BY <1>0, <1>1
    <2> QED
      BY <1>1, <1>2, <2>1, ElementOfSeq
  <1> HIDE DEF s, t, w
  <1>5. u = t
    <2>1. \A i \in 2 .. Len(s) : s[i] \in Seq(Symbols)
      BY <1>0, <1>1, ElementOfSeq
    <2>2. Len(s) \in Int /\ 2 \in Int
      BY <1>0, <1>1
    <2>3. /\ u \in Seq(Seq(Symbols)) /\ Len(u) = IF 2 <= Len(s) THEN Len(s) - 2 + 1 ELSE 0
          /\ \A i \in 1 .. Len(s) - 2 + 1 : u[i] = s[2 + i - 1]
      BY <2>1, <2>2, SubSeqProperties
    <2> HIDE DEF u
    <2>4. Len(u) = Len(t)
      BY <1>0, <1>1, <2>3
    <2>5. \A i \in 1 .. Len(u) : u[i] = t[i]
      <3> TAKE i \in 1 .. Len(u)
      <3>1. i \in 1 .. k - (n + 1) /\ i \in 1 .. Len(s) - 2 + 1 /\ 2 + i - 1 = i + 1
        BY <1>0, <1>1, <2>3
      <3> QED
        BY <1>3, <2>3, <3>1
    <2> QED
      BY <1>1, <2>3, <2>4, <2>5, SeqEqual
  <1>6. s = <<w>> \o t
    <2>1. 1 \in 1 .. Len(s) /\ Len(s) \in 1 .. Len(s)
      BY <1>0, <1>1
    <2>2. SubSeq(s, 1, Len(s)) = <<s[1]>> \o SubSeq(s, 1 + 1, Len(s))
      BY <1>1, <2>1, SubSeqRecursiveFirst
    <2> QED
      BY <1>1, <1>2, <1>5, <2>2, SubSeqFull
  <1>7. <<w>> \in Seq(Seq(Symbols))
    BY <1>4
  <1>8. FlattenSeq(<<w>> \o t) = FlattenSeq(<<w>>) \o FlattenSeq(t)
    BY <1>1, <1>7, FlattenConcat
  <1>9. FlattenSeq(<<w>>) = w
    BY <1>4, FlattenOne
  <1> QED
    BY <1>6, <1>8, <1>9 DEF Wires, s, t, w

LEMMA WiresMore ==
    ASSUME NEW p \in Seq(Messages), NEW n \in Nat, NEW k \in Nat, n <= k, k < Len(p)
    PROVE  Wires(p, n, k + 1) = Wires(p, n, k) \o OnWire(p[k + 1])
  <1> DEFINE s == Pieces(p, n, k)
             t == Pieces(p, n, k + 1)
             w == OnWire(p[k + 1])
  <1>0. /\ k <= Len(p) /\ k + 1 <= Len(p) /\ n <= k + 1 /\ k + 1 \in Nat /\ k - n \in Nat
        /\ Len(p) \in Nat /\ k + 1 \in 1 .. Len(p)
    BY LenProperties
  <1>1. /\ s \in Seq(Seq(Symbols)) /\ Len(s) = k - n
        /\ t \in Seq(Seq(Symbols)) /\ Len(t) = (k + 1) - n
    BY <1>0, PiecesType
  <1>2. w \in Seq(Symbols)
    BY <1>0, ElementOfSeq, OnWireType
  <1>3. \A i \in 1 .. k - n : t[i] = s[i]
    BY <1>0 DEF Pieces
  <1>4. t[(k - n) + 1] = w
    <2>1. (k - n) + 1 \in 1 .. (k + 1) - n /\ n + ((k - n) + 1) = k + 1
      BY <1>0
    <2> QED
      BY <2>1 DEF Pieces
  <1> HIDE DEF s, t, w
  <1>5. t = Append(s, w)
    <2>1. /\ Append(s, w) \in Seq(Seq(Symbols)) /\ Len(Append(s, w)) = Len(s) + 1
          /\ \A i \in 1 .. Len(s) : Append(s, w)[i] = s[i]
          /\ Append(s, w)[Len(s) + 1] = w
      <3> DEFINE T == Seq(Symbols)
      <3>1. s \in Seq(T) /\ w \in T
        BY <1>1, <1>2
      <3> HIDE DEF T
      <3>2. /\ Append(s, w) \in Seq(T) /\ Len(Append(s, w)) = Len(s) + 1
            /\ \A i \in 1 .. Len(s) : Append(s, w)[i] = s[i]
            /\ Append(s, w)[Len(s) + 1] = w
        BY <3>1, AppendProperties
      <3> QED
        BY <3>2 DEF T
    <2>2. \A i \in 1 .. Len(t) : t[i] = Append(s, w)[i]
      <3> TAKE i \in 1 .. Len(t)
      <3>1. i \in 1 .. k - n \/ i = (k - n) + 1
        BY <1>0, <1>1
      <3> QED
        BY <1>1, <1>3, <1>4, <2>1, <3>1
    <2>3. Len(t) = Len(Append(s, w))
      BY <1>0, <1>1, <2>1
    <2> QED
      BY <1>1, <2>1, <2>2, <2>3, SeqEqual
  <1>6. FlattenSeq(Append(s, w)) = FlattenSeq(s) \o w
    BY <1>1, <1>2, FlattenAppend
  <1> QED
    BY <1>5, <1>6 DEF Wires, s, t, w

------------------------------------------------------------------------------
(* The request under construction.                                         *)

LEMMA PartNone ==
    ASSUME NEW m \in Messages, Succeeds(<<m.line>>)
    PROVE  processRequestLine(NewRequest, <<m.line>>) = PartOf(m, 0)
  <1> DEFINE r == m.line
             headers == [f \in Fields |-> ""]
  <1>1. /\ r.method \in Methods /\ r.version \in {"kHttp10", "kHttp11"}
        /\ r.type = "request"
    BY DEF Succeeds
  <1>2. processRequestLine(NewRequest, <<r>>) =
           [method |-> r.method, version |-> r.version, path |-> r.path, query |-> r.query,
            headers |-> headers]
    BY <1>1 DEF processRequestLine, NewRequest
  <1>3. PartOf(m, 0).headers = headers
    BY DEF PartOf
  <1>4. PartOf(m, 0) = [method |-> r.method, version |-> r.version, path |-> r.path,
                        query |-> r.query, headers |-> PartOf(m, 0).headers]
    BY DEF PartOf
  <1> QED
    BY <1>2, <1>3, <1>4

\* The value of a field after n headers.
ValueIn(m, f, n) ==
    LET mine == {i \in 1..n : m.headers[i].field = f}
    IN IF mine = {} THEN "" ELSE m.headers[Max(mine)].value

LEMMA MaxIs ==
    ASSUME NEW T \in SUBSET Int, NEW x \in T, \A y \in T : x >= y
    PROVE  Max(T) = x
  <1>1. Max(T) \in T /\ \A y \in T : Max(T) >= y
    <2>1. Max(T) = CHOOSE z \in T : \A y \in T : z >= y
      BY Zenon DEF Max
    <2> QED
      BY <2>1
  <1>2. Max(T) >= x /\ x >= Max(T) /\ Max(T) \in Int /\ x \in Int
    BY <1>1, Zenon
  <1> QED
    BY <1>2

LEMMA ValueNext ==
    ASSUME NEW m \in Messages, NEW n \in Nat, n < Len(m.headers), NEW f
    PROVE  ValueIn(m, f, n + 1) = IF m.headers[n + 1].field = f THEN m.headers[n + 1].value
                                  ELSE ValueIn(m, f, n)
  <1> DEFINE mine(k) == {i \in 1 .. k : m.headers[i].field = f}
  <1>1. CASE m.headers[n + 1].field = f
    <2>1. mine(n + 1) \in SUBSET Int /\ n + 1 \in mine(n + 1) /\ \A y \in mine(n + 1) : n + 1 >= y
      BY <1>1
    <2>2. Max(mine(n + 1)) = n + 1
      <3> HIDE DEF mine
      <3> QED
        BY <2>1, MaxIs
    <2> QED
      BY <1>1, <2>1, <2>2 DEF ValueIn
  <1>2. CASE m.headers[n + 1].field # f
    <2>1. mine(n + 1) = mine(n)
      BY <1>2
    <2> QED
      BY <1>2, <2>1 DEF ValueIn
  <1> QED
    BY <1>1, <1>2

LEMMA PartNext ==
    ASSUME NEW m \in Messages, NEW n \in Nat, n < Len(m.headers)
    PROVE  addHeader(PartOf(m, n), m.headers[n + 1]) = PartOf(m, n + 1)
  <1> DEFINE h == m.headers[n + 1]
             Request(headers) ==
                 [method |-> m.line.method, version |-> m.line.version, path |-> m.line.path,
                  query |-> m.line.query, headers |-> headers]
             values(k) == [f \in Fields |-> ValueIn(m, f, k)]
  <1>1. \A k : PartOf(m, k) = Request(values(k))
    BY DEF PartOf, ValueIn
  <1>2. h.field \in Fields
    <2>1. m.headers \in Seq(Headers) /\ n + 1 \in 1 .. Len(m.headers)
      BY LenProperties DEF Messages
    <2>2. h \in Headers
      BY <2>1, ElementOfSeq
    <2> HIDE DEF h
    <2> QED
      BY <2>2 DEF Headers
  <1>3. [values(n) EXCEPT ![h.field] = h.value] = values(n + 1)
    BY <1>2, ValueNext
  <1>4. addHeader(Request(values(n)), h) = Request([values(n) EXCEPT ![h.field] = h.value])
    <2> HIDE DEF h, values
    <2> QED
      BY DEF addHeader
  <1> QED
    BY <1>1, <1>3, <1>4

------------------------------------------------------------------------------
(* The parser and what is left of the stream: of the k messages sent n have *)
(* been given to the callback, and the stream t is still to be parsed.      *)

\* Something else than well-formed requests has been sent.
Troubled(p, k) == \E j \in 1..k : ~WellFormed(p[j])

\* Between two messages.
AtMessage(p, n, k, x, t) ==
    \/ t = Wires(p, n, k) /\ x.request = NewRequest
    \/ Stuck(t) /\ Troubled(p, k)

\* Inside the headers of a message.
AtHeader(p, n, k, x, t) ==
    /\ n < k
    /\ \E j \in 0 .. Len(p[n + 1].headers) :
          /\ x.request = PartOf(p[n + 1], j)
          /\ t = RestOf(p[n + 1], j) \o Wires(p, n + 1, k)

\* After a message that the callback is to be given.
AtEnd(p, n, k, x, t) ==
    /\ n < k
    /\ x.request = RequestOf(p[n + 1])
    /\ \/ t = Wires(p, n + 1, k)
       \/ Stuck(t) /\ Troubled(p, k)
       \/ ReadsAsRequest(p[n + 1].body)

InStep(p, n, k, x, t) ==
    /\ x.state = "kExpectRequestLine" => AtMessage(p, n, k, x, t)
    /\ x.state = "kExpectHeaders" => AtHeader(p, n, k, x, t)
    /\ x.state = "kGotAll" => AtEnd(p, n, k, x, t)

\* One more message is sent.
LEMMA InStepMore ==
    ASSUME NEW p \in Seq(Messages), NEW n \in Nat, NEW k \in Nat, n <= k, k < Len(p),
           NEW x \in Contexts, NEW t \in Seq(Symbols), InStep(p, n, k, x, t)
    PROVE  InStep(p, n, k + 1, x, t \o OnWire(p[k + 1]))
  <1> DEFINE w == OnWire(p[k + 1])
             more == t \o w
  <1>0. Len(p) \in Nat /\ k + 1 \in 1 .. Len(p)
    BY LenProperties
  <1>1. w \in Seq(Symbols)
    BY <1>0, ElementOfSeq, OnWireType
  <1>2. Stuck(t) /\ Troubled(p, k) => Stuck(more) /\ Troubled(p, k + 1)
    BY <1>1, StuckMore DEF Troubled
  <1>3. t = Wires(p, n, k) => more = Wires(p, n, k + 1)
    BY WiresMore
  <1>4. n < k => /\ n + 1 \in Nat /\ n + 1 <= k /\ n < k + 1
                 /\ Wires(p, n + 1, k + 1) = Wires(p, n + 1, k) \o w
                 /\ Wires(p, n + 1, k) \in Seq(Symbols)
    <2> SUFFICES ASSUME n < k
                 PROVE  /\ n + 1 \in Nat /\ n + 1 <= k /\ n < k + 1
                        /\ Wires(p, n + 1, k + 1) = Wires(p, n + 1, k) \o w
                        /\ Wires(p, n + 1, k) \in Seq(Symbols)
      OBVIOUS
    <2>1. n + 1 \in Nat /\ n + 1 <= k /\ n < k + 1 /\ k <= Len(p)
      BY <1>0
    <2>2. Wires(p, n + 1, k + 1) = Wires(p, n + 1, k) \o w
      BY <2>1, WiresMore
    <2>3. Wires(p, n + 1, k) \in Seq(Symbols)
      BY <2>1, PiecesType
    <2> QED
      BY <2>1, <2>2, <2>3
  <1> HIDE DEF w, more
  <1>5. AtMessage(p, n, k, x, t) => AtMessage(p, n, k + 1, x, more)
    BY <1>2, <1>3 DEF AtMessage
  <1>6. AtHeader(p, n, k, x, t) => AtHeader(p, n, k + 1, x, more)
    <2> SUFFICES ASSUME AtHeader(p, n, k, x, t) PROVE AtHeader(p, n, k + 1, x, more)
      OBVIOUS
    <2>1. n < k
      BY DEF AtHeader
    <2>2. PICK j \in 0 .. Len(p[n + 1].headers) :
              /\ x.request = PartOf(p[n + 1], j)
              /\ t = RestOf(p[n + 1], j) \o Wires(p, n + 1, k)
      BY DEF AtHeader
    <2>3. RestOf(p[n + 1], j) \in Seq(Symbols)
      <3>1. n + 1 \in 1 .. Len(p)
        BY <1>0, <2>1
      <3>2. p[n + 1] \in Messages
        BY <3>1, ElementOfSeq
      <3> QED
        BY <3>2, RestType
    <2>4. Associates(RestOf(p[n + 1], j), Wires(p, n + 1, k), w)
      BY <1>1, <1>4, <2>1, <2>3, ConcatAssociates, Zenon
    <2>5. more = RestOf(p[n + 1], j) \o Wires(p, n + 1, k + 1)
      BY <1>4, <2>1, <2>2, <2>4 DEF Associates, more
    <2> QED
      BY <1>4, <2>1, <2>2, <2>5 DEF AtHeader
  <1>7. AtEnd(p, n, k, x, t) => AtEnd(p, n, k + 1, x, more)
    <2> SUFFICES ASSUME AtEnd(p, n, k, x, t) PROVE AtEnd(p, n, k + 1, x, more)
      OBVIOUS
    <2>1. /\ n < k /\ x.request = RequestOf(p[n + 1])
          /\ t = Wires(p, n + 1, k) \/ (Stuck(t) /\ Troubled(p, k)) \/ ReadsAsRequest(p[n + 1].body)
      BY DEF AtEnd
    <2>2. \/ more = Wires(p, n + 1, k + 1)
          \/ Stuck(more) /\ Troubled(p, k + 1)
          \/ ReadsAsRequest(p[n + 1].body)
      BY <1>2, <1>4, <2>1 DEF more
    <2> QED
      BY <1>4, <2>1, <2>2 DEF AtEnd
  <1>8. InStep(p, n, k + 1, x, more)
    BY <1>5, <1>6, <1>7 DEF InStep
  <1> QED
    BY <1>8 DEF more, w

\* The first line of a message.
FirstParsed(p, n, k, b, i) ==
    /\ n < k
    /\ FirstLine(b) = <<p[n + 1].line>>
    /\ AfterLine(b) \o i = RestOf(p[n + 1], 0) \o Wires(p, n + 1, k)
    /\ b \o i # <<>> /\ (b \o i)[1] = p[n + 1].line

LEMMA FirstOfMessage ==
    ASSUME NEW p \in Seq(Messages), NEW n \in Nat, NEW k \in Nat, n <= k, k <= Len(p),
           NEW b \in Seq(Symbols), NEW i \in Seq(Symbols),
           b \o i = Wires(p, n, k), findCRLF(b) # 0
    PROVE  FirstParsed(p, n, k, b, i)
  <1>0. Len(b) \in Nat /\ Len(i) \in Nat /\ Len(p) \in Nat
    BY LenProperties
  <1>1. Len(b) >= 2
    BY <1>0, FindCRLFType
  <1>2. b \o i # <<>>
    <2>1. Len(b \o i) = Len(b) + Len(i)
      BY ConcatProperties
    <2>2. Len(b \o i) # 0
      BY <1>0, <1>1, <2>1
    <2> QED
      BY <2>2, EmptySeq
  <1>3. n < k
    <2>1. n = k => Wires(p, n, k) = <<>>
      BY WiresNone
    <2> QED
      BY <1>2, <2>1
  <1> DEFINE m == p[n + 1]
             a == <<m.line, CR, LF>>
             w == Wires(p, n + 1, k)
             r == RestOf(m, 0)
  <1>4. m \in Messages
    <2>1. n + 1 \in 1 .. Len(p)
      BY <1>0, <1>3
    <2> QED
      BY <2>1, ElementOfSeq
  <1>5. w \in Seq(Symbols)
    <2>1. n + 1 \in Nat /\ n + 1 <= k
      BY <1>3
    <2> QED
      BY <2>1, PiecesType
  <1>6. r \in Seq(Symbols) /\ OnWire(m) = a \o r
    <2>1. Len(m.headers) \in Nat
      <3>1. m.headers \in Seq(Headers)
        BY <1>4 DEF Messages
      <3> QED
        BY <3>1, LenProperties
    <2>2. 0 \in 0 .. Len(m.headers)
      BY <2>1
    <2> HIDE DEF m
    <2> QED
      BY <1>4, <2>2, RestType, WireOfMessage
  <1>7. m.line \in Symbols /\ m.line # CR /\ m.line \in RequestLines
    <2> HIDE DEF m
    <2>1. m.line \in RequestLines
      BY <1>4 DEF Messages
    <2>2. m.line.type = "request"
      BY <2>1 DEF RequestLines
    <2>3. CR.type # "request"
      BY DEF CR
    <2> QED
      BY <2>1, <2>2, <2>3 DEF Symbols
  <1>8. Wires(p, n, k) = OnWire(m) \o w
    BY <1>3, WiresFirst
  <1>9. a \in Seq(Symbols)
    <2> HIDE DEF m
    <2> QED
      BY <1>7 DEF Symbols
  <1> HIDE DEF m, r, w
  <1>10. b \o i = a \o (r \o w)
    <2> HIDE DEF a
    <2>1. Associates(a, r, w)
      BY <1>5, <1>6, <1>9, ConcatAssociates, Zenon
    <2> QED
      BY <1>6, <1>8, <2>1 DEF Associates
  <1>11. r \o w \in Seq(Symbols)
    BY <1>5, <1>6, ConcatProperties
  <1>12. FirstLine(b) = <<m.line>> /\ AfterLine(b) \o i = r \o w
    BY <1>7, <1>10, <1>11, TextLine
  <1>13. (b \o i)[1] = m.line
    <2> DEFINE q == r \o w
    <2>1. q \in Seq(Symbols) /\ Len(q) \in Nat
      BY <1>11, LenProperties
    <2> HIDE DEF q
    <2>2. Len(a) = 3 /\ a[1] = m.line
      OBVIOUS
    <2> HIDE DEF a
    <2>3. 1 \in 1 .. Len(a) + Len(q) /\ 1 <= Len(a)
      BY <2>1, <2>2
    <2>4. (a \o q)[1] = a[1]
      BY <1>9, <2>1, <2>3, ConcatProperties
    <2> QED
      BY <1>10, <2>2, <2>4 DEF q
  <1> QED
    BY <1>2, <1>3, <1>12, <1>13 DEF FirstParsed, m, r, w

\* A good request line is that of the next message.
LEMMA InStepLine ==
    ASSUME NEW p \in Seq(Messages), NEW n \in Nat, NEW k \in Nat, n <= k, k <= Len(p),
           NEW x \in Contexts, NEW y \in Contexts,
           NEW b \in Seq(Symbols), NEW i \in Seq(Symbols),
           InStep(p, n, k, x, b \o i), x.state = "kExpectRequestLine",
           findCRLF(b) # 0, Succeeds(FirstLine(b)),
           y.state = "kExpectHeaders",
           y.request = processRequestLine(x.request, FirstLine(b))
    PROVE  InStep(p, n, k, y, AfterLine(b) \o i)
  <1>1. ~Stuck(b \o i)
    BY StuckLine
  <1>2. b \o i = Wires(p, n, k) /\ x.request = NewRequest
    BY <1>1 DEF InStep, AtMessage
  <1>3. /\ n < k /\ FirstLine(b) = <<p[n + 1].line>>
        /\ AfterLine(b) \o i = RestOf(p[n + 1], 0) \o Wires(p, n + 1, k)
    <2>1. FirstParsed(p, n, k, b, i)
      BY <1>2, FirstOfMessage, Zenon
    <2> QED
      BY <2>1, Zenon DEF FirstParsed
  <1>4. p[n + 1] \in Messages /\ 0 \in 0 .. Len(p[n + 1].headers)
    <2>1. Len(p) \in Nat
      BY LenProperties
    <2>2. n + 1 \in 1 .. Len(p)
      BY <1>3, <2>1
    <2>3. p[n + 1] \in Messages
      BY <2>2, ElementOfSeq
    <2>4. p[n + 1].headers \in Seq(Headers)
      BY <2>3 DEF Messages
    <2>5. Len(p[n + 1].headers) \in Nat
      BY <2>4, LenProperties
    <2> QED
      BY <2>3, <2>5
  <1>5. y.request = PartOf(p[n + 1], 0)
    BY <1>2, <1>3, <1>4, PartNone
  <1>6. AtHeader(p, n, k, y, AfterLine(b) \o i)
    BY <1>3, <1>4, <1>5 DEF AtHeader
  <1> QED
    BY <1>6 DEF InStep

\* After any other line nothing more is parsed.
LEMMA InStepRefused ==
    ASSUME NEW p \in Seq(Messages), NEW n \in Nat, NEW k \in Nat, n <= k, k <= Len(p),
           NEW x \in Contexts, NEW y \in Contexts,
           NEW b \in Seq(Symbols), NEW i \in Seq(Symbols),
           InStep(p, n, k, x, b \o i), x.state = "kExpectRequestLine",
           findCRLF(b) # 0, ~Succeeds(FirstLine(b)),
           y.state = "kExpectRequestLine"
    PROVE  InStep(p, n, k, y, b \o i)
  <1>1. Stuck(b \o i) /\ Troubled(p, k)
    <2>1. CASE Stuck(b \o i) /\ Troubled(p, k)
      BY <2>1
    <2>2. CASE b \o i = Wires(p, n, k)
      <3>1. /\ n < k /\ FirstLine(b) = <<p[n + 1].line>>
            /\ b \o i # <<>> /\ (b \o i)[1] = p[n + 1].line
        <4>1. FirstParsed(p, n, k, b, i)
          BY <2>2, FirstOfMessage, Zenon
        <4> QED
          BY <4>1, Zenon DEF FirstParsed
      <3>2. ~Succeeds(<<p[n + 1].line>>)
        BY <3>1
      <3>3. n + 1 \in 1 .. k /\ ~WellFormed(p[n + 1])
        BY <3>1, <3>2 DEF WellFormed
      <3> QED
        BY <3>1, <3>3 DEF Stuck, Troubled
    <2> QED
      BY <2>1, <2>2 DEF InStep, AtMessage
  <1> QED
    BY <1>1 DEF InStep, AtMessage

\* The next line of the headers: one that is added, or the empty one.
Parsed(p, n, k, x, b, i) ==
    \/ /\ HasColon(FirstLine(b))
       /\ \E j \in 0 .. Len(p[n + 1].headers) :
             /\ addHeader(x.request, FirstLine(b)[1]) = PartOf(p[n + 1], j)
             /\ AfterLine(b) \o i = RestOf(p[n + 1], j) \o Wires(p, n + 1, k)
    \/ /\ ~HasColon(FirstLine(b))
       /\ x.request = RequestOf(p[n + 1])
       /\ AfterLine(b) \o i = p[n + 1].body \o Wires(p, n + 1, k)

LEMMA NextHeader ==
    ASSUME NEW p \in Seq(Messages), NEW n \in Nat, NEW k \in Nat, n <= k, k <= Len(p),
           NEW x, NEW b \in Seq(Symbols), NEW i \in Seq(Symbols),
           AtHeader(p, n, k, x, b \o i), findCRLF(b) # 0
    PROVE  Parsed(p, n, k, x, b, i)
  <1>1. n < k
    BY DEF AtHeader
  <1> DEFINE m == p[n + 1]
             w == Wires(p, n + 1, k)
  <1>2. PICK j \in 0 .. Len(m.headers) : x.request = PartOf(m, j) /\ b \o i = RestOf(m, j) \o w
    BY DEF AtHeader
  <1>3. m \in Messages /\ w \in Seq(Symbols)
    <2>1. n + 1 \in 1 .. Len(p) /\ n + 1 \in Nat /\ n + 1 <= k
      BY <1>1, LenProperties
    <2> QED
      BY <2>1, ElementOfSeq, PiecesType
  <1> HIDE DEF m, w
  <1>6. m.headers \in Seq(Headers) /\ m.body \in Seq(Symbols) /\ Len(m.headers) \in Nat
    <2>1. m.headers \in Seq(Headers) /\ m.body \in Seq(Symbols)
      BY <1>3 DEF Messages
    <2> QED
      BY <2>1, LenProperties
  <1>7. CASE j < Len(m.headers)
    <2> DEFINE h == m.headers[j + 1]
               a == <<h, CR, LF>>
               r == RestOf(m, j + 1)
    <2>1. j \in Nat /\ j + 1 \in 1 .. Len(m.headers) /\ j + 1 \in 0 .. Len(m.headers)
      BY <1>6, <1>7
    <2>2. RestOf(m, j) = a \o r
      BY <1>3, <1>7, <2>1, RestFirst
    <2>3. r \in Seq(Symbols)
      BY <1>3, <2>1, RestType
    <2>4. h \in Headers
      BY <1>6, <2>1, ElementOfSeq
    <2> HIDE DEF h, r
    <2>5. h \in Symbols /\ h # CR /\ h.type = "header" /\ a \in Seq(Symbols)
      <3>1. h.type = "header"
        BY <2>4 DEF Headers
      <3>2. CR.type # "header"
        BY DEF CR
      <3> QED
        BY <2>4, <3>1, <3>2 DEF Symbols
    <2>6. b \o i = a \o (r \o w) /\ r \o w \in Seq(Symbols)
      <3> HIDE DEF a
      <3>1. Associates(a, r, w)
        BY <1>3, <2>3, <2>5, ConcatAssociates, Zenon
      <3>2. r \o w \in Seq(Symbols)
        BY <1>3, <2>3, ConcatProperties
      <3> QED
        BY <1>2, <2>2, <3>1, <3>2 DEF Associates
    <2>7. FirstLine(b) = <<h>> /\ AfterLine(b) \o i = r \o w
      <3> DEFINE q == r \o w
      <3>1. h \in Symbols /\ h # CR /\ q \in Seq(Symbols) /\ b \o i = <<h, CR, LF>> \o q
        BY <2>5, <2>6
      <3> HIDE DEF q
      <3>2. FirstLine(b) = <<h>> /\ AfterLine(b) \o i = q
        BY <3>1, TextLine
      <3> QED
        BY <3>2 DEF q
    <2>8. HasColon(FirstLine(b)) /\ FirstLine(b)[1] = h
      BY <2>5, <2>7 DEF HasColon
    <2>9. addHeader(x.request, h) = PartOf(m, j + 1)
      BY <1>2, <1>3, <1>7, <2>1, PartNext DEF h
    <2>10. addHeader(x.request, FirstLine(b)[1]) = PartOf(m, j + 1)
      BY <2>8, <2>9
    <2> QED
      BY <2>1, <2>7, <2>8, <2>10 DEF Parsed, m, w, r
  <1>8. CASE j = Len(m.headers)
    <2>1. RestOf(m, j) = <<CR, LF>> \o m.body
      BY <1>3, <1>8, RestLast
    <2>2. b \o i = <<CR, LF>> \o (m.body \o w) /\ m.body \o w \in Seq(Symbols)
      <3> DEFINE a == <<CR, LF>>
                 r == m.body
      <3>1. a \in Seq(Symbols) /\ r \in Seq(Symbols)
        BY <1>6 DEF Symbols
      <3>2. b \o i = (a \o r) \o w
        BY <1>2, <2>1
      <3> HIDE DEF a, r
      <3>3. Associates(a, r, w)
        BY <1>3, <3>1, ConcatAssociates, Zenon
      <3>4. r \o w \in Seq(Symbols)
        BY <1>3, <3>1, ConcatProperties
      <3>5. b \o i = a \o (r \o w)
        BY <3>2, <3>3 DEF Associates
      <3> QED
        BY <3>4, <3>5 DEF a, r
    <2>3. FirstLine(b) = <<>> /\ AfterLine(b) \o i = m.body \o w
      BY <2>2, EmptyLine
    <2>4. ~HasColon(FirstLine(b))
      <3>1. Len(<<>>) = 0
        BY EmptySeq
      <3> QED
        BY <2>3, <3>1 DEF HasColon
    <2>5. x.request = RequestOf(m)
      BY <1>2, <1>8 DEF RequestOf
    <2> QED
      BY <2>3, <2>4, <2>5 DEF Parsed, m, w
  <1>9. j < Len(m.headers) \/ j = Len(m.headers)
    BY <1>6
  <1> QED
    BY <1>7, <1>8, <1>9, Zenon

\* The headers of the message are added one by one.
LEMMA InStepHeader ==
    ASSUME NEW p \in Seq(Messages), NEW n \in Nat, NEW k \in Nat, n <= k, k <= Len(p),
           NEW x, NEW y, NEW b \in Seq(Symbols), NEW i \in Seq(Symbols),
           InStep(p, n, k, x, b \o i), x.state = "kExpectHeaders",
           findCRLF(b) # 0, HasColon(FirstLine(b)), y.state = "kExpectHeaders",
           y.request = addHeader(x.request, FirstLine(b)[1])
    PROVE  InStep(p, n, k, y, AfterLine(b) \o i)
  <1>1. AtHeader(p, n, k, x, b \o i) /\ n < k
    BY DEF InStep, AtHeader
  <1>2. Parsed(p, n, k, x, b, i)
    BY <1>1, NextHeader
  <1>3. AtHeader(p, n, k, y, AfterLine(b) \o i)
    BY <1>1, <1>2 DEF Parsed, AtHeader
  <1> QED
    BY <1>3 DEF InStep

\* The empty line ends the message; a body that follows is stuck, or read as a request.
LEMMA InStepEnd ==
    ASSUME NEW p \in Seq(Messages), NEW n \in Nat, NEW k \in Nat, n < k, k <= Len(p),
           NEW y \in Contexts, y.state = "kGotAll", y.request = RequestOf(p[n + 1])
    PROVE  InStep(p, n, k, y, p[n + 1].body \o Wires(p, n + 1, k))
  <1> DEFINE body == p[n + 1].body
             w == Wires(p, n + 1, k)
  <1>1. body \in Seq(Symbols) /\ w \in Seq(Symbols)
    <2>1. n + 1 \in 1 .. Len(p) /\ n + 1 \in Nat /\ n + 1 <= k
      BY LenProperties
    <2>2. p[n + 1] \in Messages /\ w \in Seq(Symbols)
      BY <2>1, ElementOfSeq, PiecesType
    <2> QED
      BY <2>2 DEF Messages
  <1>2. body # <<>> => Troubled(p, k)
    <2>1. n + 1 \in 1 .. k
      OBVIOUS
    <2> QED
      BY <2>1 DEF Troubled, WellFormed
  <1> HIDE DEF body, w
  <1>3. body \o w = w \/ (Stuck(body \o w) /\ Troubled(p, k)) \/ ReadsAsRequest(body)
    <2>1. CASE body = <<>>
      BY <1>1, <2>1, ConcatEmptySeq
    <2>2. CASE body # <<>> /\ ~ReadsAsRequest(body)
      <3>1. Head(body) = body[1]
        OBVIOUS
      <3>2. Stuck(body)
        BY <2>2, <3>1 DEF Stuck, ReadsAsRequest
      <3> QED
        BY <1>1, <1>2, <2>2, <3>2, StuckMore
    <2> QED
      BY <2>1, <2>2
  <1>4. AtEnd(p, n, k, y, body \o w)
    BY <1>3 DEF AtEnd, w, body
  <1> QED
    BY <1>4 DEF InStep, body, w

------------------------------------------------------------------------------
(* The connections.                                                        *)

\* No body that reads as a request comes before the i-th message.
ClearBefore(p, i) == \A j \in DOMAIN p : j < i => ~ReadsAsRequest(p[j].body)

HandledSound(c) ==
    \A i \in DOMAIN handled[c] :
        ClearBefore(program[c], i) => i <= sent[c] /\ handled[c][i] = RequestOf(program[c][i])

\* So far the stream has been parsed as the client meant it.
OnTrack(c) == ClearBefore(program[c], Len(handled[c]) + 1)

StreamSound(c) ==
    /\ sent[c] <= Len(program[c])
    /\ HandledSound(c)
    /\ OnTrack(c) =>
          /\ Len(handled[c]) <= sent[c]
          /\ InStep(program[c], Len(handled[c]), sent[c], context[c], buffer[c] \o inbound[c])

StreamInv == ParserInv /\ \A c \in Conns : StreamSound(c)

LEMMA ConnectionType ==
    ASSUME StreamInv, NEW c \in Conns
    PROVE  /\ program[c] \in Seq(Messages) /\ sent[c] \in Nat /\ Len(handled[c]) \in Nat
           /\ sent[c] <= Len(program[c]) /\ Len(program[c]) \in Nat
           /\ OnTrack(c) => Len(handled[c]) <= sent[c]
           /\ DOMAIN handled[c] = 1 .. Len(handled[c]) /\ DOMAIN program[c] = 1 .. Len(program[c])
           /\ context[c] \in Contexts
           /\ buffer[c] \in Seq(Symbols) /\ inbound[c] \in Seq(Symbols)
           /\ buffer[c] \o inbound[c] \in Seq(Symbols)
  <1>1. HttpTypeOK /\ StreamSound(c)
    BY DEF StreamInv, ParserInv
  <1>2. program[c] \in Seq(Messages)
    BY <1>1, ProgramsAssumption DEF HttpTypeOK, Messages
  <1>3. /\ sent[c] \in Nat /\ handled[c] \in Seq(Requests) /\ context[c] \in Contexts
        /\ buffer[c] \in Seq(Symbols) /\ inbound[c] \in Seq(Symbols)
    BY <1>1 DEF HttpTypeOK
  <1> QED
    BY <1>1, <1>2, <1>3, LenProperties, ConcatProperties DEF StreamSound

LEMMA InitStream == Init => StreamInv
  <1> SUFFICES ASSUME Init PROVE StreamInv
    OBVIOUS
  <1>1. ParserInv
    BY InitParser
  <1>2. ASSUME NEW c \in Conns PROVE StreamSound(c)
    <2>1. program[c] \in Seq(Messages)
      BY <1>1, ProgramsAssumption DEF ParserInv, HttpTypeOK, Messages
    <2>2. /\ sent[c] = 0 /\ handled[c] = <<>> /\ context[c] = NewContext
          /\ buffer[c] = <<>> /\ inbound[c] = <<>>
      BY DEF Init
    <2>3. Len(<<>>) = 0 /\ Len(program[c]) \in Nat
      BY <2>1, EmptySeq, LenProperties
    <2>4. Wires(program[c], 0, 0) = <<>>
      BY <2>1, <2>3, WiresNone
    <2>5. <<>> \o <<>> = <<>>
      BY ConcatEmptySeq, EmptySeq
    <2>6. NewContext.state = "kExpectRequestLine" /\ NewContext.request = NewRequest
      BY Zenon DEF NewContext
    <2>7. AtMessage(program[c], 0, 0, NewContext, <<>>)
      BY <2>4, <2>6 DEF AtMessage
    <2>8. InStep(program[c], 0, 0, NewContext, <<>>)
      BY <2>6, <2>7 DEF InStep
    <2> QED
      BY <2>2, <2>3, <2>5, <2>8, EmptySeq DEF StreamSound, HandledSound
  <1> QED
    BY <1>1, <1>2 DEF StreamInv

\* What a step leaves alone stays sound.
Same(c) ==
    /\ program'[c] = program[c] /\ sent'[c] = sent[c] /\ handled'[c] = handled[c]
    /\ context'[c] = context[c] /\ buffer'[c] \o inbound'[c] = buffer[c] \o inbound[c]

LEMMA SameStream ==
    ASSUME NEW c \in Conns, StreamSound(c), Same(c)
    PROVE  StreamSound(c)'
  BY DEF StreamSound, HandledSound, OnTrack, Same

\* Once a body has been taken for a request only what was handled before counts.
LEMMA OffTrack ==
    ASSUME StreamInv, NEW c \in Conns, ~OnTrack(c),
           program'[c] = program[c], handled'[c] = handled[c],
           sent'[c] \in {sent[c], sent[c] + 1}, sent'[c] <= Len(program[c])
    PROVE  StreamSound(c)'
  <1>1. StreamSound(c) /\ sent[c] \in Nat /\ DOMAIN handled[c] \subseteq Nat
    <2>1. DOMAIN handled[c] = 1 .. Len(handled[c]) /\ Len(handled[c]) \in Nat /\ sent[c] \in Nat
      BY ConnectionType
    <2> QED
      BY <2>1 DEF StreamInv
  <1>2. ~OnTrack(c)'
    BY DEF OnTrack
  <1>3. HandledSound(c)'
    BY <1>1 DEF StreamSound, HandledSound
  <1> QED
    BY <1>2, <1>3 DEF StreamSound

LEMMA SendStream ==
    ASSUME StreamInv, NEW c \in Conns, SendMessage(c)
    PROVE  \A d \in Conns : StreamSound(d)'
  <1>1. HttpTypeOK /\ \A d \in Conns : StreamSound(d)
    BY DEF StreamInv, ParserInv
  <1>2. ASSUME NEW d \in Conns, d # c PROVE StreamSound(d)'
    <2>1. Same(d)
      BY <1>1, <1>2 DEF SendMessage, HttpTypeOK, Same
    <2> QED
      BY <1>1, <2>1, SameStream
  <1>3. StreamSound(c)'
    <2> DEFINE w == OnWire(program[c][sent[c] + 1])
    <2>1. /\ program' = program /\ handled' = handled /\ context' = context /\ buffer' = buffer
          /\ sent'[c] = sent[c] + 1 /\ inbound'[c] = inbound[c] \o w
      BY <1>1 DEF SendMessage, HttpTypeOK
    <2>2. sent[c] < Len(program[c])
      BY DEF SendMessage
    <2>3. w \in Seq(Symbols)
      <3>1. sent[c] + 1 \in 1 .. Len(program[c])
        BY <2>2, ConnectionType
      <3> QED
        BY <3>1, ConnectionType, ElementOfSeq, OnWireType
    <2>4. buffer[c] \o (inbound[c] \o w) = (buffer[c] \o inbound[c]) \o w
      <3> HIDE DEF w
      <3>1. Associates(buffer[c], inbound[c], w)
        BY <2>3, ConnectionType, ConcatAssociates, Zenon
      <3> QED
        BY <3>1 DEF Associates
    <2>5. /\ sent[c] \in Nat /\ sent[c] + 1 <= Len(program[c])
          /\ DOMAIN handled[c] = 1 .. Len(handled[c]) /\ Len(handled[c]) \in Nat
      BY <2>2, ConnectionType
    <2>6. SUFFICES ASSUME OnTrack(c) PROVE StreamSound(c)'
      BY <2>1, <2>5, OffTrack
    <2>7. InStep(program[c], Len(handled[c]), sent[c] + 1, context[c],
                 (buffer[c] \o inbound[c]) \o w)
      <3>1. StreamSound(c) /\ Len(handled[c]) <= sent[c]
        BY <1>1, <2>6, ConnectionType
      <3> QED
        BY <2>2, <2>6, <3>1, ConnectionType, InStepMore DEF StreamSound
    <2> HIDE DEF w
    <2>8. Len(handled[c]) <= sent[c] + 1
      BY <2>6, ConnectionType
    <2>9. HandledSound(c)'
      BY <1>1, <2>1, <2>5 DEF StreamSound, HandledSound
    <2> QED
      BY <2>1, <2>4, <2>5, <2>7, <2>8, <2>9 DEF StreamSound
  <1> QED
    BY <1>2, <1>3

LEMMA ArriveStream ==
    ASSUME StreamInv, NEW c \in Conns, NEW k, Arrive(c, k)
    PROVE  \A d \in Conns : StreamSound(d)'
  <1>1. HttpTypeOK /\ \A d \in Conns : StreamSound(d)
    BY DEF StreamInv, ParserInv
  <1>2. ASSUME NEW d \in Conns PROVE Same(d)
    <2>1. CASE d # c
      BY <1>1, <2>1 DEF Arrive, clientVars, HttpTypeOK, Same
    <2>2. CASE d = c
      <3> DEFINE b == buffer[c]
                 i == inbound[c]
                 front == SubSeq(i, 1, k)
                 rest == SubSeq(i, k + 1, Len(i))
      <3>1. b \in Seq(Symbols) /\ i \in Seq(Symbols) /\ k \in 1 .. Len(i)
        BY ConnectionType DEF Arrive
      <3>2. /\ buffer'[c] = b \o front /\ inbound'[c] = rest
            /\ UNCHANGED <<program, sent, handled, context>>
        BY <1>1 DEF Arrive, clientVars, HttpTypeOK
      <3> HIDE DEF b, i
      <3>3. Len(i) \in Nat /\ k \in Nat
        BY <3>1, LenProperties
      <3>4. front \in Seq(Symbols) /\ rest \in Seq(Symbols)
        <4>1. /\ \A j \in k + 1 .. Len(i) : i[j] \in Symbols
              /\ \A j \in 1 .. k : i[j] \in Symbols
          BY <3>1, <3>3, ElementOfSeq
        <4> QED
          BY <3>3, <4>1, SubSeqProperties
      <3>5. front \o rest = i
        <4>1. 1 \in 1 .. Len(i) + 1 /\ k \in 1 - 1 .. Len(i) /\ Len(i) \in k .. Len(i)
          BY <3>1, <3>3
        <4>2. front \o rest = SubSeq(i, 1, Len(i))
          BY <3>1, <4>1, ConcatAdjacentSubSeq
        <4> QED
          BY <3>1, <4>2, SubSeqFull
      <3> HIDE DEF front, rest
      <3>6. Associates(b, front, rest)
        BY <3>1, <3>4, ConcatAssociates, Zenon
      <3>7. buffer'[c] \o inbound'[c] = b \o i
        BY <3>2, <3>5, <3>6 DEF Associates
      <3> QED
        BY <2>2, <3>2, <3>7 DEF Same, b, i
    <2> QED
      BY <2>1, <2>2
  <1> QED
    BY <1>1, <1>2, SameStream

LEMMA LineStream ==
    ASSUME StreamInv, NEW c \in Conns, ParseRequestLine(c)
    PROVE  \A d \in Conns : StreamSound(d)'
  <1> DEFINE b == buffer[c]
             i == inbound[c]
             line == FirstLine(b)
             request == processRequestLine(context[c].request, line)
  <1>1. HttpTypeOK /\ \A d \in Conns : StreamSound(d)
    BY DEF StreamInv, ParserInv
  <1>2. /\ context[c].state = "kExpectRequestLine" /\ findCRLF(b) # 0
        /\ context' = [context EXCEPT ![c].request = request,
                                      ![c].state = IF Succeeds(line) THEN "kExpectHeaders" ELSE @]
        /\ buffer' = IF Succeeds(line) THEN [buffer EXCEPT ![c] = AfterLine(b)] ELSE buffer
        /\ UNCHANGED <<program, sent, inbound, handled>>
    BY DEF ParseRequestLine, InState, HasLine, clientVars
  <1>3. b \in Seq(Symbols) /\ i \in Seq(Symbols) /\ context[c] \in Contexts
    BY ConnectionType
  <1>4. request \in Requests
    BY <1>3, LineType, RequestLineType DEF Contexts
  <1> HIDE DEF b, i, line, request
  <1>5. ASSUME NEW d \in Conns, d # c PROVE StreamSound(d)'
    <2>1. Same(d)
      BY <1>1, <1>2, <1>5 DEF HttpTypeOK, Same
    <2> QED
      BY <1>1, <2>1, SameStream
  <1>6. StreamSound(c)'
    <2>0. SUFFICES ASSUME OnTrack(c) PROVE StreamSound(c)'
      BY <1>2, ConnectionType, OffTrack
    <2>1. /\ InStep(program[c], Len(handled[c]), sent[c], context[c], b \o i)
          /\ Len(handled[c]) <= sent[c]
      BY <1>1, <2>0 DEF StreamSound, b, i
    <2> DEFINE y == context'[c]
    <2>2. /\ y \in Contexts /\ y.request = request
          /\ y.state = IF Succeeds(line) THEN "kExpectHeaders" ELSE "kExpectRequestLine"
          /\ buffer'[c] = IF Succeeds(line) THEN AfterLine(b) ELSE b
      BY <1>1, <1>2, <1>3, <1>4 DEF HttpTypeOK, Contexts, States, b
    <2> HIDE DEF y
    <2>3. CASE Succeeds(line)
      <3>1. InStep(program[c], Len(handled[c]), sent[c], y, AfterLine(b) \o i)
        BY <1>2, <1>3, <2>1, <2>2, <2>3, ConnectionType, InStepLine DEF line, request
      <3> QED
        BY <1>1, <1>2, <2>1, <2>2, <2>3, <3>1 DEF StreamSound, HandledSound, y, i
    <2>4. CASE ~Succeeds(line)
      <3>1. InStep(program[c], Len(handled[c]), sent[c], y, b \o i)
        BY <1>2, <1>3, <2>1, <2>2, <2>4, ConnectionType, InStepRefused DEF line
      <3> QED
        BY <1>1, <1>2, <2>1, <2>2, <2>4, <3>1 DEF StreamSound, HandledSound, y, i
    <2> QED
      BY <2>3, <2>4
  <1> QED
    BY <1>5, <1>6

LEMMA HeaderStream ==
    ASSUME StreamInv, NEW c \in Conns, ParseHeader(c)
    PROVE  \A d \in Conns : StreamSound(d)'
  <1> DEFINE b == buffer[c]
             i == inbound[c]
             line == FirstLine(b)
             request == addHeader(context[c].request, line[1])
  <1>1. HttpTypeOK /\ \A d \in Conns : StreamSound(d)
    BY DEF StreamInv, ParserInv
  <1>2. /\ context[c].state = "kExpectHeaders" /\ findCRLF(b) # 0 /\ HasColon(line)
        /\ context' = [context EXCEPT ![c].request = request]
        /\ buffer' = [buffer EXCEPT ![c] = AfterLine(b)]
        /\ UNCHANGED <<program, sent, inbound, handled>>
    BY DEF ParseHeader, InState, HasLine, clientVars
  <1>3. b \in Seq(Symbols) /\ i \in Seq(Symbols) /\ context[c] \in Contexts
    BY ConnectionType
  <1>4. request \in Requests
    <2>1. Len(line) = 1 /\ line[1].type = "header" /\ line \in Seq(Symbols)
      BY <1>2, <1>3, LineType DEF HasColon
    <2>2. line[1] \in Headers
      BY <2>1, ElementOfSeq, SymbolType
    <2> QED
      BY <1>3, <2>2, AddHeaderType DEF Contexts
  <1> HIDE DEF b, i, line, request
  <1>5. ASSUME NEW d \in Conns, d # c PROVE StreamSound(d)'
    <2>1. Same(d)
      BY <1>1, <1>2, <1>5 DEF HttpTypeOK, Same
    <2> QED
      BY <1>1, <2>1, SameStream
  <1>6. StreamSound(c)'
    <2>0. SUFFICES ASSUME OnTrack(c) PROVE StreamSound(c)'
      BY <1>2, ConnectionType, OffTrack
    <2>1. /\ InStep(program[c], Len(handled[c]), sent[c], context[c], b \o i)
          /\ Len(handled[c]) <= sent[c]
      BY <1>1, <2>0 DEF StreamSound, b, i
    <2> DEFINE y == context'[c]
    <2>2. /\ y \in Contexts /\ y.request = request /\ y.state = "kExpectHeaders"
          /\ buffer'[c] = AfterLine(b)
      BY <1>1, <1>2, <1>3, <1>4 DEF HttpTypeOK, Contexts
    <2> HIDE DEF y
    <2>3. InStep(program[c], Len(handled[c]), sent[c], y, AfterLine(b) \o i)
      BY <1>2, <1>3, <2>1, <2>2, ConnectionType, InStepHeader DEF line, request
    <2> QED
      BY <1>1, <1>2, <2>1, <2>2, <2>3 DEF StreamSound, HandledSound, y, i
  <1> QED
    BY <1>5, <1>6

LEMMA EndStream ==
    ASSUME StreamInv, NEW c \in Conns, ParseEnd(c)
    PROVE  \A d \in Conns : StreamSound(d)'
  <1> DEFINE b == buffer[c]
             i == inbound[c]
             line == FirstLine(b)
             n == Len(handled[c])
             p == program[c]
  <1>1. HttpTypeOK /\ \A d \in Conns : StreamSound(d)
    BY DEF StreamInv, ParserInv
  <1>2. /\ context[c].state = "kExpectHeaders" /\ findCRLF(b) # 0 /\ ~HasColon(line)
        /\ context' = [context EXCEPT ![c].state = "kGotAll"]
        /\ buffer' = [buffer EXCEPT ![c] = AfterLine(b)]
        /\ UNCHANGED <<program, sent, inbound, handled>>
    BY DEF ParseEnd, InState, HasLine, clientVars
  <1>3. /\ b \in Seq(Symbols) /\ i \in Seq(Symbols) /\ context[c] \in Contexts
        /\ p \in Seq(Messages) /\ n \in Nat /\ sent[c] \in Nat /\ sent[c] <= Len(p)
        /\ Len(p) \in Nat
    BY ConnectionType
  <1> DEFINE y == context'[c]
  <1>4. /\ y \in Contexts /\ y.request = context[c].request /\ y.state = "kGotAll"
        /\ buffer'[c] = AfterLine(b)
    BY <1>1, <1>2, <1>3 DEF HttpTypeOK, Contexts, States
  <1>5. OnTrack(c) => InStep(p, n, sent[c], context[c], b \o i) /\ n <= sent[c]
    BY <1>1 DEF StreamSound
  <1> HIDE DEF b, i, line, n, p, y
  <1>7. ASSUME NEW d \in Conns, d # c PROVE StreamSound(d)'
    <2>1. Same(d)
      BY <1>1, <1>2, <1>7 DEF HttpTypeOK, Same
    <2> QED
      BY <1>1, <2>1, SameStream
  <1>8. StreamSound(c)'
    <2>0. SUFFICES ASSUME OnTrack(c) PROVE StreamSound(c)'
      BY <1>2, ConnectionType, OffTrack
    <2>1. /\ n < sent[c] /\ context[c].request = RequestOf(p[n + 1])
          /\ AfterLine(b) \o i = p[n + 1].body \o Wires(p, n + 1, sent[c])
      <3> DEFINE x == context[c]
                 k == sent[c]
      <3>1. /\ p \in Seq(Messages) /\ n \in Nat /\ k \in Nat /\ n <= k /\ k <= Len(p)
            /\ x \in Contexts /\ b \in Seq(Symbols) /\ i \in Seq(Symbols)
            /\ InStep(p, n, k, x, b \o i) /\ x.state = "kExpectHeaders"
            /\ findCRLF(b) # 0 /\ ~HasColon(FirstLine(b))
        BY <1>2, <1>3, <1>5, <2>0 DEF line
      <3> HIDE DEF x, k
      <3>2. AtHeader(p, n, k, x, b \o i) /\ n < k
        BY <3>1 DEF InStep, AtHeader
      <3>3. Parsed(p, n, k, x, b, i)
        BY <3>1, <3>2, NextHeader
      <3> QED
        BY <3>1, <3>2, <3>3 DEF Parsed, x, k
    <2>2. n + 1 \in 1 .. Len(p)
      BY <1>3, <2>1
    <2>3. InStep(p, n, sent[c], y, p[n + 1].body \o Wires(p, n + 1, sent[c]))
      BY <1>3, <1>4, <2>1, <2>2, InStepEnd
    <2>4. InStep(p, n, sent[c], y, AfterLine(b) \o i)
      BY <2>1, <2>3
    <2> QED
      BY <1>1, <1>2, <1>4, <1>5, <2>0, <2>4 DEF StreamSound, HandledSound, p, n, y, i
  <1> QED
    BY <1>7, <1>8

\* After the reset the next message is expected, or the stream is stuck.
LEMMA InStepReset ==
    ASSUME NEW p, NEW n \in Nat, NEW k, NEW x, NEW t,
           InStep(p, n, k, x, t), x.state = "kGotAll"
    PROVE  /\ n < k /\ x.request = RequestOf(p[n + 1])
           /\ ~ReadsAsRequest(p[n + 1].body) => InStep(p, n + 1, k, NewContext, t)
  <1>1. /\ n < k /\ x.request = RequestOf(p[n + 1])
        /\ t = Wires(p, n + 1, k) \/ (Stuck(t) /\ Troubled(p, k)) \/ ReadsAsRequest(p[n + 1].body)
    BY DEF InStep, AtEnd
  <1>2. NewContext.state = "kExpectRequestLine" /\ NewContext.request = NewRequest
    BY Zenon DEF NewContext
  <1>3. ~ReadsAsRequest(p[n + 1].body) => AtMessage(p, n + 1, k, NewContext, t)
    BY <1>1, <1>2 DEF AtMessage
  <1> QED
    BY <1>1, <1>2, <1>3 DEF InStep

LEMMA ReturnStream ==
    ASSUME StreamInv, NEW c \in Conns, Return(c)
    PROVE  \A d \in Conns : StreamSound(d)'
  <1> DEFINE n == Len(handled[c])
             p == program[c]
             request == context[c].request
  <1>1. HttpTypeOK /\ \A d \in Conns : StreamSound(d)
    BY DEF StreamInv, ParserInv
  <1>2. /\ context' = IF gotAll(context[c]) THEN [context EXCEPT ![c] = NewContext] ELSE context
        /\ handled' = IF gotAll(context[c])
                      THEN [handled EXCEPT ![c] = Append(@, request)] ELSE handled
        /\ UNCHANGED <<program, sent, inbound, buffer>>
    BY DEF Return, reset, clientVars
  <1>3. ASSUME NEW d \in Conns, d # c \/ ~gotAll(context[c]) PROVE StreamSound(d)'
    <2>1. Same(d)
      BY <1>1, <1>2, <1>3 DEF HttpTypeOK, Same
    <2> QED
      BY <1>1, <2>1, SameStream
  <1>4. ASSUME gotAll(context[c]) PROVE StreamSound(c)'
    <2>1. /\ n \in Nat /\ sent[c] \in Nat /\ handled[c] \in Seq(Requests) /\ request \in Requests
          /\ DOMAIN handled[c] = 1 .. n /\ DOMAIN p = 1 .. Len(p) /\ Len(p) \in Nat
          /\ sent[c] <= Len(p)
      BY <1>1, ConnectionType DEF HttpTypeOK, Contexts
    <2>2. OnTrack(c) =>
             /\ n < sent[c] /\ request = RequestOf(p[n + 1])
             /\ ~ReadsAsRequest(p[n + 1].body) =>
                   InStep(p, n + 1, sent[c], NewContext, buffer[c] \o inbound[c])
      BY <1>1, <1>4, <2>1, InStepReset DEF StreamSound, gotAll
    <2>3. context'[c] = NewContext /\ handled'[c] = Append(handled[c], request)
      BY <1>1, <1>2, <1>4 DEF HttpTypeOK
    <2> DEFINE h == Append(handled[c], request)
    <2>4. /\ Len(h) = n + 1 /\ h[n + 1] = request /\ DOMAIN h = 1 .. n + 1
          /\ \A j \in 1 .. n : h[j] = handled[c][j]
      BY <2>1, AppendProperties, LenProperties
    <2> HIDE DEF h
    <2>5. ASSUME NEW j \in 1 .. n + 1, ClearBefore(p, j)
          PROVE  j <= sent[c] /\ h[j] = RequestOf(p[j])
      <3>1. CASE j \in 1 .. n
        <4>1. HandledSound(c)
          BY <1>1 DEF StreamSound
        <4>2. j <= sent[c] /\ handled[c][j] = RequestOf(p[j])
          BY <2>1, <2>5, <3>1, <4>1 DEF HandledSound
        <4> QED
          BY <2>4, <3>1, <4>2
      <3>2. CASE j = n + 1
        <4>1. OnTrack(c)
          BY <2>5, <3>2 DEF OnTrack
        <4> HIDE DEF n, request, p
        <4> QED
          BY <2>1, <2>2, <2>4, <3>2, <4>1
      <3> HIDE DEF n
      <3> QED
        BY <2>1, <3>1, <3>2
    <2>6. ASSUME ClearBefore(p, (n + 1) + 1)
          PROVE  n + 1 <= sent[c] /\ InStep(p, n + 1, sent[c], NewContext, buffer[c] \o inbound[c])
      <3>1. OnTrack(c)
        <4>1. \A j \in 1 .. Len(p) : j < n + 1 => j < (n + 1) + 1
          <5> HIDE DEF n, p
          <5> QED
            BY <2>1
        <4> QED
          BY <2>1, <2>6, <4>1 DEF OnTrack, ClearBefore
      <3>2. n + 1 \in 1 .. Len(p) /\ n + 1 < (n + 1) + 1 /\ n + 1 <= sent[c]
        <4>1. n < sent[c]
          BY <2>2, <3>1
        <4> HIDE DEF n, p
        <4> QED
          BY <2>1, <4>1
      <3>3. ~ReadsAsRequest(p[n + 1].body)
        BY <2>1, <2>6, <3>2 DEF ClearBefore
      <3> QED
        BY <2>2, <3>1, <3>2, <3>3
    <2>7. /\ program' = program /\ sent' = sent /\ inbound' = inbound /\ buffer' = buffer
          /\ handled'[c] = h
      BY <1>2, <2>3 DEF h
    <2>8. HandledSound(c)'
      BY <2>4, <2>5, <2>7 DEF HandledSound
    <2> QED
      BY <2>1, <2>3, <2>4, <2>6, <2>7, <2>8 DEF StreamSound, OnTrack
  <1> QED
    BY <1>3, <1>4

LEMMA NextStream == StreamInv /\ [Next]_vars => StreamInv'
  <1> SUFFICES ASSUME StreamInv, [Next]_vars PROVE StreamInv'
    OBVIOUS
  <1>1. ParserInv'
    BY NextParser DEF StreamInv
  <1>2. \A d \in Conns : StreamSound(d)'
    <2>1. CASE Next
      <3>1. PICK c \in Conns : SendMessage(c) \/ Server(c)
        BY <2>1 DEF Next
      <3>2. NeedsMore(c) \/ End(c) => \A d \in Conns : Same(d)
        BY DEF NeedsMore, End, clientVars, Same
      <3>3. NeedsMore(c) \/ End(c) => \A d \in Conns : StreamSound(d)'
        BY <3>2, SameStream, Zenon DEF StreamInv
      <3> QED
        BY <3>1, <3>3, SendStream, ArriveStream, LineStream, HeaderStream, EndStream,
           ReturnStream, Zenon DEF Server
    <2>2. CASE UNCHANGED vars
      <3>1. \A d \in Conns : Same(d)
        BY <2>2 DEF vars, Same
      <3> QED
        BY <3>1, SameStream, Zenon DEF StreamInv
    <2> QED
      BY <2>1, <2>2
  <1> QED
    BY <1>1, <1>2 DEF StreamInv

LEMMA StreamAlways == Spec => []StreamInv
  BY InitStream, NextStream, PTL DEF Spec

\* However the network cuts the stream of a client into pieces, the callback gets the
\* client's requests, whole and in order, up to the first body that reads as a
\* request (HttpContext.cc:51-101, HttpServer.cc:41-54).
THEOREM RequestsIntactHolds == Spec => []RequestsIntact
  <1>1. StreamInv => RequestsIntact
    <2> SUFFICES ASSUME StreamInv, NEW c \in Conns, NEW i \in DOMAIN handled[c],
                        ClearBefore(program[c], i)
                 PROVE  i <= Len(program[c]) /\ handled[c][i] = RequestOf(program[c][i])
      BY DEF RequestsIntact, ClearBefore
    <2>1. /\ sent[c] \in Nat /\ Len(program[c]) \in Nat /\ sent[c] <= Len(program[c])
          /\ i \in 1 .. Len(handled[c]) /\ Len(handled[c]) \in Nat
      BY ConnectionType
    <2>2. i <= sent[c] /\ handled[c][i] = RequestOf(program[c][i])
      BY DEF StreamInv, StreamSound, HandledSound
    <2> QED
      BY <2>1, <2>2
  <1> QED
    BY <1>1, StreamAlways, PTL

\* A body taken for a request has been sent by then.
LEMMA OffTrackIsTrouble ==
    ASSUME StreamInv, NEW c \in Conns, ~OnTrack(c)
    PROVE  Troubled(program[c], sent[c])
  <1> DEFINE n == Len(handled[c])
             p == program[c]
             T == {j \in DOMAIN p : ReadsAsRequest(p[j].body)}
  <1>1. /\ n \in Nat /\ Len(p) \in Nat /\ sent[c] \in Nat
        /\ DOMAIN p = 1 .. Len(p) /\ DOMAIN handled[c] = 1 .. n
    BY ConnectionType
  <1>2. PICK i \in DOMAIN p : i < n + 1 /\ ReadsAsRequest(p[i].body)
    BY DEF OnTrack, ClearBefore
  <1>3. T \in SUBSET Nat /\ T # {}
    BY <1>1, <1>2
  <1>4. PICK j \in T : \A l \in T : j <= l
    <2> HIDE DEF T
    <2> QED
      BY <1>3, LeastNatural
  <1>5. j \in 1 .. n
    <2>1. i \in T /\ j <= i /\ j \in 1 .. Len(p) /\ i \in 1 .. Len(p)
      BY <1>1, <1>2, <1>4
    <2> HIDE DEF n, p
    <2> QED
      BY <1>1, <1>2, <2>1
  <1>6. ClearBefore(p, j)
    <2>1. ASSUME NEW l \in DOMAIN p, l < j PROVE ~ReadsAsRequest(p[l].body)
      BY <1>1, <1>4, <2>1
    <2> QED
      BY <2>1 DEF ClearBefore
  <1>7. j <= sent[c]
    BY <1>1, <1>5, <1>6 DEF StreamInv, StreamSound, HandledSound
  <1>8. j \in 1 .. sent[c] /\ ~WellFormed(p[j])
    <2>1. p[j].body # <<>>
      BY <1>4 DEF ReadsAsRequest
    <2>2. ~WellFormed(p[j])
      BY <2>1 DEF WellFormed
    <2> HIDE DEF n, p
    <2> QED
      BY <1>1, <1>5, <1>7, <2>2
  <1> QED
    BY <1>8 DEF Troubled

\* Well-formed requests never make the server fail the assertion of setMethod()
\* (HttpRequest.h:42-44), and nothing makes the loop of parseRequest() spin
\* (HttpContext.cc:55-105), for any programs of any number of clients.
THEOREM EndsOnlyOnBadRequestHolds == Spec => []EndsOnlyOnBadRequest
  <1>1. StreamInv => EndsOnlyOnBadRequest
    <2> SUFFICES ASSUME StreamInv PROVE EndsOnlyOnBadRequest
      OBVIOUS
    <2>1. ended # "spinning"
      BY DEF StreamInv, ParserInv, EndSound
    <2>2. ASSUME ended = "aborted"
          PROVE  \E c \in Conns : /\ handler[c] = "parsing" /\ shut[c]
                                  /\ \E i \in 1..sent[c] : ~WellFormed(program[c][i])
      <3>1. PICK c \in Conns : /\ handler[c] = "parsing"
                               /\ context[c].state = "kExpectRequestLine"
                               /\ context[c].request.method # "kInvalid"
        BY <2>2 DEF StreamInv, ParserInv, EndSound
      <3>2. shut[c]
        BY <3>1 DEF StreamInv, ParserInv, ParserSound
      <3>3. CASE ~OnTrack(c)
        <4>1. Troubled(program[c], sent[c])
          BY <3>3, OffTrackIsTrouble
        <4> QED
          BY <3>1, <3>2, <4>1 DEF Troubled
      <3>4. CASE OnTrack(c)
        <4>1. AtMessage(program[c], Len(handled[c]), sent[c], context[c], buffer[c] \o inbound[c])
          BY <3>1, <3>4 DEF StreamInv, StreamSound, InStep
        <4>2. context[c].request # NewRequest
          <5>1. NewRequest.method = "kInvalid"
            BY Zenon DEF NewRequest
          <5> QED
            BY <3>1, <5>1
        <4>3. Troubled(program[c], sent[c])
          BY <4>1, <4>2 DEF AtMessage
        <4> QED
          BY <3>1, <3>2, <4>3 DEF Troubled
      <3> QED
        BY <3>3, <3>4
    <2> QED
      BY <2>1, <2>2 DEF EndsOnlyOnBadRequest
  <1> QED
    BY <1>1, StreamAlways, PTL

------------------------------------------------------------------------------
(* Buffer.                                                                 *)

USE SizesAssumption, ByteAssumption, BoundsAssumption

\* retrieveAll() puts both indices at kCheapPrepend, which has to be inside the
\* vector.
Sound(b) == IsBuffer(b) /\ kCheapPrepend <= b.size

\* The constructor.
LEMMA NewIsSound ==
    ASSUME NEW n \in Nat
    PROVE  Sound(New(n))
  BY DEF New, Members, IsBuffer, Sound

\* The readable bytes form a string of that length.
LEMMA ReadableIsSeq ==
    ASSUME NEW b, IsBuffer(b)
    PROVE  Readable(b) \in Seq(Byte) /\ Len(Readable(b)) = readableBytes(b)
  <1>1. readableBytes(b) \in Nat
    BY DEF IsBuffer, readableBytes
  <1>2. ASSUME NEW i \in 1 .. readableBytes(b)
        PROVE  b.cells[b.reader + i - 1] \in Byte
    <2>1. b.size \in Nat /\ b.writer \in 0 .. b.size /\ b.reader \in 0 .. b.writer
      BY DEF IsBuffer
    <2>2. b.reader + i - 1 \in 0 .. b.size - 1
      BY <2>1 DEF readableBytes
    <2>3. b.cells \in [0 .. b.size - 1 -> Byte]
      BY DEF IsBuffer
    <2> QED
      BY <2>2, <2>3, Zenon
  <1>3. Readable(b) \in [1 .. readableBytes(b) -> Byte]
    BY <1>2 DEF Readable
  <1>4. Readable(b) \in Seq(Byte)
    BY <1>1, <1>3, SeqDef, Zenon
  <1>5. DOMAIN Readable(b) = 1 .. readableBytes(b)
    BY DEF Readable
  <1> QED
    BY <1>1, <1>4, <1>5, LenProperties

\* A copy inside a vector leaves a vector of the same size.
LEMMA CopyType ==
    ASSUME NEW n \in Nat, NEW cells \in [0 .. n - 1 -> Byte],
           NEW d \in Seq(Byte), NEW at \in Int
    PROVE  Copy(cells, d, at) \in [0 .. n - 1 -> Byte]
  <1>1. ASSUME NEW i \in 0 .. n - 1
        PROVE  (IF i \in at .. at + Len(d) - 1 THEN d[i - at + 1] ELSE cells[i]) \in Byte
    <2>1. CASE i \in at .. at + Len(d) - 1
      <3>1. i - at + 1 \in 1 .. Len(d)
        BY <2>1, LenProperties
      <3> QED
        BY <2>1, <3>1, ElementOfSeq
    <2>2. CASE i \notin at .. at + Len(d) - 1
      BY <2>2
    <2> QED
      BY <2>1, <2>2
  <1> QED
    BY <1>1 DEF Copy

\* The cells of a buffer after a copy into them.
LEMMA CopyIntoBuffer ==
    ASSUME NEW b, IsBuffer(b), NEW d \in Seq(Byte), NEW at \in Int
    PROVE  Copy(b.cells, d, at) \in [0 .. b.size - 1 -> Byte]
  <1>1. b.size \in Nat /\ b.cells \in [0 .. b.size - 1 -> Byte]
    BY DEF IsBuffer
  <1> QED
    BY <1>1, CopyType

\* resize() keeps the indices.
LEMMA ResizeIsSound ==
    ASSUME NEW b, Sound(b), NEW n \in Nat, b.size <= n
    PROVE  Sound(Resize(b, n)) /\ Resize(b, n).size = n /\ Resize(b, n).writer = b.writer
  BY DEF IsBuffer, Resize, Members, Sound

\* When makeSpace() moves the readable bytes it moves them to a smaller index.
LEMMA MovesDown ==
    ASSUME NEW b, IsBuffer(b), NEW len \in Nat,
           writableBytes(b) < len, ~MustGrow(b, len)
    PROVE  kCheapPrepend < b.reader
  BY DEF IsBuffer, writableBytes, prependableBytes, MustGrow

\* makeSpace() makes the space it is asked for.
LEMMA MakeSpaceIsSound ==
    ASSUME NEW b, Sound(b), NEW len \in Nat, writableBytes(b) < len
    PROVE  Sound(makeSpace(b, len)) /\ len <= writableBytes(makeSpace(b, len))
  <1>0. IsBuffer(b)
    BY DEF Sound
  <1>1. CASE MustGrow(b, len)
    <2>1. b.writer + len \in Nat /\ b.size <= b.writer + len
      BY <1>0 DEF IsBuffer, writableBytes
    <2>2. makeSpace(b, len) = Resize(b, b.writer + len)
      BY <1>1 DEF makeSpace
    <2> QED
      BY <1>0, <2>1, <2>2, ResizeIsSound DEF writableBytes, IsBuffer
  <1>2. CASE ~MustGrow(b, len)
    <2> DEFINE cells == Copy(b.cells, Readable(b), kCheapPrepend)
    <2>1. cells \in [0 .. b.size - 1 -> Byte]
      BY <1>0, ReadableIsSeq, CopyIntoBuffer
    <2>2. makeSpace(b, len) =
             Members(cells, b.size, kCheapPrepend, kCheapPrepend + readableBytes(b))
      BY <1>2 DEF makeSpace
    <2>3. kCheapPrepend < b.reader
      BY <1>0, <1>2, MovesDown
    <2> HIDE DEF cells
    <2> QED
      BY <1>0, <1>2, <2>1, <2>2, <2>3
      DEF Members, IsBuffer, Sound, readableBytes, writableBytes, prependableBytes, MustGrow
  <1> QED
    BY <1>1, <1>2

\* ensureWritableBytes().
LEMMA EnsureIsSound ==
    ASSUME NEW b, Sound(b), NEW len \in Nat
    PROVE  /\ Sound(ensureWritableBytes(b, len))
           /\ len <= writableBytes(ensureWritableBytes(b, len))
  BY MakeSpaceIsSound DEF ensureWritableBytes, IsBuffer, Sound, writableBytes

\* A write at beginWrite() followed by hasWritten().
LEMMA WriteIsSound ==
    ASSUME NEW b, Sound(b), NEW d \in Seq(Byte), Len(d) <= writableBytes(b)
    PROVE  Sound(Write(b, d))
  <1> DEFINE cells == Copy(b.cells, d, b.writer)
  <1>1. cells \in [0 .. b.size - 1 -> Byte]
    <2>1. IsBuffer(b) /\ b.writer \in Int
      BY DEF Sound, IsBuffer
    <2> QED
      BY <2>1, CopyIntoBuffer
  <1>2. Write(b, d) = Members(cells, b.size, b.reader, b.writer + Len(d))
    BY DEF Write, hasWritten, Members
  <1>3. b.writer + Len(d) \in 0 .. b.size /\ b.reader \in 0 .. b.writer + Len(d)
    <2>1. Len(d) \in Nat
      BY LenProperties
    <2> QED
      BY <2>1 DEF IsBuffer, Sound, writableBytes
  <1> HIDE DEF cells
  <1> QED
    BY <1>1, <1>2, <1>3 DEF Members, IsBuffer, Sound

\* append().
LEMMA AppendIsSound ==
    ASSUME NEW b, Sound(b), NEW d \in Seq(Byte)
    PROVE  Sound(append(b, d))
  <1>1. Len(d) \in Nat
    BY LenProperties
  <1> QED
    BY <1>1, EnsureIsSound, WriteIsSound DEF append

\* retrieve().
LEMMA RetrieveIsSound ==
    ASSUME NEW b, Sound(b), NEW len \in Nat
    PROVE  Sound(retrieve(b, len))
  <1>1. CASE len < readableBytes(b)
    <2>1. retrieve(b, len) = Members(b.cells, b.size, b.reader + len, b.writer)
      BY <1>1 DEF retrieve
    <2>2. b.reader + len \in 0 .. b.writer
      BY <1>1 DEF Sound, IsBuffer, readableBytes
    <2> QED
      BY <2>1, <2>2 DEF Sound, IsBuffer, Members
  <1>2. CASE ~(len < readableBytes(b))
    <2>1. retrieve(b, len) = Members(b.cells, b.size, kCheapPrepend, kCheapPrepend)
      BY <1>2 DEF retrieve, retrieveAll
    <2>2. kCheapPrepend \in 0 .. b.size /\ kCheapPrepend \in 0 .. kCheapPrepend
      BY DEF Sound, IsBuffer
    <2> QED
      BY <2>1, <2>2 DEF Sound, IsBuffer, Members
  <1> QED
    BY <1>1, <1>2

\* prepend().
LEMMA PrependIsSound ==
    ASSUME NEW b, Sound(b), NEW d \in Seq(Byte), Len(d) <= prependableBytes(b)
    PROVE  Sound(prepend(b, d))
  <1> DEFINE cells == Copy(b.cells, d, b.reader - Len(d))
  <1>1. IsBuffer(b) /\ Len(d) \in Nat /\ b.reader - Len(d) \in Nat
    BY LenProperties DEF IsBuffer, Sound, prependableBytes
  <1>2. cells \in [0 .. b.size - 1 -> Byte]
    BY <1>1, CopyIntoBuffer
  <1>3. prepend(b, d) = Members(cells, b.size, b.reader - Len(d), b.writer)
    BY DEF prepend
  <1> HIDE DEF cells
  <1> QED
    BY <1>1, <1>2, <1>3 DEF Members, IsBuffer, Sound

\* shrink().
LEMMA ShrinkIsSound ==
    ASSUME NEW b, Sound(b), NEW reserve \in Nat
    PROVE  Sound(shrink(b, reserve))
  <1>1. IsBuffer(b) /\ readableBytes(b) + reserve \in Nat
    BY DEF IsBuffer, Sound, readableBytes
  <1> QED
    BY <1>1, NewIsSound, EnsureIsSound, ReadableIsSeq, AppendIsSound DEF shrink

------------------------------------------------------------------------------
BufferInv == Sound(buf)

\* The constructor establishes the invariant.
LEMMA InitBuffer == BufferInit => BufferInv
  BY NewIsSound DEF BufferInit, BufferInv

\* Every operation called within its assertion keeps it.
LEMMA NextBuffer == BufferInv /\ [BufferNext]_buf => BufferInv'
  <1> SUFFICES ASSUME BufferInv, [BufferNext]_buf
               PROVE  BufferInv'
    OBVIOUS
  <1>0. Sound(buf) /\ BufferInv' = Sound(buf')
    BY DEF BufferInv, Sound, IsBuffer
  <1>1. CASE AppendData
    <2>1. PICK d \in Chunks : buf' = append(buf, d)
      BY <1>1 DEF AppendData
    <2> QED
      BY <1>0, <2>1, AppendIsSound
  <1>2. CASE EnsureWritable
    <2>1. PICK len \in 0 .. MaxSize : buf' = ensureWritableBytes(buf, len)
      BY <1>2 DEF EnsureWritable
    <2> QED
      BY <1>0, <2>1, EnsureIsSound
  <1>3. CASE WriteDirectly
    <2>1. PICK d \in Chunks : Len(d) <= writableBytes(buf) /\ buf' = Write(buf, d)
      BY <1>3 DEF WriteDirectly
    <2> QED
      BY <1>0, <2>1, WriteIsSound
  <1>4. CASE Retrieve
    <2>1. PICK len \in 0 .. MaxSize : buf' = retrieve(buf, len)
      BY <1>4 DEF Retrieve
    <2> QED
      BY <1>0, <2>1, RetrieveIsSound
  <1>5. CASE Prepend
    <2>1. PICK d \in Chunks : Len(d) <= prependableBytes(buf) /\ buf' = prepend(buf, d)
      BY <1>5 DEF Prepend
    <2> QED
      BY <1>0, <2>1, PrependIsSound
  <1>6. CASE Shrink
    <2>1. PICK reserve \in 0 .. MaxSize : buf' = shrink(buf, reserve)
      BY <1>6 DEF Shrink
    <2> QED
      BY <1>0, <2>1, ShrinkIsSound
  <1>7. CASE UNCHANGED buf
    BY <1>0, <1>7
  <1> QED
    BY <1>1, <1>2, <1>3, <1>4, <1>5, <1>6, <1>7 DEF BufferNext

\* The invariant holds throughout.
LEMMA BufferAlways == BufferSpec => []BufferInv
  BY InitBuffer, NextBuffer, PTL DEF BufferSpec

\* After any sequence of calls the indices of a buffer are in order and inside
\* the vector.
THEOREM BufferTypeCorrect == BufferSpec => []TypeOK
  <1>1. BufferInv => TypeOK
    BY DEF BufferInv, Sound, TypeOK
  <1> QED
    BY <1>1, BufferAlways, PTL

\* The assertions of makeSpace() hold whatever was called before and whatever
\* the length asked for (Buffer.h:291-308).
THEOREM MakeSpaceAssertsHold == BufferSpec => []MakeSpaceAsserts
  <1>1. BufferInv => MakeSpaceAsserts
    <2> SUFFICES ASSUME Sound(buf), NEW len \in 0 .. MaxSize, writableBytes(buf) < len
                 PROVE  /\ MustGrow(buf, len) \/ kCheapPrepend < buf.reader
                        /\ len <= writableBytes(makeSpace(buf, len))
      BY DEF BufferInv, MakeSpaceAsserts
    <2>1. IsBuffer(buf)
      BY DEF Sound
    <2> QED
      BY <2>1, MovesDown, MakeSpaceIsSound
  <1> QED
    BY <1>1, BufferAlways, PTL

------------------------------------------------------------------------------
(* What can be read.                                                       *)

\* Two buffers with the same readable cells.
LEMMA SameReadable ==
    ASSUME NEW b, IsBuffer(b), NEW c, IsBuffer(c), readableBytes(c) = readableBytes(b),
           \A i \in 1 .. readableBytes(b) : c.cells[c.reader + i - 1] = b.cells[b.reader + i - 1]
    PROVE  Readable(c) = Readable(b)
  <1> DEFINE n == readableBytes(b)
  <1>1. Readable(b) = [i \in 1 .. n |-> b.cells[b.reader + i - 1]]
    BY DEF Readable
  <1>2. Readable(c) = [i \in 1 .. n |-> c.cells[c.reader + i - 1]]
    BY DEF Readable
  <1> HIDE DEF n
  <1>3. \A i \in 1 .. n : c.cells[c.reader + i - 1] = b.cells[b.reader + i - 1]
    BY DEF n
  <1> QED
    BY <1>1, <1>2, <1>3

\* The n cells `new` are the cells `old` with d in the place that begins at `at`.
Replaces(new, n, old, d, at) ==
    /\ \A i \in 0 .. n - 1 : i < at \/ i >= at + Len(d) => new[i] = old[i]
    /\ \A j \in 1 .. Len(d) : at + j - 1 < n => new[at + j - 1] = d[j]

\* The cells after a copy.
LEMMA CopyCells ==
    ASSUME NEW n \in Nat, NEW cells \in [0 .. n - 1 -> Byte],
           NEW d \in Seq(Byte), NEW at \in Nat
    PROVE  Replaces(Copy(cells, d, at), n, cells, d, at)
  <1>1. Len(d) \in Nat
    BY LenProperties
  <1>2. \A i \in 0 .. n - 1 : Copy(cells, d, at)[i] =
            IF i \in at .. at + Len(d) - 1 THEN d[i - at + 1] ELSE cells[i]
    BY DEF Copy
  <1>3. ASSUME NEW i \in 0 .. n - 1, i < at \/ i >= at + Len(d)
        PROVE  Copy(cells, d, at)[i] = cells[i]
    BY <1>1, <1>2, <1>3
  <1>4. ASSUME NEW j \in 1 .. Len(d), at + j - 1 < n
        PROVE  Copy(cells, d, at)[at + j - 1] = d[j]
    <2>1. /\ at + j - 1 \in 0 .. n - 1
          /\ at + j - 1 \in at .. at + Len(d) - 1
          /\ (at + j - 1) - at + 1 = j
      BY <1>1, <1>4
    <2> QED
      BY <1>2, <2>1
  <1> QED
    BY <1>3, <1>4 DEF Replaces

\* An empty buffer.
LEMMA NothingReadable ==
    ASSUME NEW b, IsBuffer(b), readableBytes(b) = 0
    PROVE  Readable(b) = <<>>
  BY ReadableIsSeq, EmptySeq

LEMMA NewIsEmpty ==
    ASSUME NEW n \in Nat
    PROVE  Readable(New(n)) = <<>>
  <1>1. IsBuffer(New(n))
    BY NewIsSound DEF Sound
  <1>2. readableBytes(New(n)) = 0
    BY DEF New, Members, readableBytes
  <1> QED
    BY <1>1, <1>2, NothingReadable

\* Growing keeps the contents.
LEMMA ResizeKeeps ==
    ASSUME NEW b, Sound(b), NEW n \in Nat, b.size <= n
    PROVE  Readable(Resize(b, n)) = Readable(b)
  <1> DEFINE c == Resize(b, n)
  <1>1. IsBuffer(b) /\ IsBuffer(c)
    BY ResizeIsSound DEF Sound
  <1>2. c.reader = b.reader /\ readableBytes(c) = readableBytes(b)
    BY DEF Resize, Members, readableBytes
  <1>3. ASSUME NEW i \in 1 .. readableBytes(b)
        PROVE  c.cells[c.reader + i - 1] = b.cells[b.reader + i - 1]
    <2>1. b.reader + i - 1 \in 0 .. n - 1 /\ b.reader + i - 1 < b.size
      BY <1>1 DEF IsBuffer, readableBytes
    <2> QED
      BY <1>2, <2>1 DEF Resize, Members
  <1> HIDE DEF c
  <1>4. Readable(c) = Readable(b)
    BY <1>1, <1>2, <1>3, SameReadable
  <1> QED
    BY <1>4 DEF c

\* Moving the readable bytes to the front keeps them, although the two places
\* may overlap.
LEMMA MakeSpaceKeeps ==
    ASSUME NEW b, Sound(b), NEW len \in Nat, writableBytes(b) < len
    PROVE  Readable(makeSpace(b, len)) = Readable(b)
  <1>0. IsBuffer(b)
    BY DEF Sound
  <1>1. CASE MustGrow(b, len)
    <2>1. b.writer + len \in Nat /\ b.size <= b.writer + len
      BY <1>0 DEF IsBuffer, writableBytes
    <2>2. makeSpace(b, len) = Resize(b, b.writer + len)
      BY <1>1 DEF makeSpace
    <2> QED
      BY <2>1, <2>2, ResizeKeeps
  <1>2. CASE ~MustGrow(b, len)
    <2> DEFINE cells == Copy(b.cells, Readable(b), kCheapPrepend)
               c == makeSpace(b, len)
               n == readableBytes(b)
    <2>1. c = Members(cells, b.size, kCheapPrepend, kCheapPrepend + n)
      BY <1>2 DEF makeSpace
    <2>2. IsBuffer(c)
      BY MakeSpaceIsSound DEF Sound
    <2>3. n \in Nat /\ Readable(b) \in Seq(Byte) /\ Len(Readable(b)) = n
      BY <1>0, ReadableIsSeq DEF IsBuffer, readableBytes
    <2>4. kCheapPrepend + n <= b.size /\ b.size \in Nat /\ b.cells \in [0 .. b.size - 1 -> Byte]
      BY <1>0, <1>2, MovesDown DEF IsBuffer, readableBytes
    <2> HIDE DEF c, n
    <2>5. c.cells = cells /\ c.reader = kCheapPrepend /\ readableBytes(c) = n
      BY <2>1, <2>3 DEF Members, readableBytes
    <2>8. Replaces(cells, b.size, b.cells, Readable(b), kCheapPrepend)
      BY <2>3, <2>4, CopyCells
    <2>6. ASSUME NEW i \in 1 .. n
          PROVE  c.cells[c.reader + i - 1] = b.cells[b.reader + i - 1]
      <3>1. cells[kCheapPrepend + i - 1] = Readable(b)[i]
        <4> HIDE DEF cells
        <4>1. kCheapPrepend + i - 1 < b.size
          <5>1. kCheapPrepend + n <= b.size /\ b.size \in Nat
            BY <2>4
          <5> QED
            BY <2>3, <5>1
        <4> QED
          BY <2>3, <2>8, <4>1 DEF Replaces
      <3>2. Readable(b)[i] = b.cells[b.reader + i - 1]
        BY DEF Readable, n
      <3> QED
        BY <2>5, <3>1, <3>2
    <2>7. Readable(c) = Readable(b)
      <3> HIDE DEF cells
      <3> QED
        BY <1>0, <2>2, <2>5, <2>6, SameReadable DEF n
    <2> QED
      BY <2>7 DEF c
  <1> QED
    BY <1>1, <1>2

\* ensureWritableBytes() keeps the contents.
LEMMA EnsureKeeps ==
    ASSUME NEW b, Sound(b), NEW len \in Nat
    PROVE  Readable(ensureWritableBytes(b, len)) = Readable(b)
  BY MakeSpaceKeeps DEF ensureWritableBytes

\* A string of two parts.
LEMMA TwoParts ==
    ASSUME NEW r \in Seq(Byte), NEW d \in Seq(Byte), NEW s \in Seq(Byte),
           Len(s) = Len(r) + Len(d),
           \A i \in 1 .. Len(r) : s[i] = r[i],
           \A j \in 1 .. Len(d) : s[Len(r) + j] = d[j]
    PROVE  s = r \o d
  <1>1. Len(r) \in Nat /\ Len(d) \in Nat
    BY LenProperties
  <1>2. r \o d \in Seq(Byte) /\ Len(r \o d) = Len(s)
    BY ConcatProperties
  <1>3. ASSUME NEW i \in 1 .. Len(s) PROVE s[i] = (r \o d)[i]
    <2>1. (r \o d)[i] = IF i <= Len(r) THEN r[i] ELSE d[i - Len(r)]
      BY <1>3, ConcatProperties
    <2>2. i \in 1 .. Len(r) \/ (~(i <= Len(r)) /\ i - Len(r) \in 1 .. Len(d)
                                /\ Len(r) + (i - Len(r)) = i)
      BY <1>1
    <2>3. i \in 1 .. Len(r) => i <= Len(r)
      BY <1>1
    <2> QED
      BY <2>1, <2>2, <2>3, Zenon
  <1> QED
    BY <1>2, <1>3, SeqEqual

\* The indices of two parts of n and len bytes, of which the first begins at `at`.
LEMMA TwoPartsIndices ==
    ASSUME NEW at \in Nat, NEW n \in Nat, NEW len \in Nat, NEW size \in Nat,
           at + n + len <= size
    PROVE  /\ \A i \in 1 .. n : /\ at + i - 1 \in 0 .. size - 1
                                /\ at + i - 1 < at + n
                                /\ at + i - 1 < size
           /\ \A j \in 1 .. len : /\ at + (n + j) - 1 = (at + n) + j - 1
                                  /\ at + (n + j) - 1 \in 0 .. size - 1
                                  /\ (at + n) + j - 1 < size
                                  /\ at + (n + j) - 1 >= at + n
                                  /\ n + j \in 1 .. n + len
           /\ \A i \in 1 .. n : i \in 1 .. n + len
  OBVIOUS

\* What is written at beginWrite() follows what could be read before.
LEMMA WriteAdds ==
    ASSUME NEW b, Sound(b), NEW d \in Seq(Byte), Len(d) <= writableBytes(b)
    PROVE  Readable(Write(b, d)) = Readable(b) \o d
  <1> DEFINE cells == Copy(b.cells, d, b.writer)
             c == Write(b, d)
             n == readableBytes(b)
             r == Readable(b)
             len == Len(d)
             s == Readable(c)
  <1>1. c = Members(cells, b.size, b.reader, b.writer + len)
    BY DEF Write, hasWritten, Members
  <1>2. IsBuffer(b) /\ IsBuffer(c)
    BY WriteIsSound DEF Sound
  <1>3. n \in Nat /\ len \in Nat /\ b.reader \in Nat /\ b.writer \in Nat /\ b.size \in Nat
        /\ b.writer = b.reader + n
    BY <1>2, LenProperties DEF IsBuffer, readableBytes
  <1>4. b.writer + len <= b.size
    BY <1>2, <1>3 DEF IsBuffer, writableBytes
  <1>5. r \in Seq(Byte) /\ Len(r) = n /\ r = [i \in 1 .. n |-> b.cells[b.reader + i - 1]]
    BY <1>2, ReadableIsSeq DEF Readable
  <1>6. b.cells \in [0 .. b.size - 1 -> Byte]
    BY <1>2 DEF IsBuffer
  <1>7. Replaces(cells, b.size, b.cells, d, b.writer)
    BY <1>3, <1>6, CopyCells
  <1> HIDE DEF c, n, cells
  <1>8. c.cells = cells /\ c.reader = b.reader /\ readableBytes(c) = n + len
    BY <1>1, <1>3 DEF Members, readableBytes
  <1>9. s \in Seq(Byte) /\ Len(s) = n + len
        /\ s = [i \in 1 .. n + len |-> cells[b.reader + i - 1]]
    BY <1>2, <1>8, ReadableIsSeq DEF Readable
  <1> HIDE DEF r, s, len
  <1>10. /\ b.reader \in Nat /\ n \in Nat /\ len \in Nat /\ b.size \in Nat
         /\ b.reader + n + len <= b.size
    BY <1>3, <1>4
  <1>11. ASSUME NEW i \in 1 .. n PROVE s[i] = r[i]
    <2>1. /\ b.reader + i - 1 \in 0 .. b.size - 1
          /\ b.reader + i - 1 < b.reader + n
          /\ i \in 1 .. n + len
      BY <1>10, TwoPartsIndices
    <2>4. b.reader + i - 1 < b.writer
      BY <1>3, <2>1
    <2>2. s[i] = cells[b.reader + i - 1] /\ r[i] = b.cells[b.reader + i - 1]
      BY <1>5, <1>9, <2>1, Zenon
    <2>3. cells[b.reader + i - 1] = b.cells[b.reader + i - 1]
      BY <1>7, <2>1, <2>4, Zenon DEF Replaces
    <2> QED
      BY <2>2, <2>3
  <1>12. ASSUME NEW j \in 1 .. len PROVE s[n + j] = d[j]
    <2>1. /\ b.reader + (n + j) - 1 = b.writer + j - 1
          /\ b.writer + j - 1 < b.size
          /\ n + j \in 1 .. n + len
      BY <1>3, <1>10, TwoPartsIndices
    <2>2. s[n + j] = cells[b.reader + (n + j) - 1]
      BY <1>9, <2>1, Zenon
    <2>3. cells[b.writer + j - 1] = d[j]
      BY <1>7, <2>1, Zenon DEF Replaces, len
    <2> QED
      BY <2>1, <2>2, <2>3, Zenon
  <1>13. s = r \o d
    <2>1. Len(s) = Len(r) + Len(d)
      BY <1>5, <1>9 DEF len
    <2>2. /\ \A i \in 1 .. Len(r) : s[i] = r[i]
          /\ \A j \in 1 .. Len(d) : s[Len(r) + j] = d[j]
      BY <1>5, <1>11, <1>12 DEF len
    <2>3. r \in Seq(Byte) /\ s \in Seq(Byte)
      BY <1>5, <1>9
    <2> QED
      BY <2>1, <2>2, <2>3, TwoParts
  <1> QED
    BY <1>13 DEF s, c, r

LEMMA AppendAdds ==
    ASSUME NEW b, Sound(b), NEW d \in Seq(Byte)
    PROVE  Readable(append(b, d)) = Readable(b) \o d
  <1>1. Len(d) \in Nat
    BY LenProperties
  <1> QED
    BY <1>1, EnsureIsSound, EnsureKeeps, WriteAdds DEF append

\* prepend() puts its bytes before the readable ones.
LEMMA PrependAdds ==
    ASSUME NEW b, Sound(b), NEW d \in Seq(Byte), Len(d) <= prependableBytes(b)
    PROVE  Readable(prepend(b, d)) = d \o Readable(b)
  <1> DEFINE len == Len(d)
             at == b.reader - len
             cells == Copy(b.cells, d, at)
             c == prepend(b, d)
             n == readableBytes(b)
             r == Readable(b)
             s == Readable(c)
  <1>1. c = Members(cells, b.size, at, b.writer)
    BY DEF prepend
  <1>2. IsBuffer(b) /\ IsBuffer(c)
    BY PrependIsSound DEF Sound
  <1>3. n \in Nat /\ len \in Nat /\ b.reader \in Nat /\ b.writer \in Nat /\ b.size \in Nat
        /\ b.writer = b.reader + n /\ b.writer <= b.size
    BY <1>2, LenProperties DEF IsBuffer, readableBytes
  <1>4. at \in Nat /\ at + len = b.reader
    BY <1>3 DEF prependableBytes
  <1>5. r \in Seq(Byte) /\ Len(r) = n /\ r = [i \in 1 .. n |-> b.cells[b.reader + i - 1]]
    BY <1>2, ReadableIsSeq DEF Readable
  <1>6. b.cells \in [0 .. b.size - 1 -> Byte]
    BY <1>2 DEF IsBuffer
  <1> HIDE DEF at
  <1>7. Replaces(cells, b.size, b.cells, d, at)
    BY <1>3, <1>4, <1>6, CopyCells
  <1> HIDE DEF c, n, cells
  <1>8. c.cells = cells /\ c.reader = at /\ readableBytes(c) = len + n
    BY <1>1, <1>3, <1>4 DEF Members, readableBytes
  <1>9. s \in Seq(Byte) /\ Len(s) = len + n
        /\ s = [i \in 1 .. len + n |-> cells[at + i - 1]]
    BY <1>2, <1>8, ReadableIsSeq DEF Readable
  <1> HIDE DEF r, s, len
  <1>10. at + len + n <= b.size
    BY <1>3, <1>4
  <1>11. ASSUME NEW i \in 1 .. len PROVE s[i] = d[i]
    <2>1. at + i - 1 < b.size /\ i \in 1 .. len + n
      BY <1>3, <1>4, <1>10, TwoPartsIndices
    <2>2. s[i] = cells[at + i - 1]
      BY <1>9, <2>1, Zenon
    <2>3. cells[at + i - 1] = d[i]
      BY <1>7, <2>1, Zenon DEF Replaces, len
    <2> QED
      BY <2>2, <2>3
  <1>12. ASSUME NEW j \in 1 .. n PROVE s[len + j] = r[j]
    <2>1. /\ at + (len + j) - 1 = b.reader + j - 1
          /\ at + (len + j) - 1 \in 0 .. b.size - 1
          /\ at + (len + j) - 1 >= at + len
          /\ len + j \in 1 .. len + n
      BY <1>3, <1>4, <1>10, TwoPartsIndices
    <2>2. s[len + j] = cells[at + (len + j) - 1] /\ r[j] = b.cells[b.reader + j - 1]
      BY <1>5, <1>9, <2>1, Zenon
    <2>3. cells[at + (len + j) - 1] = b.cells[at + (len + j) - 1]
      BY <1>7, <2>1, Zenon DEF Replaces, len
    <2> QED
      BY <2>1, <2>2, <2>3, Zenon
  <1>13. s = d \o r
    <2>1. Len(s) = Len(d) + Len(r)
      BY <1>5, <1>9 DEF len
    <2>2. /\ \A i \in 1 .. Len(d) : s[i] = d[i]
          /\ \A j \in 1 .. Len(r) : s[Len(d) + j] = r[j]
      BY <1>5, <1>11, <1>12 DEF len
    <2>3. r \in Seq(Byte) /\ s \in Seq(Byte)
      BY <1>5, <1>9
    <2> QED
      BY <2>1, <2>2, <2>3, TwoParts
  <1> QED
    BY <1>13 DEF s, c, r

\* retrieve(len) takes the first len bytes.
LEMMA RetrieveTakes ==
    ASSUME NEW b, Sound(b), NEW len \in Nat, len <= readableBytes(b)
    PROVE  Readable(retrieve(b, len)) = SubSeq(Readable(b), len + 1, Len(Readable(b)))
  <1> DEFINE c == retrieve(b, len)
             n == readableBytes(b)
             r == Readable(b)
             s == SubSeq(r, len + 1, n)
  <1>1. IsBuffer(b) /\ IsBuffer(c)
    BY RetrieveIsSound DEF Sound
  <1>2. n \in Nat /\ r \in Seq(Byte) /\ Len(r) = n /\ b.reader \in Nat
    BY <1>1, ReadableIsSeq DEF IsBuffer, readableBytes
  <1> HIDE DEF n, r
  <1>3. s \in Seq(Byte) /\ Len(s) = n - len /\ \A i \in 1 .. n - len : s[i] = r[len + i]
    <2>1. \A i \in len + 1 .. n : r[i] \in Byte
      BY <1>2, ElementOfSeq
    <2>2. len + 1 \in Int /\ n \in Int /\ n - (len + 1) + 1 = n - len /\ len <= n
      BY <1>2 DEF n
    <2>3. \A i \in 1 .. n - len : (len + 1) + i - 1 = len + i
      OBVIOUS
    <2>4. s \in Seq(Byte) /\ Len(s) = (IF len + 1 <= n THEN n - (len + 1) + 1 ELSE 0)
      BY <2>1, <2>2, SubSeqProperties
    <2>5. \A i \in 1 .. n - (len + 1) + 1 : s[i] = r[(len + 1) + i - 1]
      BY <2>1, <2>2, SubSeqProperties
    <2> HIDE DEF s
    <2>6. Len(s) = n - len
      BY <1>2, <2>2, <2>4
    <2>7. \A i \in 1 .. n - len : s[i] = r[len + i]
      BY <2>2, <2>3, <2>5
    <2> QED
      BY <2>4, <2>6, <2>7
  <1> HIDE DEF s
  <1>4. CASE len < n
    <2>1. c = Members(b.cells, b.size, b.reader + len, b.writer)
      BY <1>4 DEF retrieve, n
    <2>2. c.cells = b.cells /\ c.reader = b.reader + len /\ readableBytes(c) = n - len
      BY <1>1, <2>1 DEF Members, readableBytes, n, IsBuffer
    <2> HIDE DEF c
    <2>3. Readable(c) \in Seq(Byte) /\ Len(Readable(c)) = n - len
      BY <1>1, <2>2, ReadableIsSeq
    <2>4. ASSUME NEW i \in 1 .. n - len PROVE Readable(c)[i] = s[i]
      <3>1. Readable(c)[i] = b.cells[b.reader + len + i - 1]
        BY <2>2 DEF Readable
      <3>2. len + i \in 1 .. n /\ b.reader + (len + i) - 1 = b.reader + len + i - 1
        BY <1>2
      <3>3. r[len + i] = b.cells[b.reader + (len + i) - 1]
        BY <3>2 DEF r, n, Readable
      <3> QED
        BY <1>3, <3>1, <3>2, <3>3
    <2>5. Readable(c) = s
      BY <1>3, <2>3, <2>4, SeqEqual
    <2> QED
      BY <1>2, <2>5 DEF c, s, r
  <1>5. CASE len = n
    <2>1. readableBytes(c) = 0
      BY <1>5 DEF retrieve, retrieveAll, Members, readableBytes, n
    <2> HIDE DEF c
    <2>2. Readable(c) = <<>>
      BY <1>1, <2>1, NothingReadable
    <2>3. s = <<>>
      BY <1>2, <1>3, <1>5, EmptySeq
    <2> QED
      BY <1>2, <2>2, <2>3 DEF c, s, r
  <1> QED
    BY <1>2, <1>4, <1>5 DEF n

\* shrink() keeps the contents.
LEMMA ShrinkKeeps ==
    ASSUME NEW b, Sound(b), NEW reserve \in Nat
    PROVE  Readable(shrink(b, reserve)) = Readable(b)
  <1> DEFINE fresh == New(kInitialSize)
             room == readableBytes(b) + reserve
  <1>1. IsBuffer(b) /\ room \in Nat
    BY DEF IsBuffer, Sound, readableBytes
  <1>2. Readable(b) \in Seq(Byte) /\ Sound(fresh) /\ Readable(fresh) = <<>>
    BY <1>1, ReadableIsSeq, NewIsSound, NewIsEmpty
  <1> HIDE DEF fresh, room
  <1>3. /\ Sound(ensureWritableBytes(fresh, room))
        /\ Readable(ensureWritableBytes(fresh, room)) = <<>>
    BY <1>1, <1>2, EnsureIsSound, EnsureKeeps
  <1>4. Readable(append(ensureWritableBytes(fresh, room), Readable(b))) = <<>> \o Readable(b)
    BY <1>2, <1>3, AppendAdds
  <1> QED
    BY <1>2, <1>4, ConcatEmptySeq DEF shrink, fresh, room

\* Nobody sees the vector grow, its bytes move or its memory being given back
\* (Buffer.h:158-165, 276-282, 291-308).
THEOREM ContentsKeptHolds == BufferSpec => []ContentsKept
  <1>1. BufferInv => ContentsKept
    BY EnsureKeeps, ShrinkKeeps DEF BufferInv, ContentsKept
  <1> QED
    BY <1>1, BufferAlways, PTL

LEMMA NextIsByteQueue == BufferInv /\ [BufferNext]_buf => [Contents!Next]_(Readable(buf))
  <1> SUFFICES ASSUME BufferInv, [BufferNext]_buf
               PROVE  Contents!Next \/ Readable(buf') = Readable(buf)
    BY DEF Readable, readableBytes
  <1>0. Sound(buf) /\ Chunks \subseteq Seq(Byte)
    BY DEF BufferInv
  <1>1. CASE AppendData
    <2>1. PICK d \in Chunks : buf' = append(buf, d)
      BY <1>1 DEF AppendData
    <2>2. Readable(buf') = Readable(buf) \o d
      BY <1>0, <2>1, AppendAdds
    <2> QED
      BY <2>2 DEF Contents!Next, Contents!Add, Readable, readableBytes
  <1>2. CASE EnsureWritable
    <2>1. PICK len \in 0 .. MaxSize : buf' = ensureWritableBytes(buf, len)
      BY <1>2 DEF EnsureWritable
    <2> QED
      BY <1>0, <2>1, EnsureKeeps
  <1>3. CASE WriteDirectly
    <2>1. PICK d \in Chunks : Len(d) <= writableBytes(buf) /\ buf' = Write(buf, d)
      BY <1>3 DEF WriteDirectly
    <2>2. Readable(buf') = Readable(buf) \o d
      BY <1>0, <2>1, WriteAdds
    <2> QED
      BY <2>2 DEF Contents!Next, Contents!Add, Readable, readableBytes
  <1>4. CASE Retrieve
    <2>1. PICK len \in 0 .. MaxSize : len <= readableBytes(buf) /\ buf' = retrieve(buf, len)
      BY <1>4 DEF Retrieve
    <2>2. Readable(buf') = SubSeq(Readable(buf), len + 1, Len(Readable(buf)))
      BY <1>0, <2>1, RetrieveTakes
    <2>3. Len(Readable(buf)) = readableBytes(buf) /\ readableBytes(buf) \in Nat
      BY <1>0, ReadableIsSeq DEF Sound, IsBuffer, readableBytes
    <2>4. len \in 0 .. Len(Readable(buf)) /\ len <= Len(Readable(buf))
      BY <2>1, <2>3
    <2>5. Contents!Take(len)
      BY <2>2, <2>4 DEF Contents!Take, Readable, readableBytes
    <2> QED
      BY <2>4, <2>5 DEF Contents!Next
  <1>5. CASE Prepend
    <2>1. PICK d \in Chunks : Len(d) <= prependableBytes(buf) /\ buf' = prepend(buf, d)
      BY <1>5 DEF Prepend
    <2>2. Readable(buf') = d \o Readable(buf)
      BY <1>0, <2>1, PrependAdds
    <2> QED
      BY <2>2 DEF Contents!Next, Contents!AddFront, Readable, readableBytes
  <1>6. CASE Shrink
    <2>1. PICK reserve \in 0 .. MaxSize : buf' = shrink(buf, reserve)
      BY <1>6 DEF Shrink
    <2> QED
      BY <1>0, <2>1, ShrinkKeeps
  <1>7. CASE UNCHANGED buf
    BY <1>7
  <1> QED
    BY <1>1, <1>2, <1>3, <1>4, <1>5, <1>6, <1>7 DEF BufferNext

\* Whatever the caller does with it, a Buffer is a queue of bytes
\* (Buffer.h:82-165, 268-308).
THEOREM ImplementsByteQueueHolds == BufferSpec => ImplementsByteQueue
  <1>1. BufferInit => Contents!Init
    BY NewIsEmpty DEF BufferInit, Contents!Init
  <1> QED
    BY <1>1, NextIsByteQueue, BufferAlways, PTL DEF BufferSpec, Contents!Spec, ImplementsByteQueue
=============================================================================
