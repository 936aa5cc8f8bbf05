------------------------- MODULE HttpConnectionProofs ------------------------
(***************************************************************************)
(* The theorems about HttpConnection, for any clients, handlers that read  *)
(* into buffers of any length, and any width of the length of a read.      *)
(* First its types, that its reads end, and its answers.  Then that it is  *)
(* in step with its client: it finds the client's requests where they      *)
(* begin, and handlers get their content.  Of the stream FramingAssumption *)
(* is known; the invariant says where in the client's request the          *)
(* connection is while it reads the head and the content.                  *)
(***************************************************************************)
EXTENDS HttpConnection, WellFoundedInduction, NaturalsInduction, TLAPS

\* A call in progress is one of ChunkedReader, for the handler or for its close.
CallsInHandler ==
    /\ call # "none" => pc = "handler" /\ reader = "chunked"
    /\ closing => call # "none"

\* What there was room for in the handler's buffer is there or has been filled.
RoomAndGot ==
    /\ call # "none" /\ ~closing => room + Len(got) = asked
    /\ closing \/ pc \in {"headers", "special"} => asked = 0

\* The parts of the type invariant: the stream, the readers, the connection and
\* what the handler has done.
StreamTyped == input \in Seq(Unit) /\ pos \in 1 .. (Len(input) + 1)

Returns == [err : {"Ok", "Eof", "IoError", "LineTooLong", "ClientError"}, units : Seq(Nat)]

ReadersTyped ==
    /\ reader \in {"null", "length", "chunked"} /\ contentLength \in Nat
    /\ chunkedState \in {"Length", "Data", "DataEol", "Eof"} /\ curLength \in Nat
    /\ call \in {"none", "read", "trailers"} /\ closing \in BOOLEAN
    /\ room \in Nat /\ got \in Seq(Nat) /\ ret \in Returns

ConnectionTyped ==
    /\ pc \in {"peek", "requestLine", "headers", "special", "notFound", "status",
               "handler", "closed", "thrown", "crashed"}
    /\ round \in Nat /\ version \in Versions /\ keepAlive \in BOOLEAN
    /\ headers \in Seq(SpecialHeaders \X Nat) /\ found \in BOOLEAN
    /\ status \in {0, 400, 501, 505} /\ responses \in Seq({0, 200, 404, 400, 501, 505})
    /\ upgrade \in BOOLEAN

HistoryTyped ==
    /\ asked \in Nat /\ body \in Seq(Nat) /\ skipped \in BOOLEAN
    /\ loose \subseteq {"malformed", "noHandler", "unread", "failed"}

\* A request has its answer when the connection is done with it, and not before.
Answered ==
    /\ pc \in {"headers", "special", "notFound", "status", "handler"} => Len(responses) = round - 1
    /\ OneAnswerEach

IInv == input \in Inputs /\ TypeOK /\ CallsInHandler /\ RoomAndGot /\ ReadsProgress /\ Answered

-----------------------------------------------------------------------------
\* A set of numbers that is not empty has a least one.
LEMMA LeastNumber ==
  ASSUME NEW T, T \subseteq Nat, T # {}
  PROVE  \E m \in T : \A n \in T : m <= n
  <1> DEFINE R == {ss \in Nat \X Nat : ss[1] < ss[2]}
  <1>1. IsWellFoundedOn(R, Nat)
    BY NatLessThanWellFounded DEF OpToRel
  <1>2. \E m \in T : \A n \in T : ~(<<n, m>> \in R)
    <2> HIDE DEF R
    <2> QED
      BY <1>1, WFMin
  <1>3. PICK m \in T : \A n \in T : ~(n < m)
    BY <1>2
  <1>4. \A n \in T : n \in Nat
    OBVIOUS
  <1>5. \A n \in T : m <= n
    BY <1>3, <1>4
  <1> QED
    BY <1>5

\* A set of numbers up to n that is not empty has a greatest one.
LEMMA GreatestNumber ==
  ASSUME NEW n \in Nat, NEW T, T \subseteq 0 .. n, T # {}
  PROVE  \E m \in T : \A k \in T : k <= m
  <1> DEFINE D == {n - k : k \in T}
  <1>0. \A k \in T : k \in Nat /\ k <= n
    OBVIOUS
  <1>1. D \subseteq Nat /\ D # {}
    <2>1. \A k \in T : n - k \in Nat
      BY <1>0
    <2> QED
      BY <2>1
  <1>2. PICK d \in D : \A e \in D : d <= e
    <2> HIDE DEF D
    <2> QED
      BY <1>1, LeastNumber
  <1>3. PICK m \in T : d = n - m
    BY <1>2
  <1>4. \A k \in T : n - m <= n - k
    BY <1>2, <1>3
  <1>5. \A k \in T : k <= m
    BY <1>0, <1>4
  <1> QED
    BY <1>5

\* The line that is read ends in the stream.
LEMMA LineEndBounds ==
  ASSUME input \in Seq(Unit), pos \in 1 .. (Len(input) + 1), ~AtEnd
  PROVE  LineEnd \in pos .. Len(input) /\ pos \in DOMAIN input
  <1> DEFINE ends == {p \in pos .. Len(input) : input[p].kind \in LineKinds}
  <1>1. pos <= Len(input) /\ Len(input) \in Nat /\ pos \in Nat
    BY DEF AtEnd
  <1>2. CASE ends = {}
    BY <1>1, <1>2 DEF LineEnd
  <1>3. CASE ends # {}
    <2>1. \E p \in ends : \A q \in ends : p <= q
      <3>1. ends \subseteq Nat
        BY <1>1
      <3> HIDE DEF ends
      <3> QED
        BY <1>3, <3>1, LeastNumber
    <2>2. LineEnd = CHOOSE p \in ends : \A q \in ends : p <= q
      BY <1>3 DEF LineEnd
    <2>3. LineEnd \in ends
      <3> HIDE DEF ends
      <3> QED
        BY <2>1, <2>2
    <2> QED
      BY <1>1, <2>3
  <1> QED
    BY <1>1, <1>2, <1>3

\* What is read is a unit of the stream, or one that is no line by itself.
LEMMA LineReadTyped ==
  ASSUME TypeOK, input \in Inputs, LineRead
  PROVE  /\ pos' \in 1 .. (Len(input) + 1) /\ pos' > pos /\ input' = input
         /\ NextLine \in Unit
         /\ NextLine.kind = "request" => NextLine.v \in Versions
         /\ NextLine.kind = "header" => NextLine.v \in SpecialHeaders
         /\ NextLine.kind = "badRequest" => NextLine.n \in {400, 501, 505}
  <1>1. LineEnd \in pos .. Len(input) /\ pos \in DOMAIN input /\ pos \in Nat /\ Len(input) \in Nat
    BY LineEndBounds DEF TypeOK, LineRead
  <1>2. input[pos] \in Unit
    BY <1>1 DEF TypeOK
  <1>3. /\ input[pos].kind = "request" => input[pos].v \in Versions
        /\ input[pos].kind = "header" => input[pos].v \in SpecialHeaders
        /\ input[pos].kind = "badRequest" => input[pos].n \in {400, 501, 505}
    BY <1>1, StreamAssumption
  <1>4. NextLine = input[pos] \/ NextLine = [input[pos] EXCEPT !.kind = "mixed"]
    BY DEF NextLine
  <1>5. NextLine \in Unit /\ (NextLine = input[pos] \/ NextLine.kind = "mixed")
    BY <1>2, <1>4 DEF Unit
  <1> QED
    BY <1>1, <1>3, <1>5 DEF LineRead

\* The type invariant in its parts.
LEMMA TypeParts == TypeOK <=> StreamTyped /\ ReadersTyped /\ ConnectionTyped /\ HistoryTyped
  BY DEF TypeOK, StreamTyped, ReadersTyped, ConnectionTyped, HistoryTyped, Returns

\* Units that are read are positions of the stream.
LEMMA UnitsTyped ==
  ASSUME StreamTyped, NEW m \in Nat
  PROVE  Units(m) \in Seq(Nat) /\ Len(Units(m)) = m
  <1>1. \A i \in 1 .. m : pos + i - 1 \in Nat
    BY DEF StreamTyped
  <1>2. Units(m) \in [1 .. m -> Nat] /\ DOMAIN Units(m) = 1 .. m
    BY <1>1 DEF Units
  <1> QED
    BY <1>2

\* What may be read is there and is not more than there is room for.
LEMMA ReadableTyped ==
  ASSUME StreamTyped, NEW n \in Nat, NEW m \in Readable(n), Advance(m)
  PROVE  m \in 1 .. n /\ pos' \in 1 .. (Len(input) + 1) /\ input' = input
  BY DEF StreamTyped, Readable, Advance

\* A read is not of more than is left or than the buffer holds.
LEMMA ReadLenTyped ==
  ASSUME contentLength \in Nat, NEW n \in Nat
  PROVE  ReadLen(n) \in Nat /\ ReadLen(n) <= contentLength /\ ReadLen(n) <= n /\ contentLength % Range32 \in Nat
  <1>1. contentLength % Range32 \in Nat /\ contentLength % Range32 <= contentLength
    BY BufferAssumption
  <1> QED
    BY <1>1 DEF ReadLen

-----------------------------------------------------------------------------
\* What calls return has its type.
LEMMA ResultTyped ==
  ASSUME NEW err \in {"Ok", "Eof", "IoError", "LineTooLong", "ClientError"}
  PROVE  /\ << >> \in Seq(Nat) /\ Result(err, << >>) \in Returns
         /\ \A units \in Seq(Nat) : Result(err, units) \in Returns
  BY DEF Result, Returns

\* The return of a call keeps the types, ...
LEMMA ReturnTyped ==
  ASSUME ReadersTyped, chunkedState' \in {"Length", "Data", "DataEol", "Eof"}, curLength' \in Nat,
         NEW err \in {"Ok", "Eof", "IoError", "LineTooLong", "ClientError"}, NEW units \in Seq(Nat),
         ReturnChunked(err, units)
  PROVE  /\ ReadersTyped' /\ reader' = reader /\ (closing' => call' # "none")
         /\ \/ call' = "read" /\ closing /\ closing' /\ ret' = ret
            \/ call' = "none" /\ ~closing' /\ ret' = Result(err, IF closing THEN << >> ELSE units)
  <1>1. << >> \in Seq(Nat) /\ Result(err, << >>) \in Returns /\ Result(err, units) \in Returns
    BY ResultTyped
  <1>2. CASE closing /\ err = "Ok" /\ chunkedState' # "Eof"
    BY <1>1, <1>2 DEF ReadersTyped, ReturnChunked, DiscardLen
  <1>3. CASE ~(closing /\ err = "Ok" /\ chunkedState' # "Eof")
    <2>1. /\ call' = "none" /\ room' = 0 /\ closing' = FALSE /\ got' = << >> /\ UNCHANGED <<reader, contentLength>>
          /\ ret' = Result(err, IF closing THEN << >> ELSE units)
      BY <1>3 DEF ReturnChunked
    <2>2. ret' \in Returns
      BY <1>1, <2>1
    <2> QED
      BY <1>1, <2>1, <2>2 DEF ReadersTyped
  <1> QED
    BY <1>2, <1>3

\* ... that of an error, ...
LEMMA FailTyped ==
  ASSUME ReadersTyped, NEW err \in {"Eof", "IoError", "LineTooLong", "ClientError"}, FailChunked(err)
  PROVE  /\ ReadersTyped' /\ reader' = reader /\ call' = "none" /\ ~closing'
         /\ ret' = Result(err, << >>)
  <1>1. /\ chunkedState' \in {"Length", "Data", "DataEol", "Eof"} /\ curLength' \in Nat
        /\ << >> \in Seq(Nat) /\ ReturnChunked(err, << >>)
    BY DEF ReadersTyped, FailChunked
  <1>2. ReadersTyped'
    BY <1>1, ReturnTyped
  <1>3. reader' = reader /\ call' = "none" /\ ~closing' /\ ret' = Result(err, << >>)
    BY <1>1 DEF ReturnChunked
  <1> QED
    BY <1>2, <1>3

\* ... and so does every step of a call.
LEMMA ReaderStepTyped ==
  ASSUME TypeOK, input \in Inputs, ReaderStep
  PROVE  StreamTyped' /\ ReadersTyped' /\ input' = input
  <1>0. StreamTyped /\ ReadersTyped
    BY TypeParts
  <1>1. CASE ChunkedLineFails \/ ReadDataFails
    <2>1. PICK err \in {"Eof", "IoError", "LineTooLong"} : FailChunked(err)
      BY <1>1 DEF ChunkedLineFails, ReadDataFails
    <2>2. UNCHANGED streamVars
      BY <1>1 DEF ChunkedLineFails, ReadDataFails
    <2>3. ReadersTyped'
      BY <1>0, <2>1, FailTyped
    <2> QED
      BY <1>0, <2>2, <2>3 DEF streamVars, StreamTyped
  <1>2. CASE ReadLengthLine
    <2>1. StreamTyped' /\ NextLine \in Unit /\ input' = input
      BY <1>0, <1>2, LineReadTyped DEF ReadLengthLine, StreamTyped
    <2>2. CASE NextLine.kind # "chunk"
      <3>1. FailChunked("ClientError")
        BY <1>2, <2>2 DEF ReadLengthLine
      <3> QED
        BY <1>0, <2>1, <3>1, FailTyped
    <2>3. CASE NextLine.kind = "chunk"
      BY <1>0, <1>2, <2>1, <2>3 DEF ReadLengthLine, ReadersTyped, GoOn, Unit
    <2> QED
      BY <2>1, <2>2, <2>3
  <1>3. CASE ReadTrailer
    <2>1. StreamTyped' /\ input' = input
      BY <1>0, <1>3, LineReadTyped DEF ReadTrailer, StreamTyped
    <2>2. CASE ~EndsTrailers(NextLine)
      <3>1. UNCHANGED <<chunkedState, curLength, call, room, got, reader, contentLength, closing, ret>>
        BY <1>3, <2>2 DEF ReadTrailer, GoOn, EndsTrailers
      <3> QED
        BY <1>0, <2>1, <3>1 DEF ReadersTyped
    <2>3. CASE EndsTrailers(NextLine)
      <3>1. /\ curLength' = curLength /\ chunkedState' = "Eof"
            /\ ReturnChunked(IF got = << >> THEN "Eof" ELSE "Ok", got)
        BY <1>3, <2>3 DEF ReadTrailer, EndsTrailers
      <3>2. got \in Seq(Nat) /\ curLength' \in Nat /\ chunkedState' \in {"Length", "Data", "DataEol", "Eof"}
        BY <1>0, <3>1 DEF ReadersTyped
      <3>3. ReadersTyped'
        <4>1. CASE got = << >>
          BY <1>0, <3>1, <3>2, <4>1, ReturnTyped
        <4>2. CASE got # << >>
          BY <1>0, <3>1, <3>2, <4>2, ReturnTyped
        <4> QED
          BY <4>1, <4>2
      <3> QED
        BY <2>1, <3>3
    <2> QED
      BY <2>1, <2>2, <2>3
  <1>4. CASE ReadData
    <2>1. PICK m \in Readable(BytesReadable) :
            /\ got' = got \o Units(m) /\ room' = room - m
            /\ curLength' = curLength - m /\ chunkedState' = AfterData(curLength - m) /\ Advance(m)
      BY <1>4 DEF ReadData
    <2>2. BytesReadable \in Nat /\ BytesReadable <= room /\ BytesReadable <= curLength /\ room \in Nat /\ curLength \in Nat
      BY <1>0 DEF BytesReadable, ReadersTyped
    <2>3. m \in 1 .. BytesReadable /\ StreamTyped' /\ input' = input
      BY <1>0, <2>1, <2>2, ReadableTyped DEF StreamTyped
    <2>4. room' \in Nat /\ curLength' \in Nat /\ got' \in Seq(Nat) /\ chunkedState' \in {"Data", "DataEol"}
      BY <1>0, <2>1, <2>2, <2>3, UnitsTyped DEF ReadersTyped, AfterData
    <2> QED
      BY <1>0, <1>4, <2>3, <2>4 DEF ReadData, GoOn, ReadersTyped
  <1>5. CASE ReadDataEol
    <2>1. StreamTyped' /\ NextLine \in Unit /\ input' = input
      BY <1>0, <1>5, LineReadTyped DEF ReadDataEol, StreamTyped
    <2>2. CASE NextLine.kind # "blank"
      <3>1. FailChunked("ClientError")
        BY <1>5, <2>2 DEF ReadDataEol
      <3> QED
        BY <1>0, <2>1, <3>1, FailTyped
    <2>3. CASE NextLine.kind = "blank"
      BY <1>0, <1>5, <2>1, <2>3 DEF ReadDataEol, ReadersTyped, GoOn
    <2> QED
      BY <2>1, <2>2, <2>3
  <1>6. CASE ReturnFull
    <2>1. UNCHANGED <<chunkedState, curLength, streamVars>> /\ ReturnChunked("Ok", got)
      BY <1>6 DEF ReturnFull
    <2>2. got \in Seq(Nat) /\ curLength' \in Nat /\ chunkedState' \in {"Length", "Data", "DataEol", "Eof"}
      BY <1>0, <2>1 DEF ReadersTyped
    <2>3. ReadersTyped'
      BY <1>0, <2>1, <2>2, ReturnTyped
    <2> QED
      BY <1>0, <2>1, <2>3 DEF streamVars, StreamTyped
  <1> QED
    BY <1>1, <1>2, <1>3, <1>4, <1>5, <1>6 DEF ReaderStep

\* An answer of the readers that make one read keeps the types.
LEMMA AnswerTyped ==
  ASSUME ReadersTyped, contentLength' \in Nat, NEW err \in {"Ok", "Eof", "IoError"}, NEW units \in Seq(Nat), Answer(err, units)
  PROVE  ReadersTyped'
  BY ResultTyped DEF ReadersTyped, Answer

\* A call of the handler keeps the types, with whatever buffer.
LEMMA HandlerCallTyped ==
  ASSUME TypeOK, NEW n \in Nat,
         readNull \/ readLength(n) \/ readChunked(n) \/ closeOther \/ closeChunked
  PROVE  StreamTyped' /\ ReadersTyped' /\ input' = input
  <1>0. StreamTyped /\ ReadersTyped
    BY TypeParts
  <1>1. n \in Nat
    OBVIOUS
  <1>2. ASSUME NEW err \in {"Ok", "Eof", "IoError"}, Answer(err, << >>), UNCHANGED <<contentLength, streamVars>>
        PROVE  StreamTyped' /\ ReadersTyped' /\ input' = input
    <2>1. contentLength' \in Nat /\ << >> \in Seq(Nat)
      BY <1>0, <1>2 DEF ReadersTyped
    <2> QED
      BY <1>0, <1>2, <2>1, AnswerTyped DEF streamVars, StreamTyped
  <1>3. ASSUME NEW m \in Readable(ReadLen(n)), Answer("Ok", Units(m)), contentLength' = contentLength - m, Advance(m)
        PROVE  StreamTyped' /\ ReadersTyped' /\ input' = input
    <2>1. contentLength \in Nat
      BY <1>0 DEF ReadersTyped
    <2>2. ReadLen(n) \in Nat /\ ReadLen(n) <= contentLength
      BY <1>1, <2>1, ReadLenTyped
    <2>3. m \in 1 .. ReadLen(n) /\ StreamTyped' /\ input' = input
      BY <1>0, <1>3, <2>2, ReadableTyped DEF StreamTyped
    <2>4. m \in Nat /\ contentLength' \in Nat
      BY <1>3, <2>1, <2>2, <2>3
    <2> QED
      BY <1>0, <1>3, <2>3, <2>4, UnitsTyped, AnswerTyped
  <1>4. CASE readNull \/ closeOther
    BY <1>2, <1>4 DEF readNull, closeOther
  <1>5. CASE readLength(n)
    BY <1>2, <1>3, <1>5 DEF readLength
  <1>6. CASE readChunked(n) \/ closeChunked
    <2>1. PICK k \in Nat, c \in BOOLEAN : EnterChunked(k, c)
      BY <1>1, <1>6 DEF readChunked, closeChunked, DiscardLen
    <2>2. Result(IF c THEN "Ok" ELSE "Eof", << >>) \in Returns
      BY ResultTyped
    <2>3. CASE chunkedState = "Eof"
      BY <1>0, <2>1, <2>2, <2>3 DEF EnterChunked, streamVars, StreamTyped, ReadersTyped
    <2>4. CASE chunkedState # "Eof"
      BY <1>0, <2>1, <2>4 DEF EnterChunked, streamVars, StreamTyped, ReadersTyped
    <2> QED
      BY <2>3, <2>4
  <1> QED
    BY <1>4, <1>5, <1>6

\* The status of a line that is no request line is an error of HTTP.
LEMMA LineStatusTyped ==
  ASSUME NEW line, line.kind = "badRequest" => line.n \in {400, 501, 505}
  PROVE  LineStatus(line) \subseteq {400, 501, 505}
  <1>1. CASE line.kind = "badRequest"
    <2>1. LineStatus(line) = {line.n}
      BY <1>1, Zenon DEF LineStatus
    <2> QED
      BY <1>1, <2>1
  <1>2. CASE line.kind # "badRequest"
    <2>1. LineStatus(line) \in {{400, 501}, {400}}
      BY <1>2, Zenon DEF LineStatus
    <2> QED
      BY <2>1
  <1> QED
    BY <1>1, <1>2

\* A header that goes on is a header.
LEMMA ExtendedTyped == ASSUME NEW h PROVE Extended(h) \in SpecialHeaders
  <1>1. Extended(h) \in {"bad Content-Length", "identity", "close", "Host", "other"}
    BY Zenon DEF Extended
  <1> QED
    BY <1>1 DEF SpecialHeaders

\* The header that counts is one of those there are.
LEMMA LastOfTyped ==
  ASSUME headers \in Seq(SpecialHeaders \X Nat), NEW names, Indices(names) # {}
  PROVE  LastOf(names) \in names \X Nat
  <1>1. Indices(names) \subseteq 0 .. Len(headers) /\ Len(headers) \in Nat
    BY DEF Indices
  <1>2. \E i \in Indices(names) : \A j \in Indices(names) : j <= i
    BY <1>1, GreatestNumber
  <1>3. PICK i \in Indices(names) : LastOf(names) = headers[i]
    BY <1>2 DEF LastOf
  <1> QED
    BY <1>3 DEF Indices

\* The variables keep their types.
LEMMA TypeKept ==
  ASSUME IInv, [Next]_vars
  PROVE  TypeOK' /\ input' = input
  <1>0. /\ input \in Inputs /\ TypeOK /\ StreamTyped /\ ReadersTyped /\ ConnectionTyped /\ HistoryTyped
        /\ round \in Nat /\ headers \in Seq(SpecialHeaders \X Nat) /\ responses \in Seq({0, 200, 404, 400, 501, 505})
    BY TypeParts DEF IInv, ConnectionTyped
  <1>parts. StreamTyped' /\ ReadersTyped' /\ ConnectionTyped' /\ HistoryTyped' => TypeOK'
    BY DEF TypeOK, StreamTyped, ReadersTyped, ConnectionTyped, HistoryTyped, Returns
  <1> USE DEF Leave, Respond, WriteFails
  <1>1. CASE UNCHANGED vars
    BY <1>0, <1>1 DEF vars, TypeOK
  <1>2. CASE peekMatch
    <2>1. upgrade' \in BOOLEAN
      BY <1>0, <1>2, Zenon DEF peekMatch, ConnectionTyped
    <2>2. pc' \in {"closed", "requestLine"} /\ UNCHANGED <<streamVars, readerVars, round, requestVars, status, responses, historyVars>>
      BY <1>2 DEF peekMatch
    <2> QED
      BY <1>0, <2>1, <2>2 DEF streamVars, readerVars, requestVars, historyVars, TypeOK
  <1>3. CASE readRequestLine
    <2>1. StreamTyped' /\ input' = input /\ NextLine \in Unit
          /\ (NextLine.kind = "request" => NextLine.v \in Versions) /\ LineStatus(NextLine) \subseteq {400, 501, 505}
      BY <1>0, <1>3, LineReadTyped, LineStatusTyped DEF readRequestLine, StreamTyped
    <2>2. ReadersTyped'
      BY <1>0, <1>3 DEF readRequestLine, readerVars, ReadersTyped
    <2>3. ConnectionTyped'
      <3>1. keepAlive' \in BOOLEAN /\ found' \in BOOLEAN
        BY <1>0, <1>3, Zenon DEF readRequestLine, ConnectionTyped
      <3>2. round' \in Nat /\ headers' \in Seq(SpecialHeaders \X Nat) /\ UNCHANGED <<responses, upgrade>>
        BY <1>0, <1>3 DEF readRequestLine
      <3>3. version' \in Versions /\ status' \in {0, 400, 501, 505} /\ pc' \in {"headers", "status"}
        BY <1>0, <1>3, <2>1 DEF readRequestLine, ConnectionTyped
      <3> QED
        BY <1>0, <3>1, <3>2, <3>3 DEF ConnectionTyped
    <2>4. HistoryTyped'
      <3>1. asked' = 0 /\ body' = << >> /\ skipped' = FALSE /\ loose' = loose
        BY <1>3 DEF readRequestLine
      <3>2. << >> \in Seq(Nat)
        OBVIOUS
      <3> QED
        BY <1>0, <3>1, <3>2 DEF HistoryTyped
    <2> QED
      BY <2>1, <2>2, <2>3, <2>4, <1>parts
  <1>4. CASE ReadLineFails
    BY <1>0, <1>4 DEF ReadLineFails, streamVars, readerVars, requestVars, historyVars, TypeOK
  <1>5. CASE readHeaderLine
    <2>1. StreamTyped' /\ input' = input /\ NextLine \in Unit
          /\ (NextLine.kind = "header" => NextLine.v \in SpecialHeaders)
      BY <1>0, <1>5, LineReadTyped DEF readHeaderLine, StreamTyped
    <2>2. headers' \in Seq(SpecialHeaders \X Nat)
      <3>1. CASE UNCHANGED headers
        BY <1>0, <3>1
      <3>2. CASE headers' = Append(headers, <<NextLine.v, NextLine.n>>) /\ NextLine.kind = "header"
        <4>1. <<NextLine.v, NextLine.n>> \in SpecialHeaders \X Nat
          BY <2>1, <3>2 DEF Unit
        <4> QED
          BY <1>0, <3>2, <4>1
      <3>3. CASE headers' = Append(headers, <<"other", 0>>)
        <4>1. <<"other", 0>> \in SpecialHeaders \X Nat
          BY DEF SpecialHeaders
        <4> QED
          BY <1>0, <3>3, <4>1
      <3>4. CASE headers # << >> /\ headers' = [headers EXCEPT ![Len(headers)] = <<Extended(@[1]), @[2]>>]
        <4>1. Len(headers) \in DOMAIN headers /\ headers[Len(headers)] \in SpecialHeaders \X Nat
          BY <1>0, <3>4
        <4>2. <<Extended(headers[Len(headers)][1]), headers[Len(headers)][2]>> \in SpecialHeaders \X Nat
          BY <4>1, ExtendedTyped
        <4> QED
          BY <1>0, <3>4, <4>1, <4>2
      <3> QED
        BY <1>5, <3>1, <3>2, <3>3, <3>4 DEF readHeaderLine
    <2>3. UNCHANGED <<readerVars, round, version, keepAlive, found, status, responses, upgrade, asked, body, skipped>>
          /\ pc' \in {pc, "special", "crashed"} /\ loose' \subseteq loose \cup {"malformed"}
      BY <1>5 DEF readHeaderLine
    <2>4. ReadersTyped'
      BY <1>0, <2>3 DEF readerVars, ReadersTyped
    <2>5. ConnectionTyped'
      BY <1>0, <2>2, <2>3 DEF ConnectionTyped
    <2>6. HistoryTyped'
      BY <1>0, <2>3 DEF HistoryTyped
    <2> QED
      BY <2>1, <2>4, <2>5, <2>6, <1>parts
  <1>6. CASE parseSpecialHeaders
    <2>1. UNCHANGED <<streamVars, round, version, headers, found, responses, upgrade, historyVars>>
      BY <1>6 DEF parseSpecialHeaders
    <2>2. keepAlive' \in BOOLEAN
      <3>1. StaysAlive \in BOOLEAN
        BY <1>0, Zenon DEF StaysAlive, ConnectionTyped
      <3> QED
        BY <1>0, <1>6, <3>1, Zenon DEF parseSpecialHeaders, ConnectionTyped
    <2>3. ReadersTyped'
      <3>1. LengthFor \in Nat
        BY <1>0, LastOfTyped DEF LengthFor, hasContentLength, Has
      <3>2. ReaderFor \in {"null", "length", "chunked"}
        BY DEF ReaderFor
      <3>3. Result("Ok", << >>) \in Returns
        BY ResultTyped
      <3> QED
        BY <1>0, <1>6, <3>1, <3>2, <3>3 DEF parseSpecialHeaders, NewReader, readerVars, ReadersTyped
    <2>4. status' \in {0, 400, 501, 505} /\ pc' \in {"status", "handler", "notFound"}
      BY <1>0, <1>6 DEF parseSpecialHeaders, ConnectionTyped
    <2>5. StreamTyped' /\ input' = input
      BY <1>0, <2>1 DEF streamVars, StreamTyped
    <2>6. ConnectionTyped'
      BY <1>0, <2>1, <2>2, <2>4 DEF ConnectionTyped
    <2>7. HistoryTyped'
      BY <1>0, <2>1 DEF historyVars, HistoryTyped
    <2> QED
      BY <2>3, <2>5, <2>6, <2>7, <1>parts
  <1>7. ASSUME NEW r \in {0, 200, 404, 400, 501, 505}, responses' \in {responses, Append(responses, r)},
               UNCHANGED <<streamVars, readerVars, round, requestVars, status, upgrade, asked, body, skipped>>,
               pc' \in {"requestLine", "closed"}, loose' \subseteq loose \cup {"unread", "noHandler"}
        PROVE  TypeOK' /\ input' = input
    <2>1. responses' \in Seq({0, 200, 404, 400, 501, 505})
      <3>1. Append(responses, r) \in Seq({0, 200, 404, 400, 501, 505})
        BY <1>0, <1>7
      <3>2. responses \in Seq({0, 200, 404, 400, 501, 505})
        BY <1>0
      <3> QED
        BY <1>7, <3>1, <3>2, Zenon
    <2> QED
      BY <1>0, <1>7, <2>1 DEF streamVars, readerVars, requestVars, TypeOK
  <1>8. CASE sendNotFound
    BY <1>7, <1>8 DEF sendNotFound
  <1>9. CASE sendStatus
    BY <1>0, <1>7, <1>9 DEF sendStatus, historyVars, ConnectionTyped
  <1>10. CASE HandlerReturns
    BY <1>7, <1>10 DEF HandlerReturns
  <1>11. CASE HandlerThrows
    BY <1>0, <1>11 DEF HandlerThrows, streamVars, readerVars, requestVars, historyVars, TypeOK
  <1>12. ASSUME NEW closed \in BOOLEAN, StreamTyped', ReadersTyped', input' = input, Record(closed), asked' \in Nat, UNCHANGED connectionVars
         PROVE  TypeOK' /\ input' = input
    <2>1. HistoryTyped'
      <3>1. CASE call' # "none"
        BY <1>0, <1>12, <3>1 DEF Record, HistoryTyped
      <3>2. CASE call' = "none"
        <4>1. body' \in Seq(Nat)
          <5>1. ret'.units \in Seq(Nat) /\ body' = body \o ret'.units
            BY <1>12, <3>2 DEF Record, ReadersTyped, Returns
          <5> QED
            BY <1>0, <5>1 DEF HistoryTyped
        <4>2. skipped' \in BOOLEAN
          BY <1>0, <1>12, <3>2, Zenon DEF Record, HistoryTyped
        <4>3. loose' \subseteq loose \cup {"failed"}
          BY <1>12, <3>2 DEF Record
        <4> QED
          BY <1>0, <1>12, <4>1, <4>2, <4>3 DEF HistoryTyped
      <3> QED
        BY <3>1, <3>2
    <2>2. ConnectionTyped'
      BY <1>0, <1>12 DEF connectionVars, requestVars, ConnectionTyped
    <2> QED
      BY <1>12, <2>1, <2>2, <1>parts
  <1>13. CASE ReadGoesOn
    <2>1. StreamTyped' /\ ReadersTyped' /\ input' = input
      BY <1>0, <1>13, ReaderStepTyped DEF ReadGoesOn
    <2>2. closing \in BOOLEAN /\ asked' \in Nat
      BY <1>0, <1>13 DEF ReadGoesOn, ReadersTyped, HistoryTyped
    <2> QED
      BY <1>12, <1>13, <2>1, <2>2 DEF ReadGoesOn
  <1>14. CASE HandlerReads
    <2>1. PICK n \in BufferLens : (readNull \/ readLength(n) \/ readChunked(n)) /\ asked' = n
      BY <1>14 DEF HandlerReads
    <2>2. n \in Nat
      BY BufferAssumption
    <2>3. StreamTyped' /\ ReadersTyped' /\ input' = input /\ asked' \in Nat
      BY <1>0, <2>1, <2>2, HandlerCallTyped
    <2> QED
      BY <1>12, <1>14, <2>3 DEF HandlerReads
  <1>15. CASE HandlerCloses
    <2>1. (closeOther \/ closeChunked) /\ asked' = 0 /\ 0 \in Nat
      BY <1>15 DEF HandlerCloses
    <2>2. StreamTyped' /\ ReadersTyped' /\ input' = input
      BY <1>0, <2>1, HandlerCallTyped
    <2> QED
      BY <1>12, <1>15, <2>1, <2>2 DEF HandlerCloses
  <1> QED
    BY <1>1, <1>2, <1>3, <1>4, <1>5, <1>6, <1>8, <1>9, <1>10, <1>11, <1>13, <1>14, <1>15 DEF Next, ConnectionStep

-----------------------------------------------------------------------------
\* The invariants of the calls of the readers.
Calls == CallsInHandler /\ RoomAndGot /\ ReadsProgress

\* Steps with no call in progress, after which the handler is not running or has
\* not called yet, keep them, ...
LEMMA NoCallKept ==
  ASSUME CallsInHandler, closing \in BOOLEAN, call = "none", UNCHANGED <<call, closing>>,
         asked' \in Nat, pc' \in {"headers", "special", "handler"} => asked' = 0
  PROVE  Calls'
  <1>1. call' = "none" /\ ~closing'
    BY DEF CallsInHandler
  <1>2. CallsInHandler' /\ RoomAndGot'
    BY <1>1 DEF CallsInHandler, RoomAndGot
  <1>3. ~(InHandler' /\ asked' > 0)
    BY DEF InHandler
  <1> QED
    BY <1>2, <1>3 DEF Calls, ReadsProgress

\* ... and the return of a call of a ChunkedReader, ...
LEMMA ReturnKept ==
  ASSUME Calls, ReadersTyped, pc = "handler", reader = "chunked", closing => asked = 0,
         NEW err, NEW units \in Seq(Nat), ReturnChunked(err, units),
         err = "Ok" /\ asked > 0 => units # << >>,
         UNCHANGED <<pc, asked>>
  PROVE  Calls'
  <1>1. CASE closing /\ err = "Ok" /\ chunkedState' # "Eof"
    BY <1>1 DEF ReturnChunked, Calls, CallsInHandler, RoomAndGot, ReadsProgress, InHandler
  <1>2. CASE ~(closing /\ err = "Ok" /\ chunkedState' # "Eof")
    <2>1. call' = "none" /\ ~closing' /\ ret' = Result(err, IF closing THEN << >> ELSE units)
      BY <1>2 DEF ReturnChunked
    <2>2. CallsInHandler' /\ RoomAndGot'
      BY <2>1 DEF CallsInHandler, RoomAndGot
    <2>3. asked' > 0 => ret' # Result("Ok", << >>)
      BY <2>1 DEF Result
    <2> QED
      BY <2>2, <2>3 DEF Calls, ReadsProgress
  <1> QED
    BY <1>1, <1>2

\* ... so do all the steps of a call, ...
LEMMA ReaderStepKept ==
  ASSUME IInv, ReaderStep, UNCHANGED <<pc, asked>>
  PROVE  Calls'
  <1>0. /\ StreamTyped /\ ReadersTyped /\ Calls /\ pc = "handler" /\ reader = "chunked"
        /\ closing => asked = 0
        /\ room \in Nat /\ curLength \in Nat /\ got \in Seq(Nat) /\ asked \in Nat
    <2>1. call # "none"
      BY DEF ReaderStep, ChunkedLineFails, ReadLengthLine, ReadTrailer, ReadData, ReadDataFails,
             ReadDataEol, ReturnFull, AtDataEol
    <2>2. StreamTyped /\ ReadersTyped /\ asked \in Nat
      BY TypeParts DEF IInv, HistoryTyped
    <2> QED
      BY <2>1, <2>2 DEF IInv, Calls, CallsInHandler, RoomAndGot, ReadersTyped
  <1>1. ASSUME NEW err \in {"Eof", "IoError", "LineTooLong", "ClientError"}, FailChunked(err)
        PROVE  Calls'
    <2>1. << >> \in Seq(Nat) /\ ReturnChunked(err, << >>)
      BY <1>1 DEF FailChunked
    <2> QED
      BY <1>0, <1>1, <2>1, ReturnKept
  <1>2. ASSUME call' # "none", UNCHANGED <<reader, closing>>, room' + Len(got') = room + Len(got)
        PROVE  Calls'
    <2>1. CallsInHandler'
      BY <1>0, <1>2 DEF CallsInHandler
    <2>2. ~closing => room + Len(got) = asked
      BY <1>0, <1>2 DEF Calls, RoomAndGot, ReaderStep, ChunkedLineFails, ReadLengthLine, ReadTrailer,
                        ReadData, ReadDataFails, ReadDataEol, ReturnFull, AtDataEol
    <2>3. RoomAndGot'
      BY <1>0, <1>2, <2>2 DEF RoomAndGot
    <2> QED
      BY <1>2, <2>1, <2>3 DEF Calls, ReadsProgress, InHandler
  <1>3. CASE ChunkedLineFails \/ ReadDataFails
    BY <1>1, <1>3 DEF ChunkedLineFails, ReadDataFails
  <1>4. CASE ReadLengthLine
    BY <1>1, <1>2, <1>4 DEF ReadLengthLine, GoOn
  <1>5. CASE ReadTrailer
    <2>1. CASE ~EndsTrailers(NextLine)
      BY <1>2, <1>5, <2>1 DEF ReadTrailer, GoOn
    <2>2. CASE EndsTrailers(NextLine)
      <3>1. ReturnChunked(IF got = << >> THEN "Eof" ELSE "Ok", got)
        BY <1>5, <2>2 DEF ReadTrailer
      <3> QED
        BY <1>0, <3>1, ReturnKept
    <2> QED
      BY <2>1, <2>2
  <1>6. CASE ReadData
    <2>1. PICK m \in Readable(BytesReadable) : got' = got \o Units(m) /\ room' = room - m
      BY <1>6 DEF ReadData
    <2>2. m \in Nat
      BY <1>0, <2>1 DEF Readable, BytesReadable
    <2>3. Units(m) \in Seq(Nat) /\ Len(Units(m)) = m
      BY <1>0, <2>2, UnitsTyped
    <2>4. Len(got') = Len(got) + m
      <3>1. Len(got \o Units(m)) = Len(got) + Len(Units(m))
        BY <1>0, <2>3
      <3> QED
        BY <2>1, <2>3, <3>1
    <2>5. room' + Len(got') = room + Len(got)
      BY <1>0, <2>1, <2>2, <2>4
    <2> QED
      BY <1>2, <1>6, <2>5 DEF ReadData, GoOn
  <1>7. CASE ReadDataEol
    BY <1>1, <1>2, <1>7 DEF ReadDataEol, AtDataEol, GoOn
  <1>8. CASE ReturnFull
    <2>1. ReturnChunked("Ok", got) /\ call = "read" /\ room = 0
      BY <1>8 DEF ReturnFull
    <2>2. asked > 0 => got # << >>
      BY <1>0, <2>1 DEF Calls, RoomAndGot
    <2> QED
      BY <1>0, <2>1, <2>2, ReturnKept
  <1> QED
    BY <1>3, <1>4, <1>5, <1>6, <1>7, <1>8 DEF ReaderStep

\* ... and the calls of the handler.
LEMMA HandlerCallKept ==
  ASSUME IInv, InHandler, UNCHANGED pc, NEW n \in Nat, asked' = n,
         \/ readNull \/ readLength(n) \/ readChunked(n)
         \/ n = 0 /\ (closeOther \/ closeChunked)
  PROVE  Calls'
  <1>0. /\ StreamTyped /\ ReadersTyped /\ CallsInHandler /\ contentLength \in Nat
        /\ pc = "handler" /\ call = "none" /\ ~closing
    BY TypeParts DEF IInv, InHandler, CallsInHandler, ReadersTyped
  <1>1. ASSUME NEW err, NEW units, Answer(err, units),
               err = "Ok" /\ n > 0 /\ units = << >> =>
                 reader = "length" /\ contentLength' # 0 /\ contentLength' % Range32 = 0
        PROVE  Calls'
    <2>1. UNCHANGED <<call, closing, reader>> /\ ret' = Result(err, units)
      BY <1>1 DEF Answer
    <2>2. CallsInHandler' /\ RoomAndGot'
      BY <1>0, <2>1 DEF CallsInHandler, RoomAndGot
    <2>3. ReadsProgress'
      BY <1>1, <2>1 DEF ReadsProgress, Result
    <2> QED
      BY <2>2, <2>3 DEF Calls
  <1>2. CASE readNull
    BY <1>1, <1>2 DEF readNull
  <1>3. CASE readLength(n)
    <2>1. CASE LengthEnded
      BY <1>1, <1>3, <2>1 DEF readLength
    <2>2. CASE ReadLen(n) = 0 /\ Answer("Ok", << >>) /\ UNCHANGED contentLength /\ ~LengthEnded
      <3>1. n > 0 => contentLength % Range32 = 0
        BY <1>0, <2>2, ReadLenTyped DEF ReadLen
      <3> QED
        BY <1>1, <1>3, <2>2, <3>1 DEF readLength, LengthEnded
    <2>3. CASE \E m \in Readable(ReadLen(n)) : Answer("Ok", Units(m))
      <3>1. PICK m \in Readable(ReadLen(n)) : Answer("Ok", Units(m))
        BY <2>3
      <3>2. m \in Nat \ {0}
        BY <1>0, <3>1, ReadLenTyped DEF Readable
      <3>3. Units(m) # << >>
        BY <1>0, <3>2, UnitsTyped
      <3> QED
        BY <1>1, <3>1, <3>3
    <2>4. CASE \E err \in {"Eof", "IoError"} : Answer(err, << >>)
      BY <1>1, <2>4
    <2> QED
      BY <1>3, <2>1, <2>2, <2>3, <2>4 DEF readLength
  <1>4. CASE n = 0 /\ closeOther
    BY <1>1, <1>4 DEF closeOther
  <1>5. ASSUME NEW k \in Nat, NEW c \in BOOLEAN, EnterChunked(k, c), (~c /\ k = n) \/ (c /\ n = 0)
        PROVE  Calls'
    <2>1. CASE chunkedState = "Eof"
      <3>1. UNCHANGED <<call, closing, reader>> /\ ret' = Result(IF c THEN "Ok" ELSE "Eof", << >>)
        BY <1>5, <2>1 DEF EnterChunked
      <3>2. CallsInHandler' /\ RoomAndGot'
        BY <1>0, <3>1 DEF CallsInHandler, RoomAndGot
      <3> QED
        BY <1>5, <3>1, <3>2 DEF Calls, ReadsProgress, Result
    <2>2. CASE chunkedState # "Eof"
      <3>1. call' = "read" /\ closing' = c /\ room' = k /\ got' = << >> /\ UNCHANGED reader /\ reader = "chunked"
        BY <1>5, <2>2 DEF EnterChunked
      <3> QED
        BY <1>0, <1>5, <3>1 DEF Calls, CallsInHandler, RoomAndGot, ReadsProgress, InHandler
    <2> QED
      BY <2>1, <2>2
  <1>6. CASE readChunked(n)
    BY <1>5, <1>6 DEF readChunked
  <1>7. CASE n = 0 /\ closeChunked
    BY <1>5, <1>7 DEF closeChunked, DiscardLen
  <1> QED
    BY <1>2, <1>3, <1>4, <1>6, <1>7

\* Every step of the connection and of its handler keeps the invariants of the calls.
LEMMA CallsKept ==
  ASSUME IInv, [Next]_vars, TypeOK'
  PROVE  Calls'
  <1>0. closing \in BOOLEAN /\ asked \in Nat /\ asked' \in Nat /\ Calls
    BY DEF IInv, TypeOK, Calls
  <1>1. CASE UNCHANGED vars
    BY <1>0, <1>1 DEF vars, Calls, CallsInHandler, RoomAndGot, ReadsProgress, InHandler
  <1>2. ASSUME pc # "handler" \/ call = "none", UNCHANGED readerVars \/ NewReader(ReaderFor, LengthFor),
               pc' \in {"headers", "special", "handler"} => asked' = 0
        PROVE  Calls'
    <2>1. call = "none" /\ UNCHANGED <<call, closing>>
      BY <1>0, <1>2 DEF readerVars, NewReader, Calls, CallsInHandler
    <2> QED
      BY <1>0, <1>2, <2>1, NoCallKept DEF Calls
  <1>3. CASE peekMatch \/ ReadLineFails \/ sendNotFound \/ sendStatus \/ HandlerReturns \/ HandlerThrows
    BY <1>2, <1>3 DEF peekMatch, ReadLineFails, sendNotFound, sendStatus, HandlerReturns, HandlerThrows,
                      InHandler, Respond, WriteFails, Leave
  <1>4. CASE readRequestLine
    BY <1>2, <1>4 DEF readRequestLine
  <1>5. CASE readHeaderLine \/ parseSpecialHeaders
    <2>1. asked' = 0
      BY <1>0, <1>5 DEF Calls, RoomAndGot, readHeaderLine, parseSpecialHeaders, historyVars
    <2> QED
      BY <1>2, <1>5, <2>1 DEF readHeaderLine, parseSpecialHeaders
  <1>6. CASE ReadGoesOn
    BY <1>6, ReaderStepKept DEF ReadGoesOn, connectionVars
  <1>7. CASE HandlerReads
    <2>1. PICK n \in BufferLens : (readNull \/ readLength(n) \/ readChunked(n)) /\ asked' = n
      BY <1>7 DEF HandlerReads
    <2>2. n \in Nat /\ InHandler /\ UNCHANGED pc
      BY <1>7, BufferAssumption DEF HandlerReads, connectionVars
    <2> QED
      BY <2>1, <2>2, HandlerCallKept
  <1>8. CASE HandlerCloses
    <2>1. (closeOther \/ closeChunked) /\ asked' = 0 /\ 0 \in Nat /\ InHandler /\ UNCHANGED pc
      BY <1>8 DEF HandlerCloses, connectionVars
    <2> QED
      BY <2>1, HandlerCallKept
  <1> QED
    BY <1>1, <1>3, <1>4, <1>5, <1>6, <1>7, <1>8 DEF Next, ConnectionStep

-----------------------------------------------------------------------------
\* Every step keeps the count of the answers.
LEMMA AnsweredKept ==
  ASSUME IInv, [Next]_vars
  PROVE  Answered'
  <1>0. round \in Nat /\ responses \in Seq({0, 200, 404, 400, 501, 505}) /\ Answered
    BY DEF IInv, TypeOK
  <1>1. ASSUME UNCHANGED <<round, responses>>,
               \/ pc' \in {pc, "closed", "thrown", "crashed"}
               \/ pc = "peek" /\ pc' = "requestLine"
               \/ pc \in {"headers", "special"} /\ pc' \in {"special", "status", "handler", "notFound"}
        PROVE  Answered'
    BY <1>0, <1>1 DEF Answered, OneAnswerEach
  <1>2. ASSUME NEW r \in {0, 200, 404, 400, 501, 505}, UNCHANGED round, responses' = Append(responses, r),
               pc \in {"notFound", "status", "handler"}, pc' \in {"requestLine", "closed"}
        PROVE  Answered'
    <2>1. Len(responses') = Len(responses) + 1 /\ Len(responses) = round - 1
      BY <1>0, <1>2 DEF Answered
    <2> QED
      BY <1>0, <1>2, <2>1 DEF Answered, OneAnswerEach
  <1> USE DEF Leave, Respond, WriteFails
  <1>3. CASE UNCHANGED vars
    BY <1>1, <1>3 DEF vars
  <1>4. CASE peekMatch \/ ReadLineFails \/ readHeaderLine \/ parseSpecialHeaders \/ HandlerThrows
    BY <1>1, <1>4 DEF peekMatch, ReadLineFails, readHeaderLine, parseSpecialHeaders, HandlerThrows
  <1>5. CASE readRequestLine
    <2>1. Len(responses) = round /\ round' = round + 1 /\ UNCHANGED responses /\ pc' \in {"headers", "status"}
      BY <1>0, <1>5 DEF readRequestLine, Answered, OneAnswerEach
    <2> QED
      BY <1>0, <2>1 DEF Answered, OneAnswerEach
  <1>6. CASE sendNotFound
    BY <1>1, <1>2, <1>6 DEF sendNotFound
  <1>7. CASE sendStatus
    <2>1. status \in {0, 400, 501, 505}
      BY DEF IInv, TypeOK
    <2> QED
      BY <1>1, <1>2, <1>7, <2>1 DEF sendStatus
  <1>8. CASE HandlerReturns
    BY <1>1, <1>2, <1>8 DEF HandlerReturns, InHandler
  <1>9. CASE ReadGoesOn \/ HandlerReads \/ HandlerCloses
    BY <1>1, <1>9 DEF ReadGoesOn, HandlerReads, HandlerCloses, connectionVars
  <1> QED
    BY <1>3, <1>4, <1>5, <1>6, <1>7, <1>8, <1>9 DEF Next, ConnectionStep

-----------------------------------------------------------------------------
\* The invariant holds when the connection begins.
LEMMA InitEstablishes == Init => IInv
  <1> SUFFICES ASSUME Init PROVE IInv
    OBVIOUS
  <1>1. << >> \in Seq(Nat) /\ << >> \in Seq(SpecialHeaders \X Nat) /\ << >> \in Seq({0, 200, 404, 400, 501, 505})
        /\ Result("Ok", << >>) \in Returns
    BY ResultTyped
  <1>2. TypeOK
    <2>1. StreamTyped
      <3>1. input \in Seq(Unit) /\ Len(input) \in Nat
        BY StreamAssumption DEF Init
      <3> QED
        BY <3>1 DEF Init, StreamTyped
    <2>2. ReadersTyped
      BY <1>1 DEF Init, InitReaders, ReadersTyped
    <2>3. ConnectionTyped
      BY <1>1 DEF Init, ConnectionTyped
    <2>4. HistoryTyped
      BY <1>1 DEF Init, HistoryTyped
    <2> QED
      BY <2>1, <2>2, <2>3, <2>4, TypeParts
  <1>3. CallsInHandler /\ RoomAndGot /\ ReadsProgress /\ Answered
    BY DEF Init, InitReaders, CallsInHandler, RoomAndGot, ReadsProgress, InHandler, Answered, OneAnswerEach
  <1> QED
    BY <1>2, <1>3 DEF Init, IInv

\* The inductive invariant holds in every state.
THEOREM Invariance == Spec => []IInv
  <1>1. IInv /\ [Next]_vars => IInv'
    <2> SUFFICES ASSUME IInv, [Next]_vars PROVE IInv'
      OBVIOUS
    <2>1. TypeOK' /\ input' = input
      BY TypeKept
    <2>2. Calls'
      BY <2>1, CallsKept
    <2>3. Answered'
      BY AnsweredKept
    <2> QED
      BY <2>1, <2>2, <2>3 DEF IInv, Calls
  <1> QED
    BY InitEstablishes, <1>1, PTL DEF Spec

\* The variables have their types, so no length that a reader counts down wraps.
THEOREM TypeCorrect == Spec => []TypeOK
  BY Invariance, PTL DEF IInv

\* A read into a buffer that is not empty gets something or says why not.
THEOREM ReadsEnd == Spec => []ReadsProgress
  BY Invariance, PTL DEF IInv

\* Every request has one answer before the next one is looked for, and none has two.
THEOREM AnswersInStep == Spec => []OneAnswerEach
  <1>1. IInv => OneAnswerEach
    BY DEF IInv, Answered
  <1> QED
    BY Invariance, <1>1, PTL

-----------------------------------------------------------------------------
(* In step with the client.                                                *)

\* What a header is worth for the framing of its request.
Framing(v) == IF v \in {"Content-Length", "chunked", "identity"} THEN v ELSE "other"

\* f tells where in the stream s the headers hs are, which have been read from the
\* lines after a and before h.
ReadFrom(hs, s, f, a, h) ==
    /\ f \in [1 .. Len(hs) -> (a + 1) .. (h - 1)]
    /\ \A i, j \in 1 .. Len(hs) : i < j => f[i] < f[j]
    /\ \A p \in (a + 1) .. (h - 1) : s[p].kind = "header" <=> \E i \in 1 .. Len(hs) : f[i] = p
    /\ \A i \in 1 .. Len(hs) :
         /\ hs[i][2] = s[f[i]].n
         /\ Framing(hs[i][1]) = Framing(IF f[i] + 1 < h THEN Word(s, f[i]) ELSE s[f[i]].v)

\* The headers of the request from a up to e have been read as far as the line at h.
HeadRead(hs, s, a, h, e) ==
    /\ a \in DOMAIN s /\ s[a].kind = "request" /\ h \in (a + 1) .. e
    /\ \A q \in (a + 1) .. (h - 1) : s[q].kind \in {"header", "padded"}
    /\ \E f \in [1 .. Len(hs) -> (a + 1) .. (h - 1)] : ReadFrom(hs, s, f, a, h)

HeadInStep ==
    /\ pc = "peek" => pos = 1 /\ round = 0
    /\ pc # "peek" /\ pc # "requestLine" /\ pc # "closed" => round > 0
    /\ pc \in {"headers", "special"} => body = << >>
    /\ loose = {} /\ pc = "headers" => HeadRead(headers, input, Start(round), pos, Start(round + 1))
    /\ loose = {} /\ pc = "special" =>
         /\ HeadRead(headers, input, Start(round), pos - 1, Start(round + 1))
         /\ pos <= Start(round + 1) /\ input[pos - 1].kind = "blank"

\* Where a ChunkedReader is in the content of a request that ends before e.
ChunksInStep(e) ==
    /\ chunkedState # "Eof" => \A p \in pos .. (e - 1) : IsSize(input[p]) => ChunkFramed(input, e, p)
    /\ call = "trailers" => chunkedState = "Length" /\ Trailers(input, e, pos)
    /\ chunkedState = "Length" /\ call # "trailers" => SizeAt(input, e, pos)
    /\ chunkedState = "Data" => DataFrom(input, e, pos, curLength) /\ ChunkEnds(input, e, pos + curLength)
    /\ chunkedState = "DataEol" => ChunkEnds(input, e, pos)
    /\ chunkedState = "Eof" => pos = e

ContentInStep(a, e) ==
    /\ a <= pos /\ pos <= e
    /\ reader = "null" => pos = e
    /\ reader = "length" => LengthFramed(input, e, pos, contentLength)
    /\ reader = "chunked" => ChunksInStep(e)

BodyInStep == loose = {} /\ pc \in {"handler", "notFound"} => ContentInStep(Start(round), Start(round + 1))

Ordered(s) == \A i \in 1 .. Len(s), j \in 1 .. Len(s) : i < j => s[i] < s[j]
UnitsOf(s) == {s[i] : i \in 1 .. Len(s)}

\* Everything the reader has passed has been handed over or is in the buffer.
AllTaken ==
    /\ call = "none" => got = << >>
    /\ loose = {} /\ pc = "handler" /\ ~skipped =>
         /\ BodyExact
         /\ ~closing => /\ Ordered(body \o got)
                        /\ UnitsOf(body \o got) = {p \in Content(round) : p < pos}

InStep == RequestsInStep /\ HeadInStep /\ BodyInStep /\ AllTaken

-----------------------------------------------------------------------------
(* Where requests begin.                                                   *)

\* Streams are of units with a number, ...
LEMMA ReqTyped ==
  ASSUME NEW s \in Seq(Unit)
  PROVE  Len(s) \in Nat /\ \A p \in 1 .. Len(s) : s[p] \in Unit /\ s[p].req \in Nat
  <1>1. \A u \in Unit : u.req \in Nat
    BY DEF Unit
  <1>2. Len(s) \in Nat /\ \A p \in 1 .. Len(s) : s[p] \in Unit
    OBVIOUS
  <1> QED
    BY <1>1, <1>2

\* ... which begins with 1 and goes on without gaps.
LEMMA NumberedIs ==
  ASSUME NEW s \in Seq(Unit), Numbered(s), NEW p \in 1 .. Len(s)
  PROVE  /\ p = 1 => s[p].req = 1
         /\ p # 1 => s[p].req = s[p - 1].req \/ s[p].req = s[p - 1].req + 1
  <1>1. p \in DOMAIN s
    OBVIOUS
  <1>2. IF p = 1 THEN s[p].req = 1 ELSE s[p].req \in {s[p - 1].req, s[p - 1].req + 1}
    BY <1>1, Zenon DEF Numbered
  <1> QED
    BY <1>2

\* The k-th request begins at the first unit with that number or a higher one.
LEMMA StartIs ==
  ASSUME NEW s \in Seq(Unit), NEW k \in Nat
  PROVE  /\ StartIn(s, k) \in 1 .. (Len(s) + 1)
         /\ StartIn(s, k) <= Len(s) => s[StartIn(s, k)].req >= k
         /\ \A q \in 1 .. (StartIn(s, k) - 1) : s[q].req < k
  <1> DEFINE P(p) == /\ p <= Len(s) => s[p].req >= k
                     /\ \A q \in 1 .. (p - 1) : s[q].req < k
             T == {p \in 1 .. Len(s) : s[p].req >= k}
  <1>0. Len(s) \in Nat /\ \A p \in 1 .. Len(s) : s[p].req \in Nat
    BY ReqTyped
  <1>1. \E p \in 1 .. (Len(s) + 1) : P(p)
    <2>1. CASE T = {}
      BY <1>0, <2>1
    <2>2. CASE T # {}
      <3>1. T \subseteq Nat
        BY <1>0
      <3>2. PICK p \in T : \A q \in T : p <= q
        <4> HIDE DEF T
        <4> QED
          BY <2>2, <3>1, LeastNumber
      <3>3. P(p)
        BY <1>0, <3>2
      <3> QED
        BY <1>0, <3>2, <3>3
    <2> QED
      BY <2>1, <2>2
  <1>2. StartIn(s, k) = CHOOSE p \in 1 .. (Len(s) + 1) : P(p)
    BY DEF StartIn
  <1>3. StartIn(s, k) \in 1 .. (Len(s) + 1) /\ P(StartIn(s, k))
    <2> HIDE DEF P
    <2> QED
      BY <1>1, <1>2
  <1> QED
    BY <1>3

\* The first request begins with the stream.
LEMMA FirstStart ==
  ASSUME NEW s \in Seq(Unit), Numbered(s)
  PROVE  StartIn(s, 1) = 1
  <1>1. /\ StartIn(s, 1) \in 1 .. (Len(s) + 1) /\ Len(s) \in Nat
        /\ \A q \in 1 .. (StartIn(s, 1) - 1) : s[q].req < 1
    BY StartIs
  <1>2. CASE Len(s) = 0
    BY <1>1, <1>2
  <1>3. CASE Len(s) # 0
    <2>1. s[1].req = 1
      BY <1>1, <1>3, NumberedIs
    <2> QED
      BY <1>1, <2>1
  <1> QED
    BY <1>2, <1>3

\* The unit at which the k-th request begins is one of its own, and the next one
\* begins further on.
LEMMA StartsInOrder ==
  ASSUME NEW s \in Seq(Unit), Numbered(s), NEW k \in Nat \ {0}, StartIn(s, k) <= Len(s)
  PROVE  s[StartIn(s, k)].req = k /\ StartIn(s, k) < StartIn(s, k + 1)
  <1> DEFINE a == StartIn(s, k)
             e == StartIn(s, k + 1)
  <1>1. /\ a \in 1 .. Len(s) /\ s[a].req >= k /\ \A q \in 1 .. (a - 1) : s[q].req < k
        /\ e \in 1 .. (Len(s) + 1) /\ (e <= Len(s) => s[e].req >= k + 1)
        /\ Len(s) \in Nat /\ \A p \in 1 .. Len(s) : s[p].req \in Nat
    <2>1. k \in Nat /\ k + 1 \in Nat
      OBVIOUS
    <2>2. /\ a \in 1 .. (Len(s) + 1) /\ (a <= Len(s) => s[a].req >= k)
          /\ \A q \in 1 .. (a - 1) : s[q].req < k
      BY <2>1, StartIs
    <2>3. e \in 1 .. (Len(s) + 1) /\ (e <= Len(s) => s[e].req >= k + 1)
      BY <2>1, StartIs
    <2> QED
      BY <2>2, <2>3, ReqTyped
  <1> HIDE DEF a, e
  <1>2. s[a].req = k
    <2>1. CASE a = 1
      BY <1>1, <2>1, NumberedIs
    <2>2. CASE a # 1
      <3>1. s[a].req \in {s[a - 1].req, s[a - 1].req + 1}
        BY <1>1, <2>2, NumberedIs
      <3>2. s[a - 1].req < k /\ s[a - 1].req \in Nat
        BY <1>1, <2>2
      <3> QED
        BY <1>1, <3>1, <3>2
    <2> QED
      BY <2>1, <2>2
  <1>3. a < e
    <2> SUFFICES ASSUME e <= a PROVE FALSE
      BY <1>1
    <2>1. s[e].req >= k + 1 /\ e \in 1 .. Len(s)
      BY <1>1
    <2>2. CASE e = a
      BY <1>2, <2>1, <2>2
    <2>3. CASE e < a
      BY <1>1, <2>1, <2>3
    <2> QED
      BY <1>1, <2>2, <2>3
  <1> QED
    BY <1>2, <1>3 DEF a, e

\* A request with a request line is framed as its headers say.
LEMMA RequestFramed ==
  ASSUME NEW s \in Inputs, NEW k \in Nat \ {0}, NEW a, a = StartIn(s, k), NEW e, e = StartIn(s, k + 1),
         a <= Len(s), s[a].kind = "request"
  PROVE  /\ HeadFramed(s, a, e)
         /\ \A h \in a .. (e - 1) :
              /\ s[h].kind = "blank"
              /\ \A q \in (a + 1) .. (h - 1) : s[q].kind \in {"header", "padded"}
              => BodyFramed(s, a, h, e)
  <1>1. s \in Seq(Unit) /\ Framed(s) /\ Numbered(s)
    BY StreamAssumption, FramingAssumption DEF Framed
  <1>2. a \in DOMAIN s /\ s[a].req = k
    BY <1>1, StartIs, StartsInOrder
  <1> QED
    BY <1>1, <1>2 DEF Framed

-----------------------------------------------------------------------------
(* The head of a request.                                                  *)

\* A line that ends where the connection is looking is read as such.
LEMMA LineHere ==
  ASSUME StreamTyped, pos <= Len(input), input[pos].kind \in LineKinds
  PROVE  LineEnd = pos /\ NextLine = input[pos]
  <1> DEFINE ends == {p \in pos .. Len(input) : input[p].kind \in LineKinds}
  <1>1. pos \in Nat /\ Len(input) \in Nat /\ pos \in ends /\ \A q \in ends : q \in Nat /\ pos <= q
    BY DEF StreamTyped
  <1>2. LineEnd = CHOOSE p \in ends : \A q \in ends : p <= q
    BY <1>1 DEF LineEnd
  <1>3. LineEnd \in ends /\ \A q \in ends : LineEnd <= q
    <2> HIDE DEF ends
    <2> QED
      BY <1>1, <1>2
  <1>4. LineEnd = pos
    <2>1. LineEnd \in Nat /\ pos <= LineEnd /\ LineEnd <= pos
      BY <1>1, <1>3
    <2> QED
      BY <1>1, <2>1
  <1> QED
    BY <1>4 DEF NextLine

\* A line of some kind is read only if there is one at pos.
LEMMA LineOfKind ==
  ASSUME StreamTyped, LineRead, NextLine.kind \in LineKinds
  PROVE  /\ pos <= Len(input) /\ pos \in Nat /\ Len(input) \in Nat
         /\ NextLine = input[pos] /\ pos' = pos + 1 /\ input' = input
  <1>1. pos \in Nat /\ Len(input) \in Nat /\ pos <= Len(input) /\ pos' = LineEnd + 1 /\ input' = input
        /\ input \in Seq(Unit)
    BY DEF StreamTyped, LineRead, AtEnd
  <1>2. LineEnd = pos /\ NextLine = input[pos]
    <2>1. CASE LineEnd = pos /\ input[pos].kind \in LineKinds
      BY <2>1 DEF NextLine
    <2>2. CASE ~(LineEnd = pos /\ input[pos].kind \in LineKinds)
      <3>1. NextLine = [input[pos] EXCEPT !.kind = "mixed"]
        BY <2>2 DEF NextLine
      <3>2. pos \in 1 .. Len(input)
        BY <1>1 DEF StreamTyped
      <3>3. input[pos] \in Unit
        BY <1>1, <3>2
      <3>4. NextLine.kind = "mixed"
        BY <3>1, <3>3 DEF Unit
      <3> QED
        BY <3>4 DEF LineKinds
    <2> QED
      BY <2>1, <2>2
  <1> QED
    BY <1>1, <1>2

\* What comes behind the lines read so far is one more line of the request, ...
LEMMA HeadGoesOn ==
  ASSUME NEW s \in Seq(Unit), NEW hs, NEW a, NEW h, NEW e \in 1 .. (Len(s) + 1),
         HeadRead(hs, s, a, h, e), HeadFramed(s, a, e)
  PROVE  /\ \A q \in a .. (h - 1) : ~s[q].data
         /\ h <= Len(s) => h < e /\ IsLine(s[h])
  <1>1. /\ a \in 1 .. Len(s) /\ h \in (a + 1) .. e /\ Len(s) \in Nat
        /\ \A q \in a .. (h - 1) : s[q].kind # "blank"
    <2>1. \A q \in a .. (h - 1) : q = a \/ q \in (a + 1) .. (h - 1)
      BY DEF HeadRead
    <2> QED
      BY <2>1 DEF HeadRead
  <1>2. ASSUME NEW p \in a .. (h - 1), p < Len(s) PROVE p + 1 < e /\ IsLine(s[p + 1])
    BY <1>1, <1>2 DEF HeadFramed
  <1>3. \A q \in a .. (h - 1) : ~s[q].data
    <2> SUFFICES ASSUME NEW q \in a .. (h - 1) PROVE ~s[q].data
      OBVIOUS
    <2>1. CASE q = a
      BY <2>1 DEF HeadFramed
    <2>2. CASE q # a
      <3>1. q - 1 \in a .. (h - 1) /\ q - 1 < Len(s) /\ (q - 1) + 1 = q
        BY <1>1, <2>2
      <3>2. IsLine(s[(q - 1) + 1])
        BY <1>2, <3>1
      <3> QED
        BY <3>1, <3>2 DEF IsLine
    <2> QED
      BY <2>1, <2>2
  <1>4. ASSUME h <= Len(s) PROVE h < e /\ IsLine(s[h])
    <2>1. h - 1 \in a .. (h - 1) /\ h - 1 < Len(s) /\ (h - 1) + 1 = h
      BY <1>1, <1>4
    <2>2. (h - 1) + 1 < e /\ IsLine(s[(h - 1) + 1])
      BY <1>2, <2>1
    <2> QED
      BY <2>1, <2>2
  <1> QED
    BY <1>3, <1>4

\* ... beginning with none, ...
LEMMA NoHeadersRead ==
  ASSUME NEW s \in Seq(Unit), NEW a \in DOMAIN s, s[a].kind = "request", NEW e \in Nat, a < e
  PROVE  HeadRead(<< >>, s, a, a + 1, e)
  <1>1. a \in Nat /\ Len(<< >>) = 0
    OBVIOUS
  <1> DEFINE f == [i \in 1 .. Len(<< >>) |-> a]
  <1>2. f \in [1 .. Len(<< >>) -> (a + 1) .. ((a + 1) - 1)] /\ ReadFrom(<< >>, s, f, a, a + 1)
    BY <1>1 DEF ReadFrom
  <1>3. a + 1 \in (a + 1) .. e /\ \A q \in (a + 1) .. ((a + 1) - 1) : s[q].kind \in {"header", "padded"}
    BY <1>1
  <1>4. \E k \in [1 .. Len(<< >>) -> (a + 1) .. ((a + 1) - 1)] : ReadFrom(<< >>, s, k, a, a + 1)
    <2> HIDE DEF f
    <2> QED
      BY <1>2
  <1> QED
    BY <1>3, <1>4, Zenon DEF HeadRead

\* ... one more header, ...
LEMMA HeaderRead ==
  ASSUME NEW s \in Seq(Unit), NEW hs \in Seq(SpecialHeaders \X Nat), NEW a \in Nat, NEW h \in Nat, NEW e \in Nat,
         HeadRead(hs, s, a, h, e), h < e, s[h].kind = "header"
  PROVE  HeadRead(Append(hs, <<s[h].v, s[h].n>>), s, a, h + 1, e)
  <1> DEFINE n == Len(hs)
             hn == Append(hs, <<s[h].v, s[h].n>>)
  <1>0. n \in Nat /\ Len(hn) = n + 1 /\ (\A i \in 1 .. n : hn[i] = hs[i]) /\ hn[n + 1] = <<s[h].v, s[h].n>>
    OBVIOUS
  <1>1. PICK f \in [1 .. n -> (a + 1) .. (h - 1)] : ReadFrom(hs, s, f, a, h)
    BY DEF HeadRead
  <1> DEFINE g == [i \in 1 .. (n + 1) |-> IF i = n + 1 THEN h ELSE f[i]]
  <1>2. h \in (a + 1) .. e
    BY DEF HeadRead
  <1> HIDE DEF n, hn
  <1>3. \A i \in 1 .. n : g[i] = f[i] /\ f[i] \in (a + 1) .. (h - 1)
    BY <1>0, <1>1
  <1>4. g[n + 1] = h /\ DOMAIN g = 1 .. (n + 1) /\ g \in [1 .. (n + 1) -> (a + 1) .. h]
    BY <1>0, <1>2, <1>3
  <1> HIDE DEF g
  <1>5. \A i, j \in 1 .. (n + 1) : i < j => g[i] < g[j]
    <2> SUFFICES ASSUME NEW i \in 1 .. (n + 1), NEW j \in 1 .. (n + 1), i < j PROVE g[i] < g[j]
      OBVIOUS
    <2>1. i \in 1 .. n
      BY <1>0
    <2>2. CASE j = n + 1
      BY <1>2, <1>3, <1>4, <2>1, <2>2
    <2>3. CASE j # n + 1
      <3>1. j \in 1 .. n
        BY <1>0, <2>3
      <3>2. f[i] < f[j]
        BY <1>1, <2>1, <3>1 DEF ReadFrom, n
      <3> QED
        BY <1>3, <2>1, <3>1, <3>2
    <2> QED
      BY <2>2, <2>3
  <1>6. \A p \in (a + 1) .. h : s[p].kind = "header" <=> \E i \in 1 .. (n + 1) : g[i] = p
    <2> SUFFICES ASSUME NEW p \in (a + 1) .. h PROVE s[p].kind = "header" <=> \E i \in 1 .. (n + 1) : g[i] = p
      OBVIOUS
    <2>1. CASE p = h
      BY <1>0, <1>4, <2>1
    <2>2. CASE p # h
      <3>1. p \in (a + 1) .. (h - 1)
        BY <2>2
      <3>2. s[p].kind = "header" <=> \E i \in 1 .. n : f[i] = p
        BY <1>1, <3>1 DEF ReadFrom, n
      <3>3. \A i \in 1 .. (n + 1) : g[i] = p => i \in 1 .. n
        BY <1>0, <1>4, <2>2
      <3>4. \A i \in 1 .. n : i \in 1 .. (n + 1) /\ g[i] = f[i]
        BY <1>0, <1>3
      <3>5. (\E i \in 1 .. n : f[i] = p) <=> \E i \in 1 .. (n + 1) : g[i] = p
        BY <3>3, <3>4
      <3> QED
        BY <3>2, <3>5
    <2> QED
      BY <2>1, <2>2
  <1>7. ASSUME NEW i \in 1 .. (n + 1)
        PROVE  /\ hn[i][2] = s[g[i]].n
               /\ Framing(hn[i][1]) = Framing(IF g[i] + 1 < h + 1 THEN Word(s, g[i]) ELSE s[g[i]].v)
    <2>1. CASE i = n + 1
      BY <1>0, <1>2, <1>4, <2>1
    <2>2. CASE i # n + 1
      <3>1. i \in 1 .. n
        BY <1>0, <2>2
      <3>2. /\ hs[i][2] = s[f[i]].n
            /\ Framing(hs[i][1]) = Framing(IF f[i] + 1 < h THEN Word(s, f[i]) ELSE s[f[i]].v)
        BY <1>1, <3>1 DEF ReadFrom, n
      <3>3. f[i] < h /\ (~(f[i] + 1 < h) => f[i] + 1 = h)
        <4>1. f[i] \in (a + 1) .. (h - 1)
          BY <1>3, <3>1
        <4>2. \A p \in (a + 1) .. (h - 1) : p < h /\ (~(p + 1 < h) => p + 1 = h)
          OBVIOUS
        <4> QED
          BY <4>1, <4>2
      <3>4. s[f[i] + 1].kind # "padded" => Word(s, f[i]) = s[f[i]].v
        BY DEF Word
      <3>5. f[i] + 1 < h + 1
        BY <1>3, <3>1, <3>3
      <3>6. Framing(IF f[i] + 1 < h THEN Word(s, f[i]) ELSE s[f[i]].v) = Framing(Word(s, f[i]))
        <4>1. CASE f[i] + 1 < h
          BY <4>1
        <4>2. CASE ~(f[i] + 1 < h)
          <5>1. s[f[i] + 1].kind # "padded"
            BY <3>3, <4>2
          <5> QED
            BY <3>4, <4>2, <5>1
        <4> QED
          BY <4>1, <4>2
      <3> QED
        BY <1>0, <1>3, <3>1, <3>2, <3>5, <3>6
    <2> QED
      BY <2>1, <2>2
  <1>8. g \in [1 .. Len(hn) -> (a + 1) .. ((h + 1) - 1)] /\ ReadFrom(hn, s, g, a, h + 1)
    BY <1>0, <1>4, <1>5, <1>6, <1>7 DEF ReadFrom
  <1>9. \A q \in (a + 1) .. ((h + 1) - 1) : s[q].kind \in {"header", "padded"}
    <2>1. \A q \in (a + 1) .. ((h + 1) - 1) : q = h \/ q \in (a + 1) .. (h - 1)
      OBVIOUS
    <2> QED
      BY <2>1 DEF HeadRead
  <1>10. h + 1 \in (a + 1) .. e /\ a \in DOMAIN s /\ s[a].kind = "request"
    BY <1>2 DEF HeadRead
  <1> QED
    BY <1>8, <1>9, <1>10 DEF HeadRead, hn

\* A word that goes on in the next line and goes on again is still another one.
LEMMA FramingExtended ==
  ASSUME NEW x \in SpecialHeaders, NEW v \in Versions \cup SpecialHeaders,
         Framing(x) = Framing(v) \/ Framing(x) = Framing(GoneOn(v))
  PROVE  Framing(Extended(x)) = Framing(GoneOn(v))
  <1>1. Framing(Extended(x)) = Framing(GoneOn(x))
    BY Zenon DEF Framing, Extended, SpecialHeaders, GoneOn
  <1> QED
    BY <1>1, Zenon DEF Framing, SpecialHeaders, Versions, GoneOn

\* ... and one more line that goes on with the last header.
LEMMA PaddedRead ==
  ASSUME NEW s \in Seq(Unit), NEW hs \in Seq(SpecialHeaders \X Nat), hs # << >>,
         NEW a \in Nat, NEW h \in Nat, NEW e \in 1 .. (Len(s) + 1),
         HeadRead(hs, s, a, h, e), h < e, s[h].kind = "padded",
         NEW m, m = Len(hs)
  PROVE  HeadRead([hs EXCEPT ![m] = <<Extended(@[1]), @[2]>>], s, a, h + 1, e)
  <1> DEFINE hn == [hs EXCEPT ![m] = <<Extended(@[1]), @[2]>>]
  <1>0. /\ m \in Nat \ {0} /\ Len(hn) = m /\ (\A i \in 1 .. m : i # m => hn[i] = hs[i])
        /\ hn[m] = <<Extended(hs[m][1]), hs[m][2]>>
        /\ hs[m] \in SpecialHeaders \X Nat
    OBVIOUS
  <1>1. PICK f \in [1 .. m -> (a + 1) .. (h - 1)] : ReadFrom(hs, s, f, a, h)
    BY DEF HeadRead
  <1>2. /\ h \in (a + 1) .. e /\ a \in DOMAIN s /\ s[a].kind = "request"
        /\ \A q \in (a + 1) .. (h - 1) : s[q].kind \in {"header", "padded"}
    BY DEF HeadRead
  <1> HIDE DEF hn
  <1>3. \A i \in 1 .. m : f[i] \in (a + 1) .. (h - 1) /\ f[i] \in (a + 1) .. h
    <2>1. \A x \in (a + 1) .. (h - 1) : x \in (a + 1) .. h
      OBVIOUS
    <2>2. \A i \in 1 .. m : f[i] \in (a + 1) .. (h - 1)
      BY <1>1, Zenon
    <2> QED
      BY <2>1, <2>2, Zenon
  <1>4. \A p \in (a + 1) .. h : s[p].kind = "header" <=> \E i \in 1 .. m : f[i] = p
    <2> SUFFICES ASSUME NEW p \in (a + 1) .. h PROVE s[p].kind = "header" <=> \E i \in 1 .. m : f[i] = p
      OBVIOUS
    <2>1. CASE p = h
      <3>1. \A i \in 1 .. m : f[i] # h
        BY <1>3
      <3> QED
        BY <2>1, <3>1
    <2>2. CASE p # h
      <3>1. p \in (a + 1) .. (h - 1)
        BY <2>2
      <3> QED
        BY <1>1, <3>1 DEF ReadFrom
    <2> QED
      BY <2>1, <2>2
  <1>5. ASSUME NEW i \in 1 .. m
        PROVE  /\ hn[i][2] = s[f[i]].n
               /\ Framing(hn[i][1]) = Framing(IF f[i] + 1 < h + 1 THEN Word(s, f[i]) ELSE s[f[i]].v)
    <2>0. f[i] \in (a + 1) .. (h - 1) /\ f[i] + 1 < h + 1 /\ f[i] < h
      BY <1>3, <1>5
    <2>a. /\ hs[i][2] = s[f[i]].n
          /\ Framing(hs[i][1]) = Framing(IF f[i] + 1 < h THEN Word(s, f[i]) ELSE s[f[i]].v)
      BY <1>1 DEF ReadFrom
    <2>1. CASE i # m
      <3>1. f[i] < f[m] /\ f[m] < h
        <4>1. i < m /\ m \in 1 .. m
          BY <1>0, <2>1
        <4>2. f[i] < f[m]
          BY <1>1, <4>1 DEF ReadFrom
        <4>3. f[m] \in (a + 1) .. (h - 1)
          BY <1>3, <4>1
        <4> QED
          BY <4>2, <4>3
      <3>2. f[i] + 1 < h
        <4>1. \A x, y \in Nat : x < y /\ y < h => x + 1 < h
          OBVIOUS
        <4>2. f[i] \in Nat /\ f[m] \in Nat
          <5>1. \A x \in (a + 1) .. (h - 1) : x \in Nat
            OBVIOUS
          <5>2. m \in 1 .. m
            BY <1>0
          <5> QED
            BY <1>3, <5>1, <5>2
        <4> QED
          BY <3>1, <4>1, <4>2
      <3> QED
        BY <1>0, <2>0, <2>1, <2>a, <3>2
    <2>2. CASE i = m
      <3>1. s[f[m] + 1].kind = "padded"
        <4>1. CASE f[m] + 1 = h
          BY <4>1
        <4>2. CASE f[m] + 1 # h
          <5>1. f[m] + 1 \in (a + 1) .. (h - 1) /\ f[m] \in Nat
            <6>1. f[m] \in (a + 1) .. (h - 1)
              BY <2>0, <2>2
            <6> QED
              BY <4>2, <6>1
          <5>2. s[f[m] + 1].kind # "header"
            <6> SUFFICES ASSUME s[f[m] + 1].kind = "header" PROVE FALSE
              OBVIOUS
            <6>1. PICK j \in 1 .. m : f[j] = f[m] + 1
              BY <1>1, <5>1 DEF ReadFrom
            <6>2. CASE j = m
              BY <5>1, <6>1, <6>2
            <6>3. CASE j # m
              <7>1. j < m /\ m \in 1 .. m
                BY <1>0, <6>3
              <7>2. f[j] < f[m]
                BY <1>1, <7>1 DEF ReadFrom
              <7> QED
                BY <5>1, <6>1, <7>2
            <6> QED
              BY <6>2, <6>3
          <5> QED
            BY <1>2, <5>1, <5>2
        <4> QED
          BY <4>1, <4>2
      <3>2. s[f[m]].v \in Versions \cup SpecialHeaders
        <4>1. f[m] \in 1 .. Len(s)
          BY <1>2, <2>0, <2>2
        <4>2. s[f[m]] \in Unit
          BY <4>1
        <4> QED
          BY <4>2 DEF Unit
      <3>3. Word(s, f[m]) = GoneOn(s[f[m]].v)
        BY <3>1 DEF Word
      <3>4. Framing(hs[m][1]) = Framing(s[f[m]].v) \/ Framing(hs[m][1]) = Framing(Word(s, f[m]))
        BY <2>2, <2>a
      <3>5. Framing(Extended(hs[m][1])) = Framing(Word(s, f[m]))
        <4>1. hs[m][1] \in SpecialHeaders
          BY <1>0
        <4> QED
          BY <3>2, <3>3, <3>4, <4>1, FramingExtended
      <3> QED
        BY <1>0, <2>0, <2>2, <2>a, <3>5
    <2> QED
      BY <2>1, <2>2
  <1>6. f \in [1 .. Len(hn) -> (a + 1) .. ((h + 1) - 1)] /\ ReadFrom(hn, s, f, a, h + 1)
    <2>1. (h + 1) - 1 = h
      OBVIOUS
    <2>2. f \in [1 .. m -> (a + 1) .. h] /\ \A i, j \in 1 .. m : i < j => f[i] < f[j]
      BY <1>1, <1>3 DEF ReadFrom
    <2> QED
      BY <1>0, <1>4, <1>5, <2>1, <2>2 DEF ReadFrom
  <1>7. \A q \in (a + 1) .. ((h + 1) - 1) : s[q].kind \in {"header", "padded"}
    <2>1. \A q \in (a + 1) .. ((h + 1) - 1) : q = h \/ q \in (a + 1) .. (h - 1)
      OBVIOUS
    <2> QED
      BY <1>2, <2>1
  <1>8. h + 1 \in (a + 1) .. e
    BY <1>2
  <1> QED
    BY <1>2, <1>6, <1>7, <1>8 DEF HeadRead, hn

-----------------------------------------------------------------------------
(* The framing of a request.                                               *)

\* The headers with one of these words are the ones of the lines with it.
LEMMA LinesAsHeaders ==
  ASSUME NEW s \in Seq(Unit), NEW hs \in Seq(SpecialHeaders \X Nat), NEW a \in Nat, NEW h \in Nat,
         NEW f, ReadFrom(hs, s, f, a, h), s[h].kind = "blank",
         NEW words, words \subseteq {"Content-Length", "chunked", "identity"},
         NEW i \in 1 .. Len(hs)
  PROVE  /\ hs[i][1] \in words <=> f[i] \in Lines(s, a, h, words)
         /\ hs[i][1] \in words => hs[i][1] = Word(s, f[i])
         /\ f[i] \in (a + 1) .. (h - 1)
  <1>1. f[i] \in (a + 1) .. (h - 1) /\ s[f[i]].kind = "header"
    BY DEF ReadFrom
  <1>2. Framing(hs[i][1]) = Framing(IF f[i] + 1 < h THEN Word(s, f[i]) ELSE s[f[i]].v)
    BY DEF ReadFrom
  <1>3. Framing(hs[i][1]) = Framing(Word(s, f[i]))
    <2>1. CASE f[i] + 1 < h
      BY <1>2, <2>1
    <2>2. CASE ~(f[i] + 1 < h)
      <3>1. f[i] + 1 = h
        BY <1>1, <2>2
      <3>2. Word(s, f[i]) = s[f[i]].v
        BY <3>1 DEF Word
      <3> QED
        BY <1>2, <2>2, <3>2
    <2> QED
      BY <2>1, <2>2
  <1>4. \A x, y : Framing(x) = Framing(y) => (x \in words <=> y \in words) /\ (x \in words => x = y)
    BY DEF Framing
  <1> QED
    BY <1>1, <1>3, <1>4 DEF Lines

\* The header of which the code takes its value is the last line with the word.
LEMMA LastLine ==
  ASSUME input \in Seq(Unit), headers \in Seq(SpecialHeaders \X Nat), NEW a \in Nat, NEW h \in Nat,
         NEW f, ReadFrom(headers, input, f, a, h), input[h].kind = "blank",
         NEW words, words \subseteq {"Content-Length", "chunked", "identity"}
  PROVE  /\ Indices(words) # {} <=> Lines(input, a, h, words) # {}
         /\ Indices(words) # {} =>
              \E m \in Indices(words) :
                LastOf(words) = headers[m] /\ f[m] \in Nat /\ LastIn(input, a, h, words, f[m])
                /\ headers[m][1] = Word(input, f[m]) /\ headers[m][2] = input[f[m]].n
  <1>1. \A i \in 1 .. Len(headers) :
          /\ i \in Indices(words) <=> f[i] \in Lines(input, a, h, words)
          /\ i \in Indices(words) => headers[i][1] = Word(input, f[i])
          /\ f[i] \in Nat /\ headers[i][2] = input[f[i]].n
    <2> SUFFICES ASSUME NEW i \in 1 .. Len(headers)
                 PROVE  /\ i \in Indices(words) <=> f[i] \in Lines(input, a, h, words)
                        /\ i \in Indices(words) => headers[i][1] = Word(input, f[i])
                        /\ f[i] \in Nat /\ headers[i][2] = input[f[i]].n
      OBVIOUS
    <2>1. i \in Indices(words) <=> headers[i][1] \in words
      BY DEF Indices
    <2>2. /\ headers[i][1] \in words <=> f[i] \in Lines(input, a, h, words)
          /\ headers[i][1] \in words => headers[i][1] = Word(input, f[i])
          /\ f[i] \in (a + 1) .. (h - 1)
      BY LinesAsHeaders
    <2>3. headers[i][2] = input[f[i]].n
      BY DEF ReadFrom
    <2> QED
      BY <2>1, <2>2, <2>3
  <1>2. \A q \in Lines(input, a, h, words) : \E j \in Indices(words) : f[j] = q
    <2> SUFFICES ASSUME NEW q \in Lines(input, a, h, words) PROVE \E j \in Indices(words) : f[j] = q
      OBVIOUS
    <2>1. q \in (a + 1) .. (h - 1) /\ input[q].kind = "header"
      BY DEF Lines
    <2>2. PICK j \in 1 .. Len(headers) : f[j] = q
      BY <2>1 DEF ReadFrom
    <2> QED
      BY <1>1, <2>2
  <1>3. Indices(words) # {} <=> Lines(input, a, h, words) # {}
    BY <1>1, <1>2 DEF Indices
  <1>4. ASSUME Indices(words) # {}
        PROVE  \E m \in Indices(words) :
                 LastOf(words) = headers[m] /\ f[m] \in Nat /\ LastIn(input, a, h, words, f[m])
                 /\ headers[m][1] = Word(input, f[m]) /\ headers[m][2] = input[f[m]].n
    <2>1. Indices(words) \subseteq 0 .. Len(headers) /\ Len(headers) \in Nat
      BY DEF Indices
    <2>2. \E m \in Indices(words) : \A j \in Indices(words) : j <= m
      BY <1>4, <2>1, GreatestNumber
    <2> DEFINE m == CHOOSE i \in Indices(words) : \A j \in Indices(words) : j <= i
    <2>3. m \in Indices(words) /\ \A j \in Indices(words) : j <= m
      BY <2>2
    <2>4. LastOf(words) = headers[m]
      BY DEF LastOf
    <2> HIDE DEF m
    <2>5. m \in 1 .. Len(headers)
      BY <2>3 DEF Indices
    <2>6. \A q \in Lines(input, a, h, words) : q <= f[m]
      <3> SUFFICES ASSUME NEW q \in Lines(input, a, h, words) PROVE q <= f[m]
        OBVIOUS
      <3>1. PICK j \in Indices(words) : f[j] = q
        BY <1>2
      <3>2. j \in 1 .. Len(headers) /\ j <= m
        BY <2>3, <3>1 DEF Indices
      <3>3. f[j] \in Nat /\ f[m] \in Nat
        BY <1>1, <2>5, <3>2
      <3>4. CASE j = m
        BY <3>1, <3>3, <3>4
      <3>5. CASE j # m
        <4>1. j < m
          BY <2>5, <3>2, <3>5
        <4>2. f[j] < f[m]
          BY <2>5, <3>2, <4>1 DEF ReadFrom
        <4> QED
          BY <3>1, <3>3, <4>2
      <3> QED
        BY <3>4, <3>5
    <2> QED
      BY <1>1, <2>3, <2>4, <2>5, <2>6 DEF LastIn
  <1> QED
    BY <1>3, <1>4

\* The request is framed as the code finds.
LEMMA FramedAsRead ==
  ASSUME input \in Seq(Unit), headers \in Seq(SpecialHeaders \X Nat), NEW a \in Nat, NEW h \in Nat,
         NEW f, ReadFrom(headers, input, f, a, h), input[h].kind = "blank"
  PROVE  /\ isChunked <=> SaysChunked(input, a, h)
         /\ hasContentLength <=> Lines(input, a, h, {"Content-Length"}) # {}
         /\ hasContentLength =>
              \E p \in Nat : /\ LastIn(input, a, h, {"Content-Length"}, p)
                             /\ LastOf({"Content-Length"})[2] = input[p].n
  <1> DEFINE te == {"chunked", "identity"}
             cl == {"Content-Length"}
             M(w, m) == LastOf(w) = headers[m] /\ f[m] \in Nat /\ LastIn(input, a, h, w, f[m])
                        /\ headers[m][1] = Word(input, f[m]) /\ headers[m][2] = input[f[m]].n
  <1>1. Indices(cl) # {} <=> Lines(input, a, h, cl) # {}
    BY LastLine
  <1>2. Indices(cl) # {} => \E m \in Indices(cl) : M(cl, m)
    BY LastLine
  <1>3. Indices(te) # {} <=> Lines(input, a, h, te) # {}
    BY LastLine
  <1>4. Indices(te) # {} => \E m \in Indices(te) : M(te, m)
    BY LastLine
  <1>5. hasContentLength <=> Indices(cl) # {}
    BY DEF hasContentLength, Has
  <1>6. isChunked <=> Indices(te) # {} /\ LastOf(te)[1] = "chunked"
    BY DEF isChunked
  <1>7. SaysChunked(input, a, h) <=> \E p \in Lines(input, a, h, {"chunked"}) : LastIn(input, a, h, te, p)
    BY DEF SaysChunked
  <1>8. \A p \in Lines(input, a, h, te) : p \in Nat /\ (Word(input, p) = "chunked" <=> p \in Lines(input, a, h, {"chunked"}))
    BY DEF Lines
  <1> HIDE DEF te, cl
  <1>9. isChunked => SaysChunked(input, a, h)
    BY <1>4, <1>6, <1>7, <1>8 DEF LastIn
  <1>10. ASSUME SaysChunked(input, a, h) PROVE isChunked
    <2>1. PICK p : p \in Lines(input, a, h, {"chunked"}) /\ LastIn(input, a, h, te, p)
      BY <1>7, <1>10
    <2>2. p \in Lines(input, a, h, te) /\ p \in Nat /\ Word(input, p) = "chunked"
      BY <1>8, <2>1 DEF LastIn
    <2>3. PICK m \in Indices(te) : M(te, m)
      BY <1>3, <1>4, <2>2
    <2>4. f[m] <= p /\ p <= f[m] /\ f[m] \in Nat
      BY <2>1, <2>2, <2>3 DEF LastIn
    <2>5. f[m] = p
      BY <2>2, <2>4
    <2> QED
      BY <1>6, <2>2, <2>3, <2>5
  <1>11. hasContentLength => \E p \in Nat : LastIn(input, a, h, cl, p) /\ LastOf(cl)[2] = input[p].n
    BY <1>2, <1>5
  <1>12. hasContentLength <=> Lines(input, a, h, cl) # {}
    BY <1>1, <1>5
  <1> QED
    BY <1>9, <1>10, <1>11, <1>12 DEF cl

-----------------------------------------------------------------------------
(* The steps of the connection.                                            *)

\* The requests of the stream are numbered and begin where they begin.
LEMMA RequestBounds ==
  ASSUME IInv
  PROVE  /\ StreamTyped /\ input \in Seq(Unit) /\ Len(input) \in Nat /\ pos \in 1 .. (Len(input) + 1)
         /\ round \in Nat /\ Numbered(input)
         /\ \A k \in Nat : Start(k) \in 1 .. (Len(input) + 1)
  <1>1. input \in Inputs /\ TypeOK
    BY DEF IInv
  <1>2. input \in Seq(Unit) /\ Len(input) \in Nat /\ pos \in 1 .. (Len(input) + 1) /\ round \in Nat
    BY <1>1 DEF TypeOK
  <1>3. Numbered(input)
    BY <1>1, FramingAssumption DEF Framed
  <1>4. \A k \in Nat : Start(k) \in 1 .. (Len(input) + 1)
    BY <1>2, StartIs DEF Start
  <1> QED
    BY <1>2, <1>3, <1>4 DEF StreamTyped

\* The line that begins a request is the first one of its head.
LEMMA RequestLineInStep ==
  ASSUME IInv, pos = Start(round + 1), readRequestLine, pc' = "headers"
  PROVE  HeadRead(<< >>, input, Start(round + 1), pos', Start(round + 2))
  <1>1. ~AtEnd /\ NextLine.kind = "request"
    BY DEF readRequestLine, LineRead
  <1>2. pos \in DOMAIN input /\ pos <= Len(input) /\ pos \in Nat /\ Len(input) \in Nat
    <2>1. input \in Seq(Unit) /\ Len(input) \in Nat /\ pos \in 1 .. (Len(input) + 1)
      BY RequestBounds
    <2> QED
      BY <1>1, <2>1 DEF AtEnd
  <1>3. pos' = pos + 1 /\ input[pos].kind = "request"
    <2>1. StreamTyped /\ LineRead /\ NextLine.kind \in LineKinds
      BY <1>1, RequestBounds DEF readRequestLine, LineKinds
    <2> QED
      BY <1>1, <2>1, LineOfKind
  <1>4. pos < Start(round + 2) /\ Start(round + 2) \in Nat
    <2>0. round \in Nat
      BY RequestBounds
    <2>1. round + 1 \in Nat \ {0} /\ (round + 1) + 1 = round + 2 /\ round + 2 \in Nat
      BY <2>0
    <2>2. StartIn(input, round + 1) < StartIn(input, (round + 1) + 1)
      BY <1>2, <2>1, RequestBounds, StartsInOrder DEF Start
    <2> QED
      BY <2>1, <2>2, RequestBounds DEF Start
  <1>5. HeadRead(<< >>, input, pos, pos + 1, Start(round + 2))
    BY <1>2, <1>3, <1>4, RequestBounds, NoHeadersRead
  <1> QED
    BY <1>3, <1>5

\* What is known of the request of which the head is being read.
LEMMA HeadBounds ==
  ASSUME IInv, round > 0, NEW h, HeadRead(headers, input, Start(round), h, Start(round + 1))
  PROVE  /\ HeadFramed(input, Start(round), Start(round + 1))
         /\ input[h].kind = "blank" /\ h < Start(round + 1) =>
              BodyFramed(input, Start(round), h, Start(round + 1))
         /\ \A q \in Start(round) .. (h - 1) : ~input[q].data
         /\ h <= Len(input) => h < Start(round + 1) /\ IsLine(input[h])
         /\ h \in Nat /\ Start(round) < h
  <1> DEFINE a == Start(round)
             e == Start(round + 1)
  <1>1. /\ a \in 1 .. Len(input) /\ input[a].kind = "request" /\ h \in (a + 1) .. e
        /\ \A q \in (a + 1) .. (h - 1) : input[q].kind \in {"header", "padded"}
    BY DEF HeadRead
  <1>2. round \in Nat \ {0} /\ round + 1 \in Nat /\ e \in 1 .. (Len(input) + 1) /\ Len(input) \in Nat /\ input \in Inputs
        /\ input \in Seq(Unit)
    <2>1. round \in Nat /\ input \in Seq(Unit) /\ Len(input) \in Nat /\ \A k \in Nat : Start(k) \in 1 .. (Len(input) + 1)
      BY RequestBounds
    <2>2. round \in Nat \ {0} /\ round + 1 \in Nat
      BY <2>1
    <2> QED
      BY <2>1, <2>2 DEF IInv
  <1>3. /\ HeadFramed(input, a, e)
        /\ \A g \in a .. (e - 1) :
              /\ input[g].kind = "blank"
              /\ \A q \in (a + 1) .. (g - 1) : input[q].kind \in {"header", "padded"}
              => BodyFramed(input, a, g, e)
    BY <1>1, <1>2, RequestFramed DEF Start
  <1> HIDE DEF a, e
  <1>4. HeadRead(headers, input, a, h, e)
    BY DEF a, e
  <1>5. /\ \A q \in a .. (h - 1) : ~input[q].data
        /\ h <= Len(input) => h < e /\ IsLine(input[h])
    BY <1>2, <1>3, <1>4, HeadGoesOn
  <1>6. h < e => h \in a .. (e - 1)
    BY <1>1, <1>2
  <1>7. h \in Nat /\ a < h
    BY <1>1
  <1> QED
    BY <1>1, <1>3, <1>5, <1>6, <1>7 DEF a, e

\* The lines of the head are read one by one.
LEMMA HeaderLineInStep ==
  ASSUME IInv, HeadInStep, readHeaderLine, loose' = {}, TypeOK'
  PROVE  /\ pc' = "headers" => HeadRead(headers', input, Start(round), pos', Start(round + 1))
         /\ pc' = "special" =>
              /\ HeadRead(headers', input, Start(round), pos' - 1, Start(round + 1))
              /\ pos' <= Start(round + 1) /\ input[pos' - 1].kind = "blank"
  <1> DEFINE a == Start(round)
             e == Start(round + 1)
  <1>1. loose = {} /\ pc = "headers" /\ round > 0 /\ HeadRead(headers, input, a, pos, e)
    BY DEF readHeaderLine, HeadInStep
  <1>2. ~AtEnd /\ pos' = LineEnd + 1 /\ pos <= Len(input)
    BY RequestBounds DEF readHeaderLine, LineRead, AtEnd
  <1>3. pos < e /\ IsLine(input[pos]) /\ pos \in Nat /\ e \in 1 .. (Len(input) + 1) /\ a \in Nat
    BY <1>1, <1>2, HeadBounds, RequestBounds
  <1>4. NextLine = input[pos] /\ pos' = pos + 1
    BY <1>2, <1>3, RequestBounds, LineHere DEF IsLine
  <1>5. /\ input \in Seq(Unit) /\ headers \in Seq(SpecialHeaders \X Nat) /\ e \in Nat
    <2>1. input \in Seq(Unit) /\ headers \in Seq(SpecialHeaders \X Nat)
      BY DEF IInv, TypeOK
    <2>2. e \in Nat
      <3>1. Len(input) + 1 \in Nat
        BY <2>1
      <3> QED
        BY <1>3, <3>1
    <2> QED
      BY <2>1, <2>2
  <1> HIDE DEF a, e
  <1>6. CASE NextLine.kind = "blank"
    <2>1. pc' = "special" /\ headers' = headers
      BY <1>6 DEF readHeaderLine
    <2>2. ((pos + 1) - 1) = pos /\ pos + 1 <= e
      BY <1>3
    <2> QED
      BY <1>1, <1>4, <1>6, <2>1, <2>2 DEF a, e
  <1>7. CASE NextLine.kind = "header"
    <2>1. pc' = "headers" /\ headers' = Append(headers, <<input[pos].v, input[pos].n>>)
      BY <1>1, <1>4, <1>7 DEF readHeaderLine
    <2>2. HeadRead(headers', input, a, pos + 1, e)
      BY <1>1, <1>3, <1>4, <1>5, <1>7, <2>1, HeaderRead
    <2> QED
      BY <1>4, <2>1, <2>2 DEF a, e
  <1>8. CASE NextLine.kind = "padded" /\ headers # << >>
    <2>1. pc' = "headers" /\ headers' = [headers EXCEPT ![Len(headers)] = <<Extended(@[1]), @[2]>>]
      BY <1>1, <1>8 DEF readHeaderLine
    <2>2. HeadRead([headers EXCEPT ![Len(headers)] = <<Extended(@[1]), @[2]>>], input, a, pos + 1, e)
      BY <1>1, <1>3, <1>4, <1>5, <1>8, PaddedRead
    <2> QED
      BY <1>4, <2>1, <2>2 DEF a, e
  <1>9. CASE NextLine.kind = "padded" /\ headers = << >>
    BY <1>9 DEF readHeaderLine
  <1>10. CASE NextLine.kind \notin {"blank", "header", "padded"}
    <2>1. NextLine.kind # "mixed"
      BY <1>3, <1>4 DEF IsLine, LineKinds
    <2>2. loose' = loose \cup {"malformed"}
      BY <1>10, <2>1 DEF readHeaderLine
    <2> QED
      BY <2>2
  <1> QED
    BY <1>6, <1>7, <1>8, <1>9, <1>10

\* The reader of the content is the one that the client means, and it begins with
\* the content.
LEMMA ContentBegins ==
  ASSUME IInv, HeadInStep, parseSpecialHeaders, loose = {}, pc' \in {"handler", "notFound"}
  PROVE  /\ round > 0 /\ body = << >> /\ UNCHANGED <<input, pos, round, body, skipped, loose, call, closing, got>>
         /\ chunkedState' = "Length"
         /\ Start(round) <= pos /\ pos <= Start(round + 1)
         /\ reader' = "null" => pos = Start(round + 1)
         /\ reader' = "length" => LengthFramed(input, Start(round + 1), pos, contentLength')
         /\ reader' = "chunked" =>
              /\ \A p \in pos .. (Start(round + 1) - 1) : IsSize(input[p]) => ChunkFramed(input, Start(round + 1), p)
              /\ SizeAt(input, Start(round + 1), pos)
         /\ {p \in Content(round) : p < pos} = {}
  <1> DEFINE a == Start(round)
             e == Start(round + 1)
             h == pos - 1
  <1>1. /\ pc = "special" /\ NewReader(ReaderFor, LengthFor)
        /\ UNCHANGED <<input, pos, round, body, skipped, loose>>
    BY DEF parseSpecialHeaders, streamVars, historyVars
  <1>2. /\ round > 0 /\ body = << >> /\ HeadRead(headers, input, a, h, e)
        /\ pos <= e /\ input[h].kind = "blank"
    BY <1>1 DEF HeadInStep
  <1>3. /\ input \in Seq(Unit) /\ headers \in Seq(SpecialHeaders \X Nat) /\ Len(input) \in Nat
        /\ pos \in Nat /\ e \in 1 .. (Len(input) + 1) /\ a \in Nat
    <2>1. input \in Seq(Unit) /\ headers \in Seq(SpecialHeaders \X Nat) /\ round \in Nat
      BY DEF IInv, TypeOK
    <2>2. Len(input) \in Nat /\ pos \in 1 .. (Len(input) + 1) /\ \A k \in Nat : Start(k) \in 1 .. (Len(input) + 1)
      BY RequestBounds
    <2>3. pos \in Nat /\ e \in 1 .. (Len(input) + 1) /\ a \in 1 .. (Len(input) + 1)
      <3>1. round + 1 \in Nat
        BY <2>1
      <3>2. pos \in Nat
        BY <2>2
      <3> QED
        BY <2>1, <2>2, <3>1, <3>2
    <2> QED
      BY <2>1, <2>2, <2>3
  <1> HIDE DEF a, e, h
  <1>4. h \in Nat /\ a < h /\ pos = h + 1 /\ h < e /\ h <= Len(input)
    <2>1. h \in Nat /\ a < h
      BY <1>2, HeadBounds DEF a, e
    <2>2. pos = h + 1
      BY <1>3 DEF h
    <2> QED
      BY <1>2, <1>3, <2>1, <2>2
  <1>5. BodyFramed(input, a, h, e) /\ (\A q \in a .. (h - 1) : ~input[q].data) /\ IsLine(input[h])
    BY <1>2, <1>4, HeadBounds DEF a, e
  <1>6. \E f : ReadFrom(headers, input, f, a, h)
    BY <1>2 DEF HeadRead
  <1>7. /\ isChunked <=> SaysChunked(input, a, h)
        /\ hasContentLength <=> Lines(input, a, h, {"Content-Length"}) # {}
        /\ hasContentLength =>
              \E p \in Nat : /\ LastIn(input, a, h, {"Content-Length"}, p)
                             /\ LastOf({"Content-Length"})[2] = input[p].n
    BY <1>2, <1>3, <1>4, <1>6, FramedAsRead
  <1>8. reader' = ReaderFor /\ contentLength' = LengthFor /\ chunkedState' = "Length" /\ UNCHANGED <<call, closing, got>>
    BY <1>1 DEF NewReader
  <1>9. ASSUME reader' = "null" PROVE pos = e
    <2>1. ~isChunked /\ ~hasContentLength
      BY <1>8, <1>9 DEF ReaderFor
    <2> QED
      BY <1>4, <1>5, <1>7, <2>1 DEF BodyFramed
  <1>10. ASSUME reader' = "length" PROVE LengthFramed(input, e, pos, contentLength')
    <2>1. ~isChunked /\ hasContentLength
      BY <1>8, <1>10 DEF ReaderFor
    <2>2. contentLength' = LastOf({"Content-Length"})[2]
      BY <1>8, <2>1 DEF LengthFor
    <2>3. PICK p : LastIn(input, a, h, {"Content-Length"}, p) /\ LastOf({"Content-Length"})[2] = input[p].n
      BY <1>7, <2>1
    <2>4. p \in Lines(input, a, h, {"Content-Length"})
      BY <2>3 DEF LastIn
    <2>5. LengthFramed(input, e, h + 1, input[p].n)
      BY <1>5, <1>7, <2>1, <2>3, <2>4 DEF BodyFramed
    <2> QED
      BY <1>4, <2>2, <2>3, <2>5
  <1>11. ASSUME reader' = "chunked"
         PROVE  /\ \A p \in pos .. (e - 1) : IsSize(input[p]) => ChunkFramed(input, e, p)
                /\ SizeAt(input, e, pos)
    <2>1. isChunked
      BY <1>8, <1>11 DEF ReaderFor
    <2>2. /\ SizeAt(input, e, h + 1)
          /\ \A p \in (h + 1) .. (e - 1) : IsSize(input[p]) => ChunkFramed(input, e, p)
      BY <1>5, <1>7, <2>1 DEF BodyFramed
    <2> QED
      BY <1>4, <2>2
  <1>12. {p \in Content(round) : p < pos} = {}
    <2> SUFFICES ASSUME NEW p \in Content(round), p < pos PROVE FALSE
      OBVIOUS
    <2>1. p \in a .. (e - 1) /\ input[p].data
      BY DEF Content, a, e
    <2>2. p \in a .. (h - 1) \/ p = h
      BY <1>3, <1>4, <2>1
    <2> QED
      BY <1>5, <2>1, <2>2 DEF IsLine
  <1>13. a <= pos /\ pos <= e
    BY <1>2, <1>3, <1>4
  <1> QED
    BY <1>1, <1>2, <1>8, <1>9, <1>10, <1>11, <1>12, <1>13 DEF a, e

-----------------------------------------------------------------------------
(* The content that has been taken.                                        *)

\* The units b are the content of s between a and e as far as p.
Taken(b, s, a, e, p) == Ordered(b) /\ UnitsOf(b) = {q \in a .. (e - 1) : s[q].data /\ q < p}

\* A unit that is no content may be passed, ...
LEMMA LinePassed ==
  ASSUME NEW b, NEW s, NEW a \in Nat, NEW e \in Nat, NEW p \in Nat, Taken(b, s, a, e, p), ~s[p].data
  PROVE  Taken(b, s, a, e, p + 1)
  <1>1. \A q \in a .. (e - 1) : s[q].data /\ q < p + 1 <=> s[q].data /\ q < p
    <2> SUFFICES ASSUME NEW q \in a .. (e - 1) PROVE s[q].data /\ q < p + 1 <=> s[q].data /\ q < p
      OBVIOUS
    <2>1. CASE q = p
      BY <2>1
    <2>2. CASE q # p
      BY <2>2
    <2> QED
      BY <2>1, <2>2
  <1>2. {q \in a .. (e - 1) : s[q].data /\ q < p + 1} = {q \in a .. (e - 1) : s[q].data /\ q < p}
    BY <1>1
  <1> QED
    BY <1>2 DEF Taken

\* (Sequences of numbers one after the other.)
LEMMA Joined ==
  ASSUME NEW b \in Seq(Nat), NEW u \in Seq(Nat)
  PROVE  /\ b \o u \in Seq(Nat) /\ Len(b \o u) = Len(b) + Len(u) /\ Len(b) \in Nat
         /\ \A i \in 1 .. Len(b) : (b \o u)[i] = b[i] /\ b[i] \in Nat
         /\ \A i \in (Len(b) + 1) .. (Len(b) + Len(u)) : (b \o u)[i] = u[i - Len(b)]
  OBVIOUS

\* ... units that are content are taken in order, ...
LEMMA DataTaken ==
  ASSUME NEW b \in Seq(Nat), NEW s, NEW a \in Nat, NEW e \in Nat, NEW p \in Nat, a <= p, Taken(b, s, a, e, p),
         NEW m \in Nat, \A q \in p .. (p + m - 1) : q < e /\ s[q].data,
         NEW u \in Seq(Nat), Len(u) = m, \A i \in 1 .. m : u[i] = (p + i) - 1
  PROVE  Taken(b \o u, s, a, e, p + m)
  <1> DEFINE n == Len(b)
             c == b \o u
  <1>1. /\ n \in Nat /\ Len(c) = n + m
        /\ \A i \in 1 .. n : c[i] = b[i] /\ b[i] \in Nat
        /\ \A i \in (n + 1) .. (n + m) : c[i] = u[i - n]
    BY Joined
  <1>2. \A i \in (n + 1) .. (n + m) : c[i] = (p + (i - n)) - 1
    <2> SUFFICES ASSUME NEW i \in (n + 1) .. (n + m) PROVE c[i] = (p + (i - n)) - 1
      OBVIOUS
    <2>1. i - n \in 1 .. m
      BY <1>1
    <2> QED
      BY <1>1, <2>1
  <1>3. \A i \in 1 .. n : b[i] \in a .. (e - 1) /\ s[b[i]].data /\ b[i] < p
    <2> SUFFICES ASSUME NEW i \in 1 .. n PROVE b[i] \in a .. (e - 1) /\ s[b[i]].data /\ b[i] < p
      OBVIOUS
    <2>1. b[i] \in UnitsOf(b)
      BY DEF UnitsOf
    <2> QED
      BY <2>1 DEF Taken
  <1>4. \A i \in 1 .. (n + m) : i \in 1 .. n \/ i \in (n + 1) .. (n + m)
    BY <1>1
  <1>5. \A i \in 1 .. n, j \in 1 .. n : i < j => b[i] < b[j]
    BY DEF Taken, Ordered
  <1> HIDE DEF n, c
  <1>6. Ordered(c)
    <2> SUFFICES ASSUME NEW i \in 1 .. (n + m), NEW j \in 1 .. (n + m), i < j PROVE c[i] < c[j]
      BY <1>1 DEF Ordered
    <2>1. CASE i \in 1 .. n /\ j \in 1 .. n
      BY <1>1, <1>5, <2>1
    <2>2. CASE i \in 1 .. n /\ j \in (n + 1) .. (n + m)
      BY <1>1, <1>2, <1>3, <2>2
    <2>3. CASE i \in (n + 1) .. (n + m) /\ j \in (n + 1) .. (n + m)
      <3>1. c[i] = (p + (i - n)) - 1 /\ c[j] = (p + (j - n)) - 1
        BY <1>2, <2>3
      <3> QED
        BY <1>1, <3>1
    <2>4. CASE i \in (n + 1) .. (n + m) /\ j \in 1 .. n
      BY <1>1, <2>4
    <2> QED
      BY <1>4, <2>1, <2>2, <2>3, <2>4
  <1>7. ASSUME NEW x \in UnitsOf(c) PROVE x \in a .. (e - 1) /\ s[x].data /\ x < p + m
    <2>1. PICK i \in 1 .. (n + m) : x = c[i]
      BY <1>1 DEF UnitsOf
    <2>2. CASE i \in 1 .. n
      <3>1. x \in a .. (e - 1) /\ s[x].data /\ x < p
        BY <1>1, <1>3, <2>1, <2>2
      <3> QED
        BY <3>1
    <2>3. CASE i \in (n + 1) .. (n + m)
      <3>1. x \in p .. (p + m - 1)
        BY <1>1, <1>2, <2>1, <2>3
      <3>2. x < e /\ s[x].data
        BY <3>1
      <3> QED
        BY <3>1, <3>2
    <2> QED
      BY <1>4, <2>2, <2>3
  <1>8. ASSUME NEW q \in a .. (e - 1), s[q].data, q < p + m PROVE q \in UnitsOf(c)
    <2>1. CASE q < p
      <3>1. q \in UnitsOf(b)
        BY <1>8, <2>1 DEF Taken
      <3>2. PICK i \in 1 .. n : q = b[i]
        BY <3>1 DEF UnitsOf, n
      <3>3. i \in 1 .. (n + m) /\ q = c[i]
        BY <1>1, <3>2
      <3> QED
        BY <1>1, <3>3 DEF UnitsOf
    <2>2. CASE ~(q < p)
      <3> DEFINE i == (n + (q - p)) + 1
      <3>1. i \in (n + 1) .. (n + m) /\ i \in 1 .. (n + m) /\ (p + (i - n)) - 1 = q
        BY <1>1, <1>8, <2>2
      <3>2. c[i] = q
        <4> HIDE DEF i
        <4> QED
          BY <1>2, <3>1
      <3> QED
        BY <1>1, <3>1, <3>2 DEF UnitsOf
    <2> QED
      BY <2>1, <2>2
  <1>9. UnitsOf(c) = {q \in a .. (e - 1) : s[q].data /\ q < p + m}
    BY <1>7, <1>8
  <1> QED
    BY <1>6, <1>9 DEF Taken, c

\* ... and what has been taken is the content from its beginning.
LEMMA TakenExact ==
  ASSUME NEW b \in Seq(Nat), NEW s, NEW a \in Nat, NEW e \in Nat, NEW p \in Nat, Taken(b, s, a, e, p)
  PROVE  /\ \A i \in 1 .. Len(b), j \in 1 .. Len(b) : i < j => b[i] < b[j]
         /\ {b[i] : i \in 1 .. Len(b)} =
              {q \in a .. (e - 1) : s[q].data /\ b # << >> /\ q <= b[Len(b)]}
  <1>1. /\ Ordered(b) /\ UnitsOf(b) = {q \in a .. (e - 1) : s[q].data /\ q < p}
        /\ Len(b) \in Nat /\ (b = << >> <=> Len(b) = 0) /\ \A i \in 1 .. Len(b) : b[i] \in Nat
    BY DEF Taken
  <1>2. CASE Len(b) = 0
    BY <1>1, <1>2 DEF Ordered
  <1>3. CASE Len(b) # 0
    <2>1. Len(b) \in 1 .. Len(b)
      BY <1>1, <1>3
    <2>2. \A i \in 1 .. Len(b) : b[i] <= b[Len(b)]
      <3> SUFFICES ASSUME NEW i \in 1 .. Len(b) PROVE b[i] <= b[Len(b)]
        OBVIOUS
      <3>1. i = Len(b) \/ i < Len(b)
        BY <1>1
      <3>2. b[i] = b[Len(b)] \/ b[i] < b[Len(b)]
        BY <2>1, <3>1, <1>1 DEF Ordered
      <3> QED
        BY <1>1, <2>1, <3>2
    <2>3. b[Len(b)] \in UnitsOf(b)
      BY <2>1 DEF UnitsOf
    <2>4. b[Len(b)] \in Nat /\ b[Len(b)] < p
      BY <1>1, <2>1, <2>3
    <2>5. ASSUME NEW x \in UnitsOf(b) PROVE x \in a .. (e - 1) /\ s[x].data /\ x <= b[Len(b)]
      <3>1. PICK i \in 1 .. Len(b) : x = b[i]
        BY DEF UnitsOf
      <3> QED
        BY <1>1, <2>2, <2>5, <3>1
    <2>6. ASSUME NEW q \in a .. (e - 1), s[q].data, q <= b[Len(b)] PROVE q \in UnitsOf(b)
      <3>1. q < p
        BY <2>4, <2>6
      <3> QED
        BY <1>1, <2>6, <3>1
    <2>7. UnitsOf(b) = {q \in a .. (e - 1) : s[q].data /\ b # << >> /\ q <= b[Len(b)]}
      BY <1>1, <1>3, <2>5, <2>6
    <2> QED
      BY <1>1, <2>7 DEF Ordered, UnitsOf
  <1> QED
    BY <1>2, <1>3

-----------------------------------------------------------------------------
(* The steps of the readers.                                               *)

\* A reader in the content of the request from a up to e.
ReaderAt(a, e) ==
    /\ StreamTyped /\ ReadersTyped /\ CallsInHandler
    /\ a \in Nat /\ e \in 1 .. (Len(input) + 1) /\ ContentInStep(a, e)

\* A step takes the units u of the content, or passes a line around it.
Moves(u, e) ==
    \/ u = << >> /\ pos' = pos
    \/ u = << >> /\ pos' = pos + 1 /\ ~input[pos].data
    \/ \E m \in Nat : /\ u = Units(m) /\ pos' = pos + m
                      /\ \A q \in pos .. (pos + m - 1) : q < e /\ input[q].data

\* What is in the buffer and the units u are still there or are returned.
Handed(u) ==
    /\ closing /\ call' # "none" => closing'
    /\ call' # "none" /\ ~closing' => got' = got \o u
    /\ call' = "none" => got' = << >> /\ ret'.units = IF closing THEN << >> ELSE got \o u

\* A call that has failed, with content left.
Failed == call' = "none" /\ got' = << >> /\ ret'.err # "Ok" /\ (ret'.err = "Eof" => ContentLeft')

\* The line at pos is read.
LEMMA LineHereRead ==
  ASSUME StreamTyped, LineRead, pos <= Len(input) => IsLine(input[pos])
  PROVE  /\ pos <= Len(input) /\ pos \in Nat /\ Len(input) \in Nat /\ IsLine(input[pos])
         /\ NextLine = input[pos] /\ pos' = pos + 1 /\ input' = input
  <1>1. pos \in Nat /\ Len(input) \in Nat /\ pos <= Len(input) /\ pos' = LineEnd + 1 /\ input' = input
    BY DEF StreamTyped, LineRead, AtEnd
  <1>2. IsLine(input[pos]) /\ input[pos].kind \in LineKinds
    BY <1>1 DEF IsLine
  <1>3. LineEnd = pos /\ NextLine = input[pos]
    BY <1>1, <1>2, LineHere
  <1> QED
    BY <1>1, <1>2, <1>3

\* A line that should not be there makes the call of the reader fail.
LEMMA LineRefused ==
  ASSUME reader = "chunked", chunkedState # "Eof", FailChunked("ClientError")
  PROVE  Failed
  <1>1. call' = "none" /\ got' = << >> /\ ret'.err = "ClientError"
    BY DEF FailChunked, ReturnChunked, Result
  <1> QED
    BY <1>1 DEF Failed

\* The line before a chunk, ...
LEMMA LengthLineInStep ==
  ASSUME NEW a, NEW e, ReaderAt(a, e), ReadLengthLine, NextLine.kind = "chunk"
  PROVE  ContentInStep(a, e)' /\ Moves(<< >>, e) /\ call' # "none" /\ UNCHANGED <<got, closing>>
  <1>1. /\ call = "read" /\ chunkedState = "Length" /\ reader = "chunked" /\ ChunksInStep(e)
        /\ StreamTyped /\ a \in Nat /\ e \in Nat /\ a <= pos /\ pos <= e
    BY DEF ReaderAt, ReadLengthLine, CallsInHandler, ContentInStep, StreamTyped
  <1>2. SizeAt(input, e, pos)
    BY <1>1 DEF ChunksInStep
  <1>3. /\ pos <= Len(input) /\ pos \in Nat /\ Len(input) \in Nat
        /\ NextLine = input[pos] /\ pos' = pos + 1 /\ input' = input
    BY <1>1, LineOfKind DEF ReadLengthLine, LineKinds
  <1>4. pos < e /\ ~input[pos].data /\ input[pos].kind = "chunk" /\ ChunkFramed(input, e, pos)
    <2>1. pos < e /\ IsSize(input[pos])
      BY <1>2, <1>3 DEF SizeAt, IsSize
    <2>2. ChunkFramed(input, e, pos)
      BY <1>1, <1>3, <2>1 DEF ChunksInStep
    <2> QED
      BY <2>1, <2>2 DEF IsSize
  <1>5. \A p \in (pos + 1) .. (e - 1) : IsSize(input[p]) => ChunkFramed(input, e, p)
    <2>1. \A p \in (pos + 1) .. (e - 1) : p \in pos .. (e - 1)
      BY <1>1, <1>3
    <2> QED
      BY <1>1, <2>1 DEF ChunksInStep
  <1>6. a <= pos + 1 /\ pos + 1 <= e
    BY <1>1, <1>3, <1>4
  <1>7. /\ curLength' = input[pos].n /\ UNCHANGED <<reader, contentLength, closing, ret, room, got>>
        /\ input[pos].n = 0 => call' = "trailers" /\ UNCHANGED chunkedState
        /\ input[pos].n # 0 => chunkedState' = "Data" /\ UNCHANGED call
    BY <1>3, <1>4 DEF ReadLengthLine, GoOn
  <1>8. CASE input[pos].n = 0
    <2>1. Trailers(input, e, pos + 1)
      BY <1>4, <1>8 DEF ChunkFramed
    <2>2. call' = "trailers" /\ chunkedState' = "Length" /\ reader' = "chunked"
      BY <1>1, <1>7, <1>8
    <2>3. ChunksInStep(e)'
      BY <1>3, <1>5, <2>1, <2>2 DEF ChunksInStep
    <2> QED
      BY <1>3, <1>4, <1>6, <1>7, <2>2, <2>3 DEF ContentInStep, Moves
  <1>9. CASE input[pos].n # 0
    <2>1. DataFrom(input, e, pos + 1, input[pos].n) /\ ChunkEnds(input, e, pos + input[pos].n + 1)
      BY <1>4, <1>9 DEF ChunkFramed
    <2>2. call' = "read" /\ chunkedState' = "Data" /\ reader' = "chunked"
      BY <1>1, <1>7, <1>9
    <2>3. pos + input[pos].n + 1 = pos' + curLength'
      <3>1. input[pos].n \in Nat
        <4>1. input[pos] \in Unit
          BY <1>1, <1>3 DEF StreamTyped
        <4> QED
          BY <4>1 DEF Unit
      <3>2. \A x, y \in Nat : x + y + 1 = (x + 1) + y
        OBVIOUS
      <3>3. pos + input[pos].n + 1 = (pos + 1) + input[pos].n
        BY <1>3, <3>1, <3>2
      <3> QED
        BY <1>3, <1>7, <3>3
    <2>4. ChunksInStep(e)'
      <3>1. DataFrom(input', e, pos', curLength') /\ ChunkEnds(input', e, pos' + curLength')
        BY <1>3, <1>7, <2>1, <2>3
      <3>2. \A p \in pos' .. (e - 1) : IsSize(input'[p]) => ChunkFramed(input', e, p)
        BY <1>3, <1>5
      <3> QED
        BY <2>2, <3>1, <3>2 DEF ChunksInStep
    <2> QED
      BY <1>3, <1>4, <1>6, <1>7, <2>2, <2>4 DEF ContentInStep, Moves
  <1> QED
    BY <1>8, <1>9

\* ... the lines behind the last chunk, ...
LEMMA TrailerInStep ==
  ASSUME NEW a, NEW e, ReaderAt(a, e), ReadTrailer
  PROVE  ContentInStep(a, e)' /\ Moves(<< >>, e) /\ Handed(<< >>)
  <1>1. /\ call = "trailers" /\ reader = "chunked" /\ ChunksInStep(e) /\ Trailers(input, e, pos) /\ chunkedState = "Length"
        /\ StreamTyped /\ a \in Nat /\ e \in Nat /\ a <= pos /\ pos <= e /\ e <= Len(input) + 1
        /\ got \in Seq(Nat) /\ LineRead
    BY DEF ReaderAt, ReadTrailer, CallsInHandler, ContentInStep, StreamTyped, ChunksInStep, ReadersTyped
  <1>2. pos <= Len(input) => pos \in pos .. (e - 1) /\ pos < e
    <2>1. pos \in Nat /\ Len(input) \in Nat /\ (e <= Len(input) => pos < e)
      BY <1>1 DEF StreamTyped, Trailers
    <2> QED
      BY <1>1, <2>1
  <1>3. pos <= Len(input) => IsLine(input[pos]) /\ (input[pos].kind = "blank" => pos = e - 1)
    BY <1>1, <1>2 DEF Trailers
  <1>4. /\ pos <= Len(input) /\ pos \in Nat /\ Len(input) \in Nat /\ ~input[pos].data
        /\ NextLine = input[pos] /\ pos' = pos + 1 /\ input' = input
    BY <1>1, <1>3, LineHereRead DEF IsLine
  <1>5. a <= pos + 1 /\ pos + 1 <= e /\ Moves(<< >>, e)
    BY <1>1, <1>2, <1>4 DEF Moves
  <1>6. got \o << >> = got
    BY <1>1
  <1>7. CASE input[pos].kind # "blank"
    <2>1. UNCHANGED <<chunkedState, call, room, got, reader, contentLength, closing, ret, curLength>>
      BY <1>4, <1>7 DEF ReadTrailer, EndsTrailers, GoOn
    <2>2. \A q \in (pos + 1) .. (e - 1) : q \in pos .. (e - 1)
      BY <1>1, <1>4
    <2>3. Trailers(input, e, pos + 1)
      <3>1. \A q \in (pos + 1) .. (e - 1) : IsLine(input[q]) /\ (input[q].kind = "blank" => q = e - 1)
        BY <1>1, <2>2 DEF Trailers
      <3>2. e <= Len(input) => pos + 1 < e /\ IsBlank(input[e - 1])
        <4> SUFFICES ASSUME e <= Len(input) PROVE pos + 1 < e /\ IsBlank(input[e - 1])
          OBVIOUS
        <4>1. pos < e /\ IsBlank(input[e - 1])
          BY <1>1 DEF Trailers
        <4>2. pos # e - 1
          BY <1>7, <4>1 DEF IsBlank
        <4> QED
          BY <1>1, <1>4, <4>1, <4>2
      <3> QED
        BY <3>1, <3>2 DEF Trailers
    <2>4. \A p \in (pos + 1) .. (e - 1) : IsSize(input[p]) => ChunkFramed(input, e, p)
      BY <1>1, <2>2 DEF ChunksInStep
    <2>5. ChunksInStep(e)'
      BY <1>1, <1>4, <2>1, <2>3, <2>4 DEF ChunksInStep
    <2>6. Handed(<< >>)
      BY <1>1, <1>6, <2>1 DEF Handed
    <2> QED
      BY <1>1, <1>4, <1>5, <2>1, <2>5, <2>6 DEF ContentInStep
  <1>8. CASE input[pos].kind = "blank"
    <2>1. /\ UNCHANGED <<curLength, reader, contentLength>> /\ chunkedState' = "Eof" /\ call' = "none" /\ got' = << >>
          /\ ret' = Result(IF got = << >> THEN "Eof" ELSE "Ok", IF closing THEN << >> ELSE got)
      BY <1>4, <1>8 DEF ReadTrailer, EndsTrailers, ReturnChunked
    <2>2. pos' = e
      BY <1>1, <1>3, <1>4, <1>8
    <2>3. ChunksInStep(e)'
      BY <2>1, <2>2 DEF ChunksInStep
    <2>4. Handed(<< >>)
      BY <1>6, <2>1 DEF Handed, Result
    <2> QED
      BY <1>1, <1>4, <1>5, <2>1, <2>3, <2>4 DEF ContentInStep
  <1> QED
    BY <1>7, <1>8

\* ... the content of a chunk, ...
LEMMA DataInStep ==
  ASSUME NEW a, NEW e, ReaderAt(a, e), ReadData
  PROVE  ContentInStep(a, e)' /\ \E u \in Seq(Nat) : Moves(u, e) /\ Handed(u)
  <1>1. /\ call = "read" /\ chunkedState = "Data" /\ reader = "chunked" /\ ChunksInStep(e)
        /\ StreamTyped /\ a \in Nat /\ e \in Nat /\ a <= pos /\ pos <= e /\ pos \in Nat /\ Len(input) \in Nat
        /\ room \in Nat /\ curLength \in Nat
    BY DEF ReaderAt, ReadData, CallsInHandler, ContentInStep, StreamTyped, ReadersTyped
  <1>2. PICK m \in Readable(BytesReadable) :
          /\ got' = got \o Units(m) /\ curLength' = curLength - m
          /\ chunkedState' = AfterData(curLength - m) /\ Advance(m)
    BY DEF ReadData
  <1>3. m \in Nat /\ m > 0 /\ m <= curLength /\ (pos + m) - 1 <= Len(input)
    BY <1>1, <1>2 DEF Readable, BytesReadable
  <1>4. pos' = pos + m /\ input' = input /\ UNCHANGED <<call, reader, contentLength, closing, ret>>
    BY <1>2 DEF ReadData, Advance, GoOn
  <1>5. DataFrom(input, e, pos, curLength) /\ ChunkEnds(input, e, pos + curLength)
    BY <1>1 DEF ChunksInStep
  <1>6. \A q \in pos .. (pos + m - 1) : q < e /\ input[q].data
    <2> SUFFICES ASSUME NEW q \in pos .. (pos + m - 1) PROVE q < e /\ input[q].data
      OBVIOUS
    <2>1. q \in pos .. (pos + curLength - 1) /\ q <= Len(input)
      BY <1>1, <1>3
    <2> QED
      BY <1>5, <2>1 DEF DataFrom
  <1>7. a <= pos + m /\ pos + m <= e
    <2>1. pos + m - 1 \in pos .. (pos + m - 1)
      BY <1>1, <1>3
    <2>2. pos + m - 1 < e
      BY <1>6, <2>1
    <2> QED
      BY <1>1, <1>3, <2>2
  <1>8. DataFrom(input, e, pos + m, curLength - m) /\ (pos + m) + (curLength - m) = pos + curLength
    <2>1. \A q \in (pos + m) .. ((pos + m) + (curLength - m) - 1) : q \in pos .. (pos + curLength - 1)
      BY <1>1, <1>3
    <2> QED
      BY <1>1, <1>3, <1>5, <2>1 DEF DataFrom
  <1>9. \A p \in (pos + m) .. (e - 1) : IsSize(input[p]) => ChunkFramed(input, e, p)
    <2>1. \A p \in (pos + m) .. (e - 1) : p \in pos .. (e - 1)
      BY <1>1, <1>3
    <2> QED
      BY <1>1, <2>1 DEF ChunksInStep
  <1>10. ChunksInStep(e)'
    <2>1. CASE curLength - m = 0
      <3>1. chunkedState' = "DataEol" /\ call' = "read"
        BY <1>1, <1>2, <1>4, <2>1 DEF AfterData
      <3>2. pos + curLength = pos + m
        BY <1>1, <1>3, <2>1
      <3> QED
        BY <1>4, <1>5, <1>9, <3>1, <3>2 DEF ChunksInStep
    <2>2. CASE curLength - m # 0
      <3>1. chunkedState' = "Data" /\ call' = "read"
        BY <1>1, <1>2, <1>4, <2>2 DEF AfterData
      <3> QED
        BY <1>2, <1>4, <1>5, <1>8, <1>9, <3>1 DEF ChunksInStep
    <2> QED
      BY <2>1, <2>2
  <1>11. Units(m) \in Seq(Nat) /\ Moves(Units(m), e)
    BY <1>1, <1>3, <1>4, <1>6, UnitsTyped DEF Moves
  <1>12. Handed(Units(m))
    BY <1>1, <1>2, <1>4 DEF Handed
  <1> QED
    BY <1>1, <1>4, <1>7, <1>10, <1>11, <1>12 DEF ContentInStep

\* ... the end of a chunk ...
LEMMA DataEolInStep ==
  ASSUME NEW a, NEW e, ReaderAt(a, e), ReadDataEol, NextLine.kind = "blank"
  PROVE  ContentInStep(a, e)' /\ Moves(<< >>, e) /\ call' # "none" /\ UNCHANGED <<got, closing>>
  <1>1. /\ call = "read" /\ chunkedState = "DataEol" /\ reader = "chunked" /\ ChunksInStep(e)
        /\ StreamTyped /\ a \in Nat /\ e \in Nat /\ a <= pos /\ pos <= e /\ LineRead
    BY DEF ReaderAt, ReadDataEol, AtDataEol, CallsInHandler, ContentInStep, StreamTyped
  <1>2. ChunkEnds(input, e, pos)
    BY <1>1 DEF ChunksInStep
  <1>3. /\ pos <= Len(input) /\ pos \in Nat /\ Len(input) \in Nat
        /\ NextLine = input[pos] /\ pos' = pos + 1 /\ input' = input
    BY <1>1, LineOfKind DEF LineKinds
  <1>4. pos < e /\ ~input[pos].data /\ input[pos].kind = "blank"
    BY <1>2, <1>3 DEF ChunkEnds
  <1>5. SizeAt(input, e, pos + 1)
    BY <1>2, <1>3, <1>4 DEF ChunkEnds
  <1>6. chunkedState' = "Length" /\ UNCHANGED <<curLength, call, room, got, reader, contentLength, closing, ret>>
    BY <1>3, <1>4 DEF ReadDataEol, GoOn
  <1>7. \A p \in (pos + 1) .. (e - 1) : IsSize(input[p]) => ChunkFramed(input, e, p)
    <2>1. \A p \in (pos + 1) .. (e - 1) : p \in pos .. (e - 1)
      BY <1>1, <1>3
    <2> QED
      BY <1>1, <2>1 DEF ChunksInStep
  <1>8. ChunksInStep(e)'
    BY <1>1, <1>3, <1>5, <1>6, <1>7 DEF ChunksInStep
  <1>9. a <= pos + 1 /\ pos + 1 <= e
    BY <1>1, <1>3, <1>4
  <1> QED
    BY <1>1, <1>3, <1>4, <1>6, <1>8, <1>9 DEF ContentInStep, Moves

\* ... and the return of a call with a full buffer.
LEMMA FullInStep ==
  ASSUME NEW a, NEW e, ReaderAt(a, e), ReturnFull
  PROVE  ContentInStep(a, e)' /\ Moves(<< >>, e) /\ Handed(<< >>)
  <1>1. /\ call = "read" /\ reader = "chunked" /\ ContentInStep(a, e) /\ got \in Seq(Nat)
        /\ UNCHANGED <<chunkedState, curLength, input, pos, reader, contentLength>>
        /\ call' \in {"read", "none"}
    BY DEF ReaderAt, ReturnFull, ReturnChunked, CallsInHandler, ReadersTyped, streamVars
  <1>2. ContentInStep(a, e)'
    BY <1>1 DEF ContentInStep, ChunksInStep
  <1>3. got \o << >> = got
    BY <1>1
  <1>4. Handed(<< >>)
    BY <1>1, <1>3 DEF ReturnFull, ReturnChunked, Handed, Result
  <1> QED
    BY <1>1, <1>2, <1>4 DEF Moves

\* Every step of a call leaves the reader in the content, or the call fails.
LEMMA ReaderStepInStep ==
  ASSUME NEW a, NEW e, ReaderAt(a, e), ReaderStep
  PROVE  \/ Failed
         \/ ContentInStep(a, e)' /\ \E u \in Seq(Nat) : Moves(u, e) /\ Handed(u)
  <1>0. << >> \in Seq(Nat) /\ got \in Seq(Nat) /\ got \o << >> = got
    BY DEF ReaderAt, ReadersTyped
  <1>1. CASE ChunkedLineFails \/ ReadDataFails
    <2>1. PICK err \in {"Eof", "IoError", "LineTooLong"} : FailChunked(err)
      BY <1>1 DEF ChunkedLineFails, ReadDataFails
    <2>2. call' = "none" /\ got' = << >> /\ ret'.err = err /\ UNCHANGED <<chunkedState, reader>>
      BY <2>1 DEF FailChunked, ReturnChunked, Result
    <2>3. reader = "chunked" /\ chunkedState # "Eof"
      <3>1. call # "none" /\ (call = "trailers" \/ chunkedState # "Eof")
        BY <1>1 DEF ChunkedLineFails, ReadDataFails, AtDataEol
      <3>2. reader = "chunked"
        BY <3>1 DEF ReaderAt, CallsInHandler
      <3>3. ChunksInStep(e)
        BY <3>2 DEF ReaderAt, ContentInStep
      <3> QED
        BY <3>1, <3>2, <3>3 DEF ChunksInStep
    <2> QED
      BY <2>2, <2>3 DEF Failed, ContentLeft
  <1>2. ASSUME call' # "none", UNCHANGED <<got, closing>> PROVE Handed(<< >>)
    BY <1>0, <1>2 DEF Handed
  <1>3. CASE ReadLengthLine
    <2>1. CASE NextLine.kind = "chunk"
      BY <1>0, <1>2, <1>3, <2>1, LengthLineInStep
    <2>2. CASE NextLine.kind # "chunk"
      BY <1>3, <2>2, LineRefused DEF ReadLengthLine, ReaderAt, CallsInHandler
    <2> QED
      BY <2>1, <2>2
  <1>4. CASE ReadTrailer
    BY <1>0, <1>4, TrailerInStep
  <1>5. CASE ReadData
    BY <1>5, DataInStep
  <1>6. CASE ReadDataEol
    <2>1. CASE NextLine.kind = "blank"
      BY <1>0, <1>2, <1>6, <2>1, DataEolInStep
    <2>2. CASE NextLine.kind # "blank"
      BY <1>6, <2>2, LineRefused DEF ReadDataEol, AtDataEol, ReaderAt, CallsInHandler
    <2> QED
      BY <2>1, <2>2
  <1>7. CASE ReturnFull
    BY <1>0, <1>7, FullInStep
  <1> QED
    BY <1>1, <1>3, <1>4, <1>5, <1>6, <1>7 DEF ReaderStep

\* So does every call of the handler; a call of close may skip the rest.
LEMMA HandlerCallInStep ==
  ASSUME NEW a, NEW e, ReaderAt(a, e), call = "none", got = << >>, NEW n \in Nat,
         readNull \/ readLength(n) \/ readChunked(n) \/ closeOther \/ closeChunked
  PROVE  \/ Failed
         \/ ContentInStep(a, e)' /\ \E u \in Seq(Nat) : Moves(u, e) /\ Handed(u)
  <1>0. /\ ~closing /\ << >> \in Seq(Nat) /\ << >> \o << >> = << >> /\ StreamTyped /\ ReadersTyped
        /\ ContentInStep(a, e) /\ contentLength \in Nat
    BY DEF ReaderAt, CallsInHandler, ReadersTyped
  <1>1. ASSUME NEW err, Answer(err, << >>), UNCHANGED <<contentLength, streamVars>>
        PROVE  ContentInStep(a, e)' /\ \E u \in Seq(Nat) : Moves(u, e) /\ Handed(u)
    <2>1. /\ UNCHANGED <<reader, chunkedState, curLength, call, closing, got, contentLength, input, pos>>
          /\ ret'.units = << >>
      BY <1>1 DEF Answer, streamVars, Result
    <2>2. ContentInStep(a, e)'
      BY <1>0, <2>1 DEF ContentInStep, ChunksInStep
    <2>3. Moves(<< >>, e) /\ Handed(<< >>)
      BY <1>0, <2>1 DEF Moves, Handed
    <2> QED
      BY <1>0, <2>2, <2>3
  <1>2. CASE readNull \/ closeOther
    BY <1>1, <1>2 DEF readNull, closeOther
  <1>3. CASE readLength(n)
    <2>1. CASE \E err \in {"Eof", "Ok"} : Answer(err, << >>) /\ UNCHANGED <<contentLength, streamVars>>
      BY <1>1, <2>1
    <2>2. CASE ~LengthEnded /\ \E err \in {"Eof", "IoError"} : Answer(err, << >>) /\ UNCHANGED <<contentLength, streamVars>>
      <3>1. call' = "none" /\ got' = << >> /\ ret'.err \in {"Eof", "IoError"} /\ UNCHANGED <<contentLength, reader>>
        BY <2>2 DEF Answer, Result
      <3>2. ContentLeft'
        BY <1>3, <2>2, <3>1 DEF ContentLeft, LengthEnded, readLength
      <3> QED
        BY <3>1, <3>2 DEF Failed
    <2>3. CASE \E m \in Readable(ReadLen(n)) :
                 Answer("Ok", Units(m)) /\ contentLength' = contentLength - m /\ Advance(m)
      <3>1. PICK m \in Readable(ReadLen(n)) :
              Answer("Ok", Units(m)) /\ contentLength' = contentLength - m /\ Advance(m)
        BY <2>3
      <3>2. /\ UNCHANGED <<reader, chunkedState, curLength, call, closing, got, input>> /\ pos' = pos + m
            /\ ret'.units = Units(m)
        BY <3>1 DEF Answer, Result, Advance
      <3>3. /\ ReadLen(n) \in Nat /\ ReadLen(n) <= contentLength
            /\ pos \in Nat /\ Len(input) \in Nat /\ a \in Nat /\ e \in Nat /\ a <= pos /\ pos <= e
        BY <1>0, ReadLenTyped DEF ReaderAt, StreamTyped, ContentInStep
      <3>4. m \in Nat /\ m > 0 /\ m <= contentLength /\ (pos + m) - 1 <= Len(input)
        <4>1. m \in 1 .. ReadLen(n) /\ (pos + m) - 1 <= Len(input)
          BY <3>1, <3>3 DEF Readable
        <4> QED
          BY <1>0, <3>3, <4>1
      <3>5. /\ e = IF pos + contentLength <= Len(input) THEN pos + contentLength ELSE Len(input) + 1
            /\ DataFrom(input, e, pos, contentLength) /\ reader = "length"
        BY <1>0, <1>3 DEF readLength, ContentInStep, LengthFramed
      <3>6. \A q \in pos .. (pos + m - 1) : q < e /\ input[q].data
        <4> SUFFICES ASSUME NEW q \in pos .. (pos + m - 1) PROVE q < e /\ input[q].data
          OBVIOUS
        <4>1. q \in pos .. (pos + contentLength - 1) /\ q <= Len(input)
          BY <1>0, <3>3, <3>4
        <4> QED
          BY <3>5, <4>1 DEF DataFrom
      <3>7. a <= pos + m /\ pos + m <= e
        <4>1. pos + m - 1 \in pos .. (pos + m - 1)
          BY <3>3, <3>4
        <4>2. pos + m - 1 < e
          BY <3>6, <4>1
        <4> QED
          BY <3>3, <3>4, <4>2
      <3>8. LengthFramed(input, e, pos + m, contentLength - m)
        <4>1. (pos + m) + (contentLength - m) = pos + contentLength
          BY <1>0, <3>3, <3>4
        <4>2. \A q \in (pos + m) .. ((pos + m) + (contentLength - m) - 1) : q \in pos .. (pos + contentLength - 1)
          BY <1>0, <3>3, <3>4
        <4>3. DataFrom(input, e, pos + m, contentLength - m)
          BY <3>5, <4>2 DEF DataFrom
        <4> QED
          BY <3>5, <4>1, <4>3 DEF LengthFramed
      <3>9. ContentInStep(a, e)'
        BY <3>1, <3>2, <3>5, <3>7, <3>8 DEF ContentInStep
      <3>10. Units(m) \in Seq(Nat) /\ Moves(Units(m), e)
        BY <1>0, <3>2, <3>4, <3>6, UnitsTyped DEF Moves
      <3>11. << >> \o Units(m) = Units(m)
        BY <3>10
      <3>12. Handed(Units(m))
        BY <1>0, <3>2, <3>11 DEF Handed
      <3> QED
        BY <3>9, <3>10, <3>12
    <2>4. CASE LengthEnded
      BY <1>3, <2>1, <2>4 DEF readLength
    <2>5. CASE ~LengthEnded
      BY <1>3, <2>1, <2>2, <2>3, <2>5 DEF readLength
    <2> QED
      BY <2>4, <2>5
  <1>4. ASSUME NEW k \in Nat, NEW c \in BOOLEAN, EnterChunked(k, c)
        PROVE  ContentInStep(a, e)' /\ \E u \in Seq(Nat) : Moves(u, e) /\ Handed(u)
    <2>1. /\ UNCHANGED <<reader, contentLength, chunkedState, curLength, input, pos>> /\ call' \in {"none", "read"}
          /\ got' = << >> /\ (call' = "none" => ret'.units = << >>)
      BY <1>4 DEF EnterChunked, Result, streamVars
    <2>2. ContentInStep(a, e)'
      BY <1>0, <2>1 DEF ContentInStep, ChunksInStep
    <2>3. Moves(<< >>, e) /\ Handed(<< >>)
      BY <1>0, <2>1 DEF Moves, Handed
    <2> QED
      BY <1>0, <2>2, <2>3
  <1>5. CASE readChunked(n)
    BY <1>4, <1>5 DEF readChunked
  <1>6. CASE closeChunked
    BY <1>4, <1>6 DEF closeChunked, DiscardLen
  <1> QED
    BY <1>2, <1>3, <1>5, <1>6

-----------------------------------------------------------------------------
(* The content and what the handler has.                                   *)

\* What AllTaken says of the units is that they are the content taken so far.
LEMMA TakenIs ==
  ASSUME NEW b, NEW a, NEW e, a = Start(round), e = Start(round + 1)
  PROVE  Ordered(b) /\ UnitsOf(b) = {p \in Content(round) : p < pos} <=> Taken(b, input, a, e, pos)
  <1>1. {p \in Content(round) : p < pos} = {q \in a .. (e - 1) : input[q].data /\ q < pos}
    BY DEF Content
  <1> QED
    BY <1>1 DEF Taken

\* Taking some more units keeps to that.
LEMMA TakenOn ==
  ASSUME StreamTyped, NEW a \in Nat, NEW e \in Nat, a <= pos, NEW b \in Seq(Nat), Taken(b, input, a, e, pos),
         NEW u \in Seq(Nat), Moves(u, e)
  PROVE  Taken(b \o u, input, a, e, pos')
  <1>0. pos \in Nat /\ b \o << >> = b
    BY DEF StreamTyped
  <1>1. CASE u = << >> /\ pos' = pos
    BY <1>0, <1>1
  <1>2. CASE u = << >> /\ pos' = pos + 1 /\ ~input[pos].data
    BY <1>0, <1>2, LinePassed
  <1>3. CASE \E m \in Nat : /\ u = Units(m) /\ pos' = pos + m
                            /\ \A q \in pos .. (pos + m - 1) : q < e /\ input[q].data
    <2>1. PICK m \in Nat : /\ u = Units(m) /\ pos' = pos + m
                           /\ \A q \in pos .. (pos + m - 1) : q < e /\ input[q].data
      BY <1>3
    <2>2. Len(u) = m
      BY <2>1, UnitsTyped
    <2>3. \A i \in 1 .. m : u[i] = (pos + i) - 1
      <3>1. \A i \in 1 .. m : pos + i - 1 = (pos + i) - 1
        BY <1>0
      <3> QED
        BY <2>1, <3>1 DEF Units
    <2>4. Taken(b \o u, input, a, e, pos + m)
      BY <1>0, <2>1, <2>2, <2>3, DataTaken
    <2> QED
      BY <2>1, <2>4
  <1> QED
    BY <1>1, <1>2, <1>3 DEF Moves

\* What has been read, what the call has got and what it gets now.
LEMMA Regrouped ==
  ASSUME NEW b \in Seq(Nat), NEW g \in Seq(Nat), NEW u \in Seq(Nat)
  PROVE  (b \o g) \o u = b \o (g \o u)
  OBVIOUS

\* So the handler keeps getting all of the content in order.
LEMMA HandedInStep ==
  ASSUME IInv, AllTaken, pc = "handler", loose = {}, NEW a \in Nat, NEW e \in Nat, a = Start(round), e = Start(round + 1),
         a <= pos, NEW u \in Seq(Nat), Moves(u, e), Handed(u),
         NEW c \in BOOLEAN, closing => c, Record(c), TypeOK', CallsInHandler',
         UNCHANGED <<input, round, pc>>
  PROVE  AllTaken'
  <1>0. /\ StreamTyped /\ body \in Seq(Nat) /\ got \in Seq(Nat) /\ body' \in Seq(Nat) /\ pos' \in Nat
        /\ body \o got \in Seq(Nat) /\ skipped \in BOOLEAN
    <2>1. body \in Seq(Nat) /\ got \in Seq(Nat) /\ body' \in Seq(Nat) /\ pos' \in Nat /\ skipped \in BOOLEAN
      BY DEF IInv, TypeOK
    <2> QED
      BY <2>1, RequestBounds
  <1>1. a = Start(round)' /\ e = Start(round + 1)' /\ \A k : Content(k)' = Content(k)
    BY DEF Start, Content
  <1>2. ASSUME NEW b \in Seq(Nat), Taken(b, input, a, e, pos')
        PROVE  Ordered(b) /\ UnitsOf(b) = {p \in Content(round)' : p < pos'}
    BY <1>1, <1>2 DEF Taken, Content
  <1>3. ~skipped => BodyExact /\ (~closing => Taken((body \o got) \o u, input, a, e, pos'))
    <2> SUFFICES ASSUME ~skipped PROVE BodyExact /\ (~closing => Taken((body \o got) \o u, input, a, e, pos'))
      OBVIOUS
    <2>1. BodyExact /\ (~closing => Taken(body \o got, input, a, e, pos))
      BY TakenIs DEF AllTaken
    <2> QED
      BY <1>0, <2>1, TakenOn
  <1>4. (body \o got) \o u = body \o (got \o u)
    BY <1>0, Regrouped
  <1>5. CASE call' # "none"
    <2>1. UNCHANGED <<body, skipped, loose>>
      BY <1>5 DEF Record
    <2>2. ~skipped => BodyExact'
      BY <1>1, <1>3, <2>1 DEF BodyExact, AsSent
    <2>3. ASSUME ~skipped, ~closing'
          PROVE  Ordered(body' \o got') /\ UnitsOf(body' \o got') = {p \in Content(round)' : p < pos'}
      <3>1. ~closing /\ got' = got \o u
        BY <1>5, <2>3 DEF Handed
      <3>2. Taken(body' \o got', input, a, e, pos') /\ body' \o got' \in Seq(Nat)
        BY <1>0, <1>3, <1>4, <2>1, <2>3, <3>1
      <3> QED
        BY <1>2, <3>2
    <2> QED
      BY <1>1, <1>5, <2>1, <2>2, <2>3 DEF AllTaken
  <1>6. CASE call' = "none"
    <2>1. got' = << >> /\ body' = body \o ret'.units /\ (skipped' <=> skipped \/ c) /\ ~closing'
      BY <1>6 DEF Record, Handed, CallsInHandler
    <2>2. ASSUME ~skipped'
          PROVE  BodyExact' /\ Ordered(body' \o got') /\ UnitsOf(body' \o got') = {p \in Content(round)' : p < pos'}
      <3>1. ~skipped /\ ~closing /\ body' = body \o (got \o u) /\ body' \o got' = body'
        <4>1. ~skipped /\ ~c
          BY <2>1, <2>2
        <4>2. ~closing
          BY <4>1
        <4>3. ret'.units = got \o u
          BY <1>6, <4>2 DEF Handed
        <4>4. body' \o << >> = body'
          BY <1>0
        <4> QED
          BY <2>1, <4>1, <4>2, <4>3, <4>4
      <3>2. Taken(body', input, a, e, pos')
        BY <1>3, <1>4, <3>1
      <3>3. BodyExact'
        <4>1. /\ \A i \in 1 .. Len(body'), j \in 1 .. Len(body') : i < j => body'[i] < body'[j]
              /\ {body'[i] : i \in 1 .. Len(body')} =
                   {q \in a .. (e - 1) : input[q].data /\ body' # << >> /\ q <= body'[Len(body')]}
          BY <1>0, <3>2, TakenExact
        <4>2. {p \in Content(round)' : body' # << >> /\ p <= body'[Len(body')]} =
              {q \in a .. (e - 1) : input[q].data /\ body' # << >> /\ q <= body'[Len(body')]}
          BY <1>1 DEF Content
        <4> QED
          BY <4>1, <4>2 DEF BodyExact
      <3> QED
        BY <1>0, <1>2, <3>1, <3>2, <3>3
    <2> QED
      BY <2>1, <2>2 DEF AllTaken
  <1> QED
    BY <1>5, <1>6

\* Where nothing of the content is left the request ends.
LEMMA EndInStep ==
  ASSUME StreamTyped, ReadersTyped, NEW a, NEW e \in 1 .. (Len(input) + 1), ContentInStep(a, e), ~ContentLeft
  PROVE  pos = e
  <1>1. pos \in Nat /\ Len(input) \in Nat /\ pos <= e /\ reader \in {"null", "length", "chunked"}
    BY DEF StreamTyped, ReadersTyped, ContentInStep
  <1>2. CASE reader = "null"
    BY <1>2 DEF ContentInStep
  <1>3. CASE reader = "length"
    <2>1. e = IF pos + 0 <= Len(input) THEN pos + 0 ELSE Len(input) + 1
      BY <1>3 DEF ContentInStep, LengthFramed, ContentLeft
    <2> QED
      BY <1>1, <2>1
  <1>4. CASE reader = "chunked"
    BY <1>4 DEF ContentInStep, ChunksInStep, ContentLeft
  <1> QED
    BY <1>1, <1>2, <1>3, <1>4

\* The buffer of a call that has returned is empty.
LEMMA BufferEmptied ==
  ASSUME AllTaken, NEW n,
         \/ ReaderStep
         \/ call = "none" /\ (readNull \/ readLength(n) \/ readChunked(n) \/ closeOther \/ closeChunked)
  PROVE  call' = "none" => got' = << >>
  <1>1. ASSUME NEW err, NEW units, ReturnChunked(err, units) PROVE got' = << >>
    BY <1>1 DEF ReturnChunked
  <1>2. CASE ReaderStep
    BY <1>1, <1>2 DEF ReaderStep, ChunkedLineFails, ReadDataFails, FailChunked, ReadLengthLine, ReadTrailer,
                      ReadData, ReadDataEol, ReturnFull, AtDataEol, GoOn
  <1>3. ASSUME call = "none", NEW err, NEW units, Answer(err, units) PROVE got' = << >>
    BY <1>3 DEF Answer, AllTaken
  <1>4. CASE call = "none" /\ (readNull \/ readLength(n) \/ closeOther)
    BY <1>3, <1>4 DEF readNull, readLength, closeOther
  <1>5. CASE call = "none" /\ (readChunked(n) \/ closeChunked)
    BY <1>5 DEF readChunked, closeChunked, EnterChunked, AllTaken
  <1> QED
    BY <1>2, <1>4, <1>5

\* The calls of the handler and their steps keep the connection in step.
LEMMA CallInStep ==
  ASSUME IInv, InStep, pc = "handler", NEW c \in BOOLEAN, closing => c, Record(c), TypeOK', CallsInHandler',
         UNCHANGED <<input, round, pc>>, NEW n \in Nat,
         \/ ReaderStep
         \/ call = "none" /\ (readNull \/ readLength(n) \/ readChunked(n) \/ closeOther \/ closeChunked)
  PROVE  InStep'
  <1>1. call' = "none" => got' = << >>
    BY BufferEmptied DEF InStep
  <1>2. RequestsInStep' /\ HeadInStep'
    BY DEF InStep, RequestsInStep, HeadInStep
  <1>3. CASE loose # {}
    <2>1. loose' # {}
      BY <1>3 DEF Record
    <2> QED
      BY <1>1, <1>2, <2>1 DEF InStep, BodyInStep, AllTaken
  <1>4. CASE loose = {}
    <2>1. PICK a, e : a = Start(round) /\ e = Start(round + 1)
      OBVIOUS
    <2>2. ReaderAt(a, e)
      <3>1. round \in Nat /\ \A k \in Nat : Start(k) \in 1 .. (Len(input) + 1)
        BY RequestBounds
      <3>2. round + 1 \in Nat
        BY <3>1
      <3>3. a \in 1 .. (Len(input) + 1) /\ e \in 1 .. (Len(input) + 1)
        BY <2>1, <3>1, <3>2
      <3>4. ContentInStep(a, e)
        BY <1>4, <2>1 DEF InStep, BodyInStep
      <3>5. StreamTyped /\ ReadersTyped /\ CallsInHandler
        BY TypeParts DEF IInv
      <3>6. a \in Nat
        BY <3>3
      <3> QED
        BY <3>3, <3>4, <3>5, <3>6 DEF ReaderAt
    <2>3. CASE Failed
      <3>1. loose' # {}
        BY <2>3 DEF Failed, Record
      <3> QED
        BY <1>1, <1>2, <3>1 DEF InStep, BodyInStep, AllTaken
    <2>4. CASE ContentInStep(a, e)' /\ \E u \in Seq(Nat) : Moves(u, e) /\ Handed(u)
      <3>1. PICK u \in Seq(Nat) : Moves(u, e) /\ Handed(u)
        BY <2>4
      <3>2. a \in Nat /\ e \in Nat /\ a <= pos
        BY <2>2 DEF ReaderAt, StreamTyped, ContentInStep
      <3>3. AllTaken'
        BY <1>4, <2>1, <3>1, <3>2, HandedInStep DEF InStep
      <3>4. a = Start(round)' /\ e = Start(round + 1)'
        BY <2>1 DEF Start
      <3>5. BodyInStep'
        BY <2>4, <3>4 DEF BodyInStep, ContentInStep, ChunksInStep
      <3> QED
        BY <1>2, <3>3, <3>5 DEF InStep
    <2>5. call = "none" => got = << >>
      BY DEF InStep, AllTaken
    <2> QED
      BY <2>2, <2>3, <2>4, <2>5, ReaderStepInStep, HandlerCallInStep
  <1> QED
    BY <1>3, <1>4

\* When the connection is done with a request with nothing left of it, it is where
\* the next one begins.
LEMMA NextInStep ==
  ASSUME IInv, InStep, pc \in {"handler", "notFound"}, loose = {}, ~ContentLeft
  PROVE  pos = Start(round + 1)
  <1>1. PICK a, e : a = Start(round) /\ e = Start(round + 1)
    OBVIOUS
  <1>2. round \in Nat /\ \A k \in Nat : Start(k) \in 1 .. (Len(input) + 1)
    BY RequestBounds
  <1>3. round + 1 \in Nat
    BY <1>2
  <1>4. e \in 1 .. (Len(input) + 1)
    BY <1>1, <1>2, <1>3
  <1>5. StreamTyped /\ ReadersTyped
    BY TypeParts DEF IInv
  <1>6. ContentInStep(a, e)
    BY <1>1 DEF InStep, BodyInStep
  <1> QED
    BY <1>1, <1>4, <1>5, <1>6, EndInStep

\* Every step keeps the connection in step with the client.
LEMMA InStepKept ==
  ASSUME IInv, InStep, [Next]_vars, TypeOK', CallsInHandler', input' = input
  PROVE  InStep'
  <1>0. /\ round \in Nat /\ loose \subseteq {"malformed", "noHandler", "unread", "failed"} /\ closing \in BOOLEAN
        /\ pc \in {"peek", "requestLine", "headers", "special", "notFound", "status",
                   "handler", "closed", "thrown", "crashed"}
        /\ RequestsInStep /\ HeadInStep /\ BodyInStep /\ AllTaken
        /\ call # "none" => pc = "handler"
    BY DEF IInv, TypeOK, InStep, CallsInHandler
  <1>1. CASE UNCHANGED vars
    BY <1>0, <1>1 DEF vars, InStep, RequestsInStep, HeadInStep, BodyInStep, AllTaken, ContentInStep, ChunksInStep,
                      BodyExact, AsSent, Start, Content
  <1>2. ASSUME pc # "handler", pc' \in {"requestLine", "headers", "special", "status", "closed", "crashed"},
               UNCHANGED <<call, got>>, RequestsInStep', HeadInStep'
        PROVE  InStep'
    BY <1>0, <1>2 DEF InStep, BodyInStep, AllTaken
  <1>3. CASE peekMatch
    <2>1. /\ pc = "peek" /\ pc' \in {"closed", "requestLine"}
          /\ UNCHANGED <<pos, call, got, round, loose>>
      BY <1>3 DEF peekMatch, Leave, streamVars, readerVars, historyVars
    <2>2. pos = 1 /\ round = 0
      BY <1>0, <2>1 DEF HeadInStep
    <2>3. StartIn(input, 1) = 1
      BY RequestBounds, FirstStart
    <2>4. RequestsInStep' /\ HeadInStep'
      BY <2>1, <2>2, <2>3 DEF RequestsInStep, HeadInStep, Start
    <2> QED
      BY <1>2, <2>1, <2>4
  <1>4. CASE readRequestLine
    <2>1. /\ pc = "requestLine" /\ pc' \in {"headers", "status"} /\ round' = round + 1 /\ headers' = << >>
          /\ body' = << >> /\ UNCHANGED <<call, got, loose>>
      BY <1>4 DEF readRequestLine, readerVars
    <2>2. ASSUME loose' = {}, pc' = "headers"
          PROVE  HeadRead(headers', input', Start(round)', pos', Start(round + 1)')
      <3>1. pos = Start(round + 1)
        BY <1>0, <2>1, <2>2 DEF RequestsInStep
      <3>2. HeadRead(<< >>, input, Start(round + 1), pos', Start(round + 2))
        BY <1>4, <2>2, <3>1, RequestLineInStep
      <3>3. Start(round)' = Start(round + 1) /\ Start(round + 1)' = Start(round + 2)
        <4>1. (round + 1) + 1 = round + 2
          BY <1>0
        <4> QED
          BY <2>1, <4>1 DEF Start
      <3> QED
        BY <2>1, <3>2, <3>3
    <2>3. RequestsInStep' /\ HeadInStep'
      BY <1>0, <2>1, <2>2 DEF RequestsInStep, HeadInStep
    <2> QED
      BY <1>2, <2>1, <2>3
  <1>5. CASE ReadLineFails
    <2>1. /\ pc \in {"requestLine", "headers"} /\ pc' = "closed" /\ UNCHANGED <<call, got>>
      BY <1>5 DEF ReadLineFails, Leave, readerVars
    <2>2. RequestsInStep' /\ HeadInStep'
      BY <2>1 DEF RequestsInStep, HeadInStep
    <2> QED
      BY <1>2, <2>1, <2>2
  <1>6. CASE readHeaderLine
    <2>1. /\ pc = "headers" /\ pc' \in {"headers", "special", "crashed"}
          /\ UNCHANGED <<call, got, round, body>>
      BY <1>6 DEF readHeaderLine, readerVars
    <2>2. loose' = {} =>
            /\ pc' = "headers" => HeadRead(headers', input, Start(round), pos', Start(round + 1))
            /\ pc' = "special" =>
                 /\ HeadRead(headers', input, Start(round), pos' - 1, Start(round + 1))
                 /\ pos' <= Start(round + 1) /\ input[pos' - 1].kind = "blank"
      BY <1>0, <1>6, HeaderLineInStep
    <2>3. Start(round)' = Start(round) /\ Start(round + 1)' = Start(round + 1)
      BY <2>1 DEF Start
    <2>4. RequestsInStep' /\ HeadInStep'
      BY <1>0, <2>1, <2>2, <2>3 DEF RequestsInStep, HeadInStep
    <2> QED
      BY <1>2, <2>1, <2>4
  <1>7. CASE parseSpecialHeaders /\ ~BadHeaders
    <2>1. pc = "special" /\ pc' \in {"handler", "notFound"} /\ UNCHANGED <<call, got, round, loose>>
      BY <1>7 DEF parseSpecialHeaders, NewReader, historyVars
    <2>2. RequestsInStep' /\ HeadInStep'
      BY <1>0, <2>1 DEF RequestsInStep, HeadInStep
    <2>3. got' = << >>
      BY <1>0, <2>1 DEF AllTaken
    <2>4. CASE loose = {}
      <3>1. /\ body = << >> /\ UNCHANGED <<pos, body>> /\ chunkedState' = "Length" /\ call' = "none"
            /\ Start(round) <= pos /\ pos <= Start(round + 1)
            /\ reader' = "null" => pos = Start(round + 1)
            /\ reader' = "length" => LengthFramed(input, Start(round + 1), pos, contentLength')
            /\ reader' = "chunked" =>
                 /\ \A p \in pos .. (Start(round + 1) - 1) : IsSize(input[p]) => ChunkFramed(input, Start(round + 1), p)
                 /\ SizeAt(input, Start(round + 1), pos)
            /\ {p \in Content(round) : p < pos} = {}
        BY <1>0, <1>7, <2>1, <2>4, ContentBegins
      <3>2. Start(round)' = Start(round) /\ Start(round + 1)' = Start(round + 1) /\ Content(round)' = Content(round)
        BY <2>1 DEF Start, Content
      <3>3. BodyInStep'
        BY <3>1, <3>2 DEF BodyInStep, ContentInStep, ChunksInStep
      <3>4. << >> \o << >> = << >> /\ Len(<< >>) = 0
        OBVIOUS
      <3>5. Ordered(<< >>) /\ UnitsOf(<< >>) = {}
        BY <3>4 DEF Ordered, UnitsOf
      <3>6. BodyExact'
        BY <3>1, <3>4 DEF BodyExact
      <3>7. AllTaken'
        BY <2>3, <3>1, <3>2, <3>4, <3>5, <3>6 DEF AllTaken
      <3> QED
        BY <2>2, <3>3, <3>7 DEF InStep
    <2>5. CASE loose # {}
      BY <2>1, <2>2, <2>3, <2>5 DEF InStep, BodyInStep, AllTaken
    <2> QED
      BY <2>4, <2>5
  <1>8. CASE parseSpecialHeaders /\ BadHeaders
    <2>1. pc = "special" /\ pc' = "status" /\ UNCHANGED <<call, got, round>>
      BY <1>8 DEF parseSpecialHeaders, readerVars
    <2>2. RequestsInStep' /\ HeadInStep'
      BY <1>0, <2>1 DEF RequestsInStep, HeadInStep
    <2> QED
      BY <1>2, <2>1, <2>2
  <1>9. ASSUME pc \in {"handler", "notFound"}, call = "none", pc' \in {"requestLine", "closed"},
               UNCHANGED <<call, got, round, pos, reader, chunkedState, contentLength>>,
               ContentLeft => loose' # {}, ~ContentLeft => loose' = loose
        PROVE  InStep'
    <2>1. RequestsInStep'
      <3> SUFFICES ASSUME loose' = {}, pc' = "requestLine" PROVE pos' = Start(round + 1)'
        BY DEF RequestsInStep
      <3>1. pos = Start(round + 1)
        BY <1>9, NextInStep
      <3> QED
        BY <1>9, <3>1 DEF Start
    <2> QED
      BY <1>0, <1>9, <2>1 DEF InStep, HeadInStep, BodyInStep, AllTaken
  <1>10. CASE sendNotFound
    BY <1>0, <1>9, <1>10 DEF sendNotFound, Respond, WriteFails, Leave, readerVars, streamVars
  <1>11. CASE HandlerReturns
    BY <1>0, <1>9, <1>11 DEF HandlerReturns, InHandler, Respond, WriteFails, Leave, readerVars, streamVars
  <1>12. CASE sendStatus
    <2>1. pc = "status" /\ pc' = "closed" /\ UNCHANGED <<call, got>>
      BY <1>12 DEF sendStatus, Leave, readerVars
    <2>2. RequestsInStep' /\ HeadInStep'
      BY <2>1 DEF RequestsInStep, HeadInStep
    <2> QED
      BY <1>2, <2>1, <2>2
  <1>13. CASE HandlerThrows
    <2>1. pc = "handler" /\ pc' = "thrown" /\ UNCHANGED <<call, got, round>>
      BY <1>13 DEF HandlerThrows, InHandler, readerVars
    <2> QED
      BY <1>0, <2>1 DEF InStep, RequestsInStep, HeadInStep, BodyInStep, AllTaken
  <1>14. CASE ReadGoesOn
    <2>1. ReaderStep /\ Record(closing) /\ UNCHANGED <<round, pc>> /\ 0 \in Nat
      BY <1>14 DEF ReadGoesOn, connectionVars
    <2>2. pc = "handler"
      BY <1>0, <2>1 DEF ReaderStep, ChunkedLineFails, ReadLengthLine, ReadTrailer, ReadData, ReadDataFails,
                        ReadDataEol, ReturnFull, AtDataEol
    <2> QED
      BY <1>0, <2>1, <2>2, CallInStep
  <1>15. CASE HandlerReads
    <2>1. PICK n \in BufferLens : readNull \/ readLength(n) \/ readChunked(n)
      BY <1>15 DEF HandlerReads
    <2>2. n \in Nat /\ pc = "handler" /\ call = "none" /\ ~closing /\ Record(FALSE) /\ UNCHANGED <<round, pc>>
      BY <1>15, BufferAssumption DEF HandlerReads, InHandler, connectionVars, IInv, CallsInHandler
    <2> QED
      BY <2>1, <2>2, CallInStep
  <1>16. CASE HandlerCloses
    <2>1. /\ closeOther \/ closeChunked
          /\ 0 \in Nat /\ pc = "handler" /\ call = "none" /\ Record(TRUE) /\ UNCHANGED <<round, pc>>
      BY <1>16 DEF HandlerCloses, InHandler, connectionVars
    <2> QED
      BY <2>1, CallInStep
  <1> QED
    BY <1>1, <1>3, <1>4, <1>5, <1>6, <1>7, <1>8, <1>10, <1>11, <1>12, <1>13, <1>14, <1>15, <1>16 DEF Next, ConnectionStep

\* The connection begins in step with the client and stays so.
THEOREM StaysInStep == Spec => [](IInv /\ InStep)
  <1>1. Init => InStep
    BY DEF Init, InitReaders, InStep, RequestsInStep, HeadInStep, BodyInStep, AllTaken
  <1>2. IInv /\ IInv' /\ InStep /\ [Next]_vars => InStep'
    <2> SUFFICES ASSUME IInv, IInv', InStep, [Next]_vars PROVE InStep'
      OBVIOUS
    <2>1. TypeOK' /\ CallsInHandler' /\ input' = input
      BY TypeKept DEF IInv
    <2> QED
      BY <2>1, InStepKept
  <1> QED
    BY Invariance, <1>1, <1>2, PTL DEF Spec

\* The connection looks for a request line where a request of the client begins.
THEOREM RequestsFollow == Spec => []RequestsInStep
  BY StaysInStep, PTL DEF InStep

\* Handlers get exactly the content of their requests.
THEOREM ContentFollows == Spec => []ContentExact
  <1>1. IInv /\ InStep => ContentExact
    <2> SUFFICES ASSUME IInv, InStep PROVE ContentExact
      OBVIOUS
    <2>1. BodyExact
      BY DEF InStep, AllTaken, BodyExact, AsSent
    <2>2. ASSUME AsSent, call = "none", ~ContentLeft
          PROVE  /\ pos = Start(round + 1)
                 /\ ~skipped => {body[i] : i \in 1 .. Len(body)} = Content(round)
      <3>1. pos = Start(round + 1)
        BY <2>2, NextInStep DEF AsSent
      <3>2. ASSUME ~skipped PROVE UnitsOf(body) = Content(round)
        <4>1. ~closing /\ got = << >> /\ body \o << >> = body
          BY <2>2 DEF IInv, TypeOK, CallsInHandler, InStep, AllTaken
        <4>2. UnitsOf(body) = {p \in Content(round) : p < pos}
          BY <2>2, <3>2, <4>1 DEF InStep, AllTaken, AsSent
        <4>3. \A p \in Content(round) : p < pos
          <5>1. round \in Nat /\ \A k \in Nat : Start(k) \in 1 .. (Len(input) + 1)
            BY RequestBounds
          <5>2. round + 1 \in Nat
            BY <5>1
          <5>3. Start(round) \in 1 .. (Len(input) + 1) /\ Start(round + 1) \in 1 .. (Len(input) + 1)
            BY <5>1, <5>2
          <5> QED
            BY <3>1, <5>3, RequestBounds DEF Content
        <4> QED
          BY <4>2, <4>3
      <3> QED
        BY <3>1, <3>2 DEF UnitsOf
    <2> QED
      BY <2>1, <2>2 DEF ContentExact, ContentEndExact
  <1> QED
    BY StaysInStep, <1>1, PTL
=============================================================================
