--------------------------- MODULE HttpConnection ---------------------------
(***************************************************************************)
(* src/src/http/HttpConnection.cpp: the requests of one HTTP/1 connection, *)
(* one after the other, each with its headers, its handler and its answer. *)
(* A step is from one read of the stream to the next.  The handler is the  *)
(* user's: it reads and closes the input stream as it likes and returns or *)
(* throws.  Of the response only whether it could be written is kept.      *)
(***************************************************************************)
EXTENDS BodyReaders

VARIABLES
    pc,
    round,        \* history: how many requests have been begun
    version, keepAlive,
    headers,      \* the headers of requestData, as far as they matter here
    found,        \* whether handlerMap has a handler for the URL
    status,       \* the code of `status', 0 if ok
    responses,    \* the codes of the responses, 0 for one of which nothing was written
    upgrade,      \* what run() returns is H2C_Upgrade
    asked,        \* history: the length the handler asked for last
    body,         \* history: the units handed to the handler of this request,
    skipped,      \* history: the handler has called close(), which may skip some
    loose         \* history: why the rest of a request may still be in the stream

historyVars == <<asked, body, skipped, loose>>
requestVars == <<version, keepAlive, headers, found>>
vars == <<input, pos, reader, contentLength, chunkedState, curLength, call, closing, room, got, ret,
          pc, round, version, keepAlive, headers, found, status, responses, upgrade,
          asked, body, skipped, loose>>

\* The version of a RequestData is not initialised, nor reset.
Init ==
    /\ input \in Inputs /\ pos = 1
    /\ InitReaders
    /\ pc = "peek" /\ round = 0
    /\ version \in Versions /\ keepAlive = FALSE /\ headers = << >> /\ found = FALSE
    /\ status = 0 /\ responses = << >> /\ upgrade = FALSE
    /\ asked = 0 /\ body = << >> /\ skipped = FALSE /\ loose = {}

\* innerRun returns and run closes the stream.
Leave == pc' = "closed"

-----------------------------------------------------------------------------
peekMatch ==
    /\ pc = "peek"
    /\ \/ \E err \in {"Eof", "IoError"} : ReadFails(err) /\ Leave /\ UNCHANGED upgrade
       \/ ~AtEnd /\ input[pos].kind = "preface" /\ Leave /\ upgrade' = TRUE
       \/ ~AtEnd /\ input[pos].kind # "preface" /\ pc' = "requestLine" /\ UNCHANGED upgrade
    /\ UNCHANGED <<streamVars, readerVars, round, requestVars, status, responses, historyVars>>

\* What parseRequestLine makes of a line that is no request line: it depends on
\* the spaces in it.
LineStatus(line) ==
    CASE line.kind = "badRequest" -> {line.n}
      [] line.kind \in {"header", "mixed"} -> {400, 501}
      [] OTHER -> {400}

readRequestLine ==
    /\ pc = "requestLine"
    /\ LineRead
    /\ round' = round + 1
    /\ headers' = << >>
    /\ \/ /\ NextLine.kind = "request"
          /\ version' = NextLine.v
          /\ keepAlive' = (NextLine.v = "1.1")
          /\ found' = (NextLine.n = 1)
          /\ pc' = "headers"
          /\ status' = 0
       \/ /\ NextLine.kind # "request"
          /\ status' \in LineStatus(NextLine)
          /\ keepAlive' = FALSE
          /\ pc' = "status"
          /\ UNCHANGED <<version, found>>
    /\ asked' = 0 /\ body' = << >> /\ skipped' = FALSE
    /\ UNCHANGED <<readerVars, responses, upgrade, loose>>

\* Mutant: the read is tried again, at the end of the stream too.
ReadLineRetried ==
    /\ pc \in {"requestLine", "headers"}
    /\ \E err \in {"Eof", "IoError", "LineTooLong"} : LineFails(err)
    /\ UNCHANGED vars

\* A read of a line fails: run closes the connection without an answer.
ReadLineFails ==
    /\ pc \in {"requestLine", "headers"}
    /\ \E err \in {"Eof", "IoError", "LineTooLong"} : LineFails(err)
    /\ Leave
    /\ UNCHANGED <<streamVars, readerVars, round, requestVars, status, responses, upgrade, historyVars>>

\* A padded line goes on with the last word of the header before it, which then is
\* another word: a line spoils a word here, and never completes one.
Extended(h) ==
    CASE h \in {"Content-Length", "bad Content-Length"} -> "bad Content-Length"
      [] h \in {"chunked", "identity"} -> "identity"
      [] h = "close, keep-alive" -> "close"
      [] h = "Host" -> "Host"
      [] OTHER -> "other"

\* A line that is no header ends the loop over the lines as the blank one does:
\* its status is not looked at.
readHeaderLine ==
    /\ pc = "headers"
    /\ LineRead
    /\ \/ /\ NextLine.kind = "blank"
          /\ pc' = "special"
          /\ UNCHANGED <<headers, loose>>
       \/ /\ NextLine.kind = "header"
          /\ headers' = Append(headers, <<NextLine.v, NextLine.n>>)
          /\ UNCHANGED <<pc, loose>>
       \/ /\ NextLine.kind = "mixed"
          /\ headers' = Append(headers, <<"other", 0>>)
          /\ UNCHANGED <<pc, loose>>
       \/ /\ NextLine.kind = "padded" /\ headers # << >>
          /\ headers' = [headers EXCEPT ![Len(headers)] = <<Extended(@[1]), @[2]>>]
          /\ UNCHANGED <<pc, loose>>
       \/ /\ NextLine.kind = "padded" /\ headers = << >>   \* back() of an empty vector
          /\ pc' = "crashed"
          /\ UNCHANGED <<headers, loose>>
       \/ /\ NextLine.kind \notin {"blank", "header", "padded"}
          /\ pc' = "special"
          /\ loose' = loose \cup {"malformed"}
          /\ UNCHANGED headers
    /\ UNCHANGED <<readerVars, round, version, keepAlive, found, status, responses, upgrade, asked, body, skipped>>

-----------------------------------------------------------------------------
(* parseSpecialHeaders and checkAndFixupHeaders.  Of headers that come more *)
(* than once the last one counts.                                           *)

Indices(names) == {i \in 1 .. Len(headers) : headers[i][1] \in names}
Has(name) == Indices({name}) # {}
LastOf(names) == headers[CHOOSE i \in Indices(names) : \A j \in Indices(names) : j <= i]

hasContentLength == Has("Content-Length")
isChunked ==
    Indices({"chunked", "identity"}) # {} /\ LastOf({"chunked", "identity"})[1] = "chunked"

BadHeaders ==
    \/ Has("bad Content-Length") \/ Has("close, keep-alive")
    \/ Has("chunked") /\ version = "1.0"
    \/ \E i, j \in Indices({"Host"}) : i # j
    \/ ~Has("Host") /\ version = "1.1"

StaysAlive ==
    IF Indices({"close", "keep-alive"}) = {}
      THEN keepAlive ELSE LastOf({"close", "keep-alive"})[1] = "keep-alive"

\* Mutant: the content length counts, chunked or not.
LengthOverChunked == IF hasContentLength THEN "length" ELSE IF isChunked THEN "chunked" ELSE "null"

ReaderFor == IF isChunked THEN "chunked" ELSE IF hasContentLength THEN "length" ELSE "null"
LengthFor == IF hasContentLength /\ ~isChunked THEN LastOf({"Content-Length"})[2] ELSE 0

parseSpecialHeaders ==
    /\ pc = "special"
    /\ IF BadHeaders
         THEN /\ status' = 400 /\ pc' = "status"
              /\ UNCHANGED <<keepAlive, readerVars>>
         ELSE /\ keepAlive' = StaysAlive
              /\ NewReader(ReaderFor, LengthFor)
              /\ pc' = IF found THEN "handler" ELSE "notFound"
              /\ UNCHANGED status
    /\ UNCHANGED <<streamVars, round, version, headers, found, responses, upgrade, historyVars>>

-----------------------------------------------------------------------------
(* The answer, and the next round.                                         *)

Respond(code) ==
    /\ responses' = Append(responses, code)
    /\ pc' = IF keepAlive THEN "requestLine" ELSE "closed"

WriteFails == Failures /\ Leave /\ UNCHANGED responses

\* Something of the request is still in the stream.
ContentLeft ==
    \/ reader = "chunked" /\ chunkedState # "Eof"
    \/ reader = "length" /\ contentLength # 0

\* Mutant: the loop goes on without an answer.
sendNotFoundUnsent ==
    /\ pc = "notFound"
    /\ pc' = IF keepAlive THEN "requestLine" ELSE "closed"
    /\ UNCHANGED <<streamVars, readerVars, round, requestVars, status, responses, upgrade, historyVars>>

sendNotFound ==
    /\ pc = "notFound"
    /\ Respond(404) \/ WriteFails
    /\ loose' = IF ContentLeft THEN loose \cup {"noHandler"} ELSE loose
    /\ UNCHANGED <<streamVars, readerVars, round, requestVars, status, upgrade, asked, body, skipped>>

sendStatus ==
    /\ pc = "status"
    /\ \/ responses' = Append(responses, status)
       \/ Failures /\ UNCHANGED responses
    /\ Leave
    /\ UNCHANGED <<streamVars, readerVars, round, requestVars, status, upgrade, historyVars>>

InHandler == pc = "handler" /\ call = "none"
connectionVars == <<pc, round, requestVars, status, responses, upgrade>>

\* The handler's part of the history: what a call that has returned gave it, and
\* whether that was an error.
Record(closed) ==
    IF call' # "none" THEN UNCHANGED <<body, skipped, loose>>
    ELSE /\ body' = body \o ret'.units
         /\ skipped' = (skipped \/ closed)
         /\ loose' = IF ret'.err = "Ok" \/ (ret'.err = "Eof" /\ ~ContentLeft')
                       THEN loose ELSE loose \cup {"failed"}

HandlerReads ==
    /\ InHandler
    /\ \E n \in BufferLens :
         /\ readNull \/ readLength(n) \/ readChunked(n)
         /\ asked' = n
    /\ Record(FALSE)
    /\ UNCHANGED connectionVars

HandlerCloses ==
    /\ InHandler
    /\ closeOther \/ closeChunked
    /\ asked' = 0
    /\ Record(TRUE)
    /\ UNCHANGED connectionVars

ReadGoesOn ==
    /\ ReaderStep
    /\ Record(closing)
    /\ UNCHANGED <<connectionVars, asked>>

HandlerThrows ==
    /\ InHandler
    /\ pc' = "thrown"
    /\ UNCHANGED <<streamVars, readerVars, round, requestVars, status, responses, upgrade, historyVars>>

\* The handler returns and the response is closed, which fails if its headers are
\* not good or cannot be written.  If the handler has been told before that the
\* response failed, close returns Ok and nothing has been written: these are the
\* outcomes that OkIsAnswered of HttpResponse allows.
HandlerReturns ==
    /\ InHandler
    /\ Respond(200) \/ Respond(0) \/ (Leave /\ UNCHANGED responses)
    /\ loose' = IF ContentLeft THEN loose \cup {"unread"} ELSE loose
    /\ UNCHANGED <<streamVars, readerVars, round, requestVars, status, upgrade, asked, body, skipped>>

-----------------------------------------------------------------------------
ConnectionStep ==
    \/ peekMatch \/ readRequestLine \/ ReadLineFails \/ readHeaderLine
    \/ parseSpecialHeaders \/ sendNotFound \/ sendStatus \/ ReadGoesOn

Next == ConnectionStep \/ HandlerReads \/ HandlerCloses \/ HandlerThrows \/ HandlerReturns

Spec == Init /\ [][Next]_vars

\* The thread runs, the client sends or hangs up, and no handler goes on forever.
FairSpec == Spec /\ WF_vars(ConnectionStep) /\ SF_vars(HandlerReturns)

-----------------------------------------------------------------------------
\* The variables have their types; in particular no count of a reader wraps.
TypeOK ==
    /\ input \in Seq(Unit) /\ pos \in 1 .. (Len(input) + 1)
    /\ reader \in {"null", "length", "chunked"} /\ contentLength \in Nat
    /\ chunkedState \in {"Length", "Data", "DataEol", "Eof"} /\ curLength \in Nat
    /\ call \in {"none", "read", "trailers"} /\ closing \in BOOLEAN
    /\ room \in Nat /\ got \in Seq(Nat)
    /\ ret \in [err : {"Ok", "Eof", "IoError", "LineTooLong", "ClientError"}, units : Seq(Nat)]
    /\ pc \in {"peek", "requestLine", "headers", "special", "notFound", "status",
               "handler", "closed", "thrown", "crashed"}
    /\ round \in Nat /\ version \in Versions /\ keepAlive \in BOOLEAN
    /\ headers \in Seq(SpecialHeaders \X Nat) /\ found \in BOOLEAN
    /\ status \in {0, 400, 501, 505} /\ responses \in Seq({0, 200, 404, 400, 501, 505})
    /\ upgrade \in BOOLEAN /\ asked \in Nat /\ body \in Seq(Nat) /\ skipped \in BOOLEAN
    /\ loose \subseteq {"malformed", "noHandler", "unread", "failed"}

\* The connection looks for a request line just where the client's next request
\* begins, as long as every request so far was well-formed and has been read to
\* the end of its content, with no read that failed.
RequestsInStep == loose = {} /\ pc = "requestLine" => pos = Start(round + 1)

AsSent == pc = "handler" /\ loose = {}

\* What a handler has read is the client's content from its beginning, without
\* the lines around the chunks, unless a read has failed.
BodyExact ==
    AsSent /\ ~skipped =>
        /\ \A i \in 1 .. Len(body), j \in 1 .. Len(body) : i < j => body[i] < body[j]
        /\ {body[i] : i \in 1 .. Len(body)} =
             {p \in Content(round) : body # << >> /\ p <= body[Len(body)]}

\* When a reader says that the content has ended, all of it has been handed over
\* and the stream is at the client's next request.
ContentEndExact ==
    AsSent /\ call = "none" /\ ~ContentLeft =>
        /\ pos = Start(round + 1)
        /\ ~skipped => {body[i] : i \in 1 .. Len(body)} = Content(round)

\* Handlers get exactly the content of the request, from its beginning to its
\* end, however they cut it into reads.
ContentExact == BodyExact /\ ContentEndExact

\* A read into a buffer that is not empty gets something or says why not: the
\* usual loop of a handler ends.  A length that is 0 when cast is the exception.
ReadsProgress ==
    InHandler /\ asked > 0 /\ ret = Result("Ok", << >>) =>
        reader = "length" /\ contentLength # 0 /\ contentLength % Range32 = 0

\* Every request has got one answer, its handler's as far as it made one, when the
\* next one is looked for, and none gets two.
OneAnswerEach ==
    /\ pc \in {"peek", "requestLine"} => Len(responses) = round
    /\ Len(responses) <= round

\* The connection comes to its end.
RunEnds == <>(pc \in {"closed", "thrown", "crashed"})
=============================================================================
