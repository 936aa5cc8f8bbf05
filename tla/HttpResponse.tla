---------------------------- MODULE HttpResponse ----------------------------
(***************************************************************************)
(* src/src/http/HttpResponseImpl.cpp and the streams it hands out:         *)
(* ChunkedWriter, ContentLengthWriter and BufferedContentLengthWriter.     *)
(* The handler is the user's and calls what it likes in any order; then    *)
(* HttpConnection closes the response, unless the handler has thrown, and  *)
(* the destructors run.                                                    *)
(***************************************************************************)
EXTENDS Integers, Sequences

CONSTANTS
    Lengths,    \* the content lengths handlers announce
    Sizes,      \* how much they write at a time
    MaxCalls,   \* bound: how many calls a handler makes
    Failures    \* whether the socket may fail

ASSUME ResponseAssumption ==
    /\ Lengths \subseteq Nat /\ Sizes \subseteq Nat
    /\ MaxCalls \in Nat /\ Failures \in BOOLEAN

VARIABLES
    version,
    status,          \* what setStatus was called with: "unset", "good" or "bad"
    headers,         \* <<name, length>> pairs
    respStatus,
    httpOutputStream,\* "null" or which of the three writers
    left,            \* ContentLengthWriter: length
    initialised,     \* the writers whose init has been called
    closed,          \* ... and the ones whose `closed' is set
    contentBuffer,   \* BufferedContentLengthWriter: how much it holds
    broken,          \* the socket has failed, and will again
    wire,            \* what has been written to it
    phase,           \* "handler", "returned" or "destroyed"
    calls,           \* how many calls the handler has made
    result,          \* what HttpConnection's close() returned
    holds,           \* history: the handler has got the stream
    given,           \* history: how much it wrote with result Ok
    ended,           \* history: what its close of the stream returned, or "open"
    careless,        \* history: what it did that no call refused
    unanswered       \* history: getOutputStream failed

vars == <<version, status, headers, respStatus, httpOutputStream, left, initialised, closed,
          contentBuffer, broken, wire, phase, calls, result, holds, given, ended, careless, unanswered>>

HeaderNames == {"Content-Length", "bad Content-Length", "chunked", "identity", "other"}

\* A piece of the response: a head with its headers, raw content, a chunk or the
\* last chunk.
HeadPiece(hs) == [kind |-> "head", n |-> 0, headers |-> hs]
Piece(k, m) == [kind |-> k, n |-> m, headers |-> << >>]

Init ==
    /\ version \in {"1.0", "1.1"}
    /\ status = "unset" /\ headers = << >>
    /\ respStatus = "HEADERS" /\ httpOutputStream = "null"
    /\ left = 0 /\ initialised = {} /\ closed = {} /\ contentBuffer = 0
    /\ broken = FALSE /\ wire = << >>
    /\ phase = "handler" /\ calls = 0 /\ result = "none"
    /\ holds = FALSE /\ given = 0 /\ ended = "open" /\ careless = {} /\ unanswered = FALSE

\* A write to the socket, which is done when it returns Ok.
Send(pieces, err) ==
    \/ ~broken /\ err = "Ok" /\ wire' = wire \o pieces /\ UNCHANGED broken
    \/ Failures /\ err = "IoError" /\ broken' = TRUE /\ UNCHANGED wire

Silent == UNCHANGED <<broken, wire>>

Call ==
    /\ phase = "handler" /\ calls < MaxCalls
    /\ calls' = calls + 1
    /\ UNCHANGED <<version, phase, result>>

-----------------------------------------------------------------------------
(* setStatus and addHeader, which look at nothing.                         *)

setStatus(s) ==
    /\ Call
    /\ status' = s
    /\ UNCHANGED <<headers, respStatus, httpOutputStream, left, initialised, closed, contentBuffer,
                   broken, wire, holds, given, ended, careless, unanswered>>

\* A header that comes after the response was begun is lost, or is written by a
\* BufferedContentLengthWriter without having been looked at.
addHeader(h) ==
    /\ Call
    /\ headers' = Append(headers, h)
    /\ careless' = IF respStatus = "HEADERS" THEN careless ELSE careless \cup {"lateHeader"}
    /\ UNCHANGED <<status, respStatus, httpOutputStream, left, initialised, closed, contentBuffer,
                   broken, wire, holds, given, ended, unanswered>>

-----------------------------------------------------------------------------
(* parseHeaders and writeHeadersAndBody                                    *)

Indices(hs, names) == {i \in DOMAIN hs : hs[i][1] \in names}
LengthHeaders(hs) == Indices(hs, {"Content-Length"})
Encodings(hs) == Indices(hs, {"chunked", "identity"})

InvalidHeader ==
    \/ status # "good"
    \/ Indices(headers, {"bad Content-Length"}) # {}
    \/ \E i, j \in LengthHeaders(headers) : i # j
    \/ version = "1.0" /\ Encodings(headers) # {}

setContentLength == LengthHeaders(headers) # {}
contentLength == headers[CHOOSE i \in LengthHeaders(headers) : TRUE][2]

\* The last of the encodings counts.
EndsChunked(hs) == \E i \in Indices(hs, {"chunked"}) : \A j \in Encodings(hs) : j <= i
setTeChunked == EndsChunked(headers)

\* The stream that the headers ask for.
Chosen == IF setContentLength THEN "length" ELSE IF setTeChunked THEN "chunked" ELSE "null"

parseHeaders ==
    /\ left' = IF setContentLength THEN contentLength ELSE left
    /\ careless' = IF setContentLength /\ setTeChunked THEN careless \cup {"both"} ELSE careless

writeHeaders(hs, err) == Send(<<HeadPiece(hs)>>, err)

-----------------------------------------------------------------------------
\* The first call that gets this far: the headers are sent, or their sending is
\* left to a BufferedContentLengthWriter.
BeginBody ==
    /\ httpOutputStream = "null" /\ respStatus = "HEADERS"
    /\ ~InvalidHeader
    /\ respStatus' = "CLOSED"
    /\ parseHeaders
    /\ \/ /\ Chosen # "null"
          /\ httpOutputStream' = Chosen
          /\ initialised' = initialised \cup {Chosen}
          /\ \E err \in {"Ok", "IoError"} :
               writeHeaders(headers, err) /\ holds' = (err = "Ok") /\ unanswered' = (err # "Ok")
          /\ UNCHANGED headers
       \/ /\ Chosen = "null" /\ version = "1.0"
          /\ httpOutputStream' = "buffered"
          /\ initialised' = initialised \cup {"buffered"}
          /\ holds' = TRUE
          /\ Silent
          /\ UNCHANGED <<headers, unanswered>>
       \/ /\ Chosen = "null" /\ version = "1.1"
          /\ headers' = Append(headers, <<"chunked", 0>>)
          /\ httpOutputStream' = "chunked"
          /\ initialised' = initialised \cup {"chunked"}
          /\ \E err \in {"Ok", "IoError"} :
               writeHeaders(headers', err) /\ holds' = (err = "Ok") /\ unanswered' = (err # "Ok")

getOutputStream ==
    /\ Call
    /\ \/ /\ httpOutputStream # "null"
          /\ holds' = TRUE
          /\ Silent
          /\ UNCHANGED <<headers, respStatus, httpOutputStream, left, initialised, careless, unanswered>>
       \/ /\ httpOutputStream = "null" /\ (respStatus = "CLOSED" \/ InvalidHeader)
          /\ respStatus' = "CLOSED"
          /\ unanswered' = (unanswered \/ respStatus = "HEADERS")
          /\ Silent
          /\ UNCHANGED <<headers, httpOutputStream, left, initialised, holds, careless>>
       \/ BeginBody
    /\ UNCHANGED <<status, closed, contentBuffer, given, ended>>

\* Mutant: the headers are left for somebody else to write.
doCloseUnwritten(err) ==
    /\ respStatus' = "CLOSED"
    /\ err = "Ok"
    /\ Silent
    /\ UNCHANGED <<httpOutputStream, left, initialised, careless>>

\* HttpResponseImpl::close, called by the handler or by HttpConnection.
doClose(err) ==
    /\ respStatus' = "CLOSED"
    /\ \/ /\ respStatus = "CLOSED" \/ InvalidHeader
          /\ err = IF respStatus = "CLOSED" THEN "Ok" ELSE "InvalidHeader"
          /\ Silent
          /\ UNCHANGED <<httpOutputStream, left, initialised, careless>>
       \/ /\ respStatus = "HEADERS" /\ ~InvalidHeader
          /\ parseHeaders
          /\ httpOutputStream' = Chosen
          /\ initialised' = IF Chosen = "null" THEN initialised ELSE initialised \cup {Chosen}
          /\ writeHeaders(headers, err)

HandlerClosesResponse ==
    /\ Call
    /\ \E err \in {"Ok", "IoError", "InvalidHeader"} :
         doClose(err) /\ unanswered' = (unanswered \/ err # "Ok")
    /\ UNCHANGED <<status, headers, closed, contentBuffer, holds, given, ended>>

-----------------------------------------------------------------------------
(* The streams                                                             *)

\* Mutant: a chunk of no bytes, which is the last one.
ChunkOfEmpty(n) == <<Piece(IF n = 0 THEN "last" ELSE "chunk", n)>>

ChunkOf(n) == IF n = 0 THEN << >> ELSE <<Piece("chunk", n)>>

writeChunk(n, err) ==
    /\ httpOutputStream = "chunked"
    /\ IF ChunkOf(n) = << >> THEN err = "Ok" /\ Silent ELSE Send(ChunkOf(n), err)
    /\ UNCHANGED <<left, contentBuffer>>

\* Mutant: off by one.
ExceedsByMore(n) == n > left + 1

Exceeds(n) == n > left

writeLength(n, err) ==
    /\ httpOutputStream = "length"
    /\ \/ /\ Exceeds(n)
          /\ err = "ContentLengthExceeded"
          /\ Silent
          /\ UNCHANGED left
       \/ /\ ~Exceeds(n)
          /\ Send(<<Piece("data", n)>>, err)
          /\ left' = IF err = "Ok" THEN left - n ELSE left
    /\ UNCHANGED contentBuffer

writeBuffered(n, err) ==
    /\ httpOutputStream = "buffered"
    /\ IF "buffered" \in closed
         THEN err = "StreamClosed" /\ UNCHANGED contentBuffer
         ELSE err = "Ok" /\ contentBuffer' = contentBuffer + n
    /\ Silent
    /\ UNCHANGED left

write(n) ==
    /\ Call
    /\ holds
    /\ \E err \in {"Ok", "IoError", "ContentLengthExceeded", "StreamClosed"} :
         /\ writeChunk(n, err) \/ writeLength(n, err) \/ writeBuffered(n, err)
         /\ given' = IF err = "Ok" THEN given + n ELSE given
    /\ careless' = IF httpOutputStream = "chunked" /\ "chunked" \in closed
                     THEN careless \cup {"lateWrite"} ELSE careless
    /\ UNCHANGED <<status, headers, respStatus, httpOutputStream, initialised, closed, holds, ended, unanswered>>

\* The length header, and its content, of a response that has any.
BufferedResponse ==
    IF contentBuffer = 0 THEN <<HeadPiece(headers)>>
    ELSE <<HeadPiece(Append(headers, <<"Content-Length", contentBuffer>>)), Piece("data", contentBuffer)>>

closeWriter(err) ==
    \/ /\ httpOutputStream = "chunked"
       /\ IF "chunked" \in closed THEN err = "Ok" /\ Silent ELSE Send(<<Piece("last", 0)>>, err)
       /\ closed' = closed \cup {"chunked"}
    \/ httpOutputStream = "length" /\ err = "Ok" /\ Silent /\ UNCHANGED closed
    \/ /\ httpOutputStream = "buffered"
       /\ IF "buffered" \in closed THEN err = "StreamClosed" /\ Silent ELSE Send(BufferedResponse, err)
       /\ closed' = closed \cup {"buffered"}

closeStream ==
    /\ Call
    /\ holds
    /\ \E err \in {"Ok", "IoError", "StreamClosed"} :
         closeWriter(err) /\ ended' = IF ended = "open" THEN err ELSE ended
    /\ UNCHANGED <<status, headers, respStatus, httpOutputStream, left, initialised, contentBuffer,
                   holds, given, careless, unanswered>>

-----------------------------------------------------------------------------
HandlerReturns ==
    /\ phase = "handler"
    /\ phase' = "returned"
    /\ \E err \in {"Ok", "IoError", "InvalidHeader"} : doClose(err) /\ result' = err
    /\ UNCHANGED <<version, status, headers, closed, contentBuffer, calls, holds, given, ended, unanswered>>

\* Mutant: a chunked stream is not closed.
DestroyWritersQuietly == Silent

\* The writers in the order of their destruction.  A BufferedContentLengthWriter
\* that is still open writes the response with a status text and headers that
\* have been destroyed before it: anything may be sent, or the process dies.
DestroyWriters ==
    \/ "chunked" \in initialised \ closed /\ (\E err \in {"Ok", "IoError"} : Send(<<Piece("last", 0)>>, err))
    \/ "buffered" \in initialised \ closed /\ (\E err \in {"Ok", "IoError"} : Send(<<Piece("garbage", 0)>>, err))
    \/ initialised \ closed \subseteq {"length"} /\ Silent

\* The end of HttpConnection's scope, or the handler has thrown.
Destroy ==
    /\ phase \in {"handler", "returned"}
    /\ phase' = "destroyed"
    /\ DestroyWriters
    /\ UNCHANGED <<version, status, headers, respStatus, httpOutputStream, left, initialised, closed,
                   contentBuffer, calls, result, holds, given, ended, careless, unanswered>>

HeaderChoices == {<<"Content-Length", n>> : n \in Lengths} \cup {<<h, 0>> : h \in HeaderNames \ {"Content-Length"}}

Next ==
    \/ \E s \in {"good", "bad"} : setStatus(s)
    \/ \E h \in HeaderChoices : addHeader(h)
    \/ getOutputStream \/ HandlerClosesResponse
    \/ \E n \in Sizes : write(n)
    \/ closeStream \/ HandlerReturns \/ Destroy

Spec == Init /\ [][Next]_vars

-----------------------------------------------------------------------------
Pieces == [kind : {"head", "data", "chunk", "last", "garbage"}, n : Nat, headers : Seq(HeaderNames \X Nat)]

\* The variables have their types; in particular the length that is left does
\* not wrap.
TypeOK ==
    /\ version \in {"1.0", "1.1"} /\ status \in {"unset", "good", "bad"}
    /\ headers \in Seq(HeaderNames \X Nat)
    /\ respStatus \in {"HEADERS", "CLOSED"}
    /\ httpOutputStream \in {"null", "length", "chunked", "buffered"}
    /\ left \in Nat /\ contentBuffer \in Nat
    /\ initialised \subseteq {"length", "chunked", "buffered"} /\ closed \subseteq initialised
    /\ broken \in BOOLEAN
    /\ wire \in Seq(Pieces)
    /\ phase \in {"handler", "returned", "destroyed"} /\ calls \in 0 .. MaxCalls
    /\ result \in {"none", "Ok", "IoError", "InvalidHeader"}
    /\ holds \in BOOLEAN /\ given \in Nat
    /\ ended \in {"open", "Ok", "IoError", "StreamClosed"}
    /\ careless \subseteq {"both", "lateHeader", "lateWrite"} /\ unanswered \in BOOLEAN

Body == 2 .. Len(wire)
Kinds == {wire[i].kind : i \in 1 .. Len(wire)}

\* How much content the client has got.
Content(pieces) ==
    LET sum[i \in 0 .. Len(pieces)] == IF i = 0 THEN 0 ELSE sum[i - 1] + pieces[i].n
    IN sum[Len(pieces)]
Received == Content(wire)

\* The handler has done nothing of which the code does not tell it that it is
\* wrong: both framings, headers behind the head, content behind its end, or an
\* HTTP/1.0 stream left to the destructor.
Careful == careless = {} /\ "garbage" \notin Kinds

\* What the client gets is one head and then content framed as the head says, and
\* no more of it, after any calls in any order.
FramedAsHeaders ==
    Careful /\ wire # << >> =>
        /\ \A i \in 1 .. Len(wire) : (wire[i].kind = "head") = (i = 1)
        /\ IF EndsChunked(wire[1].headers)
             THEN \A i \in Body : wire[i].kind = "chunk" \/ (wire[i].kind = "last" /\ i = Len(wire))
             ELSE IF LengthHeaders(wire[1].headers) # {}
               THEN /\ \E i \in DOMAIN wire[1].headers :
                          LengthHeaders(wire[1].headers) = {i} /\ Received <= wire[1].headers[i][2]
                    /\ \A i \in Body : wire[i].kind = "data"
               ELSE Body = {}

\* The variables keep their types, the length that is left among them, and the
\* wire is framed as its head says.
AnswerFramed == TypeOK /\ FramedAsHeaders

\* All that was written with result Ok has been sent, and chunks have got their last
\* one, as soon as a close of the stream has returned Ok, and in the end also when
\* the handler has not closed it.
DeliveredComplete ==
    (phase = "destroyed" \/ ended = "Ok") /\ ~broken /\ Careful =>
        /\ Received = given
        /\ wire # << >> /\ EndsChunked(wire[1].headers) => wire[Len(wire)].kind = "last"

\* When close() tells HttpConnection that all is well, the client has got a head or
\* will get it from a destructor, unless the handler was told that it has failed.
OkIsAnswered ==
    phase = "returned" /\ result = "Ok" /\ ~broken =>
        wire # << >> \/ "buffered" \in initialised \ closed \/ unanswered
=============================================================================
