---------------------------- MODULE BodyReaders ----------------------------
(***************************************************************************)
(* The input streams of a request: ChunkedReader.cpp, ContentLength-       *)
(* Reader.cpp and NullReader.cpp in src/src/http.  A call of a             *)
(* ChunkedReader makes many calls of the BufferedReader, each of which may *)
(* fail; a step is from one of them to the next.                           *)
(***************************************************************************)
EXTENDS RequestStream

CONSTANTS
    Range32,       \* 2^32: the cast of the length to uint32_t
    BufferLens     \* the lengths of the buffers handlers read into

ASSUME BufferAssumption == Range32 \in Nat \ {0} /\ BufferLens \subseteq Nat

DiscardLen == 2    \* sizeof(discardBuffer), 1024 in the code

VARIABLES
    reader,        \* which of the three the request has
    contentLength, \* what is left of a ContentLengthReader's length
    chunkedState, curLength,
    call,          \* "none", "read" or, in its inner loop, "trailers"
    closing,       \* the call is made by ChunkedReader::close
    room,          \* bufferLen
    got,           \* the units in the caller's buffer
    ret            \* what the last call returned

readerVars == <<reader, contentLength, chunkedState, curLength, call, closing, room, got, ret>>

Result(err, units) == [err |-> err, units |-> units]

InitReaders ==
    /\ reader = "null" /\ contentLength = 0
    /\ chunkedState = "Length" /\ curLength = 0
    /\ call = "none" /\ closing = FALSE /\ room = 0
    /\ got = << >> /\ ret = Result("Ok", << >>)

\* The reader of a new request.
NewReader(r, length) ==
    /\ reader' = r /\ contentLength' = length
    /\ chunkedState' = "Length" /\ curLength' = 0
    /\ ret' = Result("Ok", << >>)
    /\ UNCHANGED <<call, closing, room, got>>

-----------------------------------------------------------------------------
(* NullReader and ContentLengthReader.                                     *)

Answer(err, units) ==
    /\ ret' = Result(err, units)
    /\ UNCHANGED <<reader, chunkedState, curLength, call, closing, room, got>>

readNull ==
    /\ reader = "null"
    /\ Answer("Eof", << >>)
    /\ UNCHANGED <<contentLength, streamVars>>

\* Mutant: the end of the content is not noticed.
LengthEndedNever == FALSE

LengthEnded == contentLength = 0

\* Mutant: as much as fits the buffer.
ReadLenUncapped(n) == n

ReadLen(n) ==
    LET c == contentLength % Range32
    IN  IF c < n THEN c ELSE n

\* A read of 0 bytes returns 0 bytes, or waits for the socket to end or fail.
readLength(n) ==
    /\ reader = "length"
    /\ IF LengthEnded
         THEN Answer("Eof", << >>) /\ UNCHANGED <<contentLength, streamVars>>
         ELSE \/ /\ ReadLen(n) = 0
                 /\ Answer("Ok", << >>)
                 /\ UNCHANGED <<contentLength, streamVars>>
              \/ \E m \in Readable(ReadLen(n)) :
                    /\ Answer("Ok", Units(m))
                    /\ contentLength' = contentLength - m
                    /\ Advance(m)
              \/ \E err \in {"Eof", "IoError"} :
                    /\ ReadFails(err)
                    /\ Answer(err, << >>)
                    /\ UNCHANGED <<contentLength, streamVars>>

\* Neither of the two does anything to close.
closeOther ==
    /\ reader # "chunked"
    /\ Answer("Ok", << >>)
    /\ UNCHANGED <<contentLength, streamVars>>

-----------------------------------------------------------------------------
(* ChunkedReader.                                                          *)

EnterChunked(n, c) ==
    /\ reader = "chunked"
    /\ IF chunkedState = "Eof"
         THEN /\ ret' = Result(IF c THEN "Ok" ELSE "Eof", << >>)
              /\ UNCHANGED <<call, closing, room, got>>
         ELSE /\ call' = "read" /\ closing' = c
              /\ room' = n /\ got' = << >>
              /\ UNCHANGED ret
    /\ UNCHANGED <<reader, contentLength, chunkedState, curLength, streamVars>>

readChunked(n) == EnterChunked(n, FALSE)
closeChunked == EnterChunked(DiscardLen, TRUE)

\* read returns; close reads on unless it got an error or the last of it.
ReturnChunked(err, units) ==
    /\ IF closing /\ err = "Ok" /\ chunkedState' # "Eof"
         THEN call' = "read" /\ room' = DiscardLen /\ UNCHANGED <<closing, ret>>
         ELSE call' = "none" /\ room' = 0 /\ closing' = FALSE
              /\ ret' = Result(err, IF closing THEN << >> ELSE units)
    /\ got' = << >>
    /\ UNCHANGED <<reader, contentLength>>

\* An error returns 0 bytes, whatever the buffer holds by then.
FailChunked(err) ==
    /\ ReturnChunked(err, << >>)
    /\ UNCHANGED <<chunkedState, curLength>>

GoOn == UNCHANGED <<reader, contentLength, closing, ret>>

\* The end of a chunk is read even when the buffer is full, but not in a call
\* that begins with no room at all.
AtDataEol == call = "read" /\ chunkedState = "DataEol" /\ (room > 0 \/ got # << >>)

\* One of the reads of a line failed.
ChunkedLineFails ==
    /\ \/ call = "read" /\ room > 0 /\ chunkedState = "Length"
       \/ AtDataEol
       \/ call = "trailers"
    /\ \E err \in {"Eof", "IoError", "LineTooLong"} : LineFails(err) /\ FailChunked(err)
    /\ UNCHANGED streamVars

ReadLengthLine ==
    /\ call = "read" /\ room > 0 /\ chunkedState = "Length"
    /\ LineRead
    /\ IF NextLine.kind # "chunk"
         THEN FailChunked("ClientError")
         ELSE /\ curLength' = NextLine.n
              /\ IF NextLine.n = 0
                   THEN call' = "trailers" /\ UNCHANGED chunkedState
                   ELSE chunkedState' = "Data" /\ UNCHANGED call
              /\ UNCHANGED <<room, got>>
              /\ GoOn

\* Mutant: there is just one line behind the last chunk.
EndsTrailersAlways(line) == TRUE

EndsTrailers(line) == line.kind = "blank"

\* Lines up to a blank one are skipped.  With no data before them the call
\* returns Eof, otherwise the data.
ReadTrailer ==
    /\ call = "trailers"
    /\ LineRead
    /\ UNCHANGED curLength
    /\ IF ~EndsTrailers(NextLine)
         THEN UNCHANGED <<chunkedState, call, room, got>> /\ GoOn
         ELSE /\ chunkedState' = "Eof"
              /\ ReturnChunked(IF got = << >> THEN "Eof" ELSE "Ok", got)

AfterData(left) == IF left = 0 THEN "DataEol" ELSE "Data"

\* Mutant: as much as fits the buffer.
BytesReadableUncapped == room

BytesReadable == IF curLength < room THEN curLength ELSE room

ReadData ==
    /\ call = "read" /\ room > 0 /\ chunkedState = "Data"
    /\ \E m \in Readable(BytesReadable) :
         /\ got' = got \o Units(m)
         /\ room' = room - m
         /\ curLength' = curLength - m
         /\ chunkedState' = AfterData(curLength - m)
         /\ Advance(m)
    /\ UNCHANGED call
    /\ GoOn

ReadDataFails ==
    /\ call = "read" /\ room > 0 /\ chunkedState = "Data"
    /\ \E err \in {"Eof", "IoError"} : ReadFails(err) /\ FailChunked(err)
    /\ UNCHANGED streamVars

ReadDataEol ==
    /\ AtDataEol
    /\ LineRead
    /\ IF NextLine.kind # "blank"
         THEN FailChunked("ClientError")
         ELSE chunkedState' = "Length" /\ UNCHANGED <<curLength, call, room, got>> /\ GoOn

ReturnFull ==
    /\ call = "read" /\ room = 0
    /\ ~AtDataEol
    /\ UNCHANGED <<chunkedState, curLength, streamVars>>
    /\ ReturnChunked("Ok", got)

ReaderStep ==
    \/ ChunkedLineFails \/ ReadLengthLine \/ ReadTrailer \/ ReadData
    \/ ReadDataFails \/ ReadDataEol \/ ReturnFull
=============================================================================
