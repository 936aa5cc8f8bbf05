--------------------------- MODULE BufferedReader ---------------------------
(***************************************************************************)
(* src/src/http/BufferedReader.cpp: one buffer between a StreamSource and  *)
(* the callers that read lines, fixed lengths and whatever there is, and   *)
(* look ahead.  A call runs from a socket read to the next one in a step,  *)
(* so every way the bytes can be cut into socket reads is a behaviour.     *)
(***************************************************************************)
EXTENDS Stream

VARIABLES
    buffer,      \* buffer[i] is the stream position of the byte it holds
    bufferLen, startIndex, endIndex,
    received,    \* how many bytes the socket has handed over
    consumed,    \* how many of them the calls so far have consumed
    pc,          \* where the call in progress is
    op, arg, pattern,  \* which call it is, its length and its expectedData
    base,        \* `consumed' when it began
    len,         \* its destBufferLen or discardBytes, counted down by the code
    index,       \* its searchIndex (readLine) or checkIndex (peekMatch)
    dest,        \* its destBuffer, holding stream positions too
    ret          \* what the last call returned

bufferVars == <<buffer, bufferLen, startIndex, endIndex>>
callVars == <<op, arg, pattern, base>>
vars == <<buffer, bufferLen, startIndex, endIndex, received, consumed,
          pc, op, arg, pattern, base, len, index, dest, ret>>

\* A cell of `new char[]' nobody has written to.
NoByte == -1
Cell == {NoByte} \cup 0 .. (N - 1)
Errors == {"Ok", "Eof", "IoError", "LineTooLong"}
Waiting == {"readSocket", "lineSocket", "peekSocket", "discardSocket"}

available == Wrap(endIndex - startIndex)

checkedDouble(v) == IF v >= HalfRange THEN UintMax ELSE 2 * v

\* new char[n] with the old bytes copied to its front, as both resizes do.
Grown(n) ==
    [i \in 0 .. (n - 1) |-> IF i < bufferLen THEN buffer[i] ELSE NoByte]

\* Mutant: the unread bytes are not moved, only the indices are.
NotMoved(b) == b

\* std::memmove of the unread bytes to the front; what was behind them stays.
MovedToFront(b) ==
    [i \in DOMAIN b |-> IF i < available THEN b[startIndex + i] ELSE b[i]]

\* The next k bytes of the stream, stored from offset at.
Store(b, at, k) ==
    [i \in DOMAIN b |-> IF i >= at /\ i < at + k THEN received + (i - at) ELSE b[i]]

\* A socket read with room for n bytes hands over some of those that are left.
Arriving(n) == 1 .. MinOf(n, N - received)

Result(e, m, from, n) == [err |-> e, match |-> m, from |-> from, count |-> n]

Return(e) ==
    /\ pc' = "idle"
    /\ ret' = Result(e, FALSE, 0, 0)

Enter(o, n, s, label) ==
    /\ pc = "idle"
    /\ pc' = label
    /\ op' = o /\ arg' = n /\ pattern' = s
    /\ base' = consumed
    /\ len' = n

init ==
    /\ buffer = [i \in 0 .. (InitialBufferSize - 1) |-> NoByte]
    /\ bufferLen = InitialBufferSize
    /\ startIndex = 0
    /\ endIndex = 0

Init ==
    /\ init
    /\ received = 0
    /\ consumed = 0
    /\ pc = "idle"
    /\ op = "none" /\ arg = 0 /\ pattern = << >> /\ base = 0
    /\ len = 0
    /\ index = 0
    /\ dest = NoBytes
    /\ ret = Result("Ok", FALSE, 0, 0)

-----------------------------------------------------------------------------
(* read and readFixedLength, which calls read until its buffer is full.    *)

EnterRead(o, n) ==
    /\ Enter(o, n, << >>, "read")
    /\ dest' = [i \in 0 .. (n - 1) |-> NoByte]
    /\ UNCHANGED <<bufferVars, received, consumed, index, ret>>

read(n) == EnterRead("read", n)
readFixedLength(n) == EnterRead("fixed", n)

\* What read does with the c bytes it has put into destBuffer: it returns, and
\* the loop of readFixedLength advances over them.
Copied(c) ==
    /\ len' = len - c
    /\ consumed' = consumed + c
    /\ IF op = "read"
         THEN pc' = "idle" /\ ret' = Result("Ok", FALSE, 0, c)
         ELSE pc' = "read" /\ UNCHANGED ret

ReadBuffered ==
    /\ pc = "read"
    /\ op = "read" \/ len > 0
    /\ available # 0
    /\ LET c == MinOf(available, len)
           at == consumed - base
       IN  /\ dest' = [i \in DOMAIN dest |->
                         IF i >= at /\ i < at + c THEN buffer[startIndex + (i - at)] ELSE dest[i]]
           /\ startIndex' = startIndex + c
           /\ Copied(c)
    /\ UNCHANGED <<buffer, bufferLen, endIndex, received, callVars, index>>

ReadVectored ==
    /\ pc = "read"
    /\ op = "read" \/ len > 0
    /\ available = 0
    /\ startIndex' = 0
    /\ endIndex' = 0
    /\ pc' = "readSocket"
    /\ UNCHANGED <<buffer, bufferLen, received, consumed, callVars, len, index, dest, ret>>

\* readv fills destBuffer first and the internal buffer with the rest.
ReadArrive ==
    /\ pc = "readSocket"
    /\ \E k \in Arriving(len + bufferLen) :
         LET direct == MinOf(k, len)
             at == consumed - base
         IN  /\ dest' = Store(dest, at, direct)
             /\ buffer' = [i \in DOMAIN buffer |->
                             IF i < k - direct THEN received + direct + i ELSE buffer[i]]
             /\ endIndex' = k - direct
             /\ received' = received + k
             /\ Copied(direct)
    /\ UNCHANGED <<bufferLen, startIndex, callVars, index>>

FixedDone ==
    /\ pc = "read"
    /\ op = "fixed"
    /\ len = 0
    /\ Return("Ok")
    /\ UNCHANGED <<bufferVars, received, consumed, callVars, len, index, dest>>

-----------------------------------------------------------------------------
(* readLine                                                                *)

readLine(maxLength) ==
    /\ Enter("line", maxLength, << >>, "line")
    /\ index' = startIndex
    /\ dest' = NoBytes
    /\ UNCHANGED <<bufferVars, received, consumed, ret>>

IsNewline(i) == Char(buffer[i]) = LF
FoundLineEnd == \E i \in index .. (endIndex - 1) : IsNewline(i)

\* The byte before the newline is looked at wherever the line began.
LineEndIndex(i) == IF i # 0 /\ Char(buffer[i - 1]) = CR THEN i - 1 ELSE i

LineFound ==
    /\ pc = "line"
    /\ \E i \in index .. (endIndex - 1) :
         /\ IsNewline(i)
         /\ \A j \in index .. (i - 1) : ~IsNewline(j)
         /\ startIndex' = i + 1
         /\ consumed' = consumed + (i + 1 - startIndex)
         /\ ret' = Result("Ok", FALSE, startIndex, Wrap(LineEndIndex(i) - startIndex))
    /\ pc' = "idle"
    /\ UNCHANGED <<buffer, bufferLen, endIndex, received, callVars, len, index, dest>>

\* Mutant: searchIndex is not adjusted to the move.
StaleSearchIndex == endIndex

MovedSearchIndex == endIndex - startIndex

LineMove ==
    /\ pc = "line"
    /\ ~FoundLineEnd
    /\ startIndex # 0
    /\ buffer' = MovedToFront(buffer)
    /\ index' = MovedSearchIndex
    /\ startIndex' = 0
    /\ endIndex' = available
    /\ pc' = "lineSocket"
    /\ UNCHANGED <<bufferLen, received, consumed, callVars, len, dest, ret>>

AtLimit == bufferLen >= arg

LineTooLong ==
    /\ pc = "line"
    /\ ~FoundLineEnd
    /\ startIndex = 0 /\ endIndex = bufferLen
    /\ AtLimit
    /\ Return("LineTooLong")
    /\ UNCHANGED <<bufferVars, received, consumed, callVars, len, index, dest>>

\* Mutant: the caller's limit does not stop the doubling.
NewBufferLenUnlimited == checkedDouble(bufferLen)

NewBufferLen == MinOf(checkedDouble(bufferLen), Wrap(arg + 2))

LineGrow ==
    /\ pc = "line"
    /\ ~FoundLineEnd
    /\ startIndex = 0 /\ endIndex = bufferLen
    /\ ~AtLimit
    /\ buffer' = Grown(NewBufferLen)
    /\ bufferLen' = NewBufferLen
    /\ index' = endIndex
    /\ pc' = "lineSocket"
    /\ UNCHANGED <<startIndex, endIndex, received, consumed, callVars, len, dest, ret>>

LineMore ==
    /\ pc = "line"
    /\ ~FoundLineEnd
    /\ startIndex = 0 /\ endIndex # bufferLen
    /\ index' = endIndex
    /\ pc' = "lineSocket"
    /\ UNCHANGED <<bufferVars, received, consumed, callVars, len, dest, ret>>

LineArrive ==
    /\ pc = "lineSocket"
    /\ \E k \in Arriving(bufferLen - endIndex) :
         /\ buffer' = Store(buffer, endIndex, k)
         /\ endIndex' = endIndex + k
         /\ received' = received + k
    /\ pc' = "line"
    /\ UNCHANGED <<bufferLen, startIndex, consumed, callVars, len, index, dest, ret>>

\* What is left when the stream ends counts as a line.
LineEof ==
    /\ pc = "lineSocket"
    /\ received = N
    /\ startIndex # endIndex
    /\ startIndex' = 0
    /\ endIndex' = 0
    /\ consumed' = consumed + available
    /\ ret' = Result("Ok", FALSE, startIndex, Wrap(available))
    /\ pc' = "idle"
    /\ UNCHANGED <<buffer, bufferLen, received, callVars, len, index, dest>>

-----------------------------------------------------------------------------
(* peekMatch                                                               *)

\* std::memcmp of n bytes of b from offset at with the pattern from offset k.
Matches(b, at, s, k, n) == \A i \in 0 .. (n - 1) : Char(b[at + i]) = s[k + i + 1]

\* Mutant: the last byte is not waited for.
PeekWantsAllButOne(end, n) == end + 1 < n

\* The test of the loop: it compares the end of the data, not its length.
PeekWantsMore(end, n) == end < n

peekMatch(s) ==
    /\ Enter("peek", Len(s), s, "peek")
    /\ dest' = NoBytes
    /\ UNCHANGED <<bufferVars, received, consumed, index, ret>>

\* The buffer is made large enough, the unread bytes are moved if they are too
\* far to the back of it, and compared.
PeekBuffered ==
    LET n        == arg
        newLen   == IF n > bufferLen THEN checkedDouble(n) ELSE bufferLen
        resized  == IF n > bufferLen THEN Grown(newLen) ELSE buffer
        move     == newLen - startIndex < n
        end      == IF move THEN available ELSE endIndex
        amount   == MinOf(available, n)
        match    == Matches(buffer, startIndex, pattern, 0, amount)
        more     == match /\ PeekWantsMore(end, n)
    IN  /\ pc = "peek"
        /\ buffer' = IF move THEN MovedToFront(resized) ELSE resized
        /\ bufferLen' = newLen
        /\ startIndex' = IF move THEN 0 ELSE startIndex
        /\ endIndex' = end
        /\ index' = amount
        /\ pc' = IF more THEN "peekSocket" ELSE "idle"
        /\ ret' = IF more THEN ret ELSE Result("Ok", match, 0, 0)
        /\ UNCHANGED <<received, consumed, callVars, len, dest>>

PeekArrive ==
    /\ pc = "peekSocket"
    /\ \E k \in Arriving(bufferLen - endIndex) :
         LET b     == Store(buffer, endIndex, k)
             amount == MinOf(k, arg - index)
             match == Matches(b, endIndex, pattern, index, amount)
             more  == match /\ PeekWantsMore(endIndex + k, arg)
         IN  /\ buffer' = b
             /\ endIndex' = endIndex + k
             /\ received' = received + k
             /\ index' = IF match THEN index + amount ELSE index
             /\ pc' = IF more THEN "peekSocket" ELSE "idle"
             /\ ret' = IF more THEN ret ELSE Result("Ok", match, 0, 0)
    /\ UNCHANGED <<bufferLen, startIndex, consumed, callVars, len, dest>>

-----------------------------------------------------------------------------
(* discard                                                                 *)

discard(n) ==
    /\ Enter("discard", n, << >>, "discard")
    /\ dest' = NoBytes
    /\ UNCHANGED <<bufferVars, received, consumed, index, ret>>

DiscardDone ==
    /\ pc = "discard"
    /\ available > 0 /\ available > len
    /\ startIndex' = startIndex + len
    /\ consumed' = consumed + len
    /\ Return("Ok")
    /\ UNCHANGED <<buffer, bufferLen, endIndex, received, callVars, len, index, dest>>

\* Mutant: the bytes dropped from the buffer are not counted.
NotCounted == len

StillToDiscard == len - available

DiscardAll ==
    /\ pc = "discard"
    /\ available > 0 /\ available <= len
    /\ len' = StillToDiscard
    /\ consumed' = consumed + available
    /\ startIndex' = 0
    /\ endIndex' = 0
    /\ pc' = "discardSocket"
    /\ UNCHANGED <<buffer, bufferLen, received, callVars, index, dest, ret>>

\* With nothing buffered the indices stay as they are.
DiscardRead ==
    /\ pc = "discard"
    /\ available = 0
    /\ pc' = "discardSocket"
    /\ UNCHANGED <<bufferVars, received, consumed, callVars, len, index, dest, ret>>

\* The socket read goes to the front of the buffer and only endIndex is set.
DiscardArrive ==
    /\ pc = "discardSocket"
    /\ \E k \in Arriving(bufferLen) :
         /\ buffer' = Store(buffer, 0, k)
         /\ endIndex' = k
         /\ received' = received + k
    /\ pc' = "discard"
    /\ UNCHANGED <<bufferLen, startIndex, consumed, callVars, len, index, dest, ret>>

-----------------------------------------------------------------------------
(* StreamSourceSocket turns a read of no bytes into Eof and every error of *)
(* the socket into IoError; all the calls return both to their caller.     *)

\* Mutant: the end of the stream hides the last line.
EofAlways == TRUE

\* At the end of the stream readLine still returns what it has.
EofReturned == pc = "lineSocket" => startIndex = endIndex

\* Mutant: discard does not look at the error and reads again.
SocketEofRetried ==
    /\ pc \in Waiting
    /\ received = N
    /\ EofReturned
    /\ IF pc = "discardSocket" THEN pc' = "discard" /\ UNCHANGED ret ELSE Return("Eof")
    /\ UNCHANGED <<bufferVars, received, consumed, callVars, len, index, dest>>

SocketEof ==
    /\ pc \in Waiting
    /\ received = N
    /\ EofReturned
    /\ Return("Eof")
    /\ UNCHANGED <<bufferVars, received, consumed, callVars, len, index, dest>>

SocketError ==
    /\ pc \in Waiting
    /\ Return("IoError")
    /\ UNCHANGED <<bufferVars, received, consumed, callVars, len, index, dest>>

-----------------------------------------------------------------------------
ReadCall ==
    \/ \E n \in DestLens : read(n) \/ readFixedLength(n)
    \/ \E m \in MaxLengths : readLine(m)
    \/ \E s \in Patterns : peekMatch(s)

DiscardCall == \E n \in DestLens : discard(n)

ReaderStep ==
    \/ ReadBuffered \/ ReadVectored \/ FixedDone
    \/ LineFound \/ LineMove \/ LineTooLong \/ LineGrow \/ LineMore
    \/ PeekBuffered
    \/ DiscardDone \/ DiscardAll \/ DiscardRead

SocketStep ==
    \/ ReadArrive \/ LineArrive \/ LineEof \/ PeekArrive \/ DiscardArrive
    \/ SocketEof \/ SocketError

Next == ReadCall \/ DiscardCall \/ ReaderStep \/ SocketStep

Spec == Init /\ [][Next]_vars

\* discard leaves startIndex alone when nothing is buffered, and then skips
\* that many bytes of the next socket read as well.  Its only caller, the
\* padding of an HTTP/2 HEADERS frame, does nothing to avoid that.  What the
\* reader promises holds for callers that discard only with bytes buffered or
\* the indices at 0.
CarefulDiscardCall == (available = 0 => startIndex = 0) /\ DiscardCall

CarefulNext == ReadCall \/ CarefulDiscardCall \/ ReaderStep \/ SocketStep
CarefulSpec == Init /\ [][CarefulNext]_vars

\* The thread of the connection runs, and the client sends or hangs up.
FairSpec == CarefulSpec /\ WF_vars(ReaderStep) /\ WF_vars(SocketStep)

-----------------------------------------------------------------------------
ResultType == [err : Errors, match : BOOLEAN, from : Nat, count : Nat]

\* The variables have their types: no index is negative, no cell outside the
\* buffer is written, and no byte is made up.
TypeOK ==
    /\ bufferLen \in Nat /\ startIndex \in Nat /\ endIndex \in Nat
    /\ buffer \in [0 .. (bufferLen - 1) -> Cell]
    /\ received \in 0 .. N /\ consumed \in 0 .. N
    /\ pc \in {"idle", "read", "line", "peek", "discard"} \cup Waiting
    /\ op \in {"none", "read", "fixed", "line", "peek", "discard"}
    /\ arg \in Nat /\ pattern \in Patterns \cup {<< >>} /\ base \in 0 .. N
    /\ len \in Nat /\ index \in Nat
    /\ dest \in UNION {[0 .. (n - 1) -> Cell] : n \in {0} \cup DestLens}
    /\ ret \in ResultType

\* The buffer holds exactly the bytes received and not yet consumed, in order:
\* no growing, moving or refilling of the buffer loses, repeats or reorders one.
BufferHoldsUnread ==
    /\ startIndex <= endIndex /\ endIndex <= bufferLen
    /\ received = consumed + (endIndex - startIndex)
    /\ \A i \in startIndex .. (endIndex - 1) : buffer[i] = consumed + (i - startIndex)

\* The socket is never asked for 0 bytes.  It would answer with 0, which
\* StreamSourceSocket reports as the end of the stream.
RoomToRead ==
    /\ pc \in {"lineSocket", "peekSocket"} => endIndex < bufferLen
    /\ pc \in {"readSocket", "discardSocket"} => bufferLen > 0

Returned(o) == pc = "idle" /\ op = o
Ok == ret.err = "Ok"

\* The line readLine returned: the next bytes of the stream, without a newline,
\* followed by "\n" or "\r\n" or, in a last line, by the end of the stream.
LineIsNext ==
    LET n == ret.count
        b == base
    IN  /\ b + n <= consumed
        /\ \A i \in 0 .. (n - 1) : buffer[ret.from + i] = b + i /\ Char(b + i) # LF
        /\ \/ consumed = b + n /\ consumed = N
           \/ /\ consumed = b + n + 1
              /\ Char(b + n) = LF
              /\ n > 0 => Char(b + n - 1) # CR
           \/ /\ consumed = b + n + 2
              /\ Char(b + n) = CR /\ Char(b + n + 1) = LF

\* readLine takes a '\r' that an earlier call has consumed for a part of the line's
\* end, and the length of the empty line before the '\n' then wraps.
AfterCR == /\ base \in 1 .. (N - 1)
           /\ Char(base - 1) = CR /\ Char(base) = LF

\* A line read after other calls is the next line of the stream, unless the byte
\* consumed last is a '\r' and the next one a '\n'.
LineExactUnlessAfterCR == Returned("line") /\ Ok /\ ~AfterCR => LineIsNext

\* readLine gives up only on a line with as many bytes as the caller's limit.
TooLongIsLong ==
    Returned("line") /\ ret.err = "LineTooLong" =>
        /\ consumed + arg <= N
        /\ \A i \in 0 .. (arg - 1) : Char(consumed + i) # LF

\* peekMatch is never wrong in answering false, nor, as long as the unread bytes are at
\* the front of the buffer, in answering true: the first call of a connection.
PeekSound ==
    Returned("peek") /\ Ok =>
        IF ret.match THEN startIndex = 0 => StartsWith(base, pattern)
                     ELSE ~StartsWith(base, pattern)

\* The next unread byte after a discard of n bytes is the one n bytes further on.
DiscardExact ==
    Returned("discard") /\ Ok =>
        /\ consumed = base + arg
        /\ startIndex < endIndex /\ buffer[startIndex] = consumed

\* The buffer grows only as far as a caller's limit makes it.
BufferBounded ==
    \/ bufferLen = InitialBufferSize
    \/ \E m \in MaxLengths : bufferLen <= m + 2
    \/ \E s \in Patterns : bufferLen <= 2 * Len(s)

\* A call returns, once the client has sent what it waits for or hung up.
CallsReturn == pc # "idle" ~> pc = "idle"

\* The bytes in the caller's buffer: the ones its call has copied so far.
Out == [i \in 0 .. (IF op \in {"read", "fixed"} THEN consumed - base - 1 ELSE -1)
          |-> dest[i]]

Promise == INSTANCE ByteStream WITH
    taken <- consumed, busy <- pc # "idle", out <- Out, err <- ret.err

\* Whatever the buffer does, callers see the stream of ByteStream.
ImplementsByteStream == Promise!Spec

-----------------------------------------------------------------------------
(* Why it all holds: what is true of the call in progress at each pc.      *)

BytesBehind == startIndex > 0 => consumed > 0 /\ buffer[startIndex - 1] = consumed - 1

SizesFit ==
    /\ bufferLen \in 1 .. UintMax
    /\ op \in {"read", "fixed", "discard"} => arg \in DestLens
    /\ op = "line" => arg \in MaxLengths
    /\ op = "peek" => pattern \in Patterns /\ arg = Len(pattern)

CopiesInOrder ==
    op \in {"read", "fixed"} =>
        /\ dest \in [0 .. (arg - 1) -> Cell]
        /\ len = arg - (consumed - base)
        /\ \A i \in 0 .. (consumed - base - 1) : dest[i] = base + i

ReadInProgress ==
    pc \in {"read", "readSocket"} =>
        /\ op \in {"read", "fixed"}
        /\ op = "read" => consumed = base
        /\ pc = "readSocket" => startIndex = 0 /\ endIndex = 0 /\ (op = "read" \/ len > 0)

LineInProgress ==
    pc \in {"line", "lineSocket"} =>
        /\ op = "line" /\ consumed = base
        /\ index \in startIndex .. endIndex
        /\ \A i \in startIndex .. (index - 1) : Char(buffer[i]) # LF
        /\ pc = "lineSocket" => startIndex = 0 /\ index = endIndex /\ endIndex < bufferLen

PeekInProgress ==
    pc \in {"peek", "peekSocket"} =>
        /\ op = "peek" /\ consumed = base
        /\ pc = "peekSocket" =>
             /\ endIndex < arg /\ arg <= bufferLen
             /\ index = endIndex - startIndex
             /\ Matches(buffer, startIndex, pattern, 0, index)

DiscardInProgress ==
    pc \in {"discard", "discardSocket"} =>
        /\ op = "discard" /\ len = arg - (consumed - base)
        /\ pc = "discard" /\ startIndex = endIndex => startIndex = 0
        /\ pc = "discardSocket" => startIndex = 0 /\ endIndex = 0

IInv ==
    /\ TypeOK /\ BufferHoldsUnread /\ BytesBehind /\ SizesFit /\ base <= consumed
    /\ CopiesInOrder /\ ReadInProgress /\ LineInProgress /\ PeekInProgress
    /\ DiscardInProgress
=============================================================================
