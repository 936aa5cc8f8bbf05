--------------------------- MODULE Http2Connection ---------------------------
(***************************************************************************)
(* The reader of an HTTP/2 connection (Http2Connection.cpp) and the task    *)
(* that writes the server's preface beside it.  Most handlers are stubs in  *)
(* the source: they return without reading what follows the frame header,   *)
(* so that the next header is looked for in the payload.                    *)
(*                                                                          *)
(* The client's bytes are units: the preface, headers of nine bytes and the *)
(* bytes behind them.  A read that does not start and end between units of  *)
(* the kind it wants gets bytes that nobody sent as such: any header may    *)
(* come of it.                                                              *)
(*                                                                          *)
(* Of the BufferedReader there are its indices, as far as the calls can     *)
(* tell: a read leaves them where its last byte was, and the padding is     *)
(* discarded with nothing buffered whenever it comes in a socket read of    *)
(* its own.  Stale indices then make discard skip more than it is asked     *)
(* to, or leave the data it has.                                            *)
(***************************************************************************)
EXTENDS Integers, Sequences, SequencesExt

CONSTANTS
    Inputs,     \* what a client may send: sequences of units
    StrayHeaders,  \* what nine bytes may be that were not sent as a header
    ByteRange,  \* number of values of a byte; a word has four bytes
    BitOr(_, _), BitAnd(_, _)     \* the operators | and & of the machine's words

HEADERS == 1
SETTINGS == 4
MaxFrameType == 9
ACK == 1
PADDED == 8
PRIORITY == 32
PriorityLength == 5

Byte == 0..(ByteRange - 1)

\* What the bytes of a number count for, the last one first.
Place == <<1, ByteRange, ByteRange * ByteRange, ByteRange * ByteRange * ByteRange>>
Word == ByteRange * Place[4]
Words == 0..(Word - 1)

FrameHeader == [length : [1..3 -> Byte], type : 0..255, flags : 0..255, stream : [1..4 -> Byte]]
Unit == [kind : {"preface"}] \cup [kind : {"byte"}, value : Byte] \cup [kind : {"header"}, header : FrameHeader]

ASSUME Http2Assumption ==
    /\ ByteRange \in Nat /\ ByteRange % 2 = 0 /\ ByteRange > 1
    /\ Inputs \subseteq Seq(Unit)
    /\ \A s \in Inputs : \A i \in 2..Len(s) : s[i].kind # "preface"
    /\ StrayHeaders \subseteq FrameHeader

\* Words without a bit in common are added by |, and the result is odd when one
\* of them is.
ASSUME OrAssumption ==
    \A x, y \in Words :
        /\ BitOr(x, y) \in Words
        /\ BitOr(x, y) % 2 = 0 <=> x % 2 = 0 /\ y % 2 = 0
        /\ \A n \in 1..4 : x % Place[n] = 0 /\ y < Place[n] => BitOr(x, y) = x + y

VARIABLES
    input, pos,     \* the client's units, and the next one to read
    inStep,         \* every read has started and ended between units
    indices,        \* the BufferedReader's: bytes buffered, or none with both
                    \* indices zero or stale, or start past the end
    pc,             \* where innerRun is
    frameHeader,    \* member: the header read last
    padding,        \* the pad length of the HEADERS frame in progress
    open,           \* the stream has not been closed
    writer,         \* the write task
    handled,        \* history: the frames dispatched, the first one and those in step
    slipped         \* history: padding was discarded behind stale indices

readVars == <<pos, inStep, indices>>
vars == <<input, pos, inStep, indices, pc, frameHeader, padding, open, writer, handled, slipped>>

-----------------------------------------------------------------------------
(* Numbers of several bytes.  char is signed: a byte from ByteRange \div 2  *)
(* on sets all the bits above it.                                           *)

SignExtended(c) == IF c < ByteRange \div 2 THEN c ELSE Word - ByteRange + c
Shifted(c, n) == (SignExtended(c) * Place[n + 1]) % Word

\* Mutant: the bytes in the order of a little-endian machine.
read3ByteSwapped(d) == BitOr(BitOr(Shifted(d[3], 2), Shifted(d[2], 1)), Shifted(d[1], 0))

read3Byte(d) == BitOr(BitOr(Shifted(d[1], 2), Shifted(d[2], 1)), Shifted(d[3], 0))
read4Byte(d) == BitOr(BitOr(BitOr(Shifted(d[1], 3), Shifted(d[2], 2)), Shifted(d[3], 1)), Shifted(d[4], 0))

getFrameLength == read3Byte(frameHeader.length)

\* The exclusive or with the reserved bit sets that bit when it is clear.
StreamId(h) == (read4Byte(h.stream) + Word \div 2) % Word
getFrameStreamId == StreamId(frameHeader)

getFrameFlags(flag) == BitAnd(frameHeader.flags, flag) # 0

-----------------------------------------------------------------------------
(* Reads of the BufferedReader. *)

InputEnd == Len(input) + 1

\* The next n units are all of one kind and are read as such.
Whole(n, kind) ==
    inStep /\ \A i \in pos..(pos + n - 1) : i \in DOMAIN input /\ input[i].kind = kind

MoveWhole(n, kind) == Whole(n, kind) /\ pos' = pos + n /\ UNCHANGED inStep

\* Bytes of other units, or of what is left of one; the rest starts somewhere
\* behind.  Nine bytes are never all from a unit that had been begun.
MoveAskew(n, kind) ==
    /\ indices # "past" /\ ~Whole(n, kind)
    /\ pos' \in {next \in pos..InputEnd : inStep \/ kind = "header" => next > pos}
    /\ inStep' = FALSE

\* The stream ends before a call has what it asked for.
ReadFails(n, kind) ==
    /\ indices # "past" /\ ~Whole(n, kind)
    /\ pos' = InputEnd /\ indices' = "zero" /\ UNCHANGED inStep

BytesBehind(at, whole) == at < InputEnd \/ ~whole

\* The last bytes read were buffered with more behind them, or were the last
\* ones buffered, or came out of a socket read.
Buffered(several) ==
    \/ indices' = "some" /\ BytesBehind(pos', inStep')
    \/ indices' = "stale" /\ indices = "some"
    \/ indices' = "zero" /\ (indices = "some" => several)

ReadWhole(n, kind) == MoveWhole(n, kind) /\ Buffered(n > 1 \/ kind # "byte")
ReadAskew(n, kind) == MoveAskew(n, kind) /\ Buffered(n > 1 \/ kind # "byte")

\* start is past the end: calls take whatever lies there, and never get to
\* the socket.
ReadPast == indices = "past" /\ UNCHANGED readVars

readFixedLength(n) == ReadWhole(n, "byte") \/ ReadAskew(n, "byte") \/ ReadPast

\* All of n bytes, and a byte behind them is waited for.
DiscardBuffered(n) ==
    /\ indices \in {"zero", "some"} /\ UNCHANGED slipped
    /\ \/ MoveWhole(n, "byte") /\ indices' = IF pos' < InputEnd THEN "some" ELSE "zero"
       \/ MoveAskew(n, "byte") /\ indices' = "some"
       \/ ReadFails(n, "byte")

\* endIndex is set and startIndex is not.  As many bytes more are skipped, or
\* socket reads of just so many are lost until the stream ends, or available
\* wraps in a smaller one and is all of n at once.
DiscardStale(n) ==
    /\ indices = "stale" /\ slipped' = TRUE
    /\ inStep' = FALSE
    /\ \/ pos' \in {next \in pos..InputEnd : Whole(n, "byte") => next > pos + n} /\ indices' = "some"
       \/ pos' = InputEnd /\ indices' = "stale"
       \/ BytesBehind(pos, inStep) /\ indices' = "past" /\ UNCHANGED pos

discard(n) ==
    \/ DiscardBuffered(n)
    \/ DiscardStale(n)
    \/ ReadPast /\ UNCHANGED slipped

-----------------------------------------------------------------------------
(* run and innerRun. *)

Start ==
    /\ pc = "start"
    /\ writer' = "queued"
    /\ pc' = "preface"
    /\ UNCHANGED <<input, readVars, frameHeader, padding, open, handled, slipped>>

checkPreface ==
    /\ pc = "preface"
    /\ \/ ReadWhole(1, "preface") /\ pc' = "settings"
       \/ ReadFails(1, "preface") /\ pc' = "left"
    /\ UNCHANGED <<input, frameHeader, padding, open, writer, handled, slipped>>

\* Unknown types are refused.
readFrameHeader(next) ==
    \/ ReadFails(1, "header") /\ pc' = "left" /\ UNCHANGED frameHeader
    \/ /\ \/ ReadWhole(1, "header") /\ frameHeader' = input[pos].header
          \/ (ReadAskew(1, "header") \/ ReadPast) /\ frameHeader' \in StrayHeaders
       /\ pc' = IF frameHeader'.type <= MaxFrameType THEN next ELSE "left"

ReadSettingsHeader ==
    /\ pc = "settings"
    /\ readFrameHeader("checkSettings")
    /\ UNCHANGED <<input, padding, open, writer, handled, slipped>>

\* Mutant: the flags are not looked at.
settingsOkAnyFlags(allowAck) ==
    getFrameLength % 6 = 0 /\ frameHeader.stream = <<0, 0, 0, 0>>

\* The checks of a SETTINGS frame.  Its values are not read.
handleSettingsFrame(allowAck) ==
    /\ getFrameLength % 6 = 0
    /\ frameHeader.flags \in (IF allowAck THEN {0, ACK} ELSE {0})
    /\ frameHeader.stream = <<0, 0, 0, 0>>

\* The first frame must be SETTINGS without ACK.
FirstSettings ==
    /\ pc = "checkSettings"
    /\ \/ /\ frameHeader.type = SETTINGS /\ handleSettingsFrame(FALSE)
          /\ pc' = "loop"
          /\ handled' = Append(handled, frameHeader)
       \/ /\ ~(frameHeader.type = SETTINGS /\ handleSettingsFrame(FALSE))
          /\ pc' = "left"
          /\ UNCHANGED handled
    /\ UNCHANGED <<input, readVars, frameHeader, padding, open, writer, slipped>>

ReadLoopHeader ==
    /\ pc = "loop"
    /\ readFrameHeader("dispatch")
    /\ UNCHANGED <<input, padding, open, writer, handled, slipped>>

\* Out of step there are no frames of the client to record.
Dispatch == handled' = IF inStep THEN Append(handled, frameHeader) ELSE handled

\* The other frames: their handlers return at once, or check a SETTINGS frame
\* for a result that the loop does not look at.
handleOtherFrames ==
    /\ pc = "dispatch"
    /\ frameHeader.type # HEADERS
    /\ Dispatch
    /\ pc' = "loop"
    /\ UNCHANGED <<input, readVars, frameHeader, padding, open, writer, slipped>>

\* Mutant: the pad length is taken to be zero and left in the stream.
readPaddingSkipped == padding' = 0 /\ pc' = "priority" /\ UNCHANGED readVars

\* Mutant: the pad length is read as a signed char.
readPaddingSigned ==
    \/ ~getFrameFlags(PADDED) /\ padding' = 0 /\ pc' = "priority" /\ UNCHANGED readVars
    \/ /\ getFrameFlags(PADDED) /\ ReadWhole(1, "byte")
       /\ padding' = input[pos].value - IF input[pos].value < ByteRange \div 2 THEN 0 ELSE ByteRange
       /\ pc' = "priority"

\* The pad length of a HEADERS frame; any byte when the read is askew.
readPadding ==
    \/ ~getFrameFlags(PADDED) /\ padding' = 0 /\ pc' = "priority" /\ UNCHANGED readVars
    \/ getFrameFlags(PADDED) /\ ReadFails(1, "byte") /\ pc' = "loop" /\ UNCHANGED padding
    \/ /\ getFrameFlags(PADDED) /\ readFixedLength(1)
       /\ padding' \in IF inStep' THEN {input[pos].value} ELSE Byte
       /\ pc' = "priority"

\* Stream ids that are zero or odd are refused, before anything is read.
handleHeadersFrame ==
    /\ pc = "dispatch"
    /\ frameHeader.type = HEADERS
    /\ Dispatch
    /\ \/ /\ getFrameStreamId = 0 \/ getFrameStreamId % 2 # 0
          /\ pc' = "loop"
          /\ UNCHANGED <<readVars, padding>>
       \/ /\ getFrameStreamId # 0 /\ getFrameStreamId % 2 = 0
          /\ readPadding
    /\ UNCHANGED <<input, frameHeader, open, writer, slipped>>

\* readHpack, which follows, is a stub: the header block stays unread.
ReadPriority ==
    /\ pc = "priority"
    /\ \/ ~getFrameFlags(PRIORITY) /\ pc' = "padding" /\ UNCHANGED readVars
       \/ getFrameFlags(PRIORITY) /\ ReadFails(PriorityLength, "byte") /\ pc' = "loop"
       \/ getFrameFlags(PRIORITY) /\ readFixedLength(PriorityLength) /\ pc' = "padding"
    /\ UNCHANGED <<input, frameHeader, padding, open, writer, handled, slipped>>

\* The result of the discard is the handler's, which the loop ignores.
DiscardPadding ==
    /\ pc = "padding"
    /\ \/ padding = 0 /\ UNCHANGED <<readVars, slipped>>
       \/ padding # 0 /\ discard(padding)
    /\ pc' = "loop"
    /\ UNCHANGED <<input, frameHeader, padding, open, writer, handled>>

\* Reads past the data may be of memory that is not there.
Crash ==
    /\ indices = "past"
    /\ pc \in {"loop", "dispatch", "priority", "padding"}
    /\ pc' = "crashed"
    /\ UNCHANGED <<input, readVars, frameHeader, padding, open, writer, handled, slipped>>

\* Mutant: the stream is left to the destructor.
runLeavesOpen ==
    /\ pc = "left"
    /\ pc' = "done"
    /\ UNCHANGED <<input, readVars, frameHeader, padding, open, writer, handled, slipped>>

\* run closes the stream when innerRun has returned.
run ==
    /\ pc = "left"
    /\ open' = FALSE
    /\ pc' = "done"
    /\ UNCHANGED <<input, readVars, frameHeader, padding, writer, handled, slipped>>

\* The preface and an empty SETTINGS frame in one writev, which may fail and
\* which comes to nothing once the stream is closed.
writeTask ==
    /\ writer = "queued" /\ pc # "crashed"
    /\ writer' \in IF open THEN {"written", "failed"} ELSE {"failed"}
    /\ UNCHANGED <<input, readVars, pc, frameHeader, padding, open, handled, slipped>>

-----------------------------------------------------------------------------

\* The constructor ignores skipPreface.  frameHeader has no value yet, and
\* bytes may have been buffered before.
Init ==
    /\ input \in Inputs
    /\ pos = 1
    /\ inStep = TRUE
    /\ indices \in IF input = <<>> THEN {"zero"} ELSE {"zero", "some"}
    /\ pc = "start"
    /\ frameHeader = [length |-> <<0, 0, 0>>, type |-> 0, flags |-> 0, stream |-> <<0, 0, 0, 0>>]
    /\ padding = 0
    /\ open = TRUE
    /\ writer = "none"
    /\ handled = <<>>
    /\ slipped = FALSE

Reader ==
    \/ Start \/ checkPreface \/ ReadSettingsHeader \/ FirstSettings \/ ReadLoopHeader
    \/ handleOtherFrames \/ handleHeadersFrame \/ ReadPriority \/ DiscardPadding \/ run

Next == Reader \/ Crash \/ writeTask

\* The connection's thread runs on, and the pool runs queued tasks.
Spec == Init /\ [][Next]_vars /\ WF_vars(Reader) /\ WF_vars(writeTask)

-----------------------------------------------------------------------------
(* Properties. *)

\* The frames that begin in the first n units.
FramesTo(n) ==
    LET f[i \in 0..Len(input)] ==
            IF i = 0 THEN <<>>
            ELSE IF input[i].kind = "header" THEN Append(f[i - 1], input[i].header) ELSE f[i - 1]
    IN f[n]
ClientFrames == FramesTo(Len(input))

\* What is read behind the header at i: nothing, unless it is that of a HEADERS
\* frame on a stream that is not refused; then a pad length and the priority,
\* when the flags announce them, and the padding.
IsRead(h) == h.type = HEADERS /\ h.stream[4] % 2 = 0 /\ StreamId(h) # 0
Padded(h) == IsRead(h) /\ BitAnd(h.flags, PADDED) # 0
PriorityBytes(h) == IF IsRead(h) /\ BitAnd(h.flags, PRIORITY) # 0 THEN PriorityLength ELSE 0
ReadBehind(i) ==
    PriorityBytes(input[i].header) + IF Padded(input[i].header) THEN 1 + input[i + 1].value ELSE 0

\* The payload of the frame at i is that and no more: what follows is a header
\* or the stream's end.
NoContent(i) ==
    /\ Padded(input[i].header) => i + 1 \in DOMAIN input /\ input[i + 1].kind = "byte"
    /\ \A k \in (i + 1)..(i + ReadBehind(i)) : k \in DOMAIN input /\ input[k].kind = "byte"
    /\ i + ReadBehind(i) + 1 \in DOMAIN input => input[i + ReadBehind(i) + 1].kind = "header"

Contentless ==
    /\ Len(input) > 1 => input[2].kind = "header"
    /\ \A i \in DOMAIN input : input[i].kind = "header" => NoContent(i)

\* The members have values of their types.
TypeOK ==
    /\ input \in Inputs /\ pos \in 1..InputEnd /\ inStep \in BOOLEAN /\ open \in BOOLEAN
    /\ indices \in {"zero", "stale", "some", "past"} /\ slipped \in BOOLEAN
    /\ pc \in {"start", "preface", "settings", "checkSettings", "loop", "dispatch", "priority", "padding", "left", "done", "crashed"}
    /\ padding \in Byte
    /\ writer \in {"none", "queued", "written", "failed"}
    /\ frameHeader \in FrameHeader
    /\ handled \in Seq(FrameHeader) /\ Len(handled) <= Len(input)

\* A client whose frames have no content beyond padding and priority is read
\* in step, until padding is discarded behind stale indices: the frames
\* dispatched are the first ones it sent, in their order, and all of them up to
\* the first that is refused once the loop has ended.
FramesInStep ==
    Contentless /\ ~slipped =>
        /\ inStep
        /\ IsPrefix(handled, ClientFrames)
        /\ pc \in {"left", "done"} /\ handled # <<>> /\ handled # ClientFrames =>
              ClientFrames[Len(handled) + 1].type > MaxFrameType

\* No frame is dispatched before a SETTINGS frame of stream zero that is no
\* acknowledgement, and none at all without the client's preface.
SettingsFirst ==
    handled # <<>> =>
        /\ input[1].kind = "preface"
        /\ handled[1].type = SETTINGS /\ handled[1].flags = 0
        /\ handled[1].stream = <<0, 0, 0, 0>>

\* A length of which no byte is negative as char is the number the
\* client sent (the code goes wrong on the others: see the README).
LengthExact ==
    LET d == frameHeader.length
    IN d[1] < ByteRange \div 2 /\ d[2] < ByteRange \div 2 /\ d[3] < ByteRange \div 2 =>
          getFrameLength = d[1] * Place[3] + d[2] * Place[2] + d[3]

\* Whatever a client sends before it closes its side, the loop ends and the
\* stream is closed, unless a discard behind stale indices has left the data;
\* and the write task comes to an end, unless the process does.
RunEnds ==
    /\ <>((pc = "done" /\ ~open) \/ indices = "past")
    /\ <>(writer \in {"written", "failed"} \/ pc = "crashed")

\* Frames are handled as the client sent them: after its preface and SETTINGS,
\* in their order, none skipped, with their lengths.
FramesAsSent == TypeOK /\ SettingsFirst /\ FramesInStep /\ LengthExact
=============================================================================
