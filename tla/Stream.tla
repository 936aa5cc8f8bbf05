------------------------------- MODULE Stream -------------------------------
(***************************************************************************)
(* What a client sends on one connection, as BufferedReader.cpp sees it.   *)
(* A byte is identified by its POSITION in the stream (0, 1, ...), so that *)
(* losing, repeating or reordering bytes is visible; the only data kept    *)
(* of it is its class: '\r', '\n' or one of the other characters.          *)
(***************************************************************************)
EXTENDS Integers, Sequences

CONSTANTS
    Chars,              \* the characters a client may send
    CR, LF,             \* '\r' and '\n'
    Input,              \* the bytes the client sends before it closes
    InitialBufferSize,  \* 2048 in HttpServer.cpp
    HalfRange,          \* 0x80000000: half the range of uint32_t, scaled down
    DestLens,           \* lengths callers pass to read, readFixedLength, discard
    MaxLengths,         \* limits callers pass to readLine
    Patterns            \* what callers pass to peekMatch

\* UINT32_MAX, and a sum or difference of two uint32_t values.
UintMax == 2 * HalfRange - 1
Wrap(n) == IF n < 0 THEN n + 2 * HalfRange
           ELSE IF n > UintMax THEN n - 2 * HalfRange ELSE n

\* The number of bytes the client sends, and the byte at position p.
N == Len(Input)
Char(p) == Input[p + 1]

ASSUME CharsAssumption == CR \in Chars /\ LF \in Chars /\ CR # LF
ASSUME InputAssumption == Input \in Seq(Chars)

\* No request of a caller is near the limits of uint32_t: the code's are 24
\* bytes, 1024, 64K and 1M, and what fits an int.
ASSUME SizeAssumption ==
    /\ HalfRange \in Nat
    /\ InitialBufferSize \in 1 .. UintMax
    /\ DestLens \subseteq 0 .. UintMax
    /\ \A m \in MaxLengths : m \in Nat /\ m + 2 <= UintMax
    /\ \A p \in Patterns : p \in Seq(Chars) /\ 2 * Len(p) <= UintMax

\* A buffer of no bytes.
NoBytes == [i \in 0 .. (-1) |-> -1]

MinOf(a, b) == IF a <= b THEN a ELSE b

\* The unread stream from position p starts with the pattern s.
StartsWith(p, s) ==
    /\ p + Len(s) <= N
    /\ \A i \in 0 .. (Len(s) - 1) : Char(p + i) = s[i + 1]
=============================================================================
