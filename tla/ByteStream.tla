----------------------------- MODULE ByteStream -----------------------------
(***************************************************************************)
(* What the operations of a BufferedReader promise their callers,          *)
(* whatever the buffer does and however the bytes arrive: the stream is    *)
(* consumed from front to back, read and readFixedLength hand over the     *)
(* next bytes, readLine consumes exactly one line, discard exactly the     *)
(* bytes asked for and peekMatch none.                                     *)
(***************************************************************************)
EXTENDS Stream

VARIABLES
    taken,      \* how much of the stream the calls so far have consumed
    busy,       \* a call is in progress
    op, arg,    \* the call in progress or, when there is none, the last one
    base,       \* `taken' when it began
    out,        \* the bytes it has put into the caller's buffer
    err         \* the error code of the last call that returned

vars == <<taken, busy, op, arg, base, out, err>>

Init ==
    /\ taken = 0
    /\ busy = FALSE
    /\ op = "none" /\ arg = 0 /\ base = 0
    /\ out = NoBytes
    /\ err = "Ok"

Begin ==
    /\ ~busy
    /\ busy' = TRUE
    /\ \/ op' \in {"read", "fixed", "discard"} /\ arg' \in DestLens
       \/ op' = "line" /\ arg' \in MaxLengths
       \/ op' = "peek" /\ arg' \in {Len(s) : s \in Patterns}
    /\ base' = taken
    /\ out' = NoBytes
    /\ UNCHANGED <<taken, err>>

Return(e) ==
    /\ busy' = FALSE
    /\ err' = e
    /\ UNCHANGED <<op, arg, base>>

GoOn == UNCHANGED <<busy, op, arg, base, err>>

\* Hand the next n bytes over, never more than the caller has room for.
Copy ==
    /\ busy
    /\ op \in {"read", "fixed"}
    /\ taken' \in taken .. N
    /\ taken' <= base + arg
    /\ out' = [i \in 0 .. (taken' - base - 1) |-> base + i]
    /\ IF op = "read" THEN Return("Ok") ELSE GoOn

\* readFixedLength succeeds with all the bytes it was asked for, or not at all.
Filled ==
    /\ busy
    /\ op = "fixed"
    /\ taken = base + arg
    /\ Return("Ok")
    /\ UNCHANGED <<taken, out>>

\* A line ends with the first '\n', or with the stream.
Line ==
    /\ busy
    /\ op = "line"
    /\ taken' \in (taken + 1) .. N
    /\ \A p \in taken .. (taken' - 2) : Char(p) # LF
    /\ Char(taken' - 1) = LF \/ taken' = N
    /\ Return("Ok")
    /\ UNCHANGED out

Drop ==
    /\ busy
    /\ op = "discard"
    /\ taken' \in taken .. N
    /\ taken' <= base + arg
    /\ GoOn \/ (taken' = base + arg /\ Return("Ok"))
    /\ UNCHANGED out

Peek ==
    /\ busy
    /\ op = "peek"
    /\ Return("Ok")
    /\ UNCHANGED <<taken, out>>

\* The end of the stream is reported only by a call that cannot go on.
Fail ==
    /\ busy
    /\ \/ Return("Eof") /\ (taken = N \/ (op = "peek" /\ taken + arg > N))
       \/ Return("IoError")
       \/ Return("LineTooLong") /\ op = "line"
    /\ UNCHANGED <<taken, out>>

Next == Begin \/ Copy \/ Filled \/ Line \/ Drop \/ Peek \/ Fail

Spec == Init /\ [][Next]_vars
=============================================================================
