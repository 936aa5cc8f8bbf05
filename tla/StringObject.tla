---------------------------- MODULE StringObject ----------------------------
(***************************************************************************)
(* The class String (String.h, String.cpp): a text of fewer than           *)
(* minCapacity characters lies in the object, a longer one in a block of    *)
(* the heap.  The operations are functions of the memory, a record of the   *)
(* objects (rep), the blocks (heap) and whether an operation has left the   *)
(* bounds of an array or used or deleted a block that was deleted before    *)
(* (bad).  A block that is deleted is empty and not used again.             *)
(***************************************************************************)
EXTENDS Integers, Sequences, FiniteSets

CONSTANTS
    Objects,        \* Strings
    minCapacity,    \* characters in an object, with the terminating null
    Align           \* capacities of blocks are multiples of it

ASSUME StringAssumption == minCapacity \in Nat \ {0} /\ Align \in Nat \ {0} /\ Align % 2 = 0

NUL == 0
JUNK == -1
Junk(n) == [i \in 1..n |-> JUNK]
Put(cells, offset, text) ==
    [i \in DOMAIN cells |-> IF i - offset \in 1..Len(text) THEN text[i - offset] ELSE cells[i]]

\* The two members of the union.
shortForm(size, chars) == [long |-> FALSE, size |-> size, chars |-> chars]
longForm(capacity, size, data) == [long |-> TRUE, size |-> size, capacity |-> capacity, data |-> data]

isLong(m, o) == m.rep[o].long
length(m, o) == m.rep[o].size

\* What _data of the short form holds: other bytes in an object in long form.
shortData(m, o) == IF isLong(m, o) THEN Junk(minCapacity) ELSE m.rep[o].chars

\* The lowest bit of the capacity tells the forms apart.
setLongCapacity(n) == n + (1 - (n % 2))
getLongCapacity(m, o) == m.rep[o].capacity - (m.rep[o].capacity % 2)
getCapacity(m, o) == IF isLong(m, o) THEN getLongCapacity(m, o) ELSE minCapacity
getValidCapacity(n) == IF n % Align = 0 THEN n ELSE n + (Align - (n % Align))

-----------------------------------------------------------------------------
(* Pointers, and what may be read and written through them. *)

ToText(text) == [in |-> "text", at |-> text, offset |-> 0]
ToBlock(b) == [in |-> "block", at |-> b, offset |-> 0]
getPtr(m, o) == IF isLong(m, o) THEN ToBlock(m.rep[o].data) ELSE [in |-> "object", at |-> o, offset |-> 0]
Beyond(p, n) == [p EXCEPT !.offset = @ + n]

Cells(m, p) ==
    CASE p.in = "text" -> p.at
      [] p.in = "object" -> shortData(m, p.at)
      [] p.in = "block" -> m.heap[p.at]

Crash(m) == [m EXCEPT !.bad = TRUE]

Store(m, p, text) ==
    IF p.offset + Len(text) > Len(Cells(m, p)) THEN Crash(m)
    ELSE IF p.in = "block" THEN [m EXCEPT !.heap[p.at] = Put(@, p.offset, text)]
    ELSE [m EXCEPT !.rep[p.at].chars = Put(@, p.offset, text)]

memcpy(m, to, from, n) ==
    IF n > 0 /\ from.offset + n > Len(Cells(m, from)) THEN Crash(m)
    ELSE Store(m, to, SubSeq(Cells(m, from), from.offset + 1, from.offset + n))

\* n characters at each of two pointers share some, but are not the same.
overlap(p, q, n) ==
    /\ p.in = q.in /\ p.at = q.at /\ p.offset # q.offset
    /\ p.offset < q.offset + n /\ q.offset < p.offset + n

newBlock(m, capacity) == [m EXCEPT !.heap = Append(@, Junk(capacity))]
delete(m, b) == IF m.heap[b] = <<>> THEN Crash(m) ELSE [m EXCEPT !.heap[b] = <<>>]
deleteOwn(m, o) == IF isLong(m, o) THEN delete(m, m.rep[o].data) ELSE m

-----------------------------------------------------------------------------
(* Construction and assignment. *)

\* String(): also what is left of an object that was moved from.
emptied(m, o) == [m EXCEPT !.rep[o] = shortForm(0, Put(shortData(m, o), 0, <<NUL>>))]

\* Room for a text of len characters, in the object or in a new block.
newLong(m, o, len) ==
    [m EXCEPT !.heap = Append(@, Junk(getValidCapacity(len + 1))),
              !.rep[o] = longForm(setLongCapacity(getValidCapacity(len + 1)), len, Len(m.heap) + 1)]

setStorage(m, o, len) ==
    IF len < minCapacity THEN [m EXCEPT !.rep[o] = shortForm(len, shortData(m, o))]
    ELSE newLong(m, o, len)

\* String(StringRef), String(const char*) and String(const char*, size_t).
construct(m, o, ref, len) ==
    LET s == setStorage(m, o, len)
        p == getPtr(s, o)
    IN Store(memcpy(s, p, ref, len), Beyond(p, len), <<NUL>>)

\* String(const String&).  The form is chosen by the length, whatever that of
\* the other one is: a long form with a short text is copied as it is.
copyConstruct(m, o, other) ==
    LET len == length(m, other)
        s == newLong(m, o, len)
    IN IF len < minCapacity THEN [m EXCEPT !.rep[o] = m.rep[other]]
       ELSE memcpy(s, getPtr(s, o), getPtr(m, other), getValidCapacity(len + 1))

\* Mutant: the other string keeps its block.
moveKeeps(m, o, other) == [m EXCEPT !.rep[o] = m.rep[other]]

\* String(String&&), and operator=(String&&), which forgets the block of o.
moveConstruct(m, o, other) == emptied([m EXCEPT !.rep[o] = m.rep[other]], other)

\* operator=(const String&): here the form is that of the other one.
assignCopy(m, o, other) ==
    LET len == length(m, other)
        s == newLong(deleteOwn(m, o), o, len)
    IN IF o = other THEN m
       ELSE IF isLong(m, other) THEN memcpy(s, getPtr(s, o), getPtr(s, other), len + 1)
       ELSE [deleteOwn(m, o) EXCEPT !.rep[o] = m.rep[other]]

assignMove(m, o, other) == IF o = other THEN m ELSE moveConstruct(m, o, other)

\* operator=(StringRef): the text may be a part of o, whose block goes last.
assign(m, o, ref, len) ==
    LET a == construct(m, o, ref, len)
    IN IF isLong(m, o) THEN delete(a, m.rep[o].data) ELSE a

\* operator=(const char*): the block of o goes first, wherever the text of len
\* characters and its null are.  They are copied by memcpy, which is undefined for
\* memory that overlaps.
assignCstr(m, o, cstr, len) ==
    LET s == setStorage(deleteOwn(m, o), o, len)
    IN IF overlap(getPtr(s, o), cstr, len + 1) THEN Crash(s)
       ELSE memcpy(s, getPtr(s, o), cstr, len + 1)

-----------------------------------------------------------------------------
(* Changes in place. *)

setSize(m, o, size) == [m EXCEPT !.rep[o].size = size]

\* Mutant: the null is forgotten.
fitsTight(m, o, n) == length(m, o) + n <= getCapacity(m, o)

fits(m, o, n) == length(m, o) + n < getCapacity(m, o)

\* A text that does not fit goes to a new block; the old one is deleted before
\* the new text is copied.
append_raw(m, o, ref, n) ==
    LET len == length(m, o)
        capacity == getValidCapacity((len + n) * 2)
        to == ToBlock(Len(m.heap) + 1)
        kept == deleteOwn(memcpy(newBlock(m, capacity), to, getPtr(m, o), len), o)
        grown == Store(memcpy(kept, Beyond(to, len), ref, n), Beyond(to, len + n), <<NUL>>)
    IN IF fits(m, o, n)
       THEN setSize(Store(memcpy(m, Beyond(getPtr(m, o), len), ref, n), Beyond(getPtr(m, o), len + n), <<NUL>>), o, len + n)
       ELSE [grown EXCEPT !.rep[o] = longForm(setLongCapacity(capacity), len + n, to.at)]

clear(m, o) == Store(setSize(m, o, 0), getPtr(m, o), <<NUL>>)

trimToSize(m, o, size) ==
    IF size > length(m, o) THEN m
    ELSE Store(setSize(m, o, size), Beyond(getPtr(m, o), size), <<NUL>>)

reserve(m, o, size) ==
    LET capacity == getValidCapacity(size + 1)
        to == ToBlock(Len(m.heap) + 1)
        moved == deleteOwn(memcpy(newBlock(m, capacity), to, getPtr(m, o), length(m, o) + 1), o)
    IN IF size <= getCapacity(m, o) THEN m
       ELSE [moved EXCEPT !.rep[o] = longForm(setLongCapacity(capacity), length(m, o), to.at)]

\* operator+: o is the new object that is returned.
concat(m, o, ref1, n1, ref2, n2) ==
    append_raw(append_raw(reserve(emptied(m, o), o, n1 + n2), o, ref1, n1), o, ref2, n2)
=============================================================================
