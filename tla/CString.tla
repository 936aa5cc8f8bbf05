------------------------------- MODULE CString -------------------------------
(***************************************************************************)
(* The null-terminated copies made for system calls (CString.cpp): short    *)
(* texts go to an array in the object, others to the heap.  A copy is the   *)
(* room it has, the offset and the number of characters put there, where    *)
(* the null is written and whether error() tells of a failure.              *)
(***************************************************************************)
EXTENDS Integers

StatLen == 128      \* elements of statBuf
WideSize == 2       \* sizeof(wchar_t)
MAX_PATH == 260
PrefixLen == 4      \* wcslen(LONG_PREFIX)

CStringBuf(n) ==
    [room |-> IF n < StatLen THEN StatLen ELSE n + 1, offset |-> 0, chars |-> n, null |-> n, errored |-> FALSE]

\* Of a text of units characters, or of one that is not well formed: zero for
\* that, for an empty one and when there is not enough room.
MultiByteToWideChar(valid, units, room) == IF valid /\ units <= room THEN units ELSE 0

\* The array is taken for as many characters as it has bytes.
inArray(len) == len < StatLen * WideSize

\* Mutant: no room for the null.
WCStringBufTight(valid, units) ==
    LET len == MultiByteToWideChar(valid, units, units)
        room == IF inArray(len) THEN StatLen ELSE len
        converted == MultiByteToWideChar(valid, units, room)
    IN [room |-> room, offset |-> 0, chars |-> converted, null |-> len, errored |-> len = 0 \/ converted = 0]

WCStringBuf(valid, units) ==
    LET len == MultiByteToWideChar(valid, units, units)
        room == IF inArray(len) THEN StatLen ELSE len + 1
        converted == MultiByteToWideChar(valid, units, room)
    IN [room |-> room, offset |-> 0, chars |-> converted, null |-> len, errored |-> len = 0 \/ converted = 0]

\* Mutant: the prefix has no room of its own.
longRoomShort(len) == len + 1

longRoom(len) == len + PrefixLen + 1

\* A long path has a prefix; the conversion is told the room with the prefix.
WinPathBuf(valid, units) ==
    LET len == MultiByteToWideChar(valid, units, units)
        offset == IF inArray(len) \/ len < MAX_PATH THEN 0 ELSE PrefixLen
        room == IF inArray(len) THEN StatLen ELSE IF len < MAX_PATH THEN len + 1 ELSE longRoom(len)
        converted == MultiByteToWideChar(valid, units, room)
    IN [room |-> room, offset |-> offset, chars |-> converted, null |-> len + offset, errored |-> len = 0 \/ converted = 0]
==============================================================================
