----------------------------- MODULE HpackTable -----------------------------
(***************************************************************************)
(* src/src/http2/HpackTable.cpp: the static and the dynamic table of an    *)
(* HPACK decoder.  resize and add drop entries in a loop, one per step, so *)
(* that what they rely on between two rounds can be stated.                *)
(*                                                                         *)
(* The deque `dynamicTable' is the part of `added', everything ever added, *)
(* from position dropped + 1: emplace_front appends to it and pop_back     *)
(* raises `dropped'.  A string is the sequence of its characters.          *)
(***************************************************************************)
EXTENDS Naturals, Sequences

CONSTANTS
    Chars,            \* the characters of header names and values
    Freed,            \* what is read where a character has been freed
    StaticTable,      \* <<name, value>> pairs from index 1, 61 of them in HPACK
    ENTRY_OVERHEAD,   \* 32 in HPACK
    InitTableBytes    \* what init is called with

String == Seq(Chars \cup {Freed})
STATIC_TABLE_MAX == Len(StaticTable)

ASSUME TableAssumption ==
    /\ Freed \notin Chars
    /\ StaticTable \in Seq(Seq(Chars) \X Seq(Chars))
    /\ ENTRY_OVERHEAD \in Nat /\ InitTableBytes \in Nat

VARIABLES
    maxTableBytes, currentTableBytes,
    added, dropped,
    sums,        \* history: sums[k] is the size of the first k entries ever added
    update,      \* the call in progress: "none", "resize" or "add"
    newMax,      \* resize's argument
    newName, newValue, \* add's arguments ...
    alias        \* ... and the position in `added' of the entry whose name
                 \* headerName refers to, or 0 if it refers to a buffer

tableVars == <<maxTableBytes, currentTableBytes, added, dropped, sums,
               update, newMax, newName, newValue, alias>>

size(name, value) == Len(name) + Len(value) + ENTRY_OVERHEAD
EntrySize(e) == size(e[1], e[2])

Total(k) == IF k = 0 THEN 0 ELSE sums[k]

InitTable ==
    /\ maxTableBytes = InitTableBytes
    /\ currentTableBytes = 0
    /\ added = << >> /\ dropped = 0 /\ sums = << >>
    /\ update = "none" /\ newMax = 0
    /\ newName = << >> /\ newValue = << >> /\ alias = 0

-----------------------------------------------------------------------------
resize(n) ==
    /\ update' = "resize"
    /\ newMax' = n
    /\ UNCHANGED <<maxTableBytes, currentTableBytes, added, dropped, sums, newName, newValue, alias>>

\* An entry larger than the table is not added, and nothing is dropped for it.
add(name, value, ref) ==
    IF size(name, value) > maxTableBytes
      THEN UNCHANGED tableVars
      ELSE /\ update' = "add"
           /\ newName' = name /\ newValue' = value /\ alias' = ref
           /\ UNCHANGED <<maxTableBytes, currentTableBytes, added, dropped, sums, newMax>>

\* Mutant: the overhead of the entry is not given back.
DroppedSizeWithoutOverhead == Len(added[dropped + 1][1]) + Len(added[dropped + 1][2])

DroppedSize == EntrySize(added[dropped + 1])

dropEntry ==
    /\ currentTableBytes' = currentTableBytes - DroppedSize
    /\ dropped' = dropped + 1
    /\ UNCHANGED <<maxTableBytes, added, sums, update, newMax, newName, newValue, alias>>

\* Mutant: an entry that fills the table to the last byte is not given room.
TooFullOffByOne == currentTableBytes + size(newName, newValue) > maxTableBytes + 1

\* The tests of the two loops.
TooFull == currentTableBytes + size(newName, newValue) > maxTableBytes
TooLarge == currentTableBytes > newMax

DropWanted == (update = "add" /\ TooFull) \/ (update = "resize" /\ TooLarge)

DropEntry ==
    /\ DropWanted
    /\ dropEntry

Resized ==
    /\ update = "resize"
    /\ ~TooLarge
    /\ maxTableBytes' = newMax
    /\ update' = "none"
    /\ UNCHANGED <<currentTableBytes, added, dropped, sums, newMax, newName, newValue, alias>>

\* The name is copied only now: if it belongs to an entry that has been dropped,
\* its memory has been freed.
NameCopied ==
    IF alias # 0 /\ alias <= dropped THEN [i \in 1 .. Len(newName) |-> Freed] ELSE newName

Added ==
    /\ update = "add"
    /\ ~TooFull
    /\ currentTableBytes' = currentTableBytes + size(newName, newValue)
    /\ added' = Append(added, <<NameCopied, newValue>>)
    /\ sums' = Append(sums, Total(Len(added)) + size(newName, newValue))
    /\ update' = "none"
    /\ UNCHANGED <<maxTableBytes, dropped, newMax, newName, newValue, alias>>

TableStep == DropEntry \/ Resized \/ Added

\* What the table's user may do between two calls.
TableCall ==
    /\ update = "none"
    /\ \/ newMax' \in Nat /\ resize(newMax')
       \/ /\ newName' \in String /\ newValue' \in String
          /\ alias' = 0 \/ (alias' \in (dropped + 1) .. Len(added) /\ newName' = added[alias'][1])
          /\ add(newName', newValue', alias')

TableNext == TableCall \/ TableStep

TableSpec == InitTable /\ [][TableNext]_tableVars

-----------------------------------------------------------------------------
dynamicSize == Len(added) - dropped

\* Mutant: the last entry of the dynamic table is out of reach.
hasEntryAtIndexOffByOne(index) ==
    index <= STATIC_TABLE_MAX \/ dynamicSize > index - STATIC_TABLE_MAX

hasEntryAtIndex(index) ==
    index <= STATIC_TABLE_MAX \/ dynamicSize >= index - STATIC_TABLE_MAX

\* Where the entry of a dynamic index is in `added'; the newest has the lowest.
Position(index) == Len(added) - (index - (STATIC_TABLE_MAX + 1))

EntryAt(index) ==
    IF index <= STATIC_TABLE_MAX THEN StaticTable[index] ELSE added[Position(index)]

nameAtIndex(index) == EntryAt(index)[1]
valueAtIndex(index) == EntryAt(index)[2]

-----------------------------------------------------------------------------
\* The variables of the table have their types: its unsigned size does not wrap.
TableTypeOK ==
    /\ maxTableBytes \in Nat /\ currentTableBytes \in Nat
    /\ added \in Seq(String \X String)
    /\ dropped \in 0 .. Len(added)
    /\ sums \in Seq(Nat) /\ Len(sums) = Len(added)
    /\ update \in {"none", "resize", "add"}
    /\ newMax \in Nat /\ newName \in String /\ newValue \in String /\ alias \in Nat

\* What the history variable is.
SumsRight ==
    \A k \in 1 .. Len(added) : sums[k] = Total(k - 1) + EntrySize(added[k])

\* The size the table keeps is the size of the entries it holds, in the middle
\* of the loops too ...
AccountingExact == currentTableBytes = Total(Len(added)) - Total(dropped)

\* ... and never more than the maximum, however the maximum changes.
TableFits ==
    /\ currentTableBytes <= maxTableBytes
    /\ update = "add" => size(newName, newValue) <= maxTableBytes

\* The loops never take an entry from an empty table, where std::deque::back
\* is undefined.
DropsOnlyEntries == DropWanted => dropped < Len(added)

\* All of these, in the middle of the loops too.
TableSound == TableTypeOK /\ AccountingExact /\ TableFits /\ DropsOnlyEntries
=============================================================================
