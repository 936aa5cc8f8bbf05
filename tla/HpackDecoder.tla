---------------------------- MODULE HpackDecoder ----------------------------
(***************************************************************************)
(* src/src/http2/HpackDecoder.cpp: decode() reads one header block, field  *)
(* by field, into a RequestData and the table.                             *)
(*                                                                         *)
(* A byte is a number below 2 * High.  High is 0x80; a smaller power of 2  *)
(* scales all the prefixes and the extension bytes of numbers down alike.  *)
(***************************************************************************)
EXTENDS HpackTable

CONSTANTS
    High,              \* 0x80, the top bit of a byte
    LastMax,           \* 0xF, what is left for the fifth extension byte
    HuffmanDecode(_),  \* what the Huffman table makes of a string's bytes
    Blocks,            \* the header blocks of an arbitrary peer
    MaxBytes           \* bound: how many bytes of header blocks are decoded

VARIABLES
    block,    \* the bytes between the decoder's data and dataEnd
    data,     \* position of the byte `data' points to
    phase,    \* "idle", "field" (in decode's loop) or "aborted" (a failed assert)
    ok,       \* what decode returned last
    headers,  \* the headers of requestData
    bytes     \* how many bytes of header blocks have been decoded

decoderVars == <<block, data, phase, ok, headers, bytes>>
vars == <<maxTableBytes, currentTableBytes, added, dropped, sums, update, newMax,
          newName, newValue, alias, block, data, phase, ok, headers, bytes>>

Byte == 0 .. (2 * High - 1)

ASSUME DecoderAssumption ==
    /\ High \in Nat /\ High % 8 = 0 /\ High >= 16
    /\ LastMax \in 1 .. (High - 1)

\* Every byte is a character, and the Huffman table makes characters of bytes.
ASSUME CodingAssumption ==
    /\ Byte \subseteq Chars
    /\ Blocks \subseteq Seq(Byte)
    /\ \A b \in Blocks \cup {<< >>} : \A i \in 1 .. (Len(b) + 1), j \in 0 .. Len(b) :
          HuffmanDecode(SubSeq(b, i, j)) \in Seq(Chars)

\* The range of uint32_t.
Range32 == High * High * High * High * (LastMax + 1)

Power(i) == <<1, High, High * High, High * High * High, High * High * High * High>>[i]

-----------------------------------------------------------------------------
(* Numbers and strings, read from behind position d.                       *)

\* Up to five bytes: those before the last have the top bit set, and the fifth
\* must not have more than LastMax.
NumberLength(d) ==
    LET ends == {i \in 1 .. 4 : d + i <= Len(block) /\ block[d + i] < High}
    IN  IF ends = {} THEN 5 ELSE CHOOSE i \in ends : \A j \in ends : i <= j

Digit(d, i) == (block[d + i] % High) * Power(i)
SumOf(f) == f[1] + f[2] + f[3] + f[4] + f[5]

NotRead == [ok |-> FALSE, value |-> 0, data |-> 0]

NumberOf(d, n, initialValue) ==
    IF d + n <= Len(block) /\ (n = 5 => block[d + 5] <= LastMax)
      THEN [ok    |-> TRUE,
            value |-> (initialValue + SumOf([i \in 1 .. 5 |-> IF i <= n THEN Digit(d, i) ELSE 0])) % Range32,
            data  |-> d + n]
      ELSE NotRead

readNumberAfterPrefix(d, initialValue) == NumberOf(d, NumberLength(d), initialValue)

\* A number with a prefix of which b holds the bits, max their largest value.
readNumber(d, b, max) ==
    IF b < max THEN [ok |-> TRUE, value |-> b, data |-> d] ELSE readNumberAfterPrefix(d, max)

\* The length is taken from the first byte unless it is 0 there.
StringLength(d) ==
    IF block[d] % High # 0
      THEN [ok |-> TRUE, value |-> block[d] % High, data |-> d]
      ELSE readNumberAfterPrefix(d, High - 1)

Decoded(huffman, raw) == IF huffman THEN HuffmanDecode(raw) ELSE raw

\* The last step, data += length - 1, is in uint32_t.
StringOf(huffman, length) ==
    IF ~length.ok \/ Len(block) - length.data < length.value
      THEN NotRead
      ELSE [ok    |-> TRUE,
            value |-> Decoded(huffman, SubSeq(block, length.data + 1, length.data + length.value)),
            data  |-> length.data + 1 + ((length.value + Range32 - 1) % Range32)]

readStringLiteral(d) ==
    IF d + 1 > Len(block) THEN NotRead
                          ELSE StringOf(block[d + 1] >= High, StringLength(d + 1))

-----------------------------------------------------------------------------
\* A decoder is made for a block and a new RequestData, and decode() called.
decode(b) ==
    /\ phase = "idle"
    /\ bytes + Len(b) <= MaxBytes
    /\ bytes' = bytes + Len(b)
    /\ block' = b
    /\ data' = 1
    /\ phase' = "field"
    /\ headers' = << >>
    /\ UNCHANGED <<ok, tableVars>>

\* decode returns r, and the decoder is gone.
Return(r) ==
    /\ phase' = "idle"
    /\ ok' = r
    /\ block' = << >> /\ data' = 1
    /\ UNCHANGED <<headers, bytes, tableVars>>

Reject == Return(FALSE)

\* assert(index != 0)
Abort ==
    /\ phase' = "aborted"
    /\ UNCHANGED <<block, data, ok, headers, bytes, tableVars>>

\* The field is read and the loop goes on behind it.
Accept(d, name, value) ==
    /\ headers' = Append(headers, <<name, value>>)
    /\ data' = d + 1
    /\ UNCHANGED <<block, phase, ok, bytes>>

\* Mutant: the next field is read before the table's call has returned.
AtFieldEarly == phase = "field" /\ data <= Len(block)

AtField == phase = "field" /\ update = "none" /\ data <= Len(block)

\* What is read, with the dynamic entry it refers to and whether the table's
\* assertion fails on it.
Read(r, ref) == [ok |-> r.ok, value |-> r.value, data |-> r.data, alias |-> ref, abort |-> FALSE]
Failed(assertion) == [ok |-> FALSE, abort |-> assertion]

\* The index of an entry in the table.
AliasOf(index) == IF index > STATIC_TABLE_MAX THEN Position(index) ELSE 0
Entry(number) ==
    IF ~number.ok THEN Failed(FALSE)
    ELSE IF number.value = 0 THEN Failed(TRUE)
    ELSE IF ~hasEntryAtIndex(number.value) THEN Failed(FALSE)
    ELSE Read(number, AliasOf(number.value))

TakeIndexed(entry) ==
    IF entry.abort THEN Abort
    ELSE IF ~entry.ok THEN Reject
    ELSE /\ Accept(entry.data, nameAtIndex(entry.value), valueAtIndex(entry.value))
         /\ UNCHANGED tableVars

readIndexedHeaderField ==
    /\ AtField
    /\ block[data] >= High
    /\ IF block[data] = High
         THEN Reject
         ELSE \E entry \in {Entry(readNumber(data, block[data] - High, High - 1))} : TakeIndexed(entry)

\* The name of a literal field with bits of a prefix up to max, ...
NamedBy(entry) ==
    IF entry.ok THEN [entry EXCEPT !.value = nameAtIndex(entry.value)] ELSE entry
NameOf(bits, max) ==
    IF bits = 0 THEN Read(readStringLiteral(data), 0) ELSE NamedBy(Entry(readNumber(data, bits, max)))

\* ... the whole field ...
FieldOf(name, value) ==
    [ok |-> value.ok, abort |-> FALSE, name |-> name.value, value |-> value.value,
     data |-> value.data, alias |-> name.alias]
Field(name) == IF name.ok THEN FieldOf(name, readStringLiteral(name.data)) ELSE Failed(name.abort)

\* ... and what is done with it.
TakeLiteral(field, indexing) ==
    IF field.abort THEN Abort
    ELSE IF ~field.ok THEN Reject
    ELSE /\ Accept(field.data, field.name, field.value)
         /\ IF indexing THEN add(field.name, field.value, field.alias) ELSE UNCHANGED tableVars

readLiteralHeaderIncrementalIndexing ==
    /\ AtField
    /\ block[data] \in (High \div 2) .. (High - 1)
    /\ \E field \in {Field(NameOf(block[data] % (High \div 2), High \div 2 - 1))} : TakeLiteral(field, TRUE)

readLiteralHeaderNoIndexing ==
    /\ AtField
    /\ block[data] < High \div 4
    /\ \E field \in {Field(NameOf(block[data] % (High \div 8), High \div 8 - 1))} : TakeLiteral(field, FALSE)

\* Mutant: the loop does not move on behind the field.
TakeSizeAgain(number) ==
    /\ number.ok
    /\ resize(number.value)
    /\ UNCHANGED decoderVars

TakeSize(number) ==
    IF ~number.ok THEN Reject
    ELSE /\ resize(number.value)
         /\ data' = number.data + 1
         /\ UNCHANGED <<block, phase, ok, headers, bytes>>

readTableSizeUpdate ==
    /\ AtField
    /\ block[data] \in (High \div 4) .. (High \div 2 - 1)
    /\ \E number \in {readNumber(data, block[data] - High \div 4, High \div 4 - 1)} : TakeSize(number)

DecodeEnds ==
    /\ phase = "field" /\ update = "none"
    /\ data > Len(block)
    /\ Return(TRUE)

UpdateTable == TableStep /\ UNCHANGED decoderVars

DecodeStep ==
    \/ readIndexedHeaderField \/ readLiteralHeaderIncrementalIndexing
    \/ readLiteralHeaderNoIndexing \/ readTableSizeUpdate \/ DecodeEnds

InitDecoder ==
    /\ InitTable
    /\ block = << >> /\ data = 1
    /\ phase = "idle" /\ ok = TRUE /\ headers = << >> /\ bytes = 0

Next == (\E b \in Blocks : decode(b)) \/ DecodeStep \/ UpdateTable

Spec == InitDecoder /\ [][Next]_vars

\* The thread that decodes runs.
FairSpec == Spec /\ WF_vars(DecodeStep \/ UpdateTable)

-----------------------------------------------------------------------------
\* Whatever the peer sends, the decoder uses the table as HpackTable allows: one
\* call at a time, with strings and with names of entries that are there.
UsesTable == TableSpec

\* decode returns, whatever the peer has sent: every field it accepts takes it
\* further, and the table's loops end.
DecodeReturns == phase = "field" ~> phase # "field"

\* Every step of decode gets it further, whatever the peer has sent: it returns or
\* aborts, reads on behind what it has read, or ends the table's call or drops an
\* entry that is there.  So no block keeps it in a loop: the bytes of a block, the
\* call it has begun and the entries in the table come to an end.
Advances ==
    \/ phase' # "field"
    \/ data' > data
    \/ /\ data' = data /\ update # "none"
       /\ update' = "none" \/ dropped' \in (dropped + 1) .. Len(added')
EveryStepAdvances == [][phase = "field" => Advances]_vars
=============================================================================
