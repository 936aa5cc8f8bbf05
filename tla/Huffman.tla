------------------------------- MODULE Huffman -------------------------------
(***************************************************************************)
(* Huffman coding of header strings (HuffmanEncoding.cpp) over the tables   *)
(* of the program.  encode and decode run step by step: a byte filled or a  *)
(* half byte looked up is a step.  A string is either one that encode made, *)
(* or whatever a client sends, byte after byte without end.                 *)
(***************************************************************************)
EXTENDS Integers, Sequences, SequencesExt, Bitwise, HuffmanData

CONSTANTS
    Short,      \* characters that texts start with, before one of any kind
    MaxText     \* characters in a text

Chars == 0..255

VARIABLES
    mode,                           \* "encode", then decode, or a "client" that sends bytes
    text,                           \* what encode has been given so far
    rembits, curByte, bitCount,     \* locals of encode
    dest,                           \* the bytes it has written
    pc,
    data,                           \* argument of decode: the bytes left
    state, accept,                  \* locals of decode
    lower,                          \* the upper half of data[1] has been looked up
    out,                            \* what decode has written, for a client since the last byte
    bits, expect                    \* history: what the code words say of the same bits

encodeVars == <<text, rembits, curByte, bitCount, dest>>
decodeVars == <<data, state, accept, lower, out, bits, expect>>
vars == <<mode, pc, encodeVars, decodeVars>>

-----------------------------------------------------------------------------
(* encode. *)

encodeData == huffmanEncodeTable[Last(text) + 1]
Bits(n) == 2 ^ n

NextChar(c) ==
    /\ mode = "encode" /\ pc = "next"
    /\ Len(text) < MaxText /\ \A i \in DOMAIN text : text[i] \in Short
    /\ text' = Append(text, c)
    /\ bitCount' = huffmanEncodeTable[c + 1][1]
    /\ pc' = "bits"
    /\ UNCHANGED <<mode, rembits, curByte, dest, decodeVars>>

\* Mutant: the space left in the byte counts as full too early.
FitsTight(room, n) == room >= n

\* There is more room in the byte than the code has bits left.
Fits(room, n) == room > n

LastBits ==
    /\ pc = "bits" /\ Fits(rembits, bitCount)
    /\ curByte' = curByte | (((encodeData[2] % 256) * Bits(rembits - bitCount)) % 256)
    /\ rembits' = rembits - bitCount
    /\ pc' = "next"
    /\ UNCHANGED <<mode, text, bitCount, dest, decodeVars>>

FillByte ==
    /\ pc = "bits" /\ ~Fits(rembits, bitCount)
    /\ dest' = Append(dest, curByte | ((encodeData[2] \div Bits(bitCount - rembits)) % 256))
    /\ bitCount' = bitCount - rembits
    /\ rembits' = 8
    /\ curByte' = 0
    /\ pc' = IF bitCount' = 0 THEN "next" ELSE "bits"
    /\ UNCHANGED <<mode, text, decodeVars>>

\* Mutant: the rest of the last byte is zero.
NoPadding == 0

\* The bits of the end of string fill the last byte: ones.
Padding == Bits(rembits) - 1

\* Mutant: a byte is added when nothing is left.
UnfinishedAlways == rembits <= 8
Unfinished == rembits < 8

\* decode is called for what encode has written.
EndOfText ==
    /\ mode = "encode" /\ pc = "next"
    /\ dest' = IF Unfinished THEN Append(dest, curByte | Padding) ELSE dest
    /\ data' = dest'
    /\ pc' = "decode"
    /\ UNCHANGED <<mode, text, rembits, curByte, bitCount, state, accept, lower, out, bits, expect>>

-----------------------------------------------------------------------------
(* decode. *)

ClientByte(b) ==
    /\ mode = "client" /\ pc = "decode" /\ data = <<>>
    /\ data' = <<b>>
    /\ out' = <<>> /\ expect' = <<>>
    /\ UNCHANGED <<mode, pc, state, accept, lower, bits, encodeVars>>

halfByte == IF lower THEN data[1] % 16 ELSE data[1] \div 16

\* Mutant: the end of string is not looked for.
FailsNever(entry) == FALSE

\* The flags of an entry.
Fails(entry) == entry[2] & 4 # 0
HasSymbol(entry) == entry[2] & 2 # 0

\* Mutant: a string may end only where a code ends.
AcceptsCodesOnly(entry) == entry[1] = 0
Accepts(entry) == entry[2] & 1 # 0

\* The code words, with a one before their first bit; \h7fffffff is the end of
\* string.
CodeWord(c) == Bits(huffmanEncodeTable[c + 1][1]) + huffmanEncodeTable[c + 1][2]
EndOfString == \h7fffffff
CodeWords == {CodeWord(c) : c \in Chars}

\* Reading the four bits of x one by one after the bits b.
ReadBits(b, x) ==
    LET step(acc, i) ==
            LET next == 2 * acc.bits + ((x \div Bits(i)) % 2)
            IN IF acc.bits = EndOfString THEN acc
               ELSE IF next \in CodeWords
               THEN [bits |-> 1, symbols |-> Append(acc.symbols, CHOOSE c \in Chars : CodeWord(c) = next)]
               ELSE [acc EXCEPT !.bits = next]
    IN step(step(step(step([bits |-> b, symbols |-> <<>>], 3), 2), 1), 0)

\* One lookup.  A failure returns at once, with what has been written left in
\* dest; otherwise the symbol, if there is one, is written.
decodeStep ==
    /\ pc = "decode" /\ data # <<>>
    /\ \E entry \in {huffmanDecodeTable[state + 1][halfByte + 1]} :
          \/ /\ Fails(entry)
             /\ pc' = "failed"
             /\ UNCHANGED <<data, state, accept, lower, out>>
          \/ /\ ~Fails(entry)
             /\ out' = IF HasSymbol(entry) THEN Append(out, entry[3]) ELSE out
             /\ state' = entry[1]
             /\ accept' = Accepts(entry)
             /\ lower' = ~lower
             /\ data' = IF lower THEN Tail(data) ELSE data
             /\ UNCHANGED pc
    /\ \E read \in {ReadBits(bits, halfByte)} :
          bits' = read.bits /\ expect' = expect \o read.symbols
    /\ UNCHANGED <<mode, encodeVars>>

\* decode returns accept; a client's string may end after any byte.
Return ==
    /\ mode = "encode" /\ pc = "decode" /\ data = <<>>
    /\ pc' = "returned"
    /\ UNCHANGED <<mode, encodeVars, decodeVars>>

Init ==
    /\ mode \in {"encode", "client"}
    /\ pc = IF mode = "encode" THEN "next" ELSE "decode"
    /\ text = <<>> /\ rembits = 8 /\ curByte = 0 /\ bitCount = 0 /\ dest = <<>>
    /\ data = <<>> /\ state = 0 /\ accept = TRUE /\ lower = FALSE /\ out = <<>>
    /\ bits = 1 /\ expect = <<>>

Next ==
    \/ \E c \in Chars : NextChar(c)
    \/ LastBits \/ FillByte \/ EndOfText \/ decodeStep \/ Return
    \/ \E b \in Chars : ClientByte(b)

Spec == Init /\ [][Next]_vars

-----------------------------------------------------------------------------
(* Properties. *)

\* Locals have their types: rembits is never 0 and bytes are bytes.
TypeOK ==
    /\ rembits \in 1..8 /\ curByte \in Chars /\ bitCount \in 0..30
    /\ \A i \in DOMAIN dest : dest[i] \in Chars
    /\ state \in 0..255 /\ accept \in BOOLEAN /\ lower \in BOOLEAN

\* For any bytes whatever, decode has written the characters whose codes have
\* come in full, in their order, and fails with the end of string alone: the
\* decode table is the automaton of the encode table.  (readStringLiteral
\* uses what was written even when decode fails.)
DecodesCodeWords ==
    /\ pc = "failed" <=> bits = EndOfString
    /\ pc # "failed" => out = expect
    /\ pc = "failed" => IsPrefix(out, expect)

\* A string is accepted after a byte when less than a byte is left of it, all
\* ones.
AcceptsPadding ==
    pc = "decode" /\ ~lower =>
        (accept <=> bits \in {Bits(n) - 1 : n \in 1..8})

\* What encode writes is accepted by decode and gives the text back.
RoundTrip == pc = "returned" => accept /\ out = text

\* encode writes no more bytes than the codes of the text need.
ShortestOutput ==
    pc \in {"decode", "returned"} /\ mode = "encode" =>
        LET length[i \in 0..Len(text)] == IF i = 0 THEN 0 ELSE length[i - 1] + huffmanEncodeTable[text[i] + 1][1]
        IN Len(dest) = (length[Len(text)] + 7) \div 8

\* decode is exact for any bytes: in what it writes, where it fails and after
\* which bytes it accepts.
DecodesExactly == DecodesCodeWords /\ AcceptsPadding

\* encode keeps its bytes and bit counts in range, writes the shortest output
\* there is, and decode gives the text back.
EncodesExactly == TypeOK /\ RoundTrip /\ ShortestOutput
==============================================================================
