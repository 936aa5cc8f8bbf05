------------------------------ MODULE HpackProofs ----------------------------
(***************************************************************************)
(* The theorems about HPACK.  About HpackTable, for every static table,    *)
(* every overhead and whatever its user adds: the size the table keeps is  *)
(* related to its entries through the history `sums': the size of the      *)
(* entries held is the difference of two sums, and as the sums grow, a     *)
(* positive difference means that there is an entry to drop.  About        *)
(* HpackDecoder: it implements the specification of the table's user,      *)
(* whatever bytes its peer sends, and so what is proved of the table holds *)
(* while it decodes.  And about HpackPeer: a careful peer and the decoder  *)
(* have the same headers and the same dynamic table after every block.     *)
(***************************************************************************)
EXTENDS HpackPeer, TLAPS, WellFoundedInduction, NaturalsInduction

-----------------------------------------------------------------------------
(* The table.                                                              *)

\* The sums grow with the entries.
SumsGrow == \A i, j \in 0 .. Len(added) : i <= j => Total(i) <= Total(j)

IInv == TableTypeOK /\ SumsRight /\ SumsGrow /\ AccountingExact /\ TableFits

\* A string, and an entry, has a size.
LEMMA SizeType ==
    ASSUME NEW n \in String, NEW v \in String
    PROVE  /\ size(n, v) \in Nat /\ Len(n) \in Nat
           /\ <<n, v>> \in String \X String /\ EntrySize(<<n, v>>) = size(n, v)
  BY TableAssumption DEF size, String, EntrySize

\* Every sum is a number.
LEMMA TotalType ==
    ASSUME TableTypeOK, NEW k \in 0 .. Len(added)
    PROVE  Total(k) \in Nat
  <1>1. Len(added) \in Nat
    BY DEF TableTypeOK
  <1>2. CASE k = 0
    BY <1>2 DEF Total
  <1>3. CASE k # 0
    <2>1. k \in 1 .. Len(sums)
      BY <1>1, <1>3 DEF TableTypeOK
    <2> QED
      BY <1>3, <2>1 DEF TableTypeOK, Total
  <1> QED
    BY <1>2, <1>3

\* What add copies has the length of the name it was called with, freed or not.
LEMMA NameCopiedType ==
    ASSUME TableTypeOK
    PROVE  NameCopied \in String /\ size(NameCopied, newValue) = size(newName, newValue)
  <1>1. newName \in Seq(Chars \cup {Freed})
    BY DEF TableTypeOK, String
  <1>2. DEFINE junk == [i \in 1 .. Len(newName) |-> Freed]
  <1>3. junk \in Seq(Chars \cup {Freed}) /\ Len(junk) = Len(newName)
    BY <1>1
  <1>4. NameCopied \in {junk, newName}
    BY DEF NameCopied
  <1> HIDE DEF junk
  <1> QED
    BY <1>1, <1>3, <1>4 DEF String, size

\* What DropsOnlyEntries says follows from the accounting.
LEMMA DropHasEntry ==
    ASSUME IInv
    PROVE  DropsOnlyEntries
  <1> SUFFICES ASSUME DropWanted, dropped >= Len(added) PROVE FALSE
    BY DEF IInv, TableTypeOK, DropsOnlyEntries
  <1>1. dropped = Len(added)
    BY DEF IInv, TableTypeOK
  <1>2. currentTableBytes = 0
    BY <1>1, TotalType DEF IInv, AccountingExact, TableTypeOK
  <1>3. size(newName, newValue) \in Nat
    BY SizeType DEF IInv, TableTypeOK
  <1> QED
    BY <1>2, <1>3 DEF DropWanted, TooFull, TooLarge, IInv, TableFits, TableTypeOK

\* A new table is empty, and its size is 0.
LEMMA InitIInv == InitTable => IInv
  <1> SUFFICES ASSUME InitTable PROVE IInv
    OBVIOUS
  <1>1. TableTypeOK
    BY TableAssumption DEF InitTable, TableTypeOK, String
  <1>2. SumsRight /\ SumsGrow
    BY DEF InitTable, SumsRight, SumsGrow, Total
  <1>3. AccountingExact /\ TableFits
    BY TableAssumption DEF InitTable, AccountingExact, TableFits, Total
  <1> QED
    BY <1>1, <1>2, <1>3 DEF IInv

\* A round of one of the loops.
LEMMA DropPreserves ==
    ASSUME IInv, DropEntry
    PROVE  IInv'
  <1> USE DEF IInv, DropEntry, dropEntry
  <1>1. dropped < Len(added) /\ Len(added) \in Nat /\ dropped \in Nat
    BY DropHasEntry DEF DropsOnlyEntries, TableTypeOK
  <1>2. dropped \in 0 .. Len(added) /\ dropped + 1 \in 1 .. Len(added) /\ Len(added) \in 0 .. Len(added)
    BY <1>1
  <1>3. /\ Total(dropped) \in Nat /\ Total(dropped + 1) \in Nat /\ Total(Len(added)) \in Nat
        /\ Total(dropped + 1) <= Total(Len(added))
    BY <1>1, <1>2, TotalType DEF SumsGrow
  <1>4. Total(dropped + 1) = Total(dropped) + EntrySize(added[dropped + 1])
    BY <1>1, <1>2 DEF SumsRight, Total
  <1>5. EntrySize(added[dropped + 1]) \in Nat
    BY <1>2, SizeType DEF TableTypeOK, EntrySize
  <1>6. currentTableBytes' = Total(Len(added)) - Total(dropped + 1)
    BY <1>3, <1>4, <1>5 DEF AccountingExact, DroppedSize
  <1>7. currentTableBytes' \in Nat /\ currentTableBytes' <= currentTableBytes
    BY <1>3, <1>4, <1>5, <1>6 DEF AccountingExact
  <1>8. TableTypeOK'
    BY <1>1, <1>7 DEF TableTypeOK
  <1>9. SumsRight' /\ SumsGrow'
    BY DEF SumsRight, SumsGrow, Total
  <1>10. AccountingExact'
    BY <1>6 DEF AccountingExact, Total
  <1>11. TableFits'
    BY <1>7 DEF TableFits, TableTypeOK
  <1> QED
    BY <1>8, <1>9, <1>10, <1>11

\* The end of resize.
LEMMA ResizedPreserves ==
    ASSUME IInv, Resized
    PROVE  IInv'
  <1> USE DEF IInv, Resized
  <1>1. TableTypeOK'
    BY DEF TableTypeOK
  <1>2. SumsRight' /\ SumsGrow' /\ AccountingExact'
    BY DEF SumsRight, SumsGrow, AccountingExact, Total
  <1>3. TableFits'
    BY DEF TableFits, TableTypeOK, TooLarge
  <1> QED
    BY <1>1, <1>2, <1>3

\* The end of add.
LEMMA AddedPreserves ==
    ASSUME IInv, Added
    PROVE  IInv'
  <1> DEFINE e == <<NameCopied, newValue>>
  <1>n. PICK n \in Nat : n = Len(added)
    BY DEF IInv, TableTypeOK
  <1>s. PICK s \in Nat : s = size(newName, newValue)
    BY SizeType DEF IInv, TableTypeOK
  <1>1. e \in String \X String /\ EntrySize(e) = s
    BY <1>s, NameCopiedType, SizeType DEF IInv, TableTypeOK
  <1>2. Len(sums) = n /\ dropped \in 0 .. n /\ sums \in Seq(Nat)
    BY <1>n DEF IInv, TableTypeOK
  <1>3. \A k \in 0 .. n : Total(k) \in Nat
    BY <1>n, TotalType DEF IInv
  <1>t. PICK t \in Nat : t = Total(n) + s
    BY <1>3
  <1>5. /\ added' \in Seq(String \X String) /\ Len(added') = n + 1
        /\ added'[n + 1] = e /\ \A k \in 1 .. n : added'[k] = added[k]
    BY <1>1, <1>n DEF Added, IInv, TableTypeOK
  <1>6. /\ sums' \in Seq(Nat) /\ Len(sums') = n + 1
        /\ sums'[n + 1] = t /\ \A k \in 1 .. n : sums'[k] = sums[k]
    BY <1>2, <1>n, <1>s, <1>t DEF Added
  <1>7. \A k \in 0 .. n : Total(k)' = Total(k)
    BY <1>6 DEF Total
  <1>8. Total(n + 1)' = t
    BY <1>6 DEF Total
  <1>9. currentTableBytes' = currentTableBytes + s /\ currentTableBytes' \in Nat
    BY <1>s DEF Added, IInv, TableTypeOK
  <1> HIDE DEF e
  <1> USE DEF IInv, Added
  <1>10. TableTypeOK'
    BY <1>2, <1>5, <1>6, <1>9 DEF TableTypeOK
  <1>11. SumsRight'
    <2> SUFFICES ASSUME NEW k \in 1 .. (n + 1)
                 PROVE  sums'[k] = Total(k - 1)' + EntrySize(added'[k])
      BY <1>5 DEF SumsRight, EntrySize, size
    <2>1. CASE k = n + 1
      BY <2>1, <1>1, <1>5, <1>6, <1>7, <1>t
    <2>2. CASE k # n + 1
      <3>1. k \in 1 .. n /\ k - 1 \in 0 .. n
        BY <2>2, <1>2
      <3> QED
        BY <3>1, <1>n, <1>5, <1>6, <1>7 DEF SumsRight
    <2> QED
      BY <2>1, <2>2
  <1>12. SumsGrow'
    <2> SUFFICES ASSUME NEW i \in 0 .. (n + 1), NEW j \in 0 .. (n + 1), i <= j
                 PROVE  Total(i)' <= Total(j)'
      BY <1>5 DEF SumsGrow, Total
    <2>1. CASE j \in 0 .. n
      <3>1. i \in 0 .. n
        BY <2>1, <1>2
      <3> QED
        BY <2>1, <3>1, <1>n, <1>7 DEF SumsGrow
    <2>2. CASE j = n + 1 /\ i \in 0 .. n
      <3>1. Total(i) <= Total(n) /\ Total(i) \in Nat /\ Total(n) \in Nat
        BY <2>2, <1>n, <1>3 DEF SumsGrow
      <3>2. Total(i)' = Total(i)
        BY <2>2, <1>7
      <3> QED
        BY <2>2, <3>1, <3>2, <1>t, <1>8
    <2>3. CASE j = n + 1 /\ i = n + 1
      BY <2>3, <1>8
    <2> QED
      BY <2>1, <2>2, <2>3, <1>2
  <1>13. AccountingExact'
    <2>1. Total(Len(added))' = t /\ Total(dropped)' = Total(dropped)
      BY <1>2, <1>5, <1>6 DEF Total
    <2>2. Total(n) \in Nat /\ Total(dropped) \in Nat
      BY <1>2, <1>3
    <2> QED
      BY <2>1, <2>2, <1>n, <1>t, <1>9 DEF AccountingExact
  <1>14. TableFits'
    BY <1>s, <1>9 DEF TableFits, TooFull, TableTypeOK
  <1> QED
    BY <1>10, <1>11, <1>12, <1>13, <1>14

\* The beginning of a call.
LEMMA CallPreserves ==
    ASSUME IInv, TableCall
    PROVE  IInv'
  <1> USE DEF IInv, TableCall
  <1>1. /\ UNCHANGED <<maxTableBytes, currentTableBytes, added, dropped, sums>>
        /\ update' \in {"none", "resize", "add"}
        /\ newMax' \in Nat /\ newName' \in String /\ newValue' \in String
        /\ alias' \in Nat
    <2>1. CASE newMax' \in Nat /\ resize(newMax')
      BY <2>1 DEF resize, TableTypeOK
    <2>2. CASE /\ newName' \in String /\ newValue' \in String
               /\ alias' = 0 \/ (alias' \in (dropped + 1) .. Len(added) /\ newName' = added[alias'][1])
               /\ add(newName', newValue', alias')
      BY <2>2 DEF add, tableVars, TableTypeOK
    <2> QED
      BY <2>1, <2>2
  <1>2. TableTypeOK'
    BY <1>1 DEF TableTypeOK
  <1>3. SumsRight' /\ SumsGrow' /\ AccountingExact'
    BY <1>1 DEF SumsRight, SumsGrow, AccountingExact, Total
  <1>4. TableFits'
    <2>1. CASE resize(newMax')
      BY <2>1 DEF resize, TableFits
    <2>2. CASE add(newName', newValue', alias')
      <3>1. size(newName', newValue') \in Nat
        BY <1>1, SizeType
      <3> QED
        BY <2>2, <3>1 DEF add, tableVars, TableFits, TableTypeOK
    <2> QED
      BY <2>1, <2>2
  <1> QED
    BY <1>2, <1>3, <1>4

\* Every step of the table, or of its user.
LEMMA StepPreserves ==
    ASSUME IInv, [TableNext]_tableVars
    PROVE  IInv'
  <1>1. CASE TableCall
    BY <1>1, CallPreserves
  <1>2. CASE DropEntry
    BY <1>2, DropPreserves
  <1>3. CASE Resized
    BY <1>3, ResizedPreserves
  <1>4. CASE Added
    BY <1>4, AddedPreserves
  <1>5. CASE UNCHANGED tableVars
    BY <1>5 DEF tableVars, IInv, TableTypeOK, SumsRight, SumsGrow, AccountingExact,
                TableFits, Total
  <1> QED
    BY <1>1, <1>2, <1>3, <1>4, <1>5 DEF TableNext, TableStep

-----------------------------------------------------------------------------
\* IInv is an invariant of the table, whatever its user does with it.
THEOREM Invariance == TableSpec => []IInv
  <1>1. InitTable => IInv
    BY InitIInv
  <1>2. IInv /\ [TableNext]_tableVars => IInv'
    BY StepPreserves
  <1> QED
    BY <1>1, <1>2, PTL DEF TableSpec

\* The variables of HpackTable keep their types; the unsigned size does not wrap.
THEOREM TypeCorrect == TableSpec => []TableTypeOK
  <1>1. IInv => TableTypeOK
    BY DEF IInv
  <1> QED
    BY <1>1, Invariance, PTL

\* The size that resize, add and dropEntry keep is that of the entries held.
THEOREM AccountingIsExact == TableSpec => []AccountingExact
  <1>1. IInv => AccountingExact
    BY DEF IInv
  <1> QED
    BY <1>1, Invariance, PTL

\* resize and add keep the table within its maximum at all times.
THEOREM TableAlwaysFits == TableSpec => []TableFits
  <1>1. IInv => TableFits
    BY DEF IInv
  <1> QED
    BY <1>1, Invariance, PTL

\* dropEntry is never called for an empty deque.
THEOREM NeverDropsFromEmpty == TableSpec => []DropsOnlyEntries
  <1>1. IInv => DropsOnlyEntries
    BY DropHasEntry
  <1> QED
    BY <1>1, Invariance, PTL

-----------------------------------------------------------------------------
(* The decoder.                                                            *)

\* The decoder reads one of the blocks, or nothing, from a position in it or
\* behind it.
BlockOK ==
    /\ block \in Blocks \cup {<< >>}
    /\ data \in Nat \ {0}

DInv == IInv /\ BlockOK

-----------------------------------------------------------------------------
(* What is read from a block.                                              *)

\* The bytes of a block are bytes.
LEMMA BlockBytes ==
    ASSUME BlockOK
    PROVE  block \in Seq(Byte) /\ Len(block) \in Nat /\ \A i \in 1 .. Len(block) : block[i] \in Byte
  <1>1. << >> \in Seq(Byte)
    OBVIOUS
  <1>2. Blocks \subseteq Seq(Byte)
    BY CodingAssumption
  <1>3. block \in Seq(Byte)
    BY <1>1, <1>2 DEF BlockOK
  <1> QED
    BY <1>3

\* Products of positive numbers are positive.
LEMMA Products ==
    ASSUME NEW a \in Nat \ {0}, NEW b \in Nat \ {0}
    PROVE  a * b \in Nat \ {0}
  OBVIOUS

\* The range of the decoder's integers is not empty.
LEMMA RangeType == Range32 \in Nat \ {0}
  <1>1. High \in Nat \ {0} /\ LastMax + 1 \in Nat \ {0}
    BY DecoderAssumption
  <1>2. High * High \in Nat \ {0}
    BY <1>1, Products
  <1>3. High * High * High \in Nat \ {0}
    BY <1>1, <1>2, Products
  <1>4. High * High * High * High \in Nat \ {0}
    BY <1>1, <1>3, Products
  <1> QED
    BY <1>1, <1>4, Products DEF Range32

\* The weights of the extension bytes.
LEMMA PowerType ==
    ASSUME NEW i \in 1 .. 5
    PROVE  Power(i) \in Nat
  <1>1. High \in Nat \ {0}
    BY DecoderAssumption
  <1>2. High * High \in Nat \ {0}
    BY <1>1, Products
  <1>3. High * High * High \in Nat \ {0}
    BY <1>1, <1>2, Products
  <1>4. High * High * High * High \in Nat \ {0}
    BY <1>1, <1>3, Products
  <1> QED
    BY <1>1, <1>2, <1>3, <1>4 DEF Power

\* A number has one to five extension bytes.
LEMMA LengthType ==
    ASSUME NEW d \in Nat
    PROVE  NumberLength(d) \in 1 .. 5
  <1> DEFINE ends == {i \in 1 .. 4 : d + i <= Len(block) /\ block[d + i] < High}
  <1>1. CASE ends = {}
    BY <1>1 DEF NumberLength
  <1>2. CASE ends # {}
    <2>1. \E i \in ends : \A j \in ends : i <= j
      <3>1. ends \subseteq 1 .. 4
        OBVIOUS
      <3> HIDE DEF ends
      <3>2. CASE 1 \in ends
        BY <3>1, <3>2
      <3>3. CASE 1 \notin ends /\ 2 \in ends
        BY <3>1, <3>3
      <3>4. CASE 1 \notin ends /\ 2 \notin ends /\ 3 \in ends
        BY <3>1, <3>4
      <3>5. CASE 1 \notin ends /\ 2 \notin ends /\ 3 \notin ends
        <4>1. PICK x \in ends : TRUE
          BY <1>2
        <4>2. x = 4 /\ \A j \in ends : j = 4
          BY <3>1, <3>5, <4>1
        <4> QED
          BY <4>1, <4>2
      <3> QED
        BY <3>2, <3>3, <3>4, <3>5
    <2>2. NumberLength(d) = CHOOSE i \in ends : \A j \in ends : i <= j
      BY <1>2 DEF NumberLength
    <2>3. NumberLength(d) \in ends
      <3> HIDE DEF ends
      <3> QED
        BY <2>1, <2>2
    <2> QED
      BY <2>3
  <1> QED
    BY <1>1, <1>2

\* What an extension byte adds to a number.
LEMMA DigitType ==
    ASSUME BlockOK, NEW d \in Nat, NEW i \in 1 .. 5, d + i <= Len(block)
    PROVE  Digit(d, i) \in Nat
  <1>1. block[d + i] \in Nat /\ High \in Nat \ {0}
    BY BlockBytes, DecoderAssumption DEF Byte
  <1>2. PICK r \in Nat : r = block[d + i] % High
    BY <1>1
  <1>3. PICK p \in Nat : p = Power(i)
    BY PowerType
  <1>4. r * p \in Nat
    OBVIOUS
  <1> QED
    BY <1>2, <1>3, <1>4 DEF Digit

\* A number that is read is one, and ends behind where it begins and within the
\* block.
LEMMA NumberRead ==
    ASSUME BlockOK, NEW d \in Nat, NEW v \in Nat, readNumberAfterPrefix(d, v).ok
    PROVE  /\ readNumberAfterPrefix(d, v).value \in Nat
           /\ readNumberAfterPrefix(d, v).data \in Nat \ {0}
           /\ d <= readNumberAfterPrefix(d, v).data
           /\ readNumberAfterPrefix(d, v).data <= Len(block)
  <1>1. PICK n \in 1 .. 5 : n = NumberLength(d)
    BY LengthType
  <1>2. Len(block) \in Nat
    BY BlockBytes
  <1> DEFINE f == [i \in 1 .. 5 |-> IF i <= n THEN Digit(d, i) ELSE 0]
             r == NumberOf(d, n, v)
  <1>3. readNumberAfterPrefix(d, v) = r
    BY <1>1 DEF readNumberAfterPrefix
  <1>4. d + n <= Len(block)
    <2> SUFFICES ASSUME ~(d + n <= Len(block)) PROVE FALSE
      OBVIOUS
    <2>1. r = NotRead
      BY DEF NumberOf
    <2> QED
      BY <2>1, <1>3 DEF NotRead
  <1>5. \A i \in 1 .. 5 : f[i] \in Nat
    <2> SUFFICES ASSUME NEW i \in 1 .. 5 PROVE (IF i <= n THEN Digit(d, i) ELSE 0) \in Nat
      OBVIOUS
    <2>1. CASE i <= n
      BY <2>1, <1>2, <1>4, DigitType
    <2>2. CASE ~(i <= n)
      BY <2>2
    <2> QED
      BY <2>1, <2>2
  <1>6. SumOf(f) \in Nat
    <2> HIDE DEF f
    <2> QED
      BY <1>5 DEF SumOf
  <1>7. r = [ok |-> TRUE, value |-> (v + SumOf(f)) % Range32, data |-> d + n]
    <2>1. ~(d + n <= Len(block) /\ (n = 5 => block[d + 5] <= LastMax)) => r = NotRead
      BY DEF NumberOf
    <2>2. r # NotRead
      BY <1>3 DEF NotRead
    <2> QED
      BY <2>1, <2>2 DEF NumberOf
  <1>8. (v + SumOf(f)) % Range32 \in Nat
    <2> HIDE DEF f
    <2> QED
      BY <1>6, RangeType
  <1> HIDE DEF f, r
  <1> QED
    BY <1>2, <1>3, <1>4, <1>7, <1>8

\* The same for a number whose prefix says enough.
LEMMA PrefixRead ==
    ASSUME BlockOK, NEW d \in Nat \ {0}, d <= Len(block), NEW b \in Nat, NEW max \in Nat,
           readNumber(d, b, max).ok
    PROVE  /\ readNumber(d, b, max).value \in Nat
           /\ readNumber(d, b, max).data \in Nat \ {0}
           /\ d <= readNumber(d, b, max).data
           /\ readNumber(d, b, max).data <= Len(block)
  <1>1. CASE b < max
    BY <1>1 DEF readNumber
  <1>2. CASE ~(b < max)
    BY <1>2, NumberRead DEF readNumber
  <1> QED
    BY <1>1, <1>2

\* The length of a string, behind its first byte.
LEMMA StringLengthRead ==
    ASSUME BlockOK, NEW d \in Nat \ {0}, d <= Len(block), StringLength(d).ok
    PROVE  /\ StringLength(d).value \in Nat
           /\ StringLength(d).data \in Nat \ {0}
           /\ d <= StringLength(d).data
           /\ StringLength(d).data <= Len(block)
  <1>1. High - 1 \in Nat /\ High \in Nat \ {0} /\ block[d] \in Nat
    BY BlockBytes, DecoderAssumption DEF Byte
  <1>2. block[d] % High \in Nat
    BY <1>1
  <1>3. CASE block[d] % High # 0
    BY <1>2, <1>3 DEF StringLength
  <1>4. CASE ~(block[d] % High # 0)
    BY <1>1, <1>4, NumberRead DEF StringLength
  <1> QED
    BY <1>3, <1>4

\* The characters of a part of a block, coded or not.
LEMMA DecodedType ==
    ASSUME BlockOK, NEW h \in BOOLEAN, NEW i \in 1 .. (Len(block) + 1), NEW j \in 0 .. Len(block)
    PROVE  Decoded(h, SubSeq(block, i, j)) \in String
  <1>1. \A q \in Seq(Chars) : q \in String
    BY DEF String
  <1>2. Byte \subseteq Chars
    BY CodingAssumption
  <1>3. SubSeq(block, i, j) \in Seq(Chars)
    <2>1. SubSeq(block, i, j) \in Seq(Byte)
      BY BlockBytes
    <2>2. \A q \in Seq(Byte) : q \in Seq(Chars)
      BY <1>2
    <2> QED
      BY <2>1, <2>2
  <1>4. HuffmanDecode(SubSeq(block, i, j)) \in Seq(Chars)
    BY CodingAssumption DEF BlockOK
  <1> QED
    BY <1>1, <1>3, <1>4 DEF Decoded

\* A string that is read is one, and the decoder is moved forward.
LEMMA StringRead ==
    ASSUME BlockOK, NEW d \in Nat \ {0}, readStringLiteral(d).ok
    PROVE  /\ readStringLiteral(d).value \in String /\ readStringLiteral(d).data \in Nat \ {0}
           /\ d <= readStringLiteral(d).data
  <1>1. Len(block) \in Nat
    BY BlockBytes
  <1>2. d + 1 <= Len(block)
    <2> SUFFICES ASSUME d + 1 > Len(block) PROVE FALSE
      BY <1>1
    <2> QED
      BY DEF readStringLiteral, NotRead
  <1> DEFINE h == block[d + 1] >= High
             l == StringLength(d + 1)
  <1>3. readStringLiteral(d) = StringOf(h, l)
    BY <1>1, <1>2 DEF readStringLiteral
  <1>4. h \in BOOLEAN
    OBVIOUS
  <1> HIDE DEF h, l
  <1>5. l.ok /\ ~(Len(block) - l.data < l.value)
    BY <1>3 DEF StringOf, NotRead
  <1>6. l.value \in Nat /\ l.data \in Nat \ {0} /\ d + 1 <= l.data /\ l.data <= Len(block)
    BY <1>2, <1>5, StringLengthRead DEF l
  <1>7. l.data + 1 \in 1 .. (Len(block) + 1) /\ l.data + l.value \in 0 .. Len(block)
    BY <1>1, <1>5, <1>6
  <1>8. Decoded(h, SubSeq(block, l.data + 1, l.data + l.value)) \in String
    BY <1>4, <1>7, DecodedType
  <1>9. /\ l.data + 1 + ((l.value + Range32 - 1) % Range32) \in Nat \ {0}
        /\ d <= l.data + 1 + ((l.value + Range32 - 1) % Range32)
    <2>1. l.value + Range32 - 1 \in Nat
      BY <1>6, RangeType
    <2>2. (l.value + Range32 - 1) % Range32 \in Nat
      BY <2>1, RangeType
    <2> QED
      BY <1>6, <2>2
  <1> QED
    BY <1>3, <1>5, <1>8, <1>9 DEF StringOf

-----------------------------------------------------------------------------
(* What is read from the table.                                            *)

\* The index of an entry there is refers to one.
LEMMA EntryFound ==
    ASSUME IInv, NEW index \in Nat \ {0}, hasEntryAtIndex(index)
    PROVE  /\ nameAtIndex(index) \in String
           /\ \/ AliasOf(index) = 0
              \/ /\ AliasOf(index) \in (dropped + 1) .. Len(added)
                 /\ nameAtIndex(index) = added[AliasOf(index)][1]
  <1>1. /\ Len(added) \in Nat /\ dropped \in 0 .. Len(added) /\ added \in Seq(String \X String)
        /\ STATIC_TABLE_MAX \in Nat
    BY TableAssumption DEF IInv, TableTypeOK, STATIC_TABLE_MAX
  <1>2. CASE index <= STATIC_TABLE_MAX
    <2>1. StaticTable[index] \in Seq(Chars) \X Seq(Chars)
      BY <1>2, TableAssumption DEF STATIC_TABLE_MAX
    <2>2. StaticTable[index][1] \in Seq(Chars)
      BY <2>1
    <2>3. \A q \in Seq(Chars) : q \in String
      BY DEF String
    <2>4. AliasOf(index) = 0 /\ nameAtIndex(index) = StaticTable[index][1]
      BY <1>1, <1>2 DEF AliasOf, nameAtIndex, EntryAt
    <2> QED
      BY <2>2, <2>3, <2>4
  <1>3. CASE ~(index <= STATIC_TABLE_MAX)
    <2>1. Len(added) - dropped >= index - STATIC_TABLE_MAX
      BY <1>3 DEF hasEntryAtIndex, dynamicSize
    <2>2. Position(index) \in (dropped + 1) .. Len(added)
      BY <1>1, <1>3, <2>1 DEF Position
    <2>3. AliasOf(index) = Position(index) /\ nameAtIndex(index) = added[Position(index)][1]
      BY <1>1, <1>3 DEF AliasOf, nameAtIndex, EntryAt
    <2>4. added[Position(index)] \in String \X String
      BY <1>1, <2>2
    <2>5. added[Position(index)][1] \in String
      BY <2>4
    <2> QED
      BY <2>2, <2>3, <2>5
  <1> QED
    BY <1>2, <1>3

\* An entry that a block names is in the table.
LEMMA EntryRead ==
    ASSUME DInv, NEW d \in Nat \ {0}, d <= Len(block), NEW b \in Nat, NEW max \in Nat,
           NEW entry, entry = Entry(readNumber(d, b, max)), entry.ok
    PROVE  /\ entry.value \in Nat \ {0} /\ hasEntryAtIndex(entry.value)
           /\ entry.alias = AliasOf(entry.value)
           /\ entry.data \in Nat \ {0} /\ d <= entry.data /\ entry.data <= Len(block)
  <1> DEFINE number == readNumber(d, b, max)
  <1>1. number.ok /\ number.value # 0 /\ hasEntryAtIndex(number.value)
        /\ entry = Read(number, AliasOf(number.value))
    BY DEF Entry, Failed
  <1>2. number.value \in Nat /\ number.data \in Nat \ {0} /\ d <= number.data /\ number.data <= Len(block)
    BY <1>1, PrefixRead DEF DInv
  <1> HIDE DEF number
  <1> QED
    BY <1>1, <1>2 DEF Read

\* What add is called with.
Argument(name, ref) ==
    /\ name \in String
    /\ ref = 0 \/ (ref \in (dropped + 1) .. Len(added) /\ name = added[ref][1])

\* The name of a literal field.
LEMMA NameRead ==
    ASSUME DInv, data <= Len(block), NEW bits \in Nat, NEW max \in Nat,
           NEW name, name = NameOf(bits, max), name.ok
    PROVE  Argument(name.value, name.alias) /\ name.data \in Nat \ {0} /\ data <= name.data
  <1>1. data \in Nat \ {0} /\ BlockOK /\ IInv
    BY DEF DInv, BlockOK
  <1>2. CASE bits = 0
    <2> DEFINE r == readStringLiteral(data)
    <2>1. name = Read(r, 0)
      BY <1>2 DEF NameOf
    <2>2. r.ok
      BY <2>1 DEF Read
    <2>3. r.value \in String /\ r.data \in Nat \ {0} /\ data <= r.data
      BY <1>1, <2>2, StringRead
    <2> HIDE DEF r
    <2> QED
      BY <2>1, <2>3 DEF Read, Argument
  <1>3. CASE bits # 0
    <2>1. PICK entry : entry = Entry(readNumber(data, bits, max))
      OBVIOUS
    <2>2. name = NamedBy(entry)
      BY <1>3, <2>1 DEF NameOf
    <2>3. entry.ok
      BY <2>2 DEF NamedBy
    <2>4. /\ entry.value \in Nat \ {0} /\ hasEntryAtIndex(entry.value)
          /\ entry.alias = AliasOf(entry.value) /\ entry.data \in Nat \ {0} /\ data <= entry.data
      BY <1>1, <2>1, <2>3, EntryRead
    <2>5. entry = Read(readNumber(data, bits, max), AliasOf(readNumber(data, bits, max).value))
      BY <2>1, <2>3 DEF Entry, Failed
    <2>6. name = [entry EXCEPT !.value = nameAtIndex(entry.value)]
      BY <2>2, <2>3 DEF NamedBy
    <2>7. name.value = nameAtIndex(entry.value) /\ name.alias = entry.alias /\ name.data = entry.data
      BY <2>5, <2>6 DEF Read
    <2> QED
      BY <1>1, <2>4, <2>7, EntryFound DEF Argument
  <1> QED
    BY <1>2, <1>3

\* A literal field.
LEMMA FieldRead ==
    ASSUME DInv, data <= Len(block), NEW bits \in Nat, NEW max \in Nat,
           NEW field, field = Field(NameOf(bits, max)), field.ok
    PROVE  /\ Argument(field.name, field.alias) /\ field.value \in String
           /\ field.data \in Nat \ {0} /\ data <= field.data
  <1>1. PICK name : name = NameOf(bits, max)
    OBVIOUS
  <1>2. name.ok /\ field = FieldOf(name, readStringLiteral(name.data))
    BY <1>1 DEF Field, Failed
  <1>3. Argument(name.value, name.alias) /\ name.data \in Nat \ {0} /\ data <= name.data
    BY <1>1, <1>2, NameRead
  <1> DEFINE value == readStringLiteral(name.data)
  <1>4. value.ok
    BY <1>2 DEF FieldOf
  <1>5. value.value \in String /\ value.data \in Nat \ {0} /\ name.data <= value.data
    BY <1>3, <1>4, StringRead DEF DInv
  <1> HIDE DEF value
  <1>6. /\ field.name = name.value /\ field.alias = name.alias
        /\ field.value = value.value /\ field.data = value.data
    BY <1>2 DEF FieldOf, value
  <1>7. data \in Nat
    BY DEF DInv, BlockOK
  <1> QED
    BY <1>3, <1>5, <1>6, <1>7

-----------------------------------------------------------------------------
(* The steps.                                                              *)

\* The first byte of a field.
LEMMA FirstByte ==
    ASSUME DInv, AtField
    PROVE  /\ data \in Nat \ {0} /\ data <= Len(block) /\ block[data] \in Nat
           /\ High \in Nat /\ High >= 16
  <1>1. data \in 1 .. Len(block)
    BY BlockBytes DEF AtField, DInv, BlockOK
  <1> QED
    BY <1>1, BlockBytes, DecoderAssumption DEF DInv, Byte

\* A decoder that is gone, or has failed, has not touched the table.
LEMMA LeftAlone ==
    ASSUME DInv, NEW r, Return(r) \/ Abort
    PROVE  UNCHANGED tableVars /\ BlockOK' /\ Advances
  BY DEF Return, Abort, DInv, BlockOK, Advances

\* A header that is found in the table does not change it.
LEMMA IndexedField ==
    ASSUME DInv, readIndexedHeaderField
    PROVE  UNCHANGED tableVars /\ BlockOK' /\ Advances
  <1>1. AtField
    BY DEF readIndexedHeaderField
  <1>2. CASE block[data] = High
    BY <1>2, LeftAlone DEF readIndexedHeaderField, Reject
  <1>3. CASE block[data] # High
    <2>1. PICK entry : entry = Entry(readNumber(data, block[data] - High, High - 1)) /\ TakeIndexed(entry)
      BY <1>3 DEF readIndexedHeaderField
    <2>2. CASE entry.ok /\ Accept(entry.data, nameAtIndex(entry.value), valueAtIndex(entry.value)) /\ UNCHANGED tableVars
      <3>1. block[data] >= High
        BY DEF readIndexedHeaderField
      <3>2. block[data] - High \in Nat /\ High - 1 \in Nat
        BY <1>1, <3>1, FirstByte
      <3>3. entry.data \in Nat \ {0} /\ data <= entry.data
        BY <1>1, <2>1, <2>2, <3>2, FirstByte, EntryRead
      <3>4. data' = entry.data + 1 /\ block' = block
        BY <2>2 DEF Accept
      <3> QED
        BY <2>2, <3>3, <3>4 DEF DInv, BlockOK, Advances
    <2>3. CASE Abort \/ Reject
      BY <2>3, LeftAlone DEF Reject
    <2> QED
      BY <2>1, <2>2, <2>3 DEF TakeIndexed
  <1> QED
    BY <1>2, <1>3

\* A literal field is added, or not, as the table's user may do.
LEMMA LiteralField ==
    ASSUME DInv, AtField, NEW bits \in Nat, NEW max \in Nat, NEW indexing \in BOOLEAN,
           NEW field, field = Field(NameOf(bits, max)), TakeLiteral(field, indexing)
    PROVE  [TableNext]_tableVars /\ BlockOK' /\ Advances
  <1>1. CASE Abort \/ Reject
    BY <1>1, LeftAlone DEF Reject
  <1>2. CASE /\ field.ok
             /\ Accept(field.data, field.name, field.value)
             /\ IF indexing THEN add(field.name, field.value, field.alias) ELSE UNCHANGED tableVars
    <2>1. data <= Len(block)
      BY FirstByte
    <2>2. /\ Argument(field.name, field.alias) /\ field.value \in String
          /\ field.data \in Nat \ {0} /\ data <= field.data
      BY <1>2, <2>1, FieldRead
    <2>3. data' = field.data + 1 /\ block' = block
      BY <1>2 DEF Accept
    <2>4. BlockOK' /\ Advances
      BY <2>2, <2>3 DEF DInv, BlockOK, Advances
    <2>5. CASE UNCHANGED tableVars
      BY <2>4, <2>5
    <2>6. CASE add(field.name, field.value, field.alias) /\ ~(UNCHANGED tableVars)
      <3>1. newName' = field.name /\ newValue' = field.value /\ alias' = field.alias
        BY <2>6 DEF add
      <3>2. add(newName', newValue', alias')
        BY <2>6, <3>1
      <3>3. update = "none"
        BY DEF AtField
      <3> QED
        BY <2>2, <2>4, <3>1, <3>2, <3>3 DEF TableNext, TableCall, Argument
    <2> QED
      BY <1>2, <2>5, <2>6
  <1> QED
    BY <1>1, <1>2 DEF TakeLiteral

\* The peer sets the size of the table, to any number.
LEMMA SizeUpdate ==
    ASSUME DInv, readTableSizeUpdate
    PROVE  [TableNext]_tableVars /\ BlockOK' /\ Advances
  <1>1. AtField
    BY DEF readTableSizeUpdate
  <1> DEFINE b == block[data] - High \div 4
             max == High \div 4 - 1
  <1>2. b \in Nat /\ max \in Nat
    <2>1. block[data] \in (High \div 4) .. (High \div 2 - 1)
      BY DEF readTableSizeUpdate
    <2>2. High \div 4 \in Nat \ {0}
      BY <1>1, FirstByte
    <2> QED
      BY <1>1, <2>1, <2>2, FirstByte
  <1>3. PICK number : number = readNumber(data, b, max) /\ TakeSize(number)
    BY DEF readTableSizeUpdate
  <1> HIDE DEF b, max
  <1>4. CASE ~number.ok
    BY <1>3, <1>4, LeftAlone DEF TakeSize, Reject
  <1>5. CASE number.ok
    <2>1. number.value \in Nat /\ number.data \in Nat \ {0} /\ data <= number.data
      BY <1>1, <1>2, <1>3, <1>5, FirstByte, PrefixRead DEF DInv
    <2>2. resize(number.value) /\ data' = number.data + 1 /\ block' = block
      BY <1>3, <1>5 DEF TakeSize
    <2>3. newMax' \in Nat /\ resize(newMax')
      BY <2>1, <2>2 DEF resize
    <2>4. BlockOK' /\ Advances
      BY <2>1, <2>2 DEF DInv, BlockOK, Advances
    <2> QED
      BY <1>1, <2>3, <2>4 DEF AtField, TableNext, TableCall
  <1> QED
    BY <1>4, <1>5

\* A step of the table ends its call or drops an entry that is there.
LEMMA TableStepAdvances ==
    ASSUME DInv, UpdateTable
    PROVE  Advances
  <1>1. data' = data /\ added \in Seq(String \X String) /\ dropped \in Nat /\ Len(added) \in Nat
    BY DEF UpdateTable, decoderVars, DInv, IInv, TableTypeOK
  <1>2. CASE DropEntry
    <2>1. dropped < Len(added) /\ dropped' = dropped + 1 /\ added' = added
      BY <1>2, DropHasEntry DEF DropEntry, dropEntry, DropsOnlyEntries, DInv
    <2>2. update # "none"
      BY <1>2 DEF DropEntry, DropWanted
    <2> QED
      BY <1>1, <2>1, <2>2 DEF Advances
  <1>3. CASE Resized \/ Added
    BY <1>1, <1>3 DEF Resized, Added, Advances
  <1> QED
    BY <1>2, <1>3 DEF UpdateTable, TableStep

\* Every step of the decoder is one of the table or its user, or does not change
\* the table, and gets decode further.
LEMMA StepMaps ==
    ASSUME DInv, [Next]_vars
    PROVE  [TableNext]_tableVars /\ BlockOK' /\ (phase = "field" => Advances \/ UNCHANGED vars)
  <1>1. ASSUME NEW b \in Blocks, decode(b)
        PROVE  UNCHANGED tableVars /\ BlockOK' /\ phase # "field"
    BY <1>1 DEF decode, BlockOK
  <1>2. CASE readIndexedHeaderField
    BY <1>2, IndexedField
  <1>3. CASE readLiteralHeaderIncrementalIndexing
    <2>1. PICK field : /\ field = Field(NameOf(block[data] % (High \div 2), High \div 2 - 1))
                       /\ TakeLiteral(field, TRUE)
      BY <1>3 DEF readLiteralHeaderIncrementalIndexing
    <2>2. AtField
      BY <1>3 DEF readLiteralHeaderIncrementalIndexing
    <2>3. block[data] % (High \div 2) \in Nat /\ High \div 2 - 1 \in Nat
      <3>1. High \div 2 \in Nat \ {0}
        BY <2>2, FirstByte
      <3> QED
        BY <2>2, <3>1, FirstByte
    <2> QED
      BY <2>1, <2>2, <2>3, LiteralField
  <1>4. CASE readLiteralHeaderNoIndexing
    <2>1. PICK field : /\ field = Field(NameOf(block[data] % (High \div 8), High \div 8 - 1))
                       /\ TakeLiteral(field, FALSE)
      BY <1>4 DEF readLiteralHeaderNoIndexing
    <2>2. AtField
      BY <1>4 DEF readLiteralHeaderNoIndexing
    <2>3. block[data] % (High \div 8) \in Nat /\ High \div 8 - 1 \in Nat
      <3>1. High \div 8 \in Nat \ {0}
        BY <2>2, FirstByte
      <3> QED
        BY <2>2, <3>1, FirstByte
    <2> QED
      BY <2>1, <2>2, <2>3, LiteralField
  <1>5. CASE readTableSizeUpdate
    BY <1>5, SizeUpdate
  <1>6. CASE DecodeEnds
    BY <1>6, LeftAlone DEF DecodeEnds
  <1>7. CASE UpdateTable
    BY <1>7, TableStepAdvances DEF UpdateTable, decoderVars, DInv, BlockOK, TableNext
  <1>8. CASE UNCHANGED vars
    BY <1>8 DEF vars, tableVars, DInv, BlockOK
  <1> QED
    BY <1>1, <1>2, <1>3, <1>4, <1>5, <1>6, <1>7, <1>8 DEF Next, DecodeStep

-----------------------------------------------------------------------------
\* The table's invariant holds while blocks are decoded, whatever they are.
THEOREM DecoderInvariance == Spec => []DInv
  <1>1. InitDecoder => DInv
    BY InitIInv DEF InitDecoder, DInv, BlockOK
  <1>2. DInv /\ [Next]_vars => DInv'
    BY StepMaps, StepPreserves DEF DInv
  <1> QED
    BY <1>1, <1>2, PTL DEF Spec

\* Whatever the peer sends, the decoder calls the table only between two calls,
\* and adds strings, under the names of buffers or of entries that are there.
THEOREM DecoderUsesTable == Spec => UsesTable
  <1>1. InitDecoder => InitTable
    BY DEF InitDecoder
  <1>2. DInv /\ [Next]_vars => [TableNext]_tableVars
    BY StepMaps
  <1> QED
    BY <1>1, <1>2, DecoderInvariance, PTL DEF Spec, UsesTable, TableSpec

\* Whatever the peer sends, the size the table keeps is that of its entries and
\* within the maximum, and its loops drop no entry that it does not have.
THEOREM DecoderTableSound == Spec => []TableSound
  BY DecoderUsesTable, TypeCorrect, AccountingIsExact, TableAlwaysFits, NeverDropsFromEmpty,
     PTL DEF UsesTable, TableSound

\* Every step of decode gets it further: no block keeps it in a loop.
THEOREM DecoderAdvances == Spec => EveryStepAdvances
  <1>1. DInv /\ [Next]_vars => [phase = "field" => Advances]_vars
    BY StepMaps
  <1> QED
    BY <1>1, DecoderInvariance, PTL DEF Spec, EveryStepAdvances

-----------------------------------------------------------------------------
(* The decoder and a peer that is careful.                                 *)

\* The k newest entries ever added, newest first, ...
Newest(k) == [i \in 1 .. k |-> added[Len(added) + 1 - i]]

\* ... and the table that goes on with those.
EntryIn(t, i) == (StaticTable \o t)[i]

\* Both tables are the same, and nothing is being done to them.
Synced ==
    /\ update = "none"
    /\ peerTable = Newest(dynamicSize)
    /\ maxTableBytes = peerMax

\* The block b has a number from d on, or a string, and goes on at e.
NumberIn(b, d, kind, max, n, e) ==
    /\ e = d + Len(EncodeNumber(kind, max, n)) /\ e <= Len(b) + 1
    /\ \A j \in 1 .. Len(EncodeNumber(kind, max, n)) : b[d + j - 1] = EncodeNumber(kind, max, n)[j]

StringIn(b, d, s, e) ==
    /\ e = d + 1 + Len(s) /\ e <= Len(b) + 1
    /\ b[d] = Len(s)
    /\ \A j \in 1 .. Len(s) : b[d + j] = s[j]

\* The last field, of the headers hs, is an index, of one of the entries of t.
IndexedIn(b, hs, d, t) ==
    \E i \in 1 .. (STATIC_TABLE_MAX + Len(t)) :
        NumberIn(b, d, High, High - 1, i, Len(b) + 1) /\ hs = <<EntryIn(t, i)>>

\* The only field is the literal one of h; its name may be that of the m newest
\* entries of t.
LiteralIn(b, hs, kind, max, h, t, m) ==
    /\ hs = <<h>>
    /\ \E v \in 1 .. Len(b) :
         /\ \/ b[1] = kind /\ StringIn(b, 2, h[1], v)
            \/ \E i \in 1 .. (STATIC_TABLE_MAX + m) :
                 NumberIn(b, 1, kind, max, i, v) /\ EntryIn(t, i)[1] = h[1]
         /\ StringIn(b, v, h[2], Len(b) + 1)

Idle == phase = "idle" /\ Synced /\ ok /\ headers = sent

\* What is still to be read, or done, while a block is decoded.
IndexedAhead == headers = << >> /\ Synced /\ IndexedIn(block, sent, data, peerTable)

LiteralAhead ==
    /\ headers = << >> /\ data = 1 /\ Synced
    /\ \E h \in Header, kind \in {0, High \div 8} :
         LiteralIn(block, sent, kind, High \div 8 - 1, h, peerTable, Len(peerTable))

\* The peer has added h to a table of k entries, and all that had to go are gone.
Fits(h, k) == Fitting(Newest(k), peerMax - EntrySize(h))

IncrementalAhead ==
    /\ headers = << >> /\ data = 1 /\ update = "none" /\ maxTableBytes = peerMax
    /\ \E h \in Header :
         /\ EntrySize(h) <= peerMax
         /\ peerTable = <<h>> \o Fits(h, dynamicSize)
         /\ LiteralIn(block, sent, High \div 2, High \div 2 - 1, h, Newest(dynamicSize), Len(Fits(h, dynamicSize)))

\* Of the k entries that there were when it was begun, the loop drops none that fits.
NoneTooMany(k, max) ==
    /\ k \in dynamicSize .. Len(added)
    /\ dynamicSize # k => Total(Len(added)) - Total(dropped - 1) > max

Adding ==
    /\ headers = sent /\ data = Len(block) + 1 /\ update = "add" /\ maxTableBytes = peerMax
    /\ \E h \in Header, k \in 0 .. Len(added) :
         /\ newName = h[1] /\ newValue = h[2]
         /\ NoneTooMany(k, peerMax - EntrySize(h))
         /\ peerTable = <<h>> \o Fits(h, k)
         /\ alias # 0 => Len(added) + 1 - alias \in 1 .. Len(Fits(h, k))

SizeAhead ==
    /\ headers = << >> /\ data = 1 /\ update = "none"
    /\ peerTable = Fitting(Newest(dynamicSize), peerMax)
    /\ \E e \in 1 .. Len(block) :
         NumberIn(block, 1, High \div 4, High \div 4 - 1, peerMax, e) /\ IndexedIn(block, sent, e, << >>)

Resizing ==
    /\ headers = << >> /\ update = "resize" /\ newMax = peerMax /\ IndexedIn(block, sent, data, << >>)
    /\ \E k \in 0 .. Len(added) : NoneTooMany(k, peerMax) /\ peerTable = Fitting(Newest(k), peerMax)

AllRead == headers = sent /\ data = Len(block) + 1 /\ Synced

Decoding ==
    /\ phase = "field" /\ ok
    /\ IndexedAhead \/ LiteralAhead \/ IncrementalAhead \/ Adding \/ SizeAhead \/ Resizing \/ AllRead

\* Every entry that has been added has a size.
Counted == \A i, j \in 0 .. Len(added) : i <= j => Total(j) >= Total(i) + (j - i)

PeerTyped ==
    /\ block \in Seq(Byte) /\ data \in Nat \ {0}
    /\ peerMax \in Sizes \cup {InitTableBytes}

PInv == IInv /\ Counted /\ PeerTyped /\ (Idle \/ Decoding)

-----------------------------------------------------------------------------
(* What the peer writes is read back.                                      *)

\* Parts of a byte.
LEMMA HighParts ==
    \E k \in Nat : /\ k >= 2 /\ High = 8 * k /\ High \div 2 = 4 * k
                   /\ High \div 4 = 2 * k /\ High \div 8 = k
  <1>1. High \in Nat /\ High % 8 = 0 /\ High >= 16
    BY DecoderAssumption
  <1> QED
    BY <1>1

\* A number below the square of High is made of two digits.
LEMMA TwoDigits ==
    ASSUME NEW x \in Nat, x < High * High
    PROVE  /\ x % High \in 0 .. (High - 1) /\ x \div High \in 0 .. (High - 1)
           /\ (x % High) + (x \div High) * High = x
  <1>1. High \in Nat \ {0}
    BY DecoderAssumption
  <1>2. PICK q \in Nat, r \in 0 .. (High - 1) : x = q * High + r /\ q = x \div High /\ r = x % High
    BY <1>1
  <1>3. q < High
    <2> SUFFICES ASSUME q >= High PROVE FALSE
      BY <1>1
    <2>1. PICK p \in Nat : q = High + p
      BY <1>1
    <2>2. q * High = High * High + p * High /\ p * High \in Nat /\ High * High \in Nat
      BY <1>1, <2>1
    <2> QED
      BY <1>1, <1>2, <2>2
  <1> QED
    BY <1>1, <1>2, <1>3

\* A digit is what is left of a byte without its top bit.
LEMMA DigitOf ==
    ASSUME NEW r \in 0 .. (High - 1)
    PROVE  r % High = r /\ (High + r) % High = r
  <1>1. High \in Nat \ {0}
    BY DecoderAssumption
  <1>2. \A a \in Nat, b \in Nat \ {0} : a < b => a % b = a /\ (b + a) % b = a
    OBVIOUS
  <1> QED
    BY <1>1, <1>2

\* What does not wrap stays.
LEMMA NoWrap ==
    ASSUME NEW n \in Nat, n < High * High
    PROVE  n % Range32 = n
  <1>1. High \in Nat \ {0} /\ LastMax + 1 \in Nat \ {0}
    BY DecoderAssumption
  <1>2. High * High \in Nat \ {0}
    BY <1>1, Products
  <1>3. PICK p \in Nat \ {0} : p = High * High
    BY <1>2
  <1>4. PICK m \in Nat \ {0} : m = High * (LastMax + 1)
    BY <1>1, Products
  <1>5. p * m >= p /\ p * m \in Nat
    OBVIOUS
  <1>6. High * High * High * (LastMax + 1) = p * m
    BY <1>1, <1>3, <1>4
  <1>7. Range32 >= High * High * High * (LastMax + 1)
    <2>1. PICK h \in Nat \ {0} : h = High
      BY <1>1
    <2>2. PICK g \in Nat \ {0} : g = h * h * h * (LastMax + 1)
      BY <1>5, <1>6, <2>1, <1>1
    <2>3. Range32 = h * g
      BY <1>1, <2>1, <2>2 DEF Range32
    <2>4. h * g >= g
      OBVIOUS
    <2> QED
      BY <2>1, <2>2, <2>3, <2>4
  <1>8. n < Range32 /\ Range32 \in Nat \ {0}
    BY <1>3, <1>5, <1>6, <1>7, RangeType
  <1>9. \A a \in Nat, b \in Nat \ {0} : a < b => a % b = a
    OBVIOUS
  <1> QED
    BY <1>8, <1>9

\* A number has one, two or three bytes.
LEMMA CodeType ==
    ASSUME NEW kind \in Nat, NEW max \in Nat, kind + max < 2 * High, NEW n \in Nat, n < High * High
    PROVE  /\ EncodeNumber(kind, max, n) \in Seq(Byte)
           /\ Len(EncodeNumber(kind, max, n)) \in 1 .. 3
           /\ EncodeNumber(kind, max, n)[1] = kind + (IF n < max THEN n ELSE max)
  <1>0. High \in Nat \ {0}
    BY DecoderAssumption
  <1>1. CASE n < max
    <2>1. EncodeNumber(kind, max, n) = <<kind + n>>
      BY <1>1 DEF EncodeNumber
    <2>2. kind + n \in Byte
      BY <1>0, <1>1 DEF Byte
    <2> QED
      BY <1>1, <2>1, <2>2
  <1>2. CASE n >= max /\ n - max < High
    <2>1. EncodeNumber(kind, max, n) = <<kind + max, n - max>>
      BY <1>2 DEF EncodeNumber
    <2>2. kind + max \in Byte /\ n - max \in Byte
      BY <1>0, <1>2 DEF Byte
    <2> QED
      BY <1>2, <2>1, <2>2
  <1>3. CASE n >= max /\ n - max >= High
    <2>1. EncodeNumber(kind, max, n) = <<kind + max, High + ((n - max) % High), (n - max) \div High>>
      BY <1>0, <1>3 DEF EncodeNumber
    <2>2. n - max \in Nat /\ n - max < High * High
      BY <1>0, <1>3
    <2>3. PICK r \in 0 .. (High - 1), q \in 0 .. (High - 1) : r = (n - max) % High /\ q = (n - max) \div High
      BY <2>2, TwoDigits
    <2>4. kind + max \in Byte /\ High + r \in Byte /\ q \in Byte
      BY <1>0 DEF Byte
    <2> QED
      BY <1>3, <2>1, <2>3, <2>4
  <1> QED
    BY <1>0, <1>1, <1>2, <1>3

\* The number is read as n, up to its last byte.
NumberIsRead(d, kind, max, n, e) ==
    /\ block[d] - kind = (IF n < max THEN n ELSE max)
    /\ readNumber(d, block[d] - kind, max) = [ok |-> TRUE, value |-> n, data |-> e - 1]
    /\ e \in Nat /\ d < e /\ e <= Len(block) + 1

\* The decoder reads the number that is there.
LEMMA NumberReadBack ==
    ASSUME block \in Seq(Byte), NEW d \in Nat \ {0}, NEW kind \in Nat, NEW max \in Nat, NEW n \in Nat,
           n < High * High, NEW e, NumberIn(block, d, kind, max, n, e)
    PROVE  NumberIsRead(d, kind, max, n, e)
  <1>0. High \in Nat \ {0} /\ Len(block) \in Nat
    BY DecoderAssumption
  <1> SUFFICES /\ block[d] - kind = (IF n < max THEN n ELSE max)
               /\ readNumber(d, block[d] - kind, max) = [ok |-> TRUE, value |-> n, data |-> e - 1]
               /\ e \in Nat /\ d < e /\ e <= Len(block) + 1
    BY DEF NumberIsRead
  <1> DEFINE code == EncodeNumber(kind, max, n)
             b == block[d] - kind
  <1>1. e = d + Len(code) /\ e <= Len(block) + 1 /\ \A j \in 1 .. Len(code) : block[d + j - 1] = code[j]
    BY DEF NumberIn
  <1>2. CASE n < max
    <2>1. code = <<kind + n>>
      BY <1>2 DEF EncodeNumber
    <2> HIDE DEF code
    <2>2. Len(code) = 1 /\ code[1] = kind + n
      BY <2>1
    <2>3. block[d] = kind + n /\ e = d + 1
      <3>1. 1 \in 1 .. Len(code) /\ d + 1 - 1 = d
        BY <2>2
      <3> QED
        BY <1>1, <2>2, <3>1
    <2>4. b = n /\ e - 1 = d
      BY <2>3
    <2>5. readNumber(d, b, max) = [ok |-> TRUE, value |-> b, data |-> d]
      BY <1>2, <2>4 DEF readNumber
    <2> QED
      BY <1>1, <1>2, <2>3, <2>4, <2>5
  <1>3. CASE n >= max /\ n - max < High
    <2>1. code = <<kind + max, n - max>>
      BY <1>3 DEF EncodeNumber
    <2> HIDE DEF code
    <2>2. Len(code) = 2 /\ code[1] = kind + max /\ code[2] = n - max
      BY <2>1
    <2>3. block[d] = kind + max /\ block[d + 1] = n - max /\ e = d + 2 /\ d + 1 <= Len(block)
      <3>1. 1 \in 1 .. Len(code) /\ 2 \in 1 .. Len(code) /\ ((d + 1) - 1) = d /\ ((d + 2) - 1) = d + 1
        BY <2>2
      <3> QED
        BY <1>0, <1>1, <2>2, <3>1
    <2>4. b = max /\ readNumber(d, b, max) = NumberOf(d, NumberLength(d), max)
      BY <2>3 DEF readNumber, readNumberAfterPrefix
    <2>5. NumberLength(d) = 1
      <3> DEFINE ends == {i \in 1 .. 4 : d + i <= Len(block) /\ block[d + i] < High}
      <3>1. 1 \in ends /\ ends \subseteq 1 .. 4
        BY <1>3, <2>3
      <3>2. NumberLength(d) = CHOOSE i \in ends : \A j \in ends : i <= j
        BY <3>1 DEF NumberLength
      <3> HIDE DEF ends
      <3>3. \A j \in ends : 1 <= j
        BY <3>1
      <3>4. NumberLength(d) \in ends /\ NumberLength(d) <= 1
        BY <3>1, <3>2, <3>3
      <3>5. NumberLength(d) \in 1 .. 4
        BY <3>1, <3>4, Zenon
      <3> QED
        BY <3>4, <3>5
    <2>6. Digit(d, 1) = n - max
      <3>1. Power(1) = 1
        BY DEF Power
      <3>2. n - max \in 0 .. (High - 1)
        BY <1>0, <1>3
      <3>3. block[d + 1] % High = n - max
        BY <2>3, <3>2, DigitOf
      <3> QED
        BY <3>1, <3>2, <3>3 DEF Digit
    <2> DEFINE f == [i \in 1 .. 5 |-> IF i <= 1 THEN Digit(d, i) ELSE 0]
    <2>7. SumOf(f) = n - max
      <3>1. f[1] = n - max /\ f[2] = 0 /\ f[3] = 0 /\ f[4] = 0 /\ f[5] = 0
        BY <2>6
      <3> HIDE DEF f
      <3> QED
        BY <1>3, <3>1 DEF SumOf
    <2>8. NumberOf(d, 1, max) = [ok |-> TRUE, value |-> (max + SumOf(f)) % Range32, data |-> d + 1]
      BY <2>3 DEF NumberOf
    <2> HIDE DEF f
    <2>9. max + SumOf(f) = n
      BY <1>3, <2>7
    <2>10. (max + SumOf(f)) % Range32 = n
      BY <2>9, NoWrap
    <2> QED
      BY <1>1, <1>3, <2>3, <2>4, <2>5, <2>8, <2>10
  <1>4. CASE n >= max /\ n - max >= High
    <2>1. code = <<kind + max, High + ((n - max) % High), (n - max) \div High>>
      BY <1>0, <1>4 DEF EncodeNumber
    <2>2. PICK r \in 0 .. (High - 1), q \in 0 .. (High - 1) :
            r = (n - max) % High /\ q = (n - max) \div High /\ r + q * High = n - max
      <3>1. n - max \in Nat /\ n - max < High * High
        BY <1>0, <1>4
      <3> QED
        BY <3>1, TwoDigits
    <2> HIDE DEF code
    <2>3. Len(code) = 3 /\ code[1] = kind + max /\ code[2] = High + r /\ code[3] = q
      BY <2>1, <2>2
    <2>4. /\ block[d] = kind + max /\ block[d + 1] = High + r /\ block[d + 2] = q
          /\ e = d + 3 /\ d + 2 <= Len(block)
      <3>1. /\ 1 \in 1 .. Len(code) /\ 2 \in 1 .. Len(code) /\ 3 \in 1 .. Len(code)
            /\ d + (1 - 1) = d /\ d + (2 - 1) = d + 1 /\ d + (3 - 1) = d + 2
        BY <2>3
      <3>2. /\ block[d + (1 - 1)] = code[1] /\ block[d + (2 - 1)] = code[2]
            /\ block[d + (3 - 1)] = code[3]
        BY <1>1, <3>1, Zenon
      <3>3. e = d + 3 /\ d + 2 <= Len(block)
        BY <1>0, <1>1, <2>3
      <3> QED
        BY <2>3, <3>1, <3>2, <3>3
    <2>5. b = max /\ readNumber(d, b, max) = NumberOf(d, NumberLength(d), max)
      BY <2>4 DEF readNumber, readNumberAfterPrefix
    <2>6. NumberLength(d) = 2
      <3> DEFINE ends == {i \in 1 .. 4 : d + i <= Len(block) /\ block[d + i] < High}
      <3>1. 1 \notin ends /\ 2 \in ends /\ ends \subseteq 1 .. 4
        <4>1. ~(block[d + 1] < High)
          BY <1>0, <2>2, <2>4
        <4>2. block[d + 2] < High /\ d + 2 <= Len(block)
          BY <1>0, <2>2, <2>4
        <4> QED
          BY <4>1, <4>2
      <3>2. NumberLength(d) = CHOOSE i \in ends : \A j \in ends : i <= j
        BY <3>1 DEF NumberLength
      <3> HIDE DEF ends
      <3>3. \A i \in ends : 2 <= i
        BY <3>1
      <3>4. NumberLength(d) \in ends /\ NumberLength(d) <= 2
        BY <3>1, <3>2, <3>3
      <3>5. NumberLength(d) \in 1 .. 4 /\ 2 <= NumberLength(d)
        BY <3>1, <3>3, <3>4, Zenon
      <3> QED
        BY <3>4, <3>5
    <2>7. Digit(d, 1) = r /\ Digit(d, 2) = q * High
      <3>1. Power(1) = 1 /\ Power(2) = High
        BY DEF Power
      <3>2. block[d + 1] % High = r /\ block[d + 2] % High = q
        BY <2>4, DigitOf
      <3> QED
        BY <2>2, <3>1, <3>2 DEF Digit
    <2> DEFINE f == [i \in 1 .. 5 |-> IF i <= 2 THEN Digit(d, i) ELSE 0]
    <2>8. SumOf(f) = n - max
      <3>1. f[1] = r /\ f[2] = q * High /\ f[3] = 0 /\ f[4] = 0 /\ f[5] = 0
        BY <2>7
      <3> HIDE DEF f
      <3>2. SumOf(f) = r + q * High + 0 + 0 + 0
        BY <3>1 DEF SumOf
      <3>3. r + q * High \in Int
        BY <1>4, <2>2
      <3> QED
        BY <2>2, <3>2, <3>3
    <2>9. NumberOf(d, 2, max) = [ok |-> TRUE, value |-> (max + SumOf(f)) % Range32, data |-> d + 2]
      BY <2>4 DEF NumberOf
    <2> HIDE DEF f
    <2>10. max + SumOf(f) = n
      BY <1>4, <2>8
    <2>11. (max + SumOf(f)) % Range32 = n
      BY <2>10, NoWrap
    <2>12. readNumber(d, b, max) = [ok |-> TRUE, value |-> n, data |-> d + 2]
      BY <2>5, <2>6, <2>9, <2>11
    <2>13. e - 1 = d + 2 /\ e \in Nat /\ d < e /\ e <= Len(block) + 1
      BY <1>1, <2>4
    <2> QED
      BY <1>4, <2>5, <2>12, <2>13
  <1> QED
    BY <1>0, <1>2, <1>3, <1>4

\* The strings of the peer.
PeerString(s) == s \in Seq(Byte) /\ Len(s) \in 1 .. (High - 2)

\* The decoder reads the string that is there, up to its last byte.
LEMMA StringReadBack ==
    ASSUME block \in Seq(Byte), NEW d \in Nat, NEW s, PeerString(s), NEW e, StringIn(block, d + 1, s, e)
    PROVE  /\ readStringLiteral(d) = [ok |-> TRUE, value |-> s, data |-> e - 1]
           /\ e \in Nat /\ d + 1 < e /\ e <= Len(block) + 1
  <1>0. High \in Nat \ {0} /\ Len(block) \in Nat
    BY DecoderAssumption
  <1>1. PICK n \in 1 .. (High - 2) : n = Len(s)
    BY DEF PeerString
  <1>2. /\ e = d + 2 + n /\ e <= Len(block) + 1 /\ block[d + 1] = n
        /\ \A j \in 1 .. n : block[d + 1 + j] = s[j]
    BY <1>1 DEF StringIn
  <1>3. StringLength(d + 1) = [ok |-> TRUE, value |-> n, data |-> d + 1]
    <2>1. n % High = n
      BY <1>0, DigitOf
    <2>2. block[d + 1] % High = n /\ n # 0
      BY <1>2, <2>1
    <2> QED
      BY <2>2, Zenon DEF StringLength
  <1>4. readStringLiteral(d) = StringOf(FALSE, [ok |-> TRUE, value |-> n, data |-> d + 1])
    <2>1. ~(d + 1 > Len(block)) /\ (block[d + 1] >= High) = FALSE
      BY <1>0, <1>2
    <2>2. readStringLiteral(d) = StringOf(block[d + 1] >= High, StringLength(d + 1))
      BY <2>1, Zenon DEF readStringLiteral
    <2> QED
      BY <1>3, <2>1, <2>2, Zenon
  <1>5. SubSeq(block, d + 1 + 1, d + 1 + n) = s
    <2> DEFINE t == SubSeq(block, d + 1 + 1, d + 1 + n)
    <2>1. PICK x \in 1 .. Len(block), y \in 1 .. Len(block) :
            x = d + 1 + 1 /\ y = d + 1 + n /\ x <= y /\ y - x + 1 = n
      BY <1>0, <1>2
    <2>2. t \in Seq(Byte) /\ Len(t) = y - x + 1 /\ \A j \in 1 .. (y - x + 1) : t[j] = block[x + j - 1]
      BY <2>1, <1>0
    <2>3. \A j \in 1 .. n : t[j] = s[j]
      <3>1. \A j \in 1 .. n : x + j - 1 = d + 1 + j
        BY <2>1
      <3> QED
        BY <1>2, <2>1, <2>2, <3>1
    <2>4. s \in Seq(Byte)
      BY DEF PeerString
    <2> HIDE DEF t
    <2>5. t \in [1 .. n -> Byte] /\ s \in [1 .. n -> Byte]
      BY <1>1, <2>1, <2>2, <2>4
    <2>6. t = s
      BY <2>3, <2>5
    <2> QED
      BY <2>6 DEF t
  <1>6. (n + Range32 - 1) % Range32 = n - 1
    <2>1. n - 1 \in Nat /\ n - 1 < High * High
      <3>1. High * High >= High
        BY <1>0
      <3> QED
        BY <1>0, <3>1
    <2>2. (n - 1) % Range32 = n - 1
      BY <2>1, NoWrap
    <2>3. PICK x \in Nat, R \in Nat \ {0} : x = n - 1 /\ R = Range32
      BY <2>1, RangeType
    <2>4. (x + R) % R = x
      <3>1. x < R
        BY <2>2, <2>3
      <3>2. \A a \in Nat, m \in Nat \ {0} : a < m => (a + m) % m = a
        OBVIOUS
      <3> QED
        BY <3>1, <3>2
    <2>5. n + Range32 - 1 = x + R
      BY <2>3
    <2> QED
      BY <2>2, <2>3, <2>4, <2>5
  <1> DEFINE l == [ok |-> TRUE, value |-> n, data |-> d + 1]
  <1>7. StringOf(FALSE, l) = [ok |-> TRUE, value |-> s, data |-> d + 1 + 1 + (n - 1)]
    <2>1. l.ok /\ l.value = n /\ l.data = d + 1
      OBVIOUS
    <2>2. ~(Len(block) - l.data < l.value)
      BY <1>0, <1>2, <2>1
    <2>3. Decoded(FALSE, SubSeq(block, l.data + 1, l.data + l.value)) = s
      BY <1>5, <2>1 DEF Decoded
    <2> HIDE DEF l
    <2>4. StringOf(FALSE, l) = [ok |-> TRUE, value |-> s, data |-> l.data + 1 + ((l.value + Range32 - 1) % Range32)]
      BY <2>1, <2>2, <2>3 DEF StringOf
    <2> QED
      BY <1>6, <2>1, <2>4
  <1>8. e - 1 = d + 1 + 1 + (n - 1)
    BY <1>2
  <1>9. e \in Nat /\ d + 1 < e /\ e <= Len(block) + 1
    BY <1>2
  <1>10. readStringLiteral(d) = [ok |-> TRUE, value |-> s, data |-> e - 1]
    BY <1>4, <1>7, <1>8, Zenon
  <1> QED
    BY <1>9, <1>10

-----------------------------------------------------------------------------
(* The newest entries that fit.                                            *)

\* The types of the table's history.
LEMMA HistoryTyped ==
    ASSUME IInv
    PROVE  /\ Len(added) \in Nat /\ dropped \in 0 .. Len(added)
           /\ dynamicSize \in 0 .. Len(added) /\ Len(added) - dynamicSize = dropped
           /\ added \in Seq(String \X String)
           /\ \A i \in 0 .. Len(added) : Total(i) \in Nat
  <1>1. Len(added) \in Nat /\ dropped \in 0 .. Len(added) /\ added \in Seq(String \X String)
    BY DEF IInv, TableTypeOK
  <1>2. \A i \in 0 .. Len(added) : Total(i) \in Nat
    BY TotalType DEF IInv
  <1> QED
    BY <1>1, <1>2 DEF dynamicSize

\* The newest entries are entries, with the sizes that the sums have.
LEMMA NewestType ==
    ASSUME IInv, NEW k \in 0 .. Len(added)
    PROVE  /\ Newest(k) \in Seq(String \X String) /\ Len(Newest(k)) = k
           /\ \A i \in 1 .. k : /\ Newest(k)[i] = added[Len(added) + 1 - i]
                                /\ EntrySize(Newest(k)[i]) = Total(Len(added) - (i - 1)) - Total(Len(added) - i)
  <1>1. PICK n \in Nat : n = Len(added)
    BY HistoryTyped
  <1>2. added \in Seq(String \X String) /\ k \in Nat /\ \A i \in 0 .. n : Total(i) \in Nat
    BY <1>1, HistoryTyped
  <1>3. \A i \in 1 .. k : n + 1 - i \in 1 .. n /\ n - (i - 1) = n + 1 - i /\ n + 1 - i - 1 = n - i /\ n - i \in 0 .. n
    BY <1>1
  <1>4. \A i \in 1 .. k : added[n + 1 - i] \in String \X String
    BY <1>1, <1>2, <1>3
  <1>5. Newest(k) = [i \in 1 .. k |-> added[n + 1 - i]]
    BY <1>1 DEF Newest
  <1>6. ASSUME NEW i \in 1 .. k
        PROVE  EntrySize(added[n + 1 - i]) = Total(n - (i - 1)) - Total(n - i)
    <2>1. PICK j \in 1 .. n : j = n + 1 - i /\ j - 1 = n - i /\ j = n - (i - 1)
      BY <1>1, <1>6
    <2>2. sums[j] = Total(j - 1) + EntrySize(added[j])
      BY <1>1, <2>1 DEF IInv, SumsRight
    <2>3. Total(j) = sums[j] /\ Total(j) \in Nat /\ Total(j - 1) \in Nat
      BY <1>1, <1>2, <2>1 DEF Total
    <2>4. EntrySize(added[j]) \in Nat
      <3>1. added[j] \in String \X String
        BY <1>4, <2>1
      <3> QED
        BY <3>1, SizeType DEF EntrySize
    <2> QED
      BY <2>1, <2>2, <2>3, <2>4
  <1> QED
    BY <1>1, <1>2, <1>4, <1>5, <1>6

\* A set of numbers that is not empty has a least one.
LEMMA LeastNumber ==
    ASSUME NEW T, T \subseteq Nat, T # {}
    PROVE  \E m \in T : \A n \in T : m <= n
  <1> DEFINE R == {ss \in Nat \X Nat : ss[1] < ss[2]}
  <1>1. IsWellFoundedOn(R, Nat)
    BY NatLessThanWellFounded DEF OpToRel
  <1>2. \E m \in T : \A n \in T : ~(<<n, m>> \in R)
    <2> HIDE DEF R
    <2> QED
      BY <1>1, WFMin
  <1>3. PICK m \in T : \A n \in T : ~(n < m)
    BY <1>2
  <1>4. \A n \in T : n \in Nat
    OBVIOUS
  <1>5. \A n \in T : m <= n
    BY <1>3, <1>4
  <1> QED
    BY <1>5

\* The size of the n newest entries is what the sums have grown by with them.
LEMMA SizeOfNewest ==
    ASSUME IInv, NEW k \in 0 .. Len(added), NEW n \in 0 .. k
    PROVE  SizeOf(Newest(k), n) = Total(Len(added)) - Total(Len(added) - n)
  <1> DEFINE t == Newest(k)
             N == Len(added)
             S(i) == Total(N) - Total(N - i)
             G(f) == [i \in 0 .. Len(t) |-> IF i = 0 THEN 0 ELSE f[i - 1] + EntrySize(t[i])]
             s == CHOOSE f : f = G(f)
             g == [i \in 0 .. k |-> S(i)]
  <1>0. N \in Nat /\ k \in Nat /\ \A i \in 0 .. N : Total(i) \in Nat
    BY HistoryTyped
  <1>1. Len(t) = k /\ \A i \in 1 .. k : EntrySize(t[i]) = Total(N - (i - 1)) - Total(N - i)
    BY NewestType
  <1>2. SizeOf(t, n) = s[n]
    BY DEF SizeOf
  <1> HIDE DEF t
  <1>3. S(0) = 0 /\ \A i \in 0 .. k : S(i) \in Int
    BY <1>0
  <1>4. \A i \in 1 .. k : S(i) = S(i - 1) + EntrySize(t[i])
    <2> SUFFICES ASSUME NEW i \in 1 .. k PROVE S(i) = S(i - 1) + EntrySize(t[i])
      OBVIOUS
    <2>1. Total(N) \in Nat /\ Total(N - i) \in Nat /\ Total(N - (i - 1)) \in Nat
      BY <1>0
    <2> QED
      BY <1>1, <2>1
  <1> HIDE DEF S, N
  <1>5. g = G(g)
    <2>1. \A i \in 0 .. k : g[i] = IF i = 0 THEN 0 ELSE g[i - 1] + EntrySize(t[i])
      BY <1>0, <1>3, <1>4
    <2> HIDE DEF g
    <2>2. g = [i \in 0 .. k |-> g[i]]
      BY DEF g
    <2> QED
      BY <1>1, <2>1, <2>2
  <1>6. s = G(s)
    <2> HIDE DEF g, G
    <2> QED
      BY <1>5
  <1> HIDE DEF s
  <1>7. \A i \in 0 .. k : s[i] = IF i = 0 THEN 0 ELSE s[i - 1] + EntrySize(t[i])
    BY <1>1, <1>6
  <1> DEFINE T == {i \in 0 .. k : s[i] # S(i)}
  <1>8. T = {}
    <2> SUFFICES ASSUME T # {} PROVE FALSE
      OBVIOUS
    <2>1. PICK i \in T : \A j \in T : i <= j
      <3>1. T \subseteq Nat
        BY <1>0
      <3> HIDE DEF T
      <3> QED
        BY <3>1, LeastNumber
    <2>2. i # 0
      BY <1>0, <1>3, <1>7, <2>1
    <2>3. i \in 1 .. k /\ i - 1 \in 0 .. k /\ i - 1 \notin T
      BY <1>0, <2>1, <2>2
    <2>4. s[i - 1] = S(i - 1)
      BY <2>3
    <2> QED
      BY <1>4, <1>7, <2>1, <2>2, <2>3, <2>4
  <1>9. s[n] = S(n)
    BY <1>8
  <1> QED
    BY <1>2, <1>9 DEF S, N, t

\* There are as many of the newest entries as fit.
LEMMA FittingIs ==
    ASSUME IInv, NEW k \in 0 .. Len(added), NEW max \in Nat
    PROVE  \E m \in 0 .. k :
             /\ Fitting(Newest(k), max) = Newest(m)
             /\ Total(Len(added)) - Total(Len(added) - m) <= max
             /\ m < k => Total(Len(added)) - Total(Len(added) - (m + 1)) > max
  <1> DEFINE N == Len(added)
             S(i) == Total(N) - Total(N - i)
  <1>0. N \in Nat /\ k \in Nat /\ (\A i \in 0 .. N : Total(i) \in Nat) /\ Len(Newest(k)) = k
    BY HistoryTyped, NewestType
  <1>1. S(0) = 0 /\ \A i \in 0 .. k : S(i) \in Int
    <2>1. N \in 0 .. N /\ N - 0 = N /\ \A i \in 0 .. k : N - i \in 0 .. N
      BY <1>0, HistoryTyped
    <2>2. Total(N) \in Nat /\ \A i \in 0 .. k : Total(N - i) \in Nat
      BY <1>0, <2>1
    <2> QED
      BY <2>1, <2>2
  <1>2. \A i \in 0 .. k : SizeOf(Newest(k), i) = S(i)
    BY SizeOfNewest
  <1> HIDE DEF S
  <1>3. \E m \in 0 .. k : S(m) <= max /\ (m < k => S(m + 1) > max)
    <2> DEFINE T == {m \in 0 .. k : m = k \/ S(m + 1) > max}
    <2>1. T # {} /\ T \subseteq Nat
      <3>1. k \in T
        BY <1>0
      <3>2. T \subseteq 0 .. k /\ 0 .. k \subseteq Nat
        BY <1>0
      <3> QED
        BY <3>1, <3>2
    <2>2. PICK m \in T : \A j \in T : m <= j
      <3> HIDE DEF T
      <3> QED
        BY <2>1, LeastNumber
    <2>3. S(m) <= max
      <3>1. CASE m = 0
        BY <1>1, <3>1
      <3>2. CASE m # 0
        <4>1. m - 1 \in 0 .. k /\ m - 1 \notin T /\ m - 1 # k /\ ((m - 1) + 1) = m
          BY <1>0, <2>2, <3>2
        <4>2. ~(S((m - 1) + 1) > max)
          BY <4>1
        <4> QED
          BY <1>1, <2>2, <4>1, <4>2
      <3> QED
        BY <3>1, <3>2
    <2> QED
      BY <2>2, <2>3
  <1>4. \E m \in 0 .. k : Fit(Newest(k), max, m)
    BY <1>0, <1>2, <1>3 DEF Fit
  <1> DEFINE m == CHOOSE n \in 0 .. Len(Newest(k)) : Fit(Newest(k), max, n)
  <1>5. m \in 0 .. k /\ Fit(Newest(k), max, m)
    BY <1>0, <1>4
  <1>6. Fitting(Newest(k), max) = SubSeq(Newest(k), 1, m)
    BY DEF Fitting
  <1> HIDE DEF m
  <1>7. SubSeq(Newest(k), 1, m) = Newest(m)
    <2>1. m \in Nat /\ m <= k /\ m \in 0 .. N
      BY <1>0, <1>5
    <2>2. Newest(k) \in Seq(String \X String) /\ \A i \in 1 .. k : Newest(k)[i] = added[N + 1 - i]
      BY NewestType
    <2>3. SubSeq(Newest(k), 1, m) = [i \in 1 .. m |-> Newest(k)[i]]
      BY <1>0, <2>1, <2>2
    <2>4. \A i \in 1 .. m : Newest(k)[i] = added[N + 1 - i]
      BY <1>0, <2>1, <2>2
    <2> QED
      BY <2>3, <2>4 DEF Newest
  <1>8. S(m) <= max /\ (m < k => S(m + 1) > max)
    <2>1. m < k => m + 1 \in 0 .. k
      BY <1>0, <1>5
    <2> QED
      BY <1>0, <1>2, <1>5, <2>1 DEF Fit
  <1> QED
    BY <1>5, <1>6, <1>7, <1>8 DEF S

\* When the loop ends, the entries that are left are those the peer has kept.
LEMMA RightOnesDropped ==
    ASSUME IInv, NEW k \in Nat, NEW max \in Nat, NoneTooMany(k, max),
           Total(Len(added)) - Total(dropped) <= max
    PROVE  Fitting(Newest(k), max) = Newest(dynamicSize)
  <1> DEFINE N == Len(added)
             d == dynamicSize
  <1>0. /\ N \in Nat /\ d \in 0 .. N /\ dropped = N - d
        /\ k \in d .. N /\ k \in 0 .. N
        /\ (\A i \in 0 .. N : Total(i) \in Nat)
    BY HistoryTyped DEF NoneTooMany
  <1>1. \A i, j \in 0 .. N : i <= j => Total(i) <= Total(j)
    BY DEF IInv, SumsGrow
  <1>2. PICK m \in 0 .. k : /\ Fitting(Newest(k), max) = Newest(m)
                            /\ Total(N) - Total(N - m) <= max
                            /\ m < k => Total(N) - Total(N - (m + 1)) > max
    BY <1>0, FittingIs
  <1>3. Total(N) - Total(N - d) <= max /\ (d # k => Total(N) - Total(N - (d + 1)) > max)
    <2>1. N - d = dropped /\ N - (d + 1) = dropped - 1
      BY <1>0
    <2> QED
      BY <2>1 DEF NoneTooMany
  <1> HIDE DEF N, d
  <1>4. CASE m < d
    <2>1. N - (m + 1) \in 0 .. N /\ N - d \in 0 .. N /\ N - d <= N - (m + 1) /\ m < k /\ N \in 0 .. N
      BY <1>0, <1>2, <1>4
    <2>2. Total(N - d) <= Total(N - (m + 1)) /\ Total(N) \in Nat /\ Total(N - d) \in Nat /\ Total(N - (m + 1)) \in Nat
      BY <1>0, <1>1, <2>1
    <2> QED
      BY <1>2, <1>3, <2>1, <2>2
  <1>5. CASE m > d
    <2>1. N - m \in 0 .. N /\ N - (d + 1) \in 0 .. N /\ N - m <= N - (d + 1) /\ d # k /\ N \in 0 .. N
      BY <1>0, <1>2, <1>5
    <2>2. Total(N - m) <= Total(N - (d + 1)) /\ Total(N) \in Nat /\ Total(N - m) \in Nat /\ Total(N - (d + 1)) \in Nat
      BY <1>0, <1>1, <2>1
    <2> QED
      BY <1>2, <1>3, <2>1, <2>2
  <1>6. CASE m = d
    BY <1>2, <1>6 DEF d
  <1> QED
    BY <1>0, <1>2, <1>4, <1>5, <1>6

\* A header of the peer is an entry, and has a size.
LEMMA HeaderSize ==
    ASSUME NEW h \in Header
    PROVE  /\ h[1] \in String /\ h[2] \in String /\ h = <<h[1], h[2]>>
           /\ EntrySize(h) \in Nat \ {0} /\ size(h[1], h[2]) = EntrySize(h)
  <1>1. h = <<h[1], h[2]>> /\ h[1] \in Names /\ h[2] \in Values
    BY DEF Header
  <1>2. h[1] \in Seq(Byte) /\ h[2] \in Seq(Byte) /\ Len(h[1]) \in 1 .. (High - 2)
    BY <1>1, PeerAssumption
  <1>3. \A s \in Seq(Byte) : s \in String
    BY CodingAssumption DEF String
  <1>4. size(h[1], h[2]) \in Nat \ {0}
    <2>1. PICK k \in Nat \ {0}, l \in Nat, o \in Nat : k = Len(h[1]) /\ l = Len(h[2]) /\ o = ENTRY_OVERHEAD
      <3>1. Len(h[1]) \in Nat \ {0} /\ Len(h[2]) \in Nat
        BY <1>2, DecoderAssumption
      <3> QED
        BY <3>1, TableAssumption
    <2>2. size(h[1], h[2]) = k + l + o
      BY <2>1 DEF size
    <2>3. k + l + o \in Nat \ {0}
      <3>1. \A x \in Nat \ {0}, y \in Nat, z \in Nat : x + y + z \in Nat \ {0}
        OBVIOUS
      <3> QED
        BY <3>1, Zenon
    <2> QED
      BY <2>2, <2>3
  <1> QED
    BY <1>1, <1>2, <1>3, <1>4 DEF EntrySize

-----------------------------------------------------------------------------
(* What the decoder reads means the same at both ends.                     *)

\* An index stands for an entry of the static table or of t.
LEMMA EntryInIs ==
    ASSUME NEW t \in Seq(String \X String), NEW i \in 1 .. (STATIC_TABLE_MAX + Len(t))
    PROVE  EntryIn(t, i) = IF i <= STATIC_TABLE_MAX THEN StaticTable[i] ELSE t[i - STATIC_TABLE_MAX]
  <1>1. StaticTable \in Seq(Seq(Chars) \X Seq(Chars))
    BY TableAssumption
  <1> QED
    BY <1>1 DEF EntryIn, STATIC_TABLE_MAX

\* An index of the newest entries, as far as they are still in the table.
LEMMA Lookup ==
    ASSUME IInv, NEW m \in 0 .. dynamicSize, NEW i \in 1 .. (STATIC_TABLE_MAX + m)
    PROVE  /\ hasEntryAtIndex(i)
           /\ EntryAt(i) = EntryIn(Newest(m), i) /\ EntryAt(i) = EntryIn(Newest(dynamicSize), i)
           /\ EntryAt(i) = <<nameAtIndex(i), valueAtIndex(i)>>
           /\ \/ AliasOf(i) = 0
              \/ /\ AliasOf(i) # 0 /\ Len(added) + 1 - AliasOf(i) \in 1 .. m
                 /\ AliasOf(i) \in (dropped + 1) .. Len(added) /\ nameAtIndex(i) = added[AliasOf(i)][1]
  <1>0. PICK N \in Nat, d \in Nat, s \in Nat :
          /\ N = Len(added) /\ d = dynamicSize /\ s = STATIC_TABLE_MAX
          /\ m <= d /\ d <= N /\ dropped = N - d /\ m \in 0 .. N /\ d \in 0 .. N
    BY HistoryTyped, TableAssumption DEF STATIC_TABLE_MAX
  <1>1. added \in Seq(String \X String)
    BY HistoryTyped
  <1>2. /\ Newest(m) \in Seq(String \X String) /\ Len(Newest(m)) = m
        /\ Newest(d) \in Seq(String \X String) /\ Len(Newest(d)) = d
        /\ (\A j \in 1 .. m : Newest(m)[j] = added[N + 1 - j])
        /\ \A j \in 1 .. d : Newest(d)[j] = added[N + 1 - j]
    BY <1>0, NewestType
  <1>3. /\ EntryIn(Newest(m), i) = IF i <= s THEN StaticTable[i] ELSE Newest(m)[i - s]
        /\ EntryIn(Newest(d), i) = IF i <= s THEN StaticTable[i] ELSE Newest(d)[i - s]
    <2>1. i \in 1 .. (s + d)
      BY <1>0
    <2> QED
      BY <1>0, <1>2, <2>1, EntryInIs
  <1>4. EntryAt(i) = IF i <= s THEN StaticTable[i] ELSE added[N - (i - (s + 1))]
    BY <1>0 DEF EntryAt, Position
  <1>5. hasEntryAtIndex(i)
    BY <1>0 DEF hasEntryAtIndex
  <1>6. CASE i <= s
    <2>1. StaticTable[i] \in Seq(Chars) \X Seq(Chars)
      BY <1>0, <1>6, TableAssumption DEF STATIC_TABLE_MAX
    <2>2. StaticTable[i] = <<StaticTable[i][1], StaticTable[i][2]>>
      BY <2>1
    <2>3. AliasOf(i) = 0
      BY <1>0, <1>6 DEF AliasOf
    <2> QED
      BY <1>0, <1>3, <1>4, <1>5, <1>6, <2>2, <2>3 DEF nameAtIndex, valueAtIndex
  <1>7. CASE ~(i <= s)
    <2>1. PICK a \in (dropped + 1) .. N, j \in 1 .. m :
            a = N - (i - (s + 1)) /\ a = N + 1 - j /\ j = i - s /\ j \in 1 .. d /\ a \in 1 .. N
      <3>1. i \in (s + 1) .. (s + m)
        BY <1>0, <1>7
      <3>2. i - s \in 1 .. m /\ i - s \in 1 .. d
        BY <1>0, <3>1
      <3>3. N - (i - (s + 1)) = N + 1 - (i - s) /\ N - (i - (s + 1)) \in (dropped + 1) .. N
        BY <1>0, <3>1
      <3>4. N - (i - (s + 1)) \in 1 .. N
        BY <1>0, <3>3
      <3> QED
        BY <3>2, <3>3, <3>4
    <2>2. added[a] \in String \X String
      BY <1>0, <1>1, <2>1
    <2>3. added[a] = <<added[a][1], added[a][2]>>
      BY <2>2
    <2>4. EntryAt(i) = added[a] /\ EntryIn(Newest(m), i) = added[a] /\ EntryIn(Newest(d), i) = added[a]
      BY <1>2, <1>3, <1>4, <1>7, <2>1
    <2>5. AliasOf(i) = a
      BY <1>0, <1>7, <2>1 DEF AliasOf, Position
    <2>6. a # 0 /\ N + 1 - a \in 1 .. m
      BY <1>0, <2>1
    <2> QED
      BY <1>0, <1>5, <2>1, <2>3, <2>4, <2>5, <2>6 DEF nameAtIndex, valueAtIndex
  <1> QED
    BY <1>6, <1>7

\* What the numbers of the peer are below.
LEMMA PeerNumbers ==
    ASSUME IInv, Counted, PeerTyped, maxTableBytes = peerMax
    PROVE  /\ STATIC_TABLE_MAX \in Nat /\ peerMax \in Nat
           /\ STATIC_TABLE_MAX + peerMax < High * High
           /\ dynamicSize \in Nat /\ dynamicSize <= peerMax
  <1>1. peerMax \in Nat /\ STATIC_TABLE_MAX + peerMax < High * High /\ STATIC_TABLE_MAX \in Nat
    BY PeerAssumption, TableAssumption DEF PeerTyped, STATIC_TABLE_MAX
  <1>2. PICK N \in Nat : N = Len(added)
    BY HistoryTyped
  <1>3. dropped \in 0 .. N /\ N \in 0 .. N /\ dynamicSize \in Nat /\ dynamicSize = N - dropped
    BY <1>2, HistoryTyped DEF dynamicSize
  <1>4. Total(N) \in Nat /\ Total(dropped) \in Nat /\ Total(N) >= Total(dropped) + (N - dropped)
    BY <1>2, <1>3, HistoryTyped DEF Counted
  <1>5. currentTableBytes = Total(N) - Total(dropped) /\ currentTableBytes <= peerMax
    BY <1>2 DEF IInv, AccountingExact, TableFits
  <1> QED
    BY <1>1, <1>3, <1>4, <1>5

\* An indexed field is read as the header that was sent.
LEMMA IndexedReadBack ==
    ASSUME IInv, PeerTyped, NEW m \in 0 .. dynamicSize, STATIC_TABLE_MAX + m < High * High,
           headers = << >>, IndexedIn(block, sent, data, Newest(m)), readIndexedHeaderField
    PROVE  /\ headers' = sent /\ data' = Len(block) + 1
           /\ UNCHANGED <<block, phase, ok, bytes, tableVars>>
  <1>0. m \in 0 .. Len(added) /\ Len(Newest(m)) = m /\ STATIC_TABLE_MAX \in Nat
        /\ High \in Nat /\ High >= 16 /\ Len(block) \in Nat /\ block \in Seq(Byte) /\ data \in Nat \ {0}
    <2>1. m \in 0 .. Len(added)
      BY HistoryTyped
    <2> QED
      BY <2>1, NewestType, TableAssumption, DecoderAssumption DEF STATIC_TABLE_MAX, PeerTyped
  <1>1. PICK i \in 1 .. (STATIC_TABLE_MAX + m) :
          NumberIn(block, data, High, High - 1, i, Len(block) + 1) /\ sent = <<EntryIn(Newest(m), i)>>
    BY <1>0 DEF IndexedIn
  <1>2. i \in Nat \ {0} /\ i < High * High
    BY <1>0
  <1> DEFINE b == block[data] - High
             number == readNumber(data, b, High - 1)
             entry == Entry(number)
  <1>3. b = (IF i < High - 1 THEN i ELSE High - 1) /\ number = [ok |-> TRUE, value |-> i, data |-> (Len(block) + 1) - 1]
    <2>1. High - 1 \in Nat
      BY <1>0
    <2>2. High \in Nat /\ i \in Nat /\ data \in Nat \ {0} /\ block \in Seq(Byte) /\ i < High * High
      BY <1>0, <1>2
    <2>3. NumberIn(block, data, High, High - 1, i, Len(block) + 1)
      BY <1>1
    <2>4. NumberIsRead(data, High, High - 1, i, Len(block) + 1)
      BY <2>1, <2>2, <2>3, NumberReadBack, Zenon
    <2> QED
      BY <2>4 DEF NumberIsRead
  <1>4. block[data] # High
    BY <1>0, <1>2, <1>3
  <1>5. TakeIndexed(entry)
    BY <1>4 DEF readIndexedHeaderField
  <1> HIDE DEF b
  <1>6. /\ hasEntryAtIndex(i) /\ EntryAt(i) = EntryIn(Newest(m), i)
        /\ EntryAt(i) = <<nameAtIndex(i), valueAtIndex(i)>>
    BY Lookup
  <1>7. entry = [ok |-> TRUE, value |-> i, data |-> Len(block), alias |-> AliasOf(i), abort |-> FALSE]
    <2>1. number.ok /\ number.value = i /\ number.data = Len(block)
      BY <1>0, <1>3
    <2> HIDE DEF number
    <2> QED
      BY <1>2, <1>6, <2>1 DEF Entry, Read
  <1> HIDE DEF entry
  <1>8. Accept(Len(block), nameAtIndex(i), valueAtIndex(i)) /\ UNCHANGED tableVars
    BY <1>5, <1>7 DEF TakeIndexed
  <1> QED
    BY <1>0, <1>1, <1>6, <1>8 DEF Accept

\* The field is read as h, with the name of one of the m newest entries, or of a buffer.
FieldIsRead(field, h, m) ==
    /\ field.ok /\ ~field.abort /\ field.name = h[1] /\ field.value = h[2] /\ field.data = Len(block)
    /\ field.alias # 0 => /\ Len(added) + 1 - field.alias \in 1 .. m
                          /\ field.alias \in (dropped + 1) .. Len(added) /\ h[1] = added[field.alias][1]

\* A literal field is read as the header that was sent, with the name of an entry
\* that stays.
LEMMA LiteralReadBack ==
    ASSUME IInv, PeerTyped, data = 1, NEW m \in 0 .. dynamicSize, STATIC_TABLE_MAX + m < High * High,
           NEW kind \in Nat, NEW max \in Nat \ {0}, NEW h \in Header,
           LiteralIn(block, sent, kind, max, h, Newest(dynamicSize), m),
           NEW field, field = Field(NameOf(block[data] - kind, max))
    PROVE  FieldIsRead(field, h, m)
  <1>0. m \in Nat /\ STATIC_TABLE_MAX \in Nat /\ Len(block) \in Nat /\ block \in Seq(Byte) /\ High \in Nat
    BY HistoryTyped, TableAssumption, DecoderAssumption DEF STATIC_TABLE_MAX, PeerTyped
  <1>1. PeerString(h[1]) /\ PeerString(h[2])
    BY PeerAssumption DEF Header, PeerString
  <1>2. PICK v \in 1 .. Len(block) :
          /\ \/ block[1] = kind /\ StringIn(block, 2, h[1], v)
             \/ \E i \in 1 .. (STATIC_TABLE_MAX + m) :
                  NumberIn(block, 1, kind, max, i, v) /\ EntryIn(Newest(dynamicSize), i)[1] = h[1]
          /\ StringIn(block, v, h[2], Len(block) + 1)
    BY DEF LiteralIn
  <1> DEFINE bits == block[data] - kind
             name == NameOf(bits, max)
             Right(a) == name = [ok |-> TRUE, value |-> h[1], data |-> v - 1, alias |-> a, abort |-> FALSE]
  <1>3. ASSUME block[1] = kind, StringIn(block, 2, h[1], v)
        PROVE  Right(0)
    <2>1. readStringLiteral(1) = [ok |-> TRUE, value |-> h[1], data |-> v - 1]
      <3>1. StringIn(block, 1 + 1, h[1], v)
        BY <1>3
      <3> QED
        BY <1>0, <1>1, <3>1, StringReadBack, Zenon
    <2>2. bits = 0
      BY <1>3
    <2>3. name = Read(readStringLiteral(1), 0)
      BY <2>2 DEF NameOf
    <2>4. readStringLiteral(1).ok = TRUE /\ readStringLiteral(1).value = h[1] /\ readStringLiteral(1).data = v - 1
      BY <2>1
    <2> HIDE DEF name
    <2> QED
      BY <2>3, <2>4, Zenon DEF Read
  <1>4. ASSUME NEW i \in 1 .. (STATIC_TABLE_MAX + m), NumberIn(block, 1, kind, max, i, v),
               EntryIn(Newest(dynamicSize), i)[1] = h[1]
        PROVE  Right(AliasOf(i)) /\ nameAtIndex(i) = h[1]
    <2> DEFINE number == readNumber(1, bits, max)
               entry == Entry(number)
    <2>1. i \in Nat \ {0} /\ i < High * High
      BY <1>0
    <2>2. bits = (IF i < max THEN i ELSE max) /\ number = [ok |-> TRUE, value |-> i, data |-> v - 1]
      <3>1. 1 \in Nat \ {0} /\ bits = block[1] - kind /\ max \in Nat
        OBVIOUS
      <3> QED
        <4>1. i \in Nat /\ i < High * High /\ block \in Seq(Byte) /\ NumberIn(block, 1, kind, max, i, v)
          BY <1>0, <1>4, <2>1
        <4>2. NumberIsRead(1, kind, max, i, v)
          BY <3>1, <4>1, NumberReadBack, Zenon
        <4>3. number = readNumber(1, block[1] - kind, max)
          BY <3>1, Zenon
        <4> HIDE DEF bits, number
        <4> QED
          BY <3>1, <4>2, <4>3, Zenon DEF NumberIsRead
    <2>3. bits # 0
      BY <2>1, <2>2
    <2> HIDE DEF bits
    <2>4. hasEntryAtIndex(i) /\ EntryAt(i) = EntryIn(Newest(dynamicSize), i)
      BY Lookup
    <2>5. nameAtIndex(i) = h[1]
      BY <1>4, <2>4 DEF nameAtIndex
    <2>6. entry = [ok |-> TRUE, value |-> i, data |-> v - 1, alias |-> AliasOf(i), abort |-> FALSE]
      <3>1. number.ok /\ number.value = i /\ number.data = v - 1
        BY <2>2
      <3> HIDE DEF number
      <3> QED
        BY <2>1, <2>4, <3>1 DEF Entry, Read
    <2>7. name = NamedBy(entry)
      BY <2>3 DEF NameOf
    <2> HIDE DEF entry, name
    <2>8. name = [entry EXCEPT !.value = h[1]]
      BY <2>5, <2>6, <2>7 DEF NamedBy
    <2>9. Right(AliasOf(i))
      BY <2>6, <2>8
    <2> QED
      BY <2>5, <2>9
  <1>5. \E a : /\ Right(a)
               /\ a # 0 => /\ Len(added) + 1 - a \in 1 .. m
                           /\ a \in (dropped + 1) .. Len(added) /\ h[1] = added[a][1]
    <2>1. CASE block[1] = kind /\ StringIn(block, 2, h[1], v)
      BY <1>3, <2>1
    <2>2. CASE \E i \in 1 .. (STATIC_TABLE_MAX + m) :
                 NumberIn(block, 1, kind, max, i, v) /\ EntryIn(Newest(dynamicSize), i)[1] = h[1]
      <3>1. PICK i \in 1 .. (STATIC_TABLE_MAX + m) :
                   NumberIn(block, 1, kind, max, i, v) /\ EntryIn(Newest(dynamicSize), i)[1] = h[1]
        BY <2>2
      <3>2. Right(AliasOf(i)) /\ nameAtIndex(i) = h[1]
        BY <1>4, <3>1
      <3>3. AliasOf(i) # 0 => /\ Len(added) + 1 - AliasOf(i) \in 1 .. m
                              /\ AliasOf(i) \in (dropped + 1) .. Len(added) /\ nameAtIndex(i) = added[AliasOf(i)][1]
        BY Lookup
      <3> QED
        BY <3>2, <3>3
    <2> QED
      BY <1>2, <2>1, <2>2
  <1> HIDE DEF name
  <1>6. PICK a : /\ Right(a)
                 /\ a # 0 => /\ Len(added) + 1 - a \in 1 .. m
                             /\ a \in (dropped + 1) .. Len(added) /\ h[1] = added[a][1]
    BY <1>5
  <1>7. readStringLiteral(v - 1) = [ok |-> TRUE, value |-> h[2], data |-> Len(block)]
    <2>1. ((v - 1) + 1) = v /\ v - 1 \in Nat /\ (Len(block) + 1) - 1 = Len(block)
      BY <1>0
    <2>2. StringIn(block, (v - 1) + 1, h[2], Len(block) + 1)
      BY <1>2, <2>1
    <2>3. readStringLiteral(v - 1) = [ok |-> TRUE, value |-> h[2], data |-> (Len(block) + 1) - 1]
      <3>1. v - 1 \in Nat /\ block \in Seq(Byte) /\ PeerString(h[2])
        BY <1>0, <1>1, <2>1, Zenon
      <3> QED
        BY <2>2, <3>1, StringReadBack, Zenon
    <2> QED
      BY <2>1, <2>3
  <1>8. name.ok /\ name.value = h[1] /\ name.alias = a /\ name.data = v - 1
    BY <1>6
  <1>9. field = FieldOf(name, readStringLiteral(v - 1))
    <2>1. field = Field(name)
      BY DEF name
    <2> QED
      BY <1>8, <2>1 DEF Field
  <1>10. field = [ok |-> TRUE, abort |-> FALSE, name |-> h[1], value |-> h[2], data |-> Len(block), alias |-> a]
    <2>1. /\ readStringLiteral(v - 1).ok = TRUE /\ readStringLiteral(v - 1).value = h[2]
          /\ readStringLiteral(v - 1).data = Len(block)
      BY <1>7
    <2> QED
      BY <1>8, <1>9, <2>1, Zenon DEF FieldOf
  <1>11. /\ field.ok = TRUE /\ field.abort = FALSE /\ field.name = h[1] /\ field.value = h[2]
         /\ field.data = Len(block) /\ field.alias = a
    BY <1>10
  <1> QED
    BY <1>6, <1>11, Zenon DEF FieldIsRead

-----------------------------------------------------------------------------
(* What the peer writes is in the block.                                   *)

\* The bytes of two sequences, one behind the other.
LEMMA Joined ==
    ASSUME NEW p \in Seq(Byte), NEW q \in Seq(Byte)
    PROVE  /\ p \o q \in Seq(Byte) /\ Len(p) \in Nat /\ Len(q) \in Nat /\ Len(p \o q) = Len(p) + Len(q)
           /\ \A j \in 1 .. Len(p) : (p \o q)[j] = p[j]
           /\ \A j \in 1 .. Len(q) : (p \o q)[Len(p) + j] = q[j]
  OBVIOUS

\* A number at the end of a block.
LEMMA NumberPut ==
    ASSUME NEW p \in Seq(Byte), NEW kind \in Nat, NEW max \in Nat, kind + max < 2 * High,
           NEW n \in Nat, n < High * High, NEW b, b = p \o EncodeNumber(kind, max, n)
    PROVE  /\ b \in Seq(Byte) /\ Len(b) > Len(p)
           /\ NumberIn(b, Len(p) + 1, kind, max, n, Len(b) + 1)
  <1> DEFINE code == EncodeNumber(kind, max, n)
  <1>1. code \in Seq(Byte) /\ Len(code) \in 1 .. 3
    BY CodeType
  <1>2. NumberIn(b, Len(p) + 1, kind, max, n, Len(b) + 1) <=>
          /\ Len(b) + 1 = Len(p) + 1 + Len(code) /\ Len(b) + 1 <= Len(b) + 1
          /\ \A j \in 1 .. Len(code) : b[Len(p) + 1 + j - 1] = code[j]
    BY Zenon DEF NumberIn
  <1> HIDE DEF code
  <1>3. /\ b \in Seq(Byte) /\ Len(p) \in Nat /\ Len(b) = Len(p) + Len(code)
        /\ \A j \in 1 .. Len(code) : b[Len(p) + j] = code[j]
    BY <1>1, Joined DEF code
  <1>4. \A j \in 1 .. Len(code) : b[Len(p) + 1 + j - 1] = code[j]
    <2> SUFFICES ASSUME NEW j \in 1 .. Len(code) PROVE b[Len(p) + 1 + j - 1] = code[j]
      OBVIOUS
    <2>1. Len(p) + 1 + j - 1 = Len(p) + j
      BY <1>1, <1>3
    <2> QED
      BY <1>3, <2>1
  <1>5. Len(b) + 1 = Len(p) + 1 + Len(code) /\ Len(b) + 1 <= Len(b) + 1 /\ Len(b) > Len(p)
    <2>1. PICK k \in 1 .. 3, l \in Nat : k = Len(code) /\ l = Len(p) /\ Len(b) = l + k
      BY <1>1, <1>3
    <2> QED
      BY <2>1
  <1> QED
    BY <1>2, <1>3, <1>4, <1>5, Zenon

\* A string at the end of a block.
LEMMA StringPut ==
    ASSUME NEW p \in Seq(Byte), NEW s, PeerString(s), NEW b, b = p \o EncodeString(s)
    PROVE  /\ b \in Seq(Byte) /\ Len(b) > Len(p) /\ StringIn(b, Len(p) + 1, s, Len(b) + 1)
  <1>1. PICK n \in 1 .. (High - 2) : n = Len(s)
    BY DEF PeerString
  <1>2. High \in Nat /\ High >= 16 /\ s \in Seq(Byte) /\ n \in Byte
    BY <1>1, DecoderAssumption DEF PeerString, Byte
  <1>3. EncodeNumber(0, High - 1, n) = <<n>>
    <2>1. n < High - 1 /\ 0 + n = n
      BY <1>1, <1>2
    <2> QED
      BY <2>1 DEF EncodeNumber
  <1> DEFINE code == <<n>> \o s
  <1>4. code \in Seq(Byte) /\ Len(code) = 1 + n /\ code[1] = n /\ \A j \in 1 .. n : code[1 + j] = s[j]
    <2>1. <<n>> \in Seq(Byte) /\ Len(<<n>>) = 1 /\ <<n>>[1] = n
      BY <1>2
    <2> QED
      BY <1>1, <1>2, <2>1, Joined
  <1>5. b = p \o code
    BY <1>1, <1>3 DEF EncodeString
  <1> HIDE DEF code
  <1>6. /\ b \in Seq(Byte) /\ Len(p) \in Nat /\ Len(b) = Len(p) + (1 + n)
        /\ \A j \in 1 .. (1 + n) : b[Len(p) + j] = code[j]
    BY <1>4, <1>5, Joined
  <1>7. b[Len(p) + 1] = n
    BY <1>1, <1>4, <1>6
  <1>8. \A j \in 1 .. n : b[Len(p) + 1 + j] = s[j]
    <2> SUFFICES ASSUME NEW j \in 1 .. n PROVE b[Len(p) + 1 + j] = s[j]
      OBVIOUS
    <2>1. 1 + j \in 1 .. (1 + n) /\ Len(p) + 1 + j = Len(p) + (1 + j)
      BY <1>1, <1>6
    <2>2. b[Len(p) + (1 + j)] = code[1 + j] /\ code[1 + j] = s[j]
      BY <1>4, <1>6, <2>1
    <2> QED
      BY <2>1, <2>2
  <1>9. Len(b) + 1 = Len(p) + 1 + 1 + n /\ Len(b) > Len(p)
    BY <1>1, <1>6
  <1> QED
    BY <1>1, <1>6, <1>7, <1>8, <1>9 DEF StringIn

\* What was there remains there.
LEMMA NumberStays ==
    ASSUME NEW p \in Seq(Byte), NEW q \in Seq(Byte), NEW d \in Nat \ {0}, NEW kind \in Nat, NEW max \in Nat,
           kind + max < 2 * High, NEW n \in Nat, n < High * High, NumberIn(p, d, kind, max, n, Len(p) + 1)
    PROVE  NumberIn(p \o q, d, kind, max, n, Len(p) + 1)
  <1>1. PICK m \in 1 .. 3 : m = Len(EncodeNumber(kind, max, n))
    BY CodeType
  <1> DEFINE code == EncodeNumber(kind, max, n)
  <1>2. /\ Len(p) + 1 = d + m /\ \A j \in 1 .. m : p[d + j - 1] = code[j]
    BY <1>1 DEF NumberIn
  <1> HIDE DEF code
  <1>3. /\ Len(p) \in Nat /\ Len(q) \in Nat /\ Len(p \o q) = Len(p) + Len(q)
        /\ \A j \in 1 .. Len(p) : (p \o q)[j] = p[j]
    BY Joined
  <1>4. \A j \in 1 .. m : d + j - 1 \in 1 .. Len(p)
    BY <1>2, <1>3
  <1>5. \A j \in 1 .. m : (p \o q)[d + j - 1] = code[j]
    BY <1>2, <1>3, <1>4
  <1>6. Len(p) + 1 <= Len(p \o q) + 1
    BY <1>3
  <1> QED
    BY <1>1, <1>2, <1>5, <1>6 DEF NumberIn, code

\* The same of a string.
LEMMA StringStays ==
    ASSUME NEW p \in Seq(Byte), NEW q \in Seq(Byte), NEW d \in Nat \ {0}, NEW s, PeerString(s),
           StringIn(p, d, s, Len(p) + 1)
    PROVE  StringIn(p \o q, d, s, Len(p) + 1)
  <1>1. PICK n \in Nat : n = Len(s)
    BY DEF PeerString
  <1>2. Len(p) + 1 = d + 1 + n /\ p[d] = n /\ \A j \in 1 .. n : p[d + j] = s[j]
    BY <1>1 DEF StringIn
  <1>3. /\ Len(p) \in Nat /\ Len(q) \in Nat /\ Len(p \o q) = Len(p) + Len(q)
        /\ \A j \in 1 .. Len(p) : (p \o q)[j] = p[j]
    BY Joined
  <1>4. d \in 1 .. Len(p) /\ \A j \in 1 .. n : d + j \in 1 .. Len(p)
    BY <1>2, <1>3
  <1>5. (p \o q)[d] = n /\ \A j \in 1 .. n : (p \o q)[d + j] = s[j]
    BY <1>2, <1>3, <1>4
  <1>6. Len(p) + 1 <= Len(p \o q) + 1
    BY <1>3
  <1> QED
    BY <1>1, <1>2, <1>5, <1>6 DEF StringIn

\* A field that is an index.
LEMMA IndexedPut ==
    ASSUME NEW p \in Seq(Byte), NEW t \in Seq(String \X String), STATIC_TABLE_MAX + Len(t) < High * High,
           NEW i \in 1 .. (STATIC_TABLE_MAX + Len(t)), NEW b, b = p \o EncodeNumber(High, High - 1, i)
    PROVE  /\ b \in Seq(Byte) /\ Len(b) > Len(p)
           /\ IndexedIn(b, <<EntryIn(t, i)>>, Len(p) + 1, t)
  <1>1. STATIC_TABLE_MAX \in Nat /\ Len(t) \in Nat /\ High \in Nat \ {0}
    BY TableAssumption, DecoderAssumption DEF STATIC_TABLE_MAX
  <1>2. i \in Nat /\ i < High * High /\ High - 1 \in Nat /\ High + (High - 1) < 2 * High
    BY <1>1
  <1>3. b \in Seq(Byte) /\ Len(b) > Len(p) /\ NumberIn(b, Len(p) + 1, High, High - 1, i, Len(b) + 1)
    BY <1>1, <1>2, NumberPut
  <1> QED
    BY <1>3 DEF IndexedIn

\* A literal field.
LEMMA LiteralPut ==
    ASSUME PInv, Idle, NEW kind \in Nat, NEW max \in Nat \ {0}, kind + max < 2 * High, NEW h \in Header,
           NEW m \in Nat, STATIC_TABLE_MAX + m < High * High,
           NEW indices, indices = 1 .. (STATIC_TABLE_MAX + m),
           NEW name \in NameCodes(kind, max, h, indices), NEW b, b = name \o EncodeString(h[2])
    PROVE  b \in Seq(Byte) /\ LiteralIn(b, <<h>>, kind, max, h, peerTable, m)
  <1>1. PeerString(h[1]) /\ PeerString(h[2])
    BY PeerAssumption DEF Header, PeerString
  <1>2. << >> \in Seq(Byte) /\ Len(<< >>) = 0 /\ \A x \in Seq(Byte) : << >> \o x = x
    OBVIOUS
  <1>0. \A k \in 1 .. 3 : k \in Nat \ {0}
    OBVIOUS
  <1> DEFINE Named(x, v) == \/ x[1] = kind /\ StringIn(x, 2, h[1], v)
                            \/ \E i \in indices : NumberIn(x, 1, kind, max, i, v) /\ EntryIn(peerTable, i)[1] = h[1]
  <1>3. /\ name \in Seq(Byte) /\ Len(name) \in Nat \ {0}
        /\ \A q \in Seq(Byte) : Named(name \o q, Len(name) + 1)
    <2>1. CASE name = <<kind>> \o EncodeString(h[1])
      <3>1. kind \in Byte
        BY DecoderAssumption DEF Byte
      <3>2. PICK one \in Seq(Byte) : one = <<kind>> /\ Len(one) = 1 /\ one[1] = kind
        <4>1. <<kind>> \in Seq(Byte) /\ Len(<<kind>>) = 1 /\ <<kind>>[1] = kind
          BY <3>1
        <4> QED
          BY <4>1, Zenon
      <3>3. name \in Seq(Byte) /\ Len(name) > 1 /\ StringIn(name, 2, h[1], Len(name) + 1)
        <4>1. name = one \o EncodeString(h[1]) /\ Len(one) + 1 = 2
          BY <2>1, <3>2
        <4>2. name \in Seq(Byte) /\ Len(name) > Len(one) /\ StringIn(name, Len(one) + 1, h[1], Len(name) + 1)
          BY <1>1, <4>1, StringPut
        <4> QED
          BY <3>2, <4>1, <4>2
      <3>4. name[1] = kind
        <4>1. EncodeString(h[1]) \in Seq(Byte)
          <5>1. PICK e : e = << >> \o EncodeString(h[1])
            OBVIOUS
          <5>2. e \in Seq(Byte)
            BY <1>1, <1>2, <5>1, StringPut
          <5> QED
            BY <5>1, <5>2
        <4> QED
          BY <2>1, <3>2, <4>1, Joined
      <3>5. ASSUME NEW q \in Seq(Byte) PROVE Named(name \o q, Len(name) + 1)
        <4>1. StringIn(name \o q, 2, h[1], Len(name) + 1)
          BY <1>1, <3>3, StringStays
        <4>2. (name \o q)[1] = kind
          BY <3>3, <3>4, Joined
        <4> QED
          BY <4>1, <4>2
      <3> HIDE DEF Named
      <3>7. Len(name) \in Nat \ {0}
        BY <3>3
      <3> QED
        BY <3>3, <3>5, <3>7
    <2>2. CASE \E i \in indices : name = EncodeNumber(kind, max, i) /\ PeerEntry(i)[1] = h[1]
      <3>1. PICK i \in indices : name = EncodeNumber(kind, max, i) /\ PeerEntry(i)[1] = h[1]
        BY <2>2
      <3>2. i \in Nat /\ i < High * High
        BY TableAssumption, DecoderAssumption DEF STATIC_TABLE_MAX
      <3>3. EntryIn(peerTable, i)[1] = h[1]
        BY <3>1 DEF EntryIn, PeerEntry
      <3>4. name \in Seq(Byte) /\ Len(name) \in 1 .. 3
        BY <3>1, <3>2, CodeType
      <3>5. NumberIn(name, 1, kind, max, i, Len(name) + 1)
        <4>1. name = << >> \o EncodeNumber(kind, max, i) /\ Len(<< >>) + 1 = 1
          BY <1>2, <3>1, <3>4
        <4>2. NumberIn(name, Len(<< >>) + 1, kind, max, i, Len(name) + 1)
          BY <1>2, <3>2, <4>1, NumberPut
        <4> QED
          BY <4>1, <4>2
      <3>6. ASSUME NEW q \in Seq(Byte) PROVE Named(name \o q, Len(name) + 1)
        <4>1. NumberIn(name \o q, 1, kind, max, i, Len(name) + 1)
          BY <3>2, <3>4, <3>5, NumberStays
        <4> QED
          BY <3>3, <4>1
      <3> HIDE DEF Named
      <3>7. Len(name) \in Nat \ {0}
        BY <1>0, <3>4, Zenon
      <3> QED
        BY <3>4, <3>6, <3>7
    <2> QED
      BY <2>1, <2>2 DEF NameCodes
  <1>4. b \in Seq(Byte) /\ Len(b) > Len(name) /\ StringIn(b, Len(name) + 1, h[2], Len(b) + 1)
    BY <1>1, <1>3, StringPut
  <1>5. EncodeString(h[2]) \in Seq(Byte)
    <2>1. PICK e : e = << >> \o EncodeString(h[2])
      OBVIOUS
    <2>2. e \in Seq(Byte)
      BY <1>1, <1>2, <2>1, StringPut
    <2> QED
      BY <2>1, <2>2
  <1>6. Named(b, Len(name) + 1)
    <2> HIDE DEF Named
    <2> QED
      BY <1>3, <1>5
  <1>7. Len(name) + 1 \in 1 .. Len(b)
    BY <1>3, <1>4
  <1> QED
    BY <1>4, <1>6, <1>7 DEF LiteralIn

-----------------------------------------------------------------------------
(* A block is sent.                                                        *)

\* A step that leaves the table alone, or its user's, keeps what is known of it.
LEMMA TableAlone ==
    ASSUME IInv, Counted, UNCHANGED <<maxTableBytes, currentTableBytes, added, dropped, sums>>,
           [TableNext]_tableVars
    PROVE  IInv' /\ Counted' /\ dynamicSize' = dynamicSize /\ \A k : Newest(k)' = Newest(k)
  <1>1. IInv'
    BY StepPreserves
  <1>2. Counted'
    BY DEF Counted, Total
  <1> QED
    BY <1>1, <1>2 DEF dynamicSize, Newest

\* What is the same for all blocks.
LEMMA Begun ==
    ASSUME PInv, NEW b, NEW hs, Send(b, hs)
    PROVE  /\ Idle
           /\ UNCHANGED tableVars /\ IInv' /\ Counted'
           /\ dynamicSize' = dynamicSize /\ \A k : Newest(k)' = Newest(k)
           /\ block' = b /\ data' = 1 /\ phase' = "field" /\ ok' /\ headers' = << >> /\ sent' = hs
  <1>1. phase = "idle" /\ UNCHANGED tableVars
    BY DEF Send, decode
  <1>2. Idle
    BY <1>1 DEF PInv, Decoding
  <1>3. UNCHANGED <<maxTableBytes, currentTableBytes, added, dropped, sums>> /\ [TableNext]_tableVars
    BY <1>1 DEF tableVars
  <1>4. IInv' /\ Counted' /\ dynamicSize' = dynamicSize /\ \A k : Newest(k)' = Newest(k)
    BY <1>3, TableAlone DEF PInv
  <1> QED
    BY <1>1, <1>2, <1>4, Zenon DEF Send, decode, Idle

\* What is known of the peer's table between two blocks.
LEMMA IdleTable ==
    ASSUME PInv, Idle
    PROVE  /\ peerTable = Newest(dynamicSize) /\ peerTable \in Seq(String \X String)
           /\ Len(peerTable) = dynamicSize /\ dynamicSize \in 0 .. Len(added) /\ dynamicSize \in Nat
           /\ STATIC_TABLE_MAX \in Nat /\ STATIC_TABLE_MAX + dynamicSize < High * High
           /\ peerMax \in Nat
  <1>1. IInv /\ Counted /\ PeerTyped /\ peerTable = Newest(dynamicSize) /\ maxTableBytes = peerMax
    BY DEF PInv, Idle, Synced
  <1>2. dynamicSize \in 0 .. Len(added)
    BY <1>1, HistoryTyped
  <1>3. peerTable \in Seq(String \X String) /\ Len(peerTable) = dynamicSize
    BY <1>1, <1>2, NewestType
  <1>4. /\ STATIC_TABLE_MAX \in Nat /\ peerMax \in Nat /\ STATIC_TABLE_MAX + peerMax < High * High
        /\ dynamicSize \in Nat /\ dynamicSize <= peerMax
    BY <1>1, PeerNumbers
  <1>5. STATIC_TABLE_MAX + dynamicSize < High * High
    <2>1. PICK s \in Int : s = High * High
      BY DecoderAssumption
    <2> QED
      BY <1>4, <2>1
  <1> QED
    BY <1>1, <1>2, <1>3, <1>4, <1>5

\* The bits of the kinds of fields leave room for their prefixes.
LEMMA Prefixes ==
    /\ High \in Nat /\ High - 1 \in Nat \ {0} /\ High + (High - 1) < 2 * High
    /\ High \div 2 \in Nat /\ High \div 2 - 1 \in Nat \ {0} /\ High \div 2 + (High \div 2 - 1) < 2 * High
    /\ High \div 4 \in Nat /\ High \div 4 - 1 \in Nat \ {0} /\ High \div 4 + (High \div 4 - 1) < 2 * High
    /\ High \div 8 \in Nat /\ High \div 8 - 1 \in Nat \ {0} /\ High \div 8 + (High \div 8 - 1) < 2 * High
    /\ 0 + (High \div 8 - 1) < 2 * High
  BY HighParts

\* An index is sent.
LEMMA IndexedSent ==
    ASSUME PInv, SendIndexed
    PROVE  PInv'
  <1>1. PICK i \in PeerIndices : /\ Send(EncodeNumber(High, High - 1, i), <<PeerEntry(i)>>)
                                 /\ UNCHANGED <<peerTable, peerMax>>
    BY DEF SendIndexed
  <1> DEFINE b == EncodeNumber(High, High - 1, i)
  <1>2. /\ Idle /\ UNCHANGED tableVars /\ IInv' /\ Counted' /\ dynamicSize' = dynamicSize
        /\ \A k : Newest(k)' = Newest(k)
        /\ block' = b /\ data' = 1 /\ phase' = "field" /\ ok' /\ headers' = << >> /\ sent' = <<PeerEntry(i)>>
    BY <1>1, Begun
  <1>3. b \in Seq(Byte) /\ IndexedIn(b, <<PeerEntry(i)>>, 1, peerTable)
    <2>1. i \in 1 .. (STATIC_TABLE_MAX + Len(peerTable)) /\ PeerEntry(i) = EntryIn(peerTable, i)
      BY DEF PeerIndices, PeerEntry, EntryIn
    <2>2. PICK c : c = << >> \o b
      OBVIOUS
    <2>3. peerTable \in Seq(String \X String) /\ STATIC_TABLE_MAX + Len(peerTable) < High * High
      BY <1>2, IdleTable
    <2>4. << >> \in Seq(Byte) /\ Len(<< >>) + 1 = 1
      OBVIOUS
    <2>5. c \in Seq(Byte) /\ IndexedIn(c, <<EntryIn(peerTable, i)>>, Len(<< >>) + 1, peerTable)
      BY <2>1, <2>2, <2>3, <2>4, IndexedPut
    <2>6. b \in Seq(Byte)
      <3>1. PICK s \in Int : s = High * High
        BY DecoderAssumption
      <3>2. i \in Nat /\ i < s
        BY <1>2, <2>1, <2>3, <3>1, IdleTable
      <3> QED
        BY <3>1, <3>2, Prefixes, CodeType
    <2>7. c = b
      BY <2>2, <2>6
    <2> QED
      BY <2>1, <2>4, <2>5, <2>7
  <1> HIDE DEF b
  <1>4. Synced' /\ peerTable' = peerTable
    BY <1>1, <1>2 DEF Idle, Synced, tableVars, Newest, dynamicSize
  <1>5. IndexedAhead'
    BY <1>2, <1>3, <1>4 DEF IndexedAhead
  <1>6. PeerTyped'
    BY <1>1, <1>2, <1>3 DEF PInv, PeerTyped
  <1> QED
    BY <1>2, <1>5, <1>6, Zenon DEF PInv, Decoding

\* A literal field is sent that is not added.
LEMMA LiteralSent ==
    ASSUME PInv, SendNoIndexing
    PROVE  PInv'
  <1>1. PICK h \in Header, kind \in {0, High \div 8} :
          /\ \E name \in NameCodes(kind, High \div 8 - 1, h, PeerIndices) : Send(name \o EncodeString(h[2]), <<h>>)
          /\ UNCHANGED <<peerTable, peerMax>>
    BY DEF SendNoIndexing
  <1>2. PICK name \in NameCodes(kind, High \div 8 - 1, h, PeerIndices) : Send(name \o EncodeString(h[2]), <<h>>)
    BY <1>1
  <1> DEFINE b == name \o EncodeString(h[2])
  <1>3. /\ Idle /\ UNCHANGED tableVars /\ IInv' /\ Counted' /\ dynamicSize' = dynamicSize
        /\ \A k : Newest(k)' = Newest(k)
        /\ block' = b /\ data' = 1 /\ phase' = "field" /\ ok' /\ headers' = << >> /\ sent' = <<h>>
    BY <1>2, Begun
  <1>4. b \in Seq(Byte) /\ LiteralIn(b, <<h>>, kind, High \div 8 - 1, h, peerTable, Len(peerTable))
    <2>1. /\ kind \in Nat /\ High \div 8 - 1 \in Nat \ {0} /\ kind + (High \div 8 - 1) < 2 * High
      BY Prefixes
    <2>2. Len(peerTable) \in Nat /\ STATIC_TABLE_MAX + Len(peerTable) < High * High
      BY <1>3, IdleTable
    <2>3. PICK indices : indices = PeerIndices /\ indices = 1 .. (STATIC_TABLE_MAX + Len(peerTable))
      BY DEF PeerIndices
    <2> QED
      BY <1>2, <1>3, <2>1, <2>2, <2>3, LiteralPut
  <1> HIDE DEF b
  <1>5. Synced' /\ peerTable' = peerTable
    BY <1>1, <1>3 DEF Idle, Synced, tableVars, Newest, dynamicSize
  <1>6. LiteralAhead'
    BY <1>3, <1>4, <1>5 DEF LiteralAhead
  <1>7. PeerTyped'
    BY <1>1, <1>3, <1>4 DEF PInv, PeerTyped
  <1> QED
    BY <1>3, <1>6, <1>7, Zenon DEF PInv, Decoding

\* A literal field is sent that is added.
LEMMA IncrementalSent ==
    ASSUME PInv, NEW h \in Header, EntrySize(h) <= peerMax, SendIncremental(h, Remaining(h))
    PROVE  PInv'
  <1>1. PICK name \in NameCodes(High \div 2, High \div 2 - 1, h, Remaining(h)) :
          Send(name \o EncodeString(h[2]), <<h>>)
    BY DEF SendIncremental
  <1> DEFINE b == name \o EncodeString(h[2])
  <1>2. /\ Idle /\ UNCHANGED tableVars /\ IInv' /\ Counted' /\ dynamicSize' = dynamicSize
        /\ \A k : Newest(k)' = Newest(k)
        /\ block' = b /\ data' = 1 /\ phase' = "field" /\ ok' /\ headers' = << >> /\ sent' = <<h>>
    BY <1>1, Begun
  <1>3. EntrySize(h) \in Nat /\ peerMax - EntrySize(h) \in Nat
    <2>1. EntrySize(h) \in Nat
      BY HeaderSize
    <2> QED
      BY <1>2, <2>1, IdleTable
  <1> DEFINE m == Len(Fits(h, dynamicSize))
  <1>4. m \in 0 .. dynamicSize
    <2>1. IInv /\ dynamicSize \in 0 .. Len(added)
      BY <1>2, IdleTable DEF PInv
    <2>2. PICK k \in 0 .. dynamicSize : Fits(h, dynamicSize) = Newest(k)
      BY <1>3, <2>1, FittingIs DEF Fits
    <2>3. k \in 0 .. Len(added)
      BY <1>2, <2>1, IdleTable, HistoryTyped
    <2>4. Len(Newest(k)) = k
      BY <2>1, <2>3, NewestType
    <2> QED
      BY <2>2, <2>4
  <1>5. b \in Seq(Byte) /\ LiteralIn(b, <<h>>, High \div 2, High \div 2 - 1, h, peerTable, m)
    <2>1. /\ High \div 2 \in Nat /\ High \div 2 - 1 \in Nat \ {0} /\ High \div 2 + (High \div 2 - 1) < 2 * High
      BY Prefixes
    <2>2. m \in Nat /\ STATIC_TABLE_MAX + m < High * High
      <3> HIDE DEF m
      <3>1. PICK s \in Int : s = High * High
        BY DecoderAssumption
      <3> QED
        BY <1>2, <1>4, <3>1, IdleTable
    <2>3. PICK indices : indices = Remaining(h) /\ indices = 1 .. (STATIC_TABLE_MAX + m)
      <3>1. peerTable = Newest(dynamicSize)
        BY <1>2, IdleTable
      <3> QED
        BY <3>1 DEF Remaining, Fits
    <2> HIDE DEF m
    <2> QED
      BY <1>1, <1>2, <2>1, <2>2, <2>3, LiteralPut
  <1> HIDE DEF b
  <1>6. /\ peerMax' = peerMax /\ update' = "none" /\ maxTableBytes' = peerMax
        /\ Newest(dynamicSize)' = Newest(dynamicSize) /\ Fits(h, dynamicSize)' = Fits(h, dynamicSize)
    BY <1>2 DEF SendIncremental, Idle, Synced, tableVars, Newest, dynamicSize, Fits
  <1>7. peerTable = Newest(dynamicSize) /\ peerTable' = <<h>> \o Fits(h, dynamicSize)
    <2>1. ~(EntrySize(h) > peerMax)
      BY <1>2, <1>3, IdleTable
    <2> QED
      BY <1>2, <2>1 DEF SendIncremental, Extended, Idle, Synced, Fits
  <1>8. IncrementalAhead'
    <2>1. EntrySize(h)' = EntrySize(h)
      BY DEF EntrySize, size
    <2>2. LiteralIn(b, <<h>>, High \div 2, High \div 2 - 1, h, Newest(dynamicSize), m)
      BY <1>5, <1>7
    <2> QED
      BY <1>2, <1>6, <1>7, <2>1, <2>2 DEF IncrementalAhead
  <1>9. PeerTyped'
    BY <1>2, <1>5, <1>6 DEF PInv, PeerTyped
  <1> QED
    BY <1>2, <1>8, <1>9, Zenon DEF PInv, Decoding

\* A new size is sent.
LEMMA SizeSent ==
    ASSUME PInv, SendSize
    PROVE  PInv'
  <1>1. PICK n \in Sizes, i \in 1 .. STATIC_TABLE_MAX :
          /\ Send(EncodeNumber(High \div 4, High \div 4 - 1, n) \o EncodeNumber(High, High - 1, i), <<StaticTable[i]>>)
          /\ peerTable' = Fitting(peerTable, n)
          /\ peerMax' = n
    BY DEF SendSize
  <1> DEFINE p == EncodeNumber(High \div 4, High \div 4 - 1, n)
             q == EncodeNumber(High, High - 1, i)
             b == p \o q
  <1>2. /\ Idle /\ UNCHANGED tableVars /\ IInv' /\ Counted' /\ dynamicSize' = dynamicSize
        /\ \A k : Newest(k)' = Newest(k)
        /\ block' = b /\ data' = 1 /\ phase' = "field" /\ ok' /\ headers' = << >> /\ sent' = <<StaticTable[i]>>
    BY <1>1, Begun
  <1>3. /\ n \in Nat /\ n < High * High
        /\ STATIC_TABLE_MAX \in Nat /\ STATIC_TABLE_MAX < High * High /\ i \in Nat /\ i < High * High
    <2>1. n \in Nat /\ STATIC_TABLE_MAX + n < High * High /\ STATIC_TABLE_MAX \in Nat
      BY PeerAssumption, TableAssumption DEF STATIC_TABLE_MAX
    <2>2. PICK s \in Int : s = High * High
      BY DecoderAssumption
    <2> QED
      BY <2>1, <2>2
  <1>4. p \in Seq(Byte) /\ q \in Seq(Byte) /\ NumberIn(p, 1, High \div 4, High \div 4 - 1, n, Len(p) + 1)
    <2>1. p \in Seq(Byte) /\ q \in Seq(Byte)
      BY <1>3, Prefixes, CodeType
    <2>2. << >> \in Seq(Byte) /\ Len(<< >>) + 1 = 1
      OBVIOUS
    <2>3. p = << >> \o EncodeNumber(High \div 4, High \div 4 - 1, n)
      BY <2>1
    <2> HIDE DEF p
    <2>4. NumberIn(p, Len(<< >>) + 1, High \div 4, High \div 4 - 1, n, Len(p) + 1)
      BY <1>3, <2>2, <2>3, Prefixes, NumberPut
    <2> QED
      BY <2>1, <2>2, <2>4
  <1> HIDE DEF p
  <1>5. /\ b \in Seq(Byte) /\ Len(b) > Len(p)
        /\ IndexedIn(b, <<StaticTable[i]>>, Len(p) + 1, << >>)
    <2>1. << >> \in Seq(String \X String) /\ Len(<< >>) = 0
      OBVIOUS
    <2>2. STATIC_TABLE_MAX + 0 = STATIC_TABLE_MAX
      BY <1>3
    <2>3. EntryIn(<< >>, i) = StaticTable[i]
      <3>1. i \in 1 .. (STATIC_TABLE_MAX + Len(<< >>)) /\ i <= STATIC_TABLE_MAX
        BY <1>3, <2>1, <2>2
      <3>2. EntryIn(<< >>, i) = IF i <= STATIC_TABLE_MAX THEN StaticTable[i] ELSE << >>[i - STATIC_TABLE_MAX]
        BY <2>1, <3>1, EntryInIs, Zenon
      <3> QED
        BY <3>1, <3>2, Zenon
    <2>4. b \in Seq(Byte) /\ Len(b) > Len(p) /\ IndexedIn(b, <<EntryIn(<< >>, i)>>, Len(p) + 1, << >>)
      BY <1>3, <1>4, <2>1, <2>2, IndexedPut
    <2> QED
      BY <2>3, <2>4
  <1>6. NumberIn(b, 1, High \div 4, High \div 4 - 1, n, Len(p) + 1)
    BY <1>3, <1>4, Prefixes, NumberStays
  <1>7. Len(p) + 1 \in 1 .. Len(b)
    BY <1>4, <1>5
  <1> HIDE DEF b
  <1>8. update' = "none" /\ peerTable' = Fitting(Newest(dynamicSize), n) /\ Newest(dynamicSize)' = Newest(dynamicSize)
    BY <1>1, <1>2 DEF Idle, Synced, tableVars, Newest, dynamicSize
  <1>9. SizeAhead'
    BY <1>1, <1>2, <1>5, <1>6, <1>7, <1>8 DEF SizeAhead
  <1>10. PeerTyped'
    BY <1>1, <1>2, <1>5 DEF PInv, PeerTyped
  <1> QED
    BY <1>2, <1>9, <1>10, Zenon DEF PInv, Decoding

-----------------------------------------------------------------------------
(* The block is read.                                                      *)

\* A number begins with the bits of its kind.
LEMMA KindOf ==
    ASSUME block \in Seq(Byte), NEW d \in Nat \ {0}, NEW kind \in Nat, NEW max \in Nat \ {0}, kind + max < 2 * High,
           NEW n \in Nat \ {0}, n < High * High, NEW e, NumberIn(block, d, kind, max, n, e)
    PROVE  d <= Len(block) /\ block[d] \in (kind + 1) .. (kind + max)
  <1>1. NumberIsRead(d, kind, max, n, e)
    <2>1. n \in Nat /\ max \in Nat
      OBVIOUS
    <2> QED
      BY <2>1, NumberReadBack, Zenon
  <1>2. PICK k \in Nat : k = (IF n < max THEN n ELSE max) /\ k \in 1 .. max
    OBVIOUS
  <1>3. block[d] - kind = k /\ e \in Nat /\ d < e /\ e <= Len(block) + 1
    BY <1>1, <1>2 DEF NumberIsRead
  <1>4. Len(block) \in Nat
    OBVIOUS
  <1>5. d <= Len(block)
    BY <1>3, <1>4
  <1>6. block[d] \in Nat
    <2>1. d \in 1 .. Len(block)
      BY <1>4, <1>5
    <2>2. block[d] \in Byte
      BY <2>1
    <2> QED
      BY <2>2, DecoderAssumption DEF Byte
  <1>7. \A x \in Nat : x - kind = k => x \in (kind + 1) .. (kind + max)
    BY <1>2
  <1> QED
    BY <1>3, <1>5, <1>6, <1>7

\* A literal field begins with the bits of its kind, too.
LEMMA KindOfLiteral ==
    ASSUME block \in Seq(Byte), NEW kind \in Nat, NEW max \in Nat \ {0}, kind + max < 2 * High,
           NEW h, NEW t, NEW m \in Nat, STATIC_TABLE_MAX + m < High * High,
           LiteralIn(block, sent, kind, max, h, t, m)
    PROVE  1 <= Len(block) /\ block[1] \in kind .. (kind + max)
  <1>1. PICK v \in 1 .. Len(block) :
          \/ block[1] = kind /\ StringIn(block, 2, h[1], v)
          \/ \E i \in 1 .. (STATIC_TABLE_MAX + m) :
               NumberIn(block, 1, kind, max, i, v) /\ EntryIn(t, i)[1] = h[1]
    BY DEF LiteralIn
  <1>2. Len(block) \in Nat /\ 1 <= Len(block)
    BY <1>1
  <1>3. CASE block[1] = kind
    BY <1>2, <1>3
  <1>4. CASE \E i \in 1 .. (STATIC_TABLE_MAX + m) : NumberIn(block, 1, kind, max, i, v)
    <2>1. PICK i \in 1 .. (STATIC_TABLE_MAX + m) : NumberIn(block, 1, kind, max, i, v)
      BY <1>4
    <2>2. i \in Nat \ {0} /\ i < High * High
      <3>1. PICK s \in Int : s = High * High
        BY DecoderAssumption
      <3> QED
        BY <3>1, TableAssumption DEF STATIC_TABLE_MAX
    <2>3. block[1] \in (kind + 1) .. (kind + max)
      <3>1. 1 \in Nat \ {0}
        OBVIOUS
      <3> QED
        BY <2>1, <2>2, <3>1, KindOf, Zenon
    <2> QED
      BY <1>2, <2>3
  <1> QED
    BY <1>1, <1>3, <1>4

\* What can happen when a field of some kind is next.
LEMMA OneReader ==
    ASSUME update = "none", data \in Nat, data <= Len(block), Len(block) \in Nat, block[data] \in Nat, DecoderStep
    PROVE  /\ UNCHANGED peerVars /\ AtField
           /\ block[data] >= High => readIndexedHeaderField
           /\ block[data] \in (High \div 2) .. (High - 1) => readLiteralHeaderIncrementalIndexing
           /\ block[data] \in (High \div 4) .. (High \div 2 - 1) => readTableSizeUpdate
           /\ block[data] < High \div 4 => readLiteralHeaderNoIndexing
  <1>1. UNCHANGED peerVars /\ (DecodeStep \/ UpdateTable)
    BY DEF DecoderStep
  <1>2. ~UpdateTable
    BY DEF UpdateTable, TableStep, DropEntry, DropWanted, Resized, Added
  <1>3. ~DecodeEnds
    <2>1. DecodeEnds => data > Len(block)
      BY Zenon DEF DecodeEnds
    <2>2. ~(data > Len(block))
      OBVIOUS
    <2> QED
      BY <2>1, <2>2
  <1>4. \/ readIndexedHeaderField \/ readLiteralHeaderIncrementalIndexing
        \/ readLiteralHeaderNoIndexing \/ readTableSizeUpdate
    BY <1>1, <1>2, <1>3 DEF DecodeStep
  <1>5. AtField
    BY <1>4 DEF readIndexedHeaderField, readLiteralHeaderIncrementalIndexing,
                readLiteralHeaderNoIndexing, readTableSizeUpdate
  <1>6. /\ readIndexedHeaderField => block[data] >= High
        /\ readLiteralHeaderIncrementalIndexing => block[data] \in (High \div 2) .. (High - 1)
        /\ readTableSizeUpdate => block[data] \in (High \div 4) .. (High \div 2 - 1)
        /\ readLiteralHeaderNoIndexing => block[data] < High \div 4
    BY Zenon DEF readIndexedHeaderField, readLiteralHeaderIncrementalIndexing,
           readLiteralHeaderNoIndexing, readTableSizeUpdate
  <1>7. PICK k \in Nat : /\ k >= 2 /\ High = 8 * k /\ High \div 2 = 4 * k /\ High \div 4 = 2 * k
    BY HighParts
  <1>8. PICK x \in Nat : x = block[data]
    OBVIOUS
  <1> HIDE DEF readIndexedHeaderField
  <1> QED
    BY <1>1, <1>4, <1>5, <1>6, <1>7, <1>8

\* An indexed field is read.
LEMMA IndexedStep ==
    ASSUME PInv, phase = "field", ok, IndexedAhead, DecoderStep
    PROVE  PInv'
  <1>1. /\ IInv /\ Counted /\ PeerTyped /\ block \in Seq(Byte) /\ data \in Nat \ {0} /\ Len(block) \in Nat
        /\ headers = << >> /\ update = "none" /\ peerTable = Newest(dynamicSize) /\ maxTableBytes = peerMax
        /\ IndexedIn(block, sent, data, Newest(dynamicSize))
    BY DEF PInv, PeerTyped, IndexedAhead, Synced
  <1>2. /\ dynamicSize \in 0 .. Len(added) /\ dynamicSize \in 0 .. dynamicSize
        /\ Len(Newest(dynamicSize)) = dynamicSize /\ STATIC_TABLE_MAX + dynamicSize < High * High
    <2>1. dynamicSize \in 0 .. Len(added) /\ Len(added) \in Nat
      BY <1>1, HistoryTyped
    <2>2. Len(Newest(dynamicSize)) = dynamicSize
      BY <1>1, <2>1, NewestType
    <2>3. PICK s \in Int : s = High * High
      BY DecoderAssumption
    <2>4. STATIC_TABLE_MAX + dynamicSize < s
      BY <1>1, <2>3, PeerNumbers
    <2> QED
      BY <2>1, <2>2, <2>3, <2>4
  <1>3. data <= Len(block) /\ block[data] \in (High + 1) .. (High + (High - 1))
    <2>1. PICK i \in 1 .. (STATIC_TABLE_MAX + Len(Newest(dynamicSize))) :
            NumberIn(block, data, High, High - 1, i, Len(block) + 1)
      BY <1>1 DEF IndexedIn
    <2>2. i \in Nat \ {0} /\ i < High * High
      <3>1. PICK s \in Int : s = High * High
        BY DecoderAssumption
      <3> QED
        BY <1>2, <2>1, <3>1, TableAssumption, HistoryTyped DEF STATIC_TABLE_MAX
    <2> QED
      BY <1>1, <2>1, <2>2, Prefixes, KindOf, Zenon
  <1>4. block[data] \in Nat /\ block[data] >= High
    BY <1>3, Prefixes
  <1>5. readIndexedHeaderField /\ UNCHANGED peerVars
    BY <1>1, <1>3, <1>4, OneReader
  <1>6. headers' = sent /\ data' = Len(block) + 1 /\ UNCHANGED <<block, phase, ok, bytes, tableVars>>
    BY <1>1, <1>2, <1>5, IndexedReadBack
  <1>7. IInv' /\ Counted' /\ dynamicSize' = dynamicSize /\ \A k : Newest(k)' = Newest(k)
    BY <1>1, <1>6, TableAlone DEF tableVars
  <1>8. AllRead'
    BY <1>1, <1>5, <1>6 DEF AllRead, Synced, peerVars, tableVars, Newest, dynamicSize
  <1>9. PeerTyped'
    BY <1>1, <1>5, <1>6 DEF PeerTyped, peerVars
  <1> QED
    BY <1>6, <1>7, <1>8, <1>9, Zenon DEF PInv, Decoding

\* A literal field is read that is not added.
LEMMA LiteralStep ==
    ASSUME PInv, phase = "field", ok, LiteralAhead, DecoderStep
    PROVE  PInv'
  <1>1. /\ IInv /\ Counted /\ PeerTyped /\ block \in Seq(Byte) /\ Len(block) \in Nat /\ data = 1
        /\ headers = << >> /\ update = "none" /\ peerTable = Newest(dynamicSize) /\ maxTableBytes = peerMax
    BY DEF PInv, PeerTyped, LiteralAhead, Synced
  <1>2. PICK h \in Header, kind \in {0, High \div 8} :
          LiteralIn(block, sent, kind, High \div 8 - 1, h, peerTable, Len(peerTable))
    BY DEF LiteralAhead
  <1> DEFINE m == dynamicSize
             max == High \div 8 - 1
  <1>3. /\ m \in 0 .. dynamicSize /\ m \in Nat /\ STATIC_TABLE_MAX + m < High * High
        /\ LiteralIn(block, sent, kind, max, h, Newest(dynamicSize), m)
    <2>1. dynamicSize \in 0 .. Len(added) /\ Len(added) \in Nat
      BY <1>1, HistoryTyped
    <2>2. Len(Newest(dynamicSize)) = dynamicSize
      BY <1>1, <2>1, NewestType
    <2>3. PICK s \in Int : s = High * High
      BY DecoderAssumption
    <2>4. STATIC_TABLE_MAX + dynamicSize < s
      BY <1>1, <2>3, PeerNumbers
    <2> QED
      BY <1>1, <1>2, <2>1, <2>2, <2>3, <2>4
  <1>4. kind \in Nat /\ max \in Nat \ {0} /\ kind + max < 2 * High
    BY Prefixes
  <1> HIDE DEF m, max
  <1>5. 1 <= Len(block) /\ block[1] \in kind .. (kind + max)
    BY <1>1, <1>3, <1>4, KindOfLiteral
  <1>6. /\ block[data] \in Nat /\ data <= Len(block) /\ block[data] < High \div 4
        /\ block[data] % (High \div 8) = block[data] - kind
    <2>1. PICK k \in Nat : k >= 2 /\ High \div 8 = k /\ High \div 4 = 2 * k
      BY HighParts
    <2>2. PICK x \in Nat : x = block[data] /\ x \in kind .. (kind + (k - 1))
      BY <1>1, <1>4, <1>5, <2>1 DEF max
    <2>3. kind \in {0, k}
      BY <2>1
    <2>4. \A a \in Nat, c \in Nat \ {0} : a < c => a % c = a /\ (c + a) % c = a
      OBVIOUS
    <2>5. x < 2 * k /\ x - kind \in Nat /\ x - kind < k /\ x = kind + (x - kind)
      BY <2>1, <2>2, <2>3
    <2>6. x % k = x - kind
      BY <2>1, <2>3, <2>4, <2>5
    <2> QED
      BY <1>1, <1>5, <2>1, <2>2, <2>5, <2>6
  <1>7. readLiteralHeaderNoIndexing /\ UNCHANGED peerVars
    <2>1. data \in Nat
      BY <1>1
    <2> QED
      BY <1>1, <1>6, <2>1, OneReader
  <1>8. PICK field : field = Field(NameOf(block[data] - kind, max)) /\ TakeLiteral(field, FALSE)
    BY <1>6, <1>7 DEF readLiteralHeaderNoIndexing, max
  <1>9. field.ok /\ ~field.abort /\ field.name = h[1] /\ field.value = h[2] /\ field.data = Len(block)
    <2>1. FieldIsRead(field, h, m)
      BY <1>1, <1>3, <1>4, <1>8, LiteralReadBack, Zenon
    <2> QED
      BY <2>1 DEF FieldIsRead
  <1>10. Accept(Len(block), h[1], h[2]) /\ UNCHANGED tableVars
    BY <1>8, <1>9 DEF TakeLiteral
  <1>11. headers' = sent /\ data' = Len(block) + 1 /\ UNCHANGED <<block, phase, ok, bytes, tableVars>>
    <2>1. sent = <<h>> /\ h = <<h[1], h[2]>>
      BY <1>2, HeaderSize DEF LiteralIn
    <2> QED
      BY <1>1, <1>10, <2>1 DEF Accept
  <1>12. IInv' /\ Counted' /\ dynamicSize' = dynamicSize /\ \A k : Newest(k)' = Newest(k)
    BY <1>1, <1>11, TableAlone DEF tableVars
  <1>13. AllRead'
    BY <1>1, <1>7, <1>11 DEF AllRead, Synced, peerVars, tableVars, Newest, dynamicSize
  <1>14. PeerTyped'
    BY <1>1, <1>7, <1>11 DEF PeerTyped, peerVars
  <1> QED
    BY <1>11, <1>12, <1>13, <1>14, Zenon DEF PInv, Decoding

\* A literal field is read that is to be added.
LEMMA IncrementalStep ==
    ASSUME PInv, phase = "field", ok, IncrementalAhead, DecoderStep
    PROVE  PInv'
  <1>1. /\ IInv /\ Counted /\ PeerTyped /\ block \in Seq(Byte) /\ Len(block) \in Nat /\ data = 1
        /\ headers = << >> /\ update = "none" /\ maxTableBytes = peerMax
    BY DEF PInv, PeerTyped, IncrementalAhead
  <1> DEFINE fits(h) == Fits(h, dynamicSize)
             kind == High \div 2
             max == High \div 2 - 1
  <1>2. PICK h \in Header :
          /\ EntrySize(h) <= peerMax
          /\ peerTable = <<h>> \o fits(h)
          /\ LiteralIn(block, sent, kind, max, h, Newest(dynamicSize), Len(fits(h)))
    BY DEF IncrementalAhead
  <1> DEFINE m == Len(fits(h))
  <1>3. EntrySize(h) \in Nat /\ size(h[1], h[2]) = EntrySize(h) /\ h = <<h[1], h[2]>> /\ h[1] \in String /\ h[2] \in String
    BY HeaderSize
  <1>4. /\ dynamicSize \in 0 .. Len(added) /\ Len(added) \in Nat
        /\ m \in 0 .. dynamicSize /\ m \in Nat /\ STATIC_TABLE_MAX + m < High * High
    <2>1. dynamicSize \in 0 .. Len(added) /\ Len(added) \in Nat
      BY <1>1, HistoryTyped
    <2>2. peerMax \in Nat /\ dynamicSize \in Nat /\ dynamicSize <= peerMax /\ STATIC_TABLE_MAX \in Nat
      BY <1>1, PeerNumbers
    <2>3. peerMax - EntrySize(h) \in Nat
      BY <1>2, <1>3, <2>2
    <2>4. PICK k \in 0 .. dynamicSize : fits(h) = Newest(k)
      BY <1>1, <2>1, <2>3, FittingIs DEF Fits
    <2>5. k \in 0 .. Len(added)
      BY <2>1, <2>2, <2>4
    <2>6. Len(Newest(k)) = k
      BY <1>1, <2>5, NewestType
    <2>7. PICK s \in Int : s = High * High
      BY DecoderAssumption
    <2>8. STATIC_TABLE_MAX + peerMax < s
      BY <1>1, <2>7, PeerNumbers
    <2>9. m = k
      BY <2>4, <2>6
    <2> HIDE DEF m
    <2> QED
      BY <2>1, <2>2, <2>4, <2>7, <2>8, <2>9
  <1>5. kind \in Nat /\ max \in Nat \ {0} /\ kind + max < 2 * High
    BY Prefixes
  <1> HIDE DEF m, kind, max, fits
  <1>6. 1 <= Len(block) /\ block[1] \in kind .. (kind + max)
    BY <1>1, <1>2, <1>4, <1>5, KindOfLiteral DEF m
  <1>7. /\ block[data] \in Nat /\ data <= Len(block) /\ block[data] \in (High \div 2) .. (High - 1)
        /\ block[data] % (High \div 2) = block[data] - kind
    <2>1. PICK k \in Nat : k >= 2 /\ High \div 2 = 4 * k /\ High = 8 * k
      BY HighParts
    <2>2. PICK j \in Nat : j = 4 * k /\ j >= 8
      BY <2>1
    <2>3. PICK x \in Nat : x = block[data] /\ x \in j .. (j + (j - 1))
      BY <1>1, <1>5, <1>6, <2>1, <2>2 DEF kind, max
    <2>4. \A a \in Nat, c \in Nat \ {0} : a < c => (c + a) % c = a
      OBVIOUS
    <2>5. x - j \in Nat /\ x - j < j /\ x = j + (x - j) /\ j \in Nat \ {0}
      BY <2>2, <2>3
    <2>6. x % j = x - j
      BY <2>4, <2>5
    <2> QED
      BY <1>1, <1>6, <2>1, <2>2, <2>3, <2>6 DEF kind
  <1>8. readLiteralHeaderIncrementalIndexing /\ UNCHANGED peerVars
    <2>1. data \in Nat
      BY <1>1
    <2> QED
      BY <1>1, <1>7, <2>1, OneReader
  <1>9. PICK field : field = Field(NameOf(block[data] - kind, max)) /\ TakeLiteral(field, TRUE)
    BY <1>7, <1>8 DEF readLiteralHeaderIncrementalIndexing, max
  <1>10. /\ field.ok /\ ~field.abort /\ field.name = h[1] /\ field.value = h[2] /\ field.data = Len(block)
         /\ field.alias # 0 => /\ Len(added) + 1 - field.alias \in 1 .. m
                               /\ field.alias \in (dropped + 1) .. Len(added) /\ h[1] = added[field.alias][1]
    <2>1. LiteralIn(block, sent, kind, max, h, Newest(dynamicSize), m)
      BY <1>2 DEF m
    <2>2. FieldIsRead(field, h, m)
      BY <1>1, <1>4, <1>5, <1>9, <2>1, LiteralReadBack, Zenon
    <2> QED
      BY <2>2 DEF FieldIsRead
  <1>11. Accept(Len(block), h[1], h[2]) /\ add(h[1], h[2], field.alias)
    BY <1>9, <1>10 DEF TakeLiteral
  <1>12. headers' = sent /\ data' = Len(block) + 1 /\ UNCHANGED <<block, phase, ok, bytes>>
    <2>1. sent = <<h>>
      BY <1>2 DEF LiteralIn
    <2> QED
      BY <1>1, <1>3, <1>11, <2>1 DEF Accept
  <1>13. /\ update' = "add" /\ newName' = h[1] /\ newValue' = h[2] /\ alias' = field.alias
         /\ UNCHANGED <<maxTableBytes, currentTableBytes, added, dropped, sums>>
    <2>1. ~(size(h[1], h[2]) > maxTableBytes)
      <3>1. peerMax \in Nat
        BY <1>1, PeerNumbers
      <3> QED
        BY <1>1, <1>2, <1>3, <3>1
    <2> QED
      BY <1>11, <2>1, Zenon DEF add
  <1>14. TableNext
    <2>1. add(newName', newValue', alias')
      BY <1>11, <1>13
    <2> QED
      BY <1>1, <1>3, <1>10, <1>13, <2>1, Zenon DEF TableNext, TableCall
  <1>15. IInv' /\ Counted' /\ dynamicSize' = dynamicSize /\ \A k : Newest(k)' = Newest(k)
    BY <1>1, <1>13, <1>14, TableAlone
  <1>16. Adding'
    <2>1. NoneTooMany(dynamicSize, peerMax - EntrySize(h))'
      <3>1. dynamicSize' = dynamicSize /\ Len(added)' = Len(added) /\ dynamicSize \in dynamicSize .. Len(added)
        BY <1>4, <1>13, <1>15
      <3> QED
        BY <3>1 DEF NoneTooMany
    <2>2. peerTable' = <<h>> \o Fits(h, dynamicSize)' /\ Len(Fits(h, dynamicSize))' = m
      BY <1>2, <1>8, <1>13 DEF Fits, Newest, dynamicSize, peerVars, fits, m
    <2>3. maxTableBytes' = peerMax' /\ sent' = sent /\ Len(added)' = Len(added)
      BY <1>1, <1>8, <1>13 DEF peerVars
    <2>4. dynamicSize' \in 0 .. Len(added)'
      BY <1>4, <1>13, <1>15
    <2>5. alias' # 0 => Len(added)' + 1 - alias' \in 1 .. m
      BY <1>10, <1>13
    <2> QED
      BY <1>12, <1>13, <2>1, <2>2, <2>3, <2>4, <2>5 DEF Adding
  <1>17. PeerTyped'
    BY <1>1, <1>8, <1>12 DEF PeerTyped, peerVars
  <1> QED
    BY <1>12, <1>15, <1>16, <1>17, Zenon DEF PInv, Decoding

\* A new size is read.
LEMMA SizeStep ==
    ASSUME PInv, phase = "field", ok, SizeAhead, DecoderStep
    PROVE  PInv'
  <1>1. /\ IInv /\ Counted /\ PeerTyped /\ block \in Seq(Byte) /\ Len(block) \in Nat /\ data = 1
        /\ headers = << >> /\ update = "none" /\ peerTable = Fitting(Newest(dynamicSize), peerMax)
    BY DEF PInv, PeerTyped, SizeAhead
  <1> DEFINE kind == High \div 4
             max == High \div 4 - 1
  <1>2. PICK e \in 1 .. Len(block) : NumberIn(block, 1, kind, max, peerMax, e) /\ IndexedIn(block, sent, e, << >>)
    BY DEF SizeAhead
  <1>3. peerMax \in Nat /\ peerMax < High * High
    <2>1. peerMax \in Nat /\ STATIC_TABLE_MAX + peerMax < High * High /\ STATIC_TABLE_MAX \in Nat
      BY <1>1, PeerAssumption, TableAssumption DEF PeerTyped, STATIC_TABLE_MAX
    <2>2. PICK s \in Int : s = High * High
      BY DecoderAssumption
    <2> QED
      BY <2>1, <2>2
  <1>4. kind \in Nat /\ max \in Nat \ {0} /\ kind + max < 2 * High
    BY Prefixes
  <1> HIDE DEF kind, max
  <1>5. NumberIsRead(1, kind, max, peerMax, e)
    <2>1. 1 \in Nat \ {0} /\ max \in Nat
      BY <1>4
    <2> QED
      BY <1>1, <1>2, <1>3, <1>4, <2>1, NumberReadBack, Zenon
  <1>6. /\ block[1] - kind = (IF peerMax < max THEN peerMax ELSE max)
        /\ readNumber(1, block[1] - kind, max) = [ok |-> TRUE, value |-> peerMax, data |-> e - 1]
    BY <1>5 DEF NumberIsRead
  <1>7. block[data] \in Nat /\ data <= Len(block) /\ block[data] \in (High \div 4) .. (High \div 2 - 1)
    <2>1. 1 \in 1 .. Len(block)
      BY <1>1, <1>2
    <2>2. block[1] \in Byte
      BY <1>1, <2>1
    <2>3. PICK x \in Nat : x = block[1]
      BY <2>2, DecoderAssumption DEF Byte
    <2>4. x - kind \in 0 .. max
      BY <1>3, <1>4, <1>6, <2>3
    <2>5. PICK k \in Nat : k >= 2 /\ High \div 4 = 2 * k /\ High \div 2 = 4 * k
      BY HighParts
    <2> QED
      BY <1>1, <2>1, <2>3, <2>4, <2>5 DEF kind, max
  <1>8. readTableSizeUpdate /\ UNCHANGED peerVars
    <2>1. data \in Nat
      BY <1>1
    <2> QED
      BY <1>1, <1>7, <2>1, OneReader
  <1>9. TakeSize([ok |-> TRUE, value |-> peerMax, data |-> e - 1])
    <2>1. PICK number : number = readNumber(data, block[data] - kind, max) /\ TakeSize(number)
      BY <1>8 DEF readTableSizeUpdate, kind, max
    <2> QED
      BY <1>1, <1>6, <2>1
  <1>10. resize(peerMax) /\ data' = e /\ UNCHANGED <<block, phase, ok, headers, bytes>>
    <2>1. e - 1 + 1 = e
      BY <1>2
    <2> QED
      BY <1>9, <2>1 DEF TakeSize
  <1>11. /\ update' = "resize" /\ newMax' = peerMax
         /\ UNCHANGED <<maxTableBytes, currentTableBytes, added, dropped, sums>>
    BY <1>10 DEF resize
  <1>12. TableNext
    <2>1. resize(newMax')
      BY <1>10, <1>11
    <2> QED
      BY <1>1, <1>3, <1>11, <2>1, Zenon DEF TableNext, TableCall
  <1>13. IInv' /\ Counted' /\ dynamicSize' = dynamicSize /\ \A k : Newest(k)' = Newest(k)
    BY <1>1, <1>11, <1>12, TableAlone
  <1>14. Resizing'
    <2>1. dynamicSize \in 0 .. Len(added) /\ dynamicSize \in dynamicSize .. Len(added)
      <3>1. dynamicSize \in 0 .. Len(added) /\ Len(added) \in Nat
        BY <1>1, HistoryTyped
      <3> QED
        BY <3>1
    <2>2. NoneTooMany(dynamicSize, peerMax)'
      <3>1. dynamicSize' = dynamicSize /\ Len(added)' = Len(added)
        BY <1>11, <1>13
      <3> QED
        BY <2>1, <3>1 DEF NoneTooMany
    <2>3. peerMax' = peerMax /\ sent' = sent /\ peerTable' = Fitting(Newest(dynamicSize), peerMax)'
      BY <1>1, <1>8, <1>11 DEF peerVars, Newest, dynamicSize
    <2>4. dynamicSize' \in 0 .. Len(added)'
      BY <1>11, <1>13, <2>1
    <2> QED
      BY <1>1, <1>2, <1>10, <1>11, <2>2, <2>3, <2>4 DEF Resizing
  <1>15. PeerTyped'
    <2>1. e \in Nat \ {0}
      BY <1>2
    <2> QED
      BY <1>1, <1>8, <1>10, <2>1 DEF PeerTyped, peerVars
  <1> QED
    BY <1>10, <1>13, <1>14, <1>15, Zenon DEF PInv, Decoding

\* The table's loop for the entry, or its end.
LEMMA AddingStep ==
    ASSUME PInv, phase = "field", ok, Adding, DecoderStep
    PROVE  PInv'
  <1>1. /\ IInv /\ Counted /\ PeerTyped /\ headers = sent /\ data = Len(block) + 1
        /\ update = "add" /\ maxTableBytes = peerMax
    BY DEF PInv, Adding
  <1>2. PICK h \in Header, k \in 0 .. Len(added) :
          /\ newName = h[1] /\ newValue = h[2]
          /\ NoneTooMany(k, peerMax - EntrySize(h))
          /\ peerTable = <<h>> \o Fits(h, k)
          /\ alias # 0 => Len(added) + 1 - alias \in 1 .. Len(Fits(h, k))
    BY DEF Adding
  <1>3. PICK s \in Nat \ {0} : s = EntrySize(h) /\ size(newName, newValue) = s
    BY <1>2, HeaderSize
  <1>4. PICK N \in Nat, d \in Nat, total \in Nat, gone \in Nat :
          /\ N = Len(added) /\ d = dropped /\ d \in 0 .. N /\ N - d \in Nat /\ dynamicSize = N - d
          /\ total = Total(N) /\ gone = Total(d) /\ currentTableBytes = total - gone
    <2>1. Len(added) \in Nat /\ dropped \in 0 .. Len(added) /\ dynamicSize = Len(added) - dropped
      BY <1>1, HistoryTyped DEF dynamicSize
    <2>2. Total(Len(added)) \in Nat /\ Total(dropped) \in Nat
      BY <1>1, <2>1, HistoryTyped
    <2> QED
      BY <1>1, <2>1, <2>2 DEF IInv, AccountingExact
  <1>5. UNCHANGED peerVars /\ (DropEntry \/ Added) /\ UNCHANGED decoderVars
    <2>1. ~DecodeStep
      BY <1>1 DEF DecodeStep, readIndexedHeaderField, readLiteralHeaderIncrementalIndexing,
                  readLiteralHeaderNoIndexing, readTableSizeUpdate, DecodeEnds, AtField
    <2>2. ~Resized
      BY <1>1 DEF Resized
    <2> QED
      BY <2>1, <2>2 DEF DecoderStep, UpdateTable, TableStep
  <1>6. IInv'
    BY <1>1, <1>5, StepPreserves DEF TableNext, TableStep
  <1>7. PeerTyped' /\ phase' = "field" /\ ok' /\ headers' = sent' /\ data' = Len(block') + 1
    BY <1>1, <1>5 DEF PeerTyped, peerVars, decoderVars
  <1>8. maxTableBytes \in Nat
    BY <1>1 DEF IInv, TableTypeOK
  <1>9. CASE DropEntry
    <2>1. /\ dropped' = d + 1
          /\ UNCHANGED <<maxTableBytes, added, sums, update, newMax, newName, newValue, alias, peerTable, peerMax, sent>>
      BY <1>4, <1>5, <1>9 DEF DropEntry, dropEntry, peerVars
    <2>2. total - gone > peerMax - s /\ d < N
      <3>1. currentTableBytes + s > maxTableBytes
        BY <1>1, <1>3, <1>9 DEF DropEntry, DropWanted, TooFull
      <3>2. dropped < Len(added)
        BY <1>1, <1>9, DropHasEntry DEF DropEntry, DropsOnlyEntries
      <3> QED
        BY <1>1, <1>4, <1>8, <3>1, <3>2
    <2>3. Counted'
      BY <1>1, <2>1 DEF Counted, Total
    <2>4. NoneTooMany(k, peerMax - EntrySize(h))'
      <3>1. dynamicSize' = N - (d + 1) /\ dropped' - 1 = d /\ Len(added)' = N
        BY <1>4, <2>1 DEF dynamicSize
      <3>2. Total(Len(added))' = total /\ Total(dropped - 1)' = gone
        BY <1>4, <2>1, <3>1 DEF Total
      <3>3. k \in (N - d) .. N
        BY <1>2, <1>4 DEF NoneTooMany
      <3>4. k \in (N - (d + 1)) .. N
        BY <1>4, <3>3
      <3>5. (peerMax - EntrySize(h))' = peerMax - s
        BY <1>3, <2>1 DEF EntrySize, size
      <3> QED
        BY <2>2, <3>1, <3>2, <3>4, <3>5 DEF NoneTooMany
    <2>5. Fits(h, k)' = Fits(h, k)
      BY <2>1 DEF Fits, Newest
    <2>6. Adding'
      BY <1>1, <1>2, <1>7, <2>1, <2>4, <2>5 DEF Adding
    <2> QED
      BY <1>6, <1>7, <2>3, <2>6, Zenon DEF PInv, Decoding
  <1>10. CASE Added
    <2>1. total - gone <= peerMax - s /\ peerMax - s \in Nat
      <3>1. ~(currentTableBytes + s > maxTableBytes)
        BY <1>3, <1>10 DEF Added, TooFull
      <3>2. currentTableBytes \in Nat
        BY <1>1 DEF IInv, TableTypeOK
      <3>3. PICK c \in Nat, p \in Nat : c = total - gone /\ p = peerMax /\ ~(c + s > p)
        BY <1>1, <1>4, <1>8, <3>1, <3>2
      <3>4. c <= p - s /\ p - s \in Nat
        BY <3>3
      <3> QED
        BY <3>3, <3>4
    <2>2. Fits(h, k) = Newest(dynamicSize)
      <3>1. k \in Nat /\ NoneTooMany(k, peerMax - s)
        BY <1>2, <1>3
      <3>2. Fitting(Newest(k), peerMax - s) = Newest(dynamicSize)
        BY <1>1, <1>4, <2>1, <3>1, RightOnesDropped
      <3> QED
        BY <1>3, <3>2 DEF Fits
    <2>3. added \in Seq(String \X String) /\ Len(Newest(dynamicSize)) = N - d
          /\ Newest(dynamicSize) \in Seq(String \X String) /\ \A i \in 1 .. (N - d) : Newest(dynamicSize)[i] = added[N + 1 - i]
      <3>1. dynamicSize \in 0 .. Len(added) /\ added \in Seq(String \X String)
        BY <1>1, HistoryTyped
      <3> QED
        BY <1>1, <1>4, <3>1, NewestType
    <2>4. NameCopied = h[1]
      <3>1. alias \in Nat
        BY <1>1 DEF IInv, TableTypeOK
      <3>2. alias # 0 => N + 1 - alias \in 1 .. (N - d)
        BY <1>2, <1>4, <2>2, <2>3
      <3>3. ~(alias # 0 /\ alias <= dropped)
        BY <1>4, <3>1, <3>2
      <3> QED
        BY <1>2, <3>3 DEF NameCopied
    <2>5. /\ added' = Append(added, h) /\ sums' = Append(sums, total + s) /\ update' = "none"
          /\ UNCHANGED <<maxTableBytes, dropped, peerTable, peerMax, sent>>
      <3>1. <<NameCopied, newValue>> = h
        BY <1>2, <2>4, HeaderSize
      <3> QED
        BY <1>3, <1>4, <1>5, <1>10, <3>1 DEF Added, peerVars
    <2>6. h \in String \X String
      BY HeaderSize
    <2>7. Len(added') = N + 1 /\ added'[N + 1] = h /\ (\A i \in 1 .. N : added'[i] = added[i]) /\ dynamicSize' = N + 1 - d
      <3>1. Len(added) = N /\ dropped = d
        BY <1>4
      <3>2. Len(added') = N + 1 /\ added'[N + 1] = h /\ \A i \in 1 .. N : added'[i] = added[i]
        BY <2>3, <2>5, <2>6, <3>1
      <3>3. dynamicSize' = N + 1 - d
        BY <2>5, <3>1, <3>2 DEF dynamicSize
      <3> QED
        BY <3>2, <3>3
    <2>8. peerTable' = Newest(dynamicSize)'
      <3> DEFINE new == [i \in 1 .. (N + 1 - d) |-> added'[N + 1 + 1 - i]]
                 old == Newest(dynamicSize)
      <3>1. Newest(dynamicSize)' = new
        BY <2>7 DEF Newest
      <3>2. peerTable' = <<h>> \o old
        BY <1>2, <2>2, <2>5
      <3>3. /\ old \in Seq(String \X String) /\ Len(old) = N - d
            /\ \A i \in 1 .. (N - d) : old[i] = added[N + 1 - i]
        BY <2>3
      <3> HIDE DEF old
      <3>4. PICK l \in Nat : l = N - d
        BY <1>4
      <3>5. /\ <<h>> \o old = [i \in 1 .. (l + 1) |-> IF i = 1 THEN h ELSE old[i - 1]]
        BY <2>6, <3>3, <3>4
      <3>6. ASSUME NEW i \in 1 .. (l + 1)
            PROVE  added'[N + 1 + 1 - i] = IF i = 1 THEN h ELSE old[i - 1]
        <4>1. CASE i = 1
          BY <2>7, <4>1
        <4>2. CASE i # 1
          <5>1. i - 1 \in 1 .. l /\ N + 1 + 1 - i = N + 1 - (i - 1) /\ N + 1 - (i - 1) \in 1 .. N
            BY <1>4, <3>4, <4>2
          <5>2. added'[N + 1 - (i - 1)] = added[N + 1 - (i - 1)] /\ old[i - 1] = added[N + 1 - (i - 1)]
            BY <2>7, <3>3, <3>4, <5>1
          <5> QED
            BY <4>2, <5>1, <5>2
        <4> QED
          BY <4>1, <4>2
      <3>7. N + 1 - d = l + 1
        BY <1>4, <3>4
      <3>8. new = [i \in 1 .. (l + 1) |-> IF i = 1 THEN h ELSE old[i - 1]]
        BY <3>6, <3>7
      <3> QED
        BY <3>1, <3>2, <3>5, <3>8
    <2>9. Counted'
      <3>1. sums \in Seq(Nat) /\ Len(sums) = N
        BY <1>1, <1>4 DEF IInv, TableTypeOK
      <3>2. \A i \in 0 .. N : Total(i) \in Nat
        BY <1>1, <1>4, HistoryTyped
      <3>3. /\ sums'[N + 1] = total + s /\ \A i \in 1 .. N : sums'[i] = sums[i]
        <4>1. PICK t \in Nat : t = total + s
          OBVIOUS
        <4> QED
          BY <2>5, <3>1, <4>1
      <3>4. Total(N + 1)' = total + s /\ \A i \in 0 .. N : Total(i)' = Total(i)
        BY <1>4, <3>3 DEF Total
      <3>5. ASSUME NEW i \in 0 .. (N + 1), NEW j \in 0 .. (N + 1), i <= j
            PROVE  Total(j)' >= Total(i)' + (j - i)
        <4>1. CASE j \in 0 .. N
          <5>1. i \in 0 .. N
            BY <3>5, <4>1
          <5> QED
            BY <1>1, <1>4, <3>4, <3>5, <4>1, <5>1 DEF Counted
        <4>2. CASE j = N + 1 /\ i \in 0 .. N
          <5>1. N \in 0 .. N /\ i <= N
            BY <4>2
          <5>2. total >= Total(i) + (N - i) /\ Total(i) \in Nat
            BY <1>1, <1>4, <3>2, <4>2, <5>1 DEF Counted
          <5> QED
            BY <3>4, <4>2, <5>2
        <4>3. CASE j = N + 1 /\ i = N + 1
          BY <3>4, <4>3
        <4> QED
          BY <4>1, <4>2, <4>3
      <3> QED
        BY <2>7, <3>5 DEF Counted, Total
    <2>10. AllRead'
      BY <1>1, <1>7, <2>5, <2>8 DEF AllRead, Synced
    <2> QED
      BY <1>6, <1>7, <2>9, <2>10, Zenon DEF PInv, Decoding
  <1> QED
    BY <1>5, <1>9, <1>10

\* The table's loop for the new size, or its end.
LEMMA ResizingStep ==
    ASSUME PInv, phase = "field", ok, Resizing, DecoderStep
    PROVE  PInv'
  <1>1. /\ IInv /\ Counted /\ PeerTyped /\ headers = << >> /\ update = "resize" /\ newMax = peerMax
        /\ IndexedIn(block, sent, data, << >>)
    BY DEF PInv, Resizing
  <1>2. PICK k \in 0 .. Len(added) : NoneTooMany(k, peerMax) /\ peerTable = Fitting(Newest(k), peerMax)
    BY DEF Resizing
  <1>3. peerMax \in Nat
    BY <1>1, PeerAssumption, TableAssumption DEF PeerTyped
  <1>4. PICK N \in Nat, d \in Nat, total \in Nat, gone \in Nat :
          /\ N = Len(added) /\ d = dropped /\ d \in 0 .. N /\ dynamicSize = N - d
          /\ total = Total(N) /\ gone = Total(d) /\ currentTableBytes = total - gone
    <2>1. Len(added) \in Nat /\ dropped \in 0 .. Len(added) /\ dynamicSize = Len(added) - dropped
      BY <1>1, HistoryTyped DEF dynamicSize
    <2>2. Total(Len(added)) \in Nat /\ Total(dropped) \in Nat
      BY <1>1, <2>1, HistoryTyped
    <2> QED
      BY <1>1, <2>1, <2>2 DEF IInv, AccountingExact
  <1>5. UNCHANGED peerVars /\ (DropEntry \/ Resized) /\ UNCHANGED decoderVars
    <2>1. ~DecodeStep
      BY <1>1 DEF DecodeStep, readIndexedHeaderField, readLiteralHeaderIncrementalIndexing,
                  readLiteralHeaderNoIndexing, readTableSizeUpdate, DecodeEnds, AtField
    <2>2. ~Added
      BY <1>1 DEF Added
    <2> QED
      BY <2>1, <2>2 DEF DecoderStep, UpdateTable, TableStep
  <1>6. IInv'
    BY <1>1, <1>5, StepPreserves DEF TableNext, TableStep
  <1>7. /\ PeerTyped' /\ phase' = "field" /\ ok' /\ headers' = << >>
        /\ UNCHANGED <<block, data, sent, peerTable, peerMax>>
    BY <1>1, <1>5 DEF PeerTyped, peerVars, decoderVars
  <1>8. CASE DropEntry
    <2>1. /\ dropped' = d + 1
          /\ UNCHANGED <<maxTableBytes, added, sums, update, newMax, newName, newValue, alias>>
      BY <1>4, <1>8 DEF DropEntry, dropEntry
    <2>2. total - gone > peerMax /\ d < N
      <3>1. currentTableBytes > newMax
        BY <1>1, <1>8 DEF DropEntry, DropWanted, TooLarge
      <3>2. dropped < Len(added)
        BY <1>1, <1>8, DropHasEntry DEF DropEntry, DropsOnlyEntries
      <3> QED
        BY <1>1, <1>4, <3>1, <3>2
    <2>3. Counted'
      BY <1>1, <2>1 DEF Counted, Total
    <2>4. NoneTooMany(k, peerMax)'
      <3>1. dynamicSize' = N - (d + 1) /\ dropped' - 1 = d /\ Len(added)' = N
        BY <1>4, <2>1 DEF dynamicSize
      <3>2. Total(Len(added))' = total /\ Total(dropped - 1)' = gone
        BY <1>4, <2>1, <3>1 DEF Total
      <3>3. k \in (N - d) .. N
        BY <1>2, <1>4 DEF NoneTooMany
      <3>4. k \in (N - (d + 1)) .. N
        BY <1>4, <3>3
      <3> QED
        BY <1>7, <2>2, <3>1, <3>2, <3>4 DEF NoneTooMany
    <2>5. Newest(k)' = Newest(k)
      BY <2>1 DEF Newest
    <2>6. Resizing'
      BY <1>1, <1>2, <1>7, <2>1, <2>4, <2>5 DEF Resizing
    <2> QED
      BY <1>6, <1>7, <2>3, <2>6, Zenon DEF PInv, Decoding
  <1>9. CASE Resized
    <2>1. /\ maxTableBytes' = peerMax /\ update' = "none"
          /\ UNCHANGED <<currentTableBytes, added, dropped, sums>>
      BY <1>1, <1>9 DEF Resized
    <2>2. total - gone <= peerMax
      <3>1. ~(currentTableBytes > newMax)
        BY <1>9 DEF Resized, TooLarge
      <3> QED
        BY <1>1, <1>3, <1>4, <3>1
    <2>3. peerTable = Newest(dynamicSize)
      <3>1. k \in Nat
        OBVIOUS
      <3> QED
        BY <1>1, <1>2, <1>3, <1>4, <2>2, <3>1, RightOnesDropped
    <2>4. Synced'
      BY <1>7, <2>1, <2>3 DEF Synced, Newest, dynamicSize
    <2>5. Counted'
      BY <1>1, <2>1 DEF Counted, Total
    <2>6. IndexedIn(block, sent, data, peerTable)
      <3>1. peerTable \in Seq(String \X String) /\ Len(peerTable) \in Nat
        <4>1. dynamicSize \in 0 .. Len(added)
          BY <1>1, HistoryTyped
        <4> QED
          BY <1>1, <2>3, <4>1, NewestType
      <3>2. PICK i \in 1 .. (STATIC_TABLE_MAX + Len(<< >>)) :
              /\ NumberIn(block, data, High, High - 1, i, Len(block) + 1)
              /\ sent = <<EntryIn(<< >>, i)>>
        BY <1>1 DEF IndexedIn
      <3>3. << >> \in Seq(String \X String) /\ STATIC_TABLE_MAX \in Nat /\ Len(<< >>) = 0
        BY TableAssumption DEF STATIC_TABLE_MAX
      <3>4. i <= STATIC_TABLE_MAX /\ i \in 1 .. (STATIC_TABLE_MAX + Len(peerTable))
        BY <3>1, <3>2, <3>3
      <3>5. EntryIn(<< >>, i) = StaticTable[i]
        <4>1. EntryIn(<< >>, i) = IF i <= STATIC_TABLE_MAX THEN StaticTable[i] ELSE << >>[i - STATIC_TABLE_MAX]
          BY <3>2, <3>3, EntryInIs, Zenon
        <4> QED
          BY <3>4, <4>1, Zenon
      <3>6. EntryIn(peerTable, i) = StaticTable[i]
        BY <3>1, <3>4, EntryInIs
      <3> QED
        BY <3>2, <3>4, <3>5, <3>6 DEF IndexedIn
    <2>7. IndexedAhead'
      BY <1>7, <2>4, <2>6 DEF IndexedAhead
    <2> QED
      BY <1>6, <1>7, <2>5, <2>7, Zenon DEF PInv, Decoding
  <1> QED
    BY <1>5, <1>8, <1>9

\* decode returns.
LEMMA EndStep ==
    ASSUME PInv, phase = "field", ok, AllRead, DecoderStep
    PROVE  PInv'
  <1>1. /\ IInv /\ Counted /\ PeerTyped /\ headers = sent /\ data = Len(block) + 1 /\ Len(block) \in Nat /\ Synced
    BY DEF PInv, AllRead, PeerTyped
  <1>2. ~UpdateTable
    BY <1>1 DEF Synced, UpdateTable, TableStep, DropEntry, DropWanted, Resized, Added
  <1>3. ~AtField
    <2>1. ~(data <= Len(block))
      BY <1>1
    <2> QED
      BY <2>1, Zenon DEF AtField
  <1>4. DecodeEnds /\ UNCHANGED peerVars
    BY <1>2, <1>3, Zenon DEF DecoderStep, DecodeStep, readIndexedHeaderField, readLiteralHeaderIncrementalIndexing,
                  readLiteralHeaderNoIndexing, readTableSizeUpdate
  <1>5. /\ phase' = "idle" /\ ok' = TRUE /\ block' = << >> /\ data' = 1
        /\ UNCHANGED headers /\ UNCHANGED tableVars
    BY <1>4, Zenon DEF DecodeEnds, Return
  <1>6. IInv' /\ Counted' /\ dynamicSize' = dynamicSize /\ \A k : Newest(k)' = Newest(k)
    BY <1>1, <1>5, TableAlone DEF tableVars
  <1>7. Synced' /\ headers' = sent'
    BY <1>1, <1>4, <1>5 DEF Synced, peerVars, tableVars, Newest, dynamicSize
  <1>8. PeerTyped'
    BY <1>1, <1>4, <1>5 DEF PeerTyped, peerVars
  <1>9. Idle'
    BY <1>5, <1>7, Zenon DEF Idle
  <1> QED
    BY <1>6, <1>8, <1>9 DEF PInv

\* A decoder that is idle does nothing.
LEMMA NoStepIdle ==
    ASSUME Idle, DecoderStep
    PROVE  FALSE
  BY DEF Idle, Synced, DecoderStep, DecodeStep, readIndexedHeaderField, readLiteralHeaderIncrementalIndexing,
         readLiteralHeaderNoIndexing, readTableSizeUpdate, DecodeEnds, AtField, UpdateTable, TableStep,
         DropEntry, DropWanted, Resized, Added

\* Before the first block both tables are empty.
LEMMA PeerStarts == PeerInit => PInv
  <1> SUFFICES ASSUME PeerInit PROVE PInv
    OBVIOUS
  <1>1. IInv
    BY InitIInv DEF PeerInit, InitDecoder
  <1>2. Counted
    BY DEF PeerInit, InitDecoder, InitTable, Counted, Total
  <1>3. PeerTyped
    BY DEF PeerInit, InitDecoder, PeerTyped
  <1>4. Idle
    <2>1. Newest(dynamicSize) = << >>
      <3>1. dynamicSize = 0
        BY DEF PeerInit, InitDecoder, InitTable, dynamicSize
      <3> QED
        BY <3>1 DEF Newest
    <2> QED
      BY <2>1 DEF PeerInit, InitDecoder, InitTable, Idle, Synced
  <1> QED
    BY <1>1, <1>2, <1>3, <1>4 DEF PInv

\* Every step of the two ends.
LEMMA PeerPreserves ==
    ASSUME PInv, [CarefulNext]_allVars
    PROVE  PInv'
  <1>1. CASE SendIndexed
    BY <1>1, IndexedSent
  <1>2. CASE SendNoIndexing
    BY <1>2, LiteralSent
  <1>3. CASE SendSize
    BY <1>3, SizeSent
  <1>4. ASSUME NEW h \in Header, EntrySize(h) <= peerMax, SendIncremental(h, Remaining(h))
        PROVE  PInv'
    BY <1>4, IncrementalSent
  <1>5. CASE DecoderStep
    <2>1. CASE Idle
      BY <1>5, <2>1, NoStepIdle
    <2>2. CASE Decoding
      <3>1. phase = "field" /\ ok
        BY <2>2 DEF Decoding
      <3> QED
        BY <1>5, <2>2, <3>1, IndexedStep, LiteralStep, IncrementalStep, AddingStep, SizeStep, ResizingStep, EndStep
           DEF Decoding
    <2> QED
      BY <2>1, <2>2 DEF PInv
  <1>6. CASE UNCHANGED allVars
    <2>1. UNCHANGED vars /\ UNCHANGED peerVars
      BY <1>6 DEF allVars
    <2>2. UNCHANGED tableVars /\ UNCHANGED <<block, data, phase, ok, headers, peerTable, peerMax, sent>>
      BY <2>1 DEF vars, tableVars, peerVars
    <2>3. IInv' /\ Counted' /\ dynamicSize' = dynamicSize /\ \A k : Newest(k)' = Newest(k)
      BY <2>2, TableAlone DEF PInv, tableVars
    <2>4. PeerTyped' /\ (Synced => Synced')
      BY <2>2 DEF PInv, PeerTyped, Synced, tableVars, Newest, dynamicSize
    <2>5. Idle => Idle'
      BY <2>2, <2>4, Zenon DEF Idle
    <2>6. (IndexedAhead => IndexedAhead') /\ (LiteralAhead => LiteralAhead') /\ (AllRead => AllRead')
      BY <2>2, <2>4 DEF IndexedAhead, LiteralAhead, AllRead
    <2>7. IncrementalAhead => IncrementalAhead'
      BY <2>2 DEF IncrementalAhead, Fits, Newest, dynamicSize, EntrySize, size, tableVars
    <2>8. SizeAhead => SizeAhead'
      BY <2>2 DEF SizeAhead, Newest, dynamicSize, tableVars
    <2>9. Adding => Adding'
      BY <2>2 DEF Adding, NoneTooMany, Fits, Newest, dynamicSize, EntrySize, size, Total, tableVars
    <2>10. Resizing => Resizing'
      BY <2>2 DEF Resizing, NoneTooMany, Newest, dynamicSize, Total, tableVars
    <2>11. Decoding => Decoding'
      BY <2>2, <2>6, <2>7, <2>8, <2>9, <2>10, Zenon DEF Decoding
    <2> QED
      BY <2>3, <2>4, <2>5, <2>11 DEF PInv
  <1> QED
    BY <1>1, <1>2, <1>3, <1>4, <1>5, <1>6 DEF CarefulNext

\* The invariant says what the ends have when no block is decoded.
LEMMA AgreeIdle ==
    ASSUME PInv
    PROVE  EndsAgree
  <1> SUFFICES ASSUME phase = "idle" PROVE EndsAgree
    BY DEF EndsAgree, HeadersAgree, TablesAgree
  <1>1. Idle
    BY DEF PInv, Decoding
  <1>2. IInv /\ Len(peerTable) = dynamicSize /\ peerTable = Newest(dynamicSize) /\ dynamicSize \in 0 .. Len(added)
    BY <1>1, IdleTable DEF PInv
  <1>3. ASSUME NEW i \in 1 .. dynamicSize
        PROVE  peerTable[i] = EntryAt(STATIC_TABLE_MAX + i)
    <2>1. PICK s \in Nat, N \in Nat : s = STATIC_TABLE_MAX /\ N = Len(added)
      BY <1>2, HistoryTyped, TableAssumption DEF STATIC_TABLE_MAX
    <2>2. i \in Nat \ {0}
      BY <1>2, HistoryTyped
    <2>3. ~(s + i <= s) /\ N - ((s + i) - (s + 1)) = N + 1 - i
      BY <2>1, <2>2
    <2>4. EntryAt(STATIC_TABLE_MAX + i) = added[N + 1 - i]
      BY <2>1, <2>3 DEF EntryAt, Position
    <2>5. Newest(dynamicSize)[i] = added[N + 1 - i]
      BY <1>2, <2>1, NewestType
    <2> QED
      BY <1>2, <2>4, <2>5
  <1>4. ok /\ headers = sent /\ maxTableBytes = peerMax
    BY <1>1, Zenon DEF Idle, Synced
  <1> QED
    BY <1>2, <1>3, <1>4, Zenon DEF EndsAgree, HeadersAgree, TablesAgree

\* After every header block of a careful peer both ends have the same headers and
\* the same dynamic table, whatever it sends, in whatever order and representation.
THEOREM CarefulPeerAgrees == CarefulSpec => []EndsAgree
  <1>1. PInv => EndsAgree
    BY AgreeIdle
  <1>2. PeerInit => PInv
    BY PeerStarts
  <1>3. PInv /\ [CarefulNext]_allVars => PInv'
    BY PeerPreserves
  <1> QED
    BY <1>1, <1>2, <1>3, PTL DEF CarefulSpec
=============================================================================
