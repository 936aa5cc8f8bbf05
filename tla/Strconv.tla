------------------------------- MODULE Strconv -------------------------------
(***************************************************************************)
(* Numbers to text and back (Strconv.cpp).  The functions of 32 and of 64   *)
(* bits are the same code twice; they are one operator here, with the width *)
(* scaled down, and a definition for each function.  A text is a sequence   *)
(* of character codes.                                                      *)
(***************************************************************************)
EXTENDS Integers, Sequences, SequencesExt, FiniteSetsExt

CONSTANTS
    W32, W64    \* the scaled widths; a digit fits the smaller one

ASSUME StrconvAssumption == W32 \in Nat /\ W64 \in Nat /\ W32 > 4 /\ W64 > W32

MaxUnsigned(w) == 2 ^ w - 1
MaxSigned(w) == 2 ^ (w - 1) - 1
MinSigned(w) == -(2 ^ (w - 1))

MINUS == 45

charValue(c) ==
    CASE c \in 48..57 -> c - 48
      [] c \in 65..70 -> c - 55
      [] c \in 97..102 -> c - 87
      [] OTHER -> -1

valueAsChar(d) == IF d < 10 THEN 48 + d ELSE 55 + d

two_digit_lookup(i) == <<48 + (i \div 10), 48 + (i % 10)>>

-----------------------------------------------------------------------------
(* The digits of the least numbers by radix, without the sign.  The first   *)
(* entry stands for the null pointers of radix 0 and 1.                     *)

int64_min_values == <<
    <<>>,
    <<1,0,0,0,0,0,0,0,0,0,0,0,0,0,0,0,0,0,0,0,0,0,0,0,0,0,0,0,0,0,0,0,0,0,0,0,0,0,0,0,0,0,0,0,0,0,0,0,0,0,0,0,0,0,0,0,0,0,0,0,0,0,0,0>>,
    <<2,0,2,1,1,1,0,0,1,1,0,2,2,2,1,0,0,1,2,1,0,2,0,1,0,0,2,1,2,2,0,1,0,1,2,2,0,1,0,2>>,
    <<2,0,0,0,0,0,0,0,0,0,0,0,0,0,0,0,0,0,0,0,0,0,0,0,0,0,0,0,0,0,0,0>>,
    <<1,1,0,4,3,3,2,4,0,1,3,0,4,4,2,2,4,3,4,3,1,0,3,1,0,0,4,0>>,
    <<1,5,4,0,2,4,1,0,0,3,0,3,1,0,3,0,2,2,2,1,2,2,2,1,2>>,
    <<2,2,3,4,1,0,1,0,6,1,1,2,4,5,0,5,2,0,5,0,6,1,4>>,
    <<1,0,0,0,0,0,0,0,0,0,0,0,0,0,0,0,0,0,0,0,0,0>>,
    <<6,7,4,0,4,2,8,3,1,7,2,1,0,7,8,1,1,7,6,6>>,
    <<9,2,2,3,3,7,2,0,3,6,8,5,4,7,7,5,8,0,8>>,
    <<1,7,2,8,0,0,2,6,3,5,2,1,4,5,9,0,9,6,6>>,
    <<4,1,10,7,9,2,6,7,8,5,1,5,1,2,0,3,6,8>>,
    <<1,0,11,2,6,9,5,4,9,0,7,5,4,3,3,5,1,5>>,
    <<4,3,4,0,7,2,4,12,6,12,7,1,13,12,7,10,8>>,
    <<1,6,0,14,2,10,13,3,2,4,6,3,6,6,6,6,13>>,
    <<8,0,0,0,0,0,0,0,0,0,0,0,0,0,0,0>>>>

\* Mutant: the tables are mixed up.
int32MinMixedUp == int64_min_values

int32_min_values == <<
    <<>>,
    <<1,0,0,0,0,0,0,0,0,0,0,0,0,0,0,0,0,0,0,0,0,0,0,0,0,0,0,0,0,0,0,0>>,
    <<1,2,1,1,2,1,2,2,2,1,2,1,1,0,2,0,2,1,0,2>>,
    <<2,0,0,0,0,0,0,0,0,0,0,0,0,0,0,0>>,
    <<1,3,3,4,4,2,2,3,4,3,4,0,4,3>>,
    <<5,5,3,0,3,2,0,0,5,5,3,2>>,
    <<1,0,4,1,3,4,2,1,1,1,6,2>>,
    <<2,0,0,0,0,0,0,0,0,0,0>>,
    <<5,4,7,8,7,7,3,6,7,2>>,
    <<2,1,4,7,4,8,3,6,4,8>>,
    <<10,0,2,2,2,0,2,8,2>>,
    <<4,11,11,2,3,0,8,10,8>>,
    <<2,8,2,11,10,4,10,10,11>>,
    <<1,6,5,2,12,10,9,3,2>>,
    <<12,8,7,14,6,6,11,8>>,
    <<8,0,0,0,0,0,0,0>>>>

-----------------------------------------------------------------------------
(* Number of decimal digits.  A value is given by that number: v < P0n says *)
(* that it is at most n, and v / P12 takes twelve off.                      *)

Plus(n, condition) == n + IF condition THEN 1 ELSE 0

\* Mutant: one boundary is one decade too far.
digitsBase10Mistaken(d) ==
    CASE d <= 3 -> d
      [] d > 3 /\ d <= 6 -> IF d <= 4 THEN 4 ELSE Plus(5, d > 6)
      [] d > 6 /\ d <= 9 -> IF d <= 7 THEN 7 ELSE Plus(8, d > 8)
      [] OTHER -> 10

digitsBase10_32(d) ==
    CASE d <= 3 -> d
      [] d > 3 /\ d <= 6 -> IF d <= 4 THEN 4 ELSE Plus(5, d > 5)
      [] d > 6 /\ d <= 9 -> IF d <= 7 THEN 7 ELSE Plus(8, d > 8)
      [] OTHER -> 10

digitsBase10_64(d) ==
    LET below12(n) ==
            CASE n <= 3 -> n
              [] n > 3 /\ n <= 6 -> IF n <= 4 THEN 4 ELSE Plus(5, n > 5)
              [] n > 6 /\ n <= 8 -> Plus(7, n > 7)
              [] n > 8 /\ n <= 10 -> Plus(9, n > 9)
              [] OTHER -> Plus(11, n > 11)
    IN IF d <= 12 THEN below12(d) ELSE 12 + below12(d - 12)

\* How many decimal digits a number has.
Decades(v) == CHOOSE n \in 1..10 : v < 10 ^ n /\ (n = 1 \/ v >= 10 ^ (n - 1))

-----------------------------------------------------------------------------
(* Numbers to text. *)

\* Decimal: pairs of digits from the end of a buffer whose length is computed
\* first.  What is not written in it keeps any content, here -1.
uintToStr10(value, length) ==
    LET pairs[v \in 0..value] ==
            IF v >= 100 THEN pairs[v \div 100] \o two_digit_lookup(v % 100)
            ELSE IF v < 10 THEN <<48 + v>> ELSE two_digit_lookup(v)
        unwritten == length - Len(pairs[value])
    IN [i \in 1..length |-> IF i > unwritten THEN pairs[value][i - unwritten] ELSE -1]

uint32ToStr10(value) == uintToStr10(value, digitsBase10_32(Decades(value)))
uint64ToStr10(value) == uintToStr10(value, digitsBase10_64(Decades(value)))

\* Mutant: the remainders are written as they come.
uintToStrForward(value, radix) ==
    LET values[v \in 0..value] == IF v = 0 THEN <<>> ELSE <<v % radix>> \o values[v \div radix]
    IN [i \in 1..Len(values[value]) |-> valueAsChar(values[value][i])]

\* Any radix: the remainders in reverse.  Zero has none.
uintToStrRadix(value, radix) ==
    LET values[v \in 0..value] == IF v = 0 THEN <<>> ELSE <<v % radix>> \o values[v \div radix]
    IN [i \in 1..Len(values[value]) |-> valueAsChar(Reverse(values[value])[i])]

uint32ToStrRadix(value, radix) == uintToStrRadix(value, radix)
uint64ToStrRadix(value, radix) == uintToStrRadix(value, radix)

\* Whether digits are those of 2^n.  Numbers of up to 70 bits are told apart by
\* their remainders for these primes.
Primes == {32749, 32719, 32717, 32713, 32707}
IsPower(digits, radix, n) ==
    \A p \in Primes :
        LET step(acc, d) == (acc * radix + d) % p
            power[k \in 0..n] == IF k = 0 THEN 1 ELSE (2 * power[k - 1]) % p
        IN FoldLeft(step, 0, digits) = power[n]

\* The text for the least number of width w, from the tables: as the entry is
\* right or wrong for 32 or 64 bits, the text of the scaled least number or of
\* another.
minText(radix, w) ==
    LET right == IF w = W32 THEN IsPower(int32_min_values[radix], radix, 31)
                            ELSE IsPower(int64_min_values[radix], radix, 63)
    IN uintToStrRadix(2 ^ (w - 1) - IF right THEN 0 ELSE 1, radix)

\* Signed numbers: a sign before the text of the negated number.  The least one
\* has no negative and is looked up.
Magnitude(value) == IF value < 0 THEN -value ELSE value
Signed(value, radix, w, text) ==
    IF value = MinSigned(w) THEN <<MINUS>> \o minText(radix, w)
    ELSE IF value >= 0 THEN text
    ELSE <<MINUS>> \o text

int32ToStr10(value) == Signed(value, 10, W32, uint32ToStr10(Magnitude(value)))
int64ToStr10(value) == Signed(value, 10, W64, uint64ToStr10(Magnitude(value)))
int32ToStrRadix(value, radix) == Signed(value, radix, W32, uint32ToStrRadix(Magnitude(value), radix))
int64ToStrRadix(value, radix) == Signed(value, radix, W64, uint64ToStrRadix(Magnitude(value), radix))

\* Mutant: room for the sign is forgotten.
outputUnsigned(text, tempLen, bufferLen) ==
    [size |-> Len(text), tempLen |-> tempLen,
     buffer |-> IF bufferLen + 1 >= tempLen THEN text ELSE SubSeq(text, 1, Min({Len(text), bufferLen}))]

\* The exported functions: straight into a buffer that is large enough for any
\* number, else into tempBuf and from there what the buffer holds.  The size is
\* that of the whole text.
output(text, tempLen, bufferLen) ==
    [size |-> Len(text), tempLen |-> tempLen,
     buffer |-> IF bufferLen >= tempLen THEN text ELSE SubSeq(text, 1, Min({Len(text), bufferLen}))]

UINT_MAX_LEN(w) == Decades(MaxUnsigned(w))
INT_MAX_LEN(w) == 1 + Decades(MaxSigned(w) + 1)

int32ToStr(value, radix, bufferLen) ==
    IF radix = 10 THEN output(int32ToStr10(value), INT_MAX_LEN(W32), bufferLen)
    ELSE output(int32ToStrRadix(value, radix), W32 + 1, bufferLen)
int64ToStr(value, radix, bufferLen) ==
    IF radix = 10 THEN output(int64ToStr10(value), INT_MAX_LEN(W64), bufferLen)
    ELSE output(int64ToStrRadix(value, radix), W64 + 1, bufferLen)
uint32ToStr(value, radix, bufferLen) ==
    IF radix = 10 THEN output(uint32ToStr10(value), UINT_MAX_LEN(W32), bufferLen)
    ELSE output(uint32ToStrRadix(value, radix), W32, bufferLen)
uint64ToStr(value, radix, bufferLen) ==
    IF radix = 10 THEN output(uint64ToStr10(value), UINT_MAX_LEN(W64), bufferLen)
    ELSE output(uint64ToStrRadix(value, radix), W64, bufferLen)

-----------------------------------------------------------------------------
(* Text to numbers, character by character.  `i' counts the characters.     *)

Failed(s) == [s EXCEPT !.failed = TRUE]
BadDigit(s, c) == charValue(c) < 0 \/ charValue(c) >= s.radix

parseStart(radix) ==
    [i |-> 0, digits |-> FALSE, result |-> 0, negative |-> FALSE, radix |-> radix,
     failed |-> radix < 2 \/ radix > 16]

\* Signed numbers are accumulated negatively, down to limit.
parseIntChar(s, c, w) ==
    LET limit == IF s.negative THEN MinSigned(w) ELSE -MaxSigned(w)
        multmin == -((-limit) \div s.radix)
        d == charValue(c)
    IN IF s.failed THEN s
       ELSE IF s.i = 0 /\ c = MINUS THEN [s EXCEPT !.i = 1, !.negative = TRUE]
       ELSE IF BadDigit(s, c) THEN Failed(s)
       ELSE IF ~s.digits THEN [s EXCEPT !.i = 1, !.digits = TRUE, !.result = -d]
       ELSE IF s.result < multmin \/ s.result * s.radix < limit + d THEN Failed(s)
       ELSE [s EXCEPT !.result = s.result * s.radix - d]

\* Mutant: the maximum itself is refused.
overflowsMax(product, d, max) == product >= max - d

overflows(product, d, max) == product > max - d

parseUintChar(s, c, w) ==
    LET max == MaxUnsigned(w)
        d == charValue(c)
    IN IF s.failed \/ BadDigit(s, c) THEN Failed(s)
       ELSE IF ~s.digits THEN [s EXCEPT !.i = 1, !.digits = TRUE, !.result = d]
       ELSE IF s.result > max \div s.radix \/ overflows(s.result * s.radix, d, max) THEN Failed(s)
       ELSE [s EXCEPT !.result = s.result * s.radix + d]

parseInt32Char(s, c) == parseIntChar(s, c, W32)
parseInt64Char(s, c) == parseIntChar(s, c, W64)
parseUint32Char(s, c) == parseUintChar(s, c, W32)
parseUint64Char(s, c) == parseUintChar(s, c, W64)

\* What the function returns when the text ends: an empty text, or a sign
\* alone, is no number.
parseIntEnd(s) ==
    IF s.failed \/ ~s.digits THEN <<0, FALSE>>
    ELSE <<IF s.negative THEN s.result ELSE -s.result, TRUE>>
parseUintEnd(s) == IF s.failed \/ ~s.digits THEN <<0, FALSE>> ELSE <<s.result, TRUE>>

parseInt32(str, radix) == parseIntEnd(FoldLeft(parseInt32Char, parseStart(radix), str))
parseInt64(str, radix) == parseIntEnd(FoldLeft(parseInt64Char, parseStart(radix), str))
parseUint32(str, radix) == parseUintEnd(FoldLeft(parseUint32Char, parseStart(radix), str))
parseUint64(str, radix) == parseUintEnd(FoldLeft(parseUint64Char, parseStart(radix), str))
==============================================================================
