------------------------------ MODULE StringRef ------------------------------
(***************************************************************************)
(* Comparison and search of text (StringRef.cpp) and the iterator over      *)
(* comma separated header values (CommaListIterator.cpp).  A text is a      *)
(* sequence of character codes; indexes count from zero as in the source.   *)
(***************************************************************************)
EXTENDS Integers, Sequences, SequencesExt, FiniteSetsExt

CONSTANTS
    SearchLimit,        \* search areas from this length on use skip tables (256)
    SPACE, TAB, COMMA   \* character codes

charAt(s, i) == s[i + 1]

\* memcmp of the first n characters, by its sign.
memcmp(s, t, n) ==
    LET diffs == {i \in 1..n : s[i] # t[i]}
    IN IF diffs = {} THEN 0 ELSE IF s[Min(diffs)] < t[Min(diffs)] THEN -1 ELSE 1

\* Mutant: the longer text is not told from its prefix.
compareCommon(s, t) == memcmp(s, t, Min({Len(s), Len(t)}))

\* A text that another one starts with comes after it.
compare(s, t) ==
    LET partial == memcmp(s, t, Min({Len(s), Len(t)}))
    IN IF partial # 0 \/ Len(s) = Len(t) THEN partial
       ELSE IF Len(s) < Len(t) THEN 1 ELSE -1

equals(s, t) == Len(s) = Len(t) /\ memcmp(s, t, Len(s)) = 0

\* The operators of two StringRefs, or of one and a const char*.
operators(s, t) ==
    [lt |-> compare(s, t) < 0, le |-> compare(s, t) <= 0, gt |-> compare(s, t) > 0, ge |-> compare(s, t) >= 0,
     eq |-> equals(s, t), ne |-> ~equals(s, t)]

\* strcmp, by its sign: both texts end at their first null.
strcmp(s, t) ==
    LET diffs == {i \in 1..(Min({Len(s), Len(t)}) + 1) : Append(s, 0)[i] # Append(t, 0)[i]}
        nulls == {i \in 1..(Len(s) + 1) : Append(s, 0)[i] = 0}
    IN IF diffs = {} \/ Min(nulls) < Min(diffs) THEN 0
       ELSE IF Append(s, 0)[Min(diffs)] < Append(t, 0)[Min(diffs)] THEN -1 ELSE 1

\* String::compare, the same for the text of a String.
stringCompare(s, t) == compare(s, t)

\* Mutant: all operators compare as the last two do.
cstrOrderCompared(s, t) == stringCompare(s, t)

cstrOrder(s, t) == strcmp(s, t)

\* The operators of a String and a const char*.
stringOperators(s, t) ==
    [lt |-> cstrOrder(s, t) < 0, le |-> cstrOrder(s, t) <= 0, gt |-> cstrOrder(s, t) > 0, ge |-> cstrOrder(s, t) >= 0,
     eq |-> stringCompare(s, t) = 0, ne |-> stringCompare(s, t) # 0]

\* Letters a to z count as their capitals.
upper(c) == IF c \in 97..122 THEN c - 32 ELSE c
engEqualsIgnoreCase(s, t) == Len(s) = Len(t) /\ \A i \in DOMAIN s : upper(s[i]) = upper(t[i])

\* A char has a sign.  Of two tests for a small letter one is always true, and
\* so every character is moved, across the least one too.
asChar(c) == ((c + 128) % 256) - 128
smallLetter(c) == asChar(c) >= 97 \/ asChar(c) <= 122
moved(c) == IF smallLetter(c) THEN asChar(asChar(c) - 32) ELSE asChar(c)

engCompareIgnoreCase(s, t) ==
    LET diffs == {i \in 1..Min({Len(s), Len(t)}) : moved(s[i]) # moved(t[i])}
    IN IF diffs # {} THEN moved(s[Min(diffs)]) - moved(t[Min(diffs)])
       ELSE IF Len(s) < Len(t) THEN -1 ELSE IF Len(s) > Len(t) THEN 1 ELSE 0

substring(s, startIndex, endIndex) == SubSeq(s, startIndex + 1, endIndex)

startsWith(s, t) == Len(s) >= Len(t) /\ memcmp(s, t, Len(t)) = 0
endsWith(s, t) == Len(s) >= Len(t) /\ equals(substring(s, Len(s) - Len(t), Len(s)), t)

\* indexOf of a character.
indexOfChar(s, c, startIndex) ==
    LET found == {i \in startIndex..(Len(s) - 1) : charAt(s, i) = c}
    IN IF found = {} THEN -1 ELSE Min(found)

\* Mutant: the character behind the end is looked at too.
memrchrLate(s, c, count) ==
    LET search[p \in -1..Len(s)] == IF p < 0 \/ (p < Len(s) /\ charAt(s, p) = c) THEN p ELSE search[p - 1]
    IN search[count]

\* memrchr is the program's own where the library has none.
memrchr(s, c, count) ==
    LET search[p \in -1..(Len(s) - 1)] == IF p < 0 \/ charAt(s, p) = c THEN p ELSE search[p - 1]
    IN search[count - 1]

\* lastIndexOf of a character before the index.  Without an index it is zero.
lastIndexOfChar(s, c, endIndex) == memrchr(s, c, endIndex)
lastIndexOfCharAnywhere(s, c) == lastIndexOfChar(s, c, 0)

MatchAt(s, t, i) == \A j \in 0..(Len(t) - 1) : charAt(s, i + j) = charAt(t, j)

\* A table of skips is filled at (unsigned) of a char: a negative one leads far
\* outside of it.
OutsideTable(t) == \E i \in DOMAIN t : asChar(t[i]) < 0

\* Mutant: the first occurrence in the pattern counts.
badCharSkipFirst(t, c) ==
    LET at == {i \in 0..(Len(t) - 2) : charAt(t, i) = c}
    IN IF at = {} THEN Len(t) ELSE Len(t) - 1 - Min(at)

\* How far the search moves on when the last character compared is c: to the
\* last occurrence of c in the pattern but for its end.
badCharSkip(t, c) ==
    LET at == {i \in 0..(Len(t) - 2) : charAt(t, i) = c}
    IN IF at = {} THEN Len(t) ELSE Len(t) - 1 - Max(at)

\* What comes of a search besides an index: it writes or reads outside its table, or
\* does not end, for a skip of zero.
OUTSIDE == -3
LOOPS == -2

\* Nothing is found at zero, wherever the search starts.
indexOf(s, t, startIndex) ==
    LET last == Len(s) - Len(t)
        bruteForce == LET found == {i \in startIndex..last : MatchAt(s, t, i)}
                      IN IF found = {} THEN -1 ELSE Min(found)
        horspool[p \in 0..(Len(s) + Len(t))] ==
            IF p > last THEN -1
            ELSE IF MatchAt(s, t, p) THEN p
            ELSE horspool[p + badCharSkip(t, charAt(s, p + Len(t) - 1))]
    IN IF Len(t) = 0 THEN 0
       ELSE IF Len(t) > Len(s) - startIndex THEN -1
       ELSE IF Len(s) - startIndex < SearchLimit THEN bruteForce
       ELSE IF OutsideTable(Front(t)) THEN OUTSIDE
       ELSE horspool[startIndex]

\* The skip table of the search from the end: for a character of the pattern
\* its last index, zero for one that it has at its start alone.  The table has no entry
\* for the last character there is.
skip(t, c) ==
    LET at == {i \in 0..(Len(t) - 1) : charAt(t, i) = c}
    IN IF at = {} THEN Len(t) ELSE Max(at)

\* Mutant: the search starts one position too late.
lastStartLate(endIndex, t) == endIndex - Len(t) - 1

lastStart(endIndex, t) == endIndex - Len(t)

lastIndexOf(s, t, endIndex) ==
    LET start == lastStart(endIndex, t)
        bruteForce == LET found == {i \in 0..start : MatchAt(s, t, i)}
                      IN IF found = {} THEN -1 ELSE Max(found)
        horspool[p \in (-Len(t))..Len(s)] ==
            IF p < 0 THEN -1
            ELSE IF MatchAt(s, t, p) THEN p
            ELSE IF charAt(s, p) = 255 THEN OUTSIDE
            ELSE IF skip(t, charAt(s, p)) = 0 THEN LOOPS
            ELSE horspool[p - skip(t, charAt(s, p))]
    IN IF Len(t) = 0 THEN 0
       ELSE IF start < 0 THEN -1
       ELSE IF start < SearchLimit THEN bruteForce
       ELSE IF OutsideTable(t) THEN OUTSIDE
       ELSE horspool[start]

-----------------------------------------------------------------------------
(* CommaListIterator. *)

Blank(c) == c = SPACE \/ c = TAB

trimWhitespace(s) ==
    LET start == Min({Len(s)} \cup {i \in 0..(Len(s) - 1) : ~Blank(charAt(s, i))})
        end == Max({start} \cup {i \in 0..(Len(s) - 1) : ~Blank(charAt(s, i))})
    IN IF start = Len(s) THEN <<>> ELSE substring(s, start, end + 1)

\* Mutant: the comma stays at the front of the rest.
nextKeepsComma(text) ==
    LET comma == indexOfChar(text, COMMA, 0)
    IN IF comma = -1 THEN [item |-> trimWhitespace(text), text |-> <<>>]
       ELSE [item |-> trimWhitespace(substring(text, 0, comma)),
             text |-> substring(text, comma + IF comma > 0 THEN 0 ELSE 1, Len(text))]

\* The item up to the next comma, and the text behind it.
next(text) ==
    LET comma == indexOfChar(text, COMMA, 0)
    IN IF comma = -1 THEN [item |-> trimWhitespace(text), text |-> <<>>]
       ELSE [item |-> trimWhitespace(substring(text, 0, comma)),
             text |-> substring(text, comma + 1, Len(text))]
==============================================================================
