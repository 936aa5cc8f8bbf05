---------------------------- MODULE PathTrieProofs ----------------------------
(***************************************************************************)
(* Theorems about PathTrie: its shape and its answers, for any characters, *)
(* lengths and numbers of paths.  Every node has a full path; that links,  *)
(* prefixes and full paths agree is kept by the two ways in which the trie *)
(* grows, a new leaf and a node put into a link, and by every way in which *)
(* addNodeRecursive uses them.                                             *)
(***************************************************************************)
EXTENDS PathTrie, FiniteSetTheorems, WellFoundedInduction, TLAPS

\* Texts of any length.
Text == Seq(Chars)

-----------------------------------------------------------------------------
(* Texts and their beginnings. *)

\* Paths are the texts of no more than MaxLength characters.
LEMMA PathTexts ==
  /\ Paths \subseteq Text
  /\ \A p \in Text : Len(p) <= MaxLength => p \in Paths
  /\ \A p \in Paths : Len(p) \in 0 .. MaxLength
  <1> USE PathTrieAssumption
  <1>1. \A n \in 0 .. MaxLength : \A p \in [1 .. n -> Chars] : p \in Text /\ Len(p) = n
    BY DEF Text
  <1>2. \A p \in Text : p \in [1 .. Len(p) -> Chars] /\ Len(p) \in Nat
    BY DEF Text
  <1> QED
    BY <1>1, <1>2 DEF Paths

\* A beginning, character by character.
LEMMA PrefixIs ==
  ASSUME NEW s \in Text, NEW t \in Text
  PROVE  IsPrefix(s, t) <=> Len(s) <= Len(t) /\ \A i \in 1 .. Len(s) : s[i] = t[i]
  BY DEF IsPrefix, Text

\* Texts are equal if their characters are.
LEMMA TextsEqual ==
  ASSUME NEW s \in Text, NEW t \in Text, Len(s) = Len(t), \A i \in 1 .. Len(s) : s[i] = t[i]
  PROVE  s = t
  BY DEF Text

\* Beginnings are a partial order, and those of one text are in a line.
LEMMA PrefixOrder ==
  /\ \A s \in Text : IsPrefix(s, s)
  /\ \A s, t, u \in Text : IsPrefix(s, t) /\ IsPrefix(t, u) => IsPrefix(s, u)
  /\ \A s, t \in Text : IsPrefix(s, t) /\ IsPrefix(t, s) => s = t
  /\ \A s, t \in Text : IsPrefix(s, t) => Len(s) <= Len(t) /\ (Len(s) = Len(t) => s = t)
  /\ \A s, t, u \in Text : IsPrefix(s, u) /\ IsPrefix(t, u) => IsPrefix(s, t) \/ IsPrefix(t, s)
  <1>0. \A s \in Text : Len(s) \in Nat
    BY DEF Text
  <1>1. \A s \in Text : IsPrefix(s, s)
    BY <1>0, PrefixIs
  <1>2. ASSUME NEW s \in Text, NEW t \in Text, NEW u \in Text, IsPrefix(s, t), IsPrefix(t, u)
        PROVE  IsPrefix(s, u)
    <2>1. Len(s) <= Len(u)
      BY <1>0, <1>2, PrefixIs
    <2>2. \A i \in 1 .. Len(s) : s[i] = t[i] /\ i \in 1 .. Len(t)
      BY <1>0, <1>2, PrefixIs
    <2>3. \A i \in 1 .. Len(t) : t[i] = u[i]
      BY <1>2, PrefixIs
    <2> QED
      BY <2>1, <2>2, <2>3, PrefixIs
  <1>3. ASSUME NEW s \in Text, NEW t \in Text, IsPrefix(s, t), Len(s) = Len(t)
        PROVE  s = t
    BY <1>3, PrefixIs, TextsEqual
  <1>4. \A s, t \in Text : IsPrefix(s, t) => Len(s) <= Len(t)
    BY PrefixIs
  <1>5. ASSUME NEW s \in Text, NEW t \in Text, NEW u \in Text, IsPrefix(s, u), IsPrefix(t, u), Len(s) <= Len(t)
        PROVE  IsPrefix(s, t)
    <2>1. \A i \in 1 .. Len(s) : s[i] = u[i] /\ i \in 1 .. Len(t)
      BY <1>0, <1>5, PrefixIs
    <2>2. \A i \in 1 .. Len(t) : t[i] = u[i]
      BY <1>5, PrefixIs
    <2> QED
      BY <1>5, <2>1, <2>2, PrefixIs
  <1>6. \A s, t \in Text : Len(s) <= Len(t) \/ Len(t) <= Len(s)
    BY <1>0
  <1>7. \A s, t \in Text : IsPrefix(s, t) /\ IsPrefix(t, s) => s = t
    BY <1>0, <1>3, <1>4
  <1> QED
    BY <1>1, <1>2, <1>3, <1>4, <1>5, <1>6, <1>7

\* A text and the characters that it goes on with.
LEMMA NextCharacter ==
  /\ \A s \in Text, c \in Chars : Append(s, c) \in Text /\ Len(Append(s, c)) = Len(s) + 1
  /\ \A s \in Text, c \in Chars : IsPrefix(s, Append(s, c)) /\ s # Append(s, c)
  /\ \A s, t \in Text, c \in Chars :
        IsPrefix(Append(s, c), t) => IsPrefix(s, t) /\ s # t /\ Len(s) < Len(t) /\ t[Len(s) + 1] = c
  /\ \A s, t \in Text, c, d \in Chars : IsPrefix(Append(s, c), t) /\ IsPrefix(Append(s, d), t) => c = d
  /\ \A s, t \in Text : IsPrefix(s, t) /\ s # t =>
        t[Len(s) + 1] \in Chars /\ IsPrefix(Append(s, t[Len(s) + 1]), t)
  <1>0. \A s \in Text : Len(s) \in Nat
    BY DEF Text
  <1>1. ASSUME NEW s \in Text, NEW c \in Chars
        PROVE  /\ Append(s, c) \in Text /\ Len(Append(s, c)) = Len(s) + 1
               /\ Append(s, c)[Len(s) + 1] = c
               /\ \A i \in 1 .. Len(s) : Append(s, c)[i] = s[i]
    BY DEF Text
  <1>2. ASSUME NEW s \in Text, NEW c \in Chars
        PROVE  IsPrefix(s, Append(s, c)) /\ s # Append(s, c)
    <2> DEFINE a == Append(s, c)
    <2>1. a \in Text /\ Len(a) = Len(s) + 1 /\ \A i \in 1 .. Len(s) : a[i] = s[i]
      BY <1>1
    <2> HIDE DEF a
    <2>2. IsPrefix(s, a) /\ s # a
      BY <1>0, <2>1, PrefixIs
    <2> QED
      BY <2>2 DEF a
  <1>3. ASSUME NEW s \in Text, NEW t \in Text, NEW c \in Chars, IsPrefix(Append(s, c), t)
        PROVE  IsPrefix(s, t) /\ s # t /\ Len(s) < Len(t) /\ t[Len(s) + 1] = c
    <2>1. Append(s, c) \in Text /\ Len(Append(s, c)) = Len(s) + 1
      BY <1>1
    <2>2. Len(s) + 1 <= Len(t) /\ \A i \in 1 .. Len(s) + 1 : Append(s, c)[i] = t[i]
      BY <1>3, <2>1, PrefixIs
    <2>3. Len(s) < Len(t) /\ s # t
      BY <1>0, <2>2
    <2>4. t[Len(s) + 1] = c
      BY <1>0, <1>1, <2>2
    <2> QED
      BY <1>2, <1>3, <2>1, <2>3, <2>4, PrefixOrder
  <1>4. \A s, t \in Text, c, d \in Chars : IsPrefix(Append(s, c), t) /\ IsPrefix(Append(s, d), t) => c = d
    BY <1>3
  <1>5. ASSUME NEW s \in Text, NEW t \in Text, IsPrefix(s, t), s # t
        PROVE  t[Len(s) + 1] \in Chars /\ IsPrefix(Append(s, t[Len(s) + 1]), t)
    <2>1. Len(s) < Len(t) /\ Len(s) + 1 \in 1 .. Len(t)
      BY <1>0, <1>5, PrefixOrder
    <2>2. t[Len(s) + 1] \in Chars
      BY <2>1 DEF Text
    <2> DEFINE a == Append(s, t[Len(s) + 1])
    <2>3. a \in Text /\ Len(a) = Len(s) + 1 /\ a[Len(s) + 1] = t[Len(s) + 1] /\ \A i \in 1 .. Len(s) : a[i] = s[i]
      BY <1>1, <2>2
    <2>4. \A i \in 1 .. Len(s) : s[i] = t[i]
      BY <1>5, PrefixIs
    <2> HIDE DEF a
    <2>5. \A i \in 1 .. Len(a) : a[i] = t[i]
      BY <1>0, <2>3, <2>4
    <2>6. IsPrefix(a, t)
      BY <1>0, <2>1, <2>3, <2>5, PrefixIs
    <2> QED
      BY <2>2, <2>6 DEF a
  <1> QED
    BY <1>1, <1>2, <1>3, <1>4, <1>5

\* The same, one by one.
LEMMA Transitive ==
  \A s, t, u \in Text : IsPrefix(s, t) /\ IsPrefix(t, u) => IsPrefix(s, u)
  BY PrefixOrder

\* Two beginnings of a text: one begins with the other.
LEMMA InLine ==
  \A s, t, u \in Text : IsPrefix(s, u) /\ IsPrefix(t, u) => IsPrefix(s, t) \/ IsPrefix(t, s)
  BY PrefixOrder

\* Two texts that begin with each other are one.
LEMMA NotBoth ==
  \A s, t \in Text : IsPrefix(s, t) /\ IsPrefix(t, s) => s = t
  BY PrefixOrder

\* A text and a character are a text.
LEMMA Appended ==
  \A s \in Text, c \in Chars : Append(s, c) \in Text
  BY NextCharacter

\* What begins with a text and a character begins with the text, and is longer.
LEMMA BehindNext ==
  \A s, t \in Text, c \in Chars : IsPrefix(Append(s, c), t) => IsPrefix(s, t) /\ s # t
  BY NextCharacter

\* A text goes on from a beginning with one character only,
LEMMA OneNext ==
  \A s, t \in Text, c, d \in Chars : IsPrefix(Append(s, c), t) /\ IsPrefix(Append(s, d), t) => c = d
  BY NextCharacter

\* and with one, unless it is the beginning.
LEMMA GoesOn ==
  \A s, t \in Text : IsPrefix(s, t) /\ s # t => \E c \in Chars : IsPrefix(Append(s, c), t)
  BY NextCharacter

\* Two texts put together.
LEMMA Joined ==
  ASSUME NEW s \in Text, NEW t \in Text
  PROVE  /\ s \o t \in Text /\ Len(s \o t) = Len(s) + Len(t)
         /\ IsPrefix(s, s \o t)
         /\ t = << >> => s \o t = s
         /\ t # << >> => t[1] \in Chars /\ IsPrefix(Append(s, t[1]), s \o t)
         /\ \A u \in Text : s \o t = s \o u => t = u
         /\ \A u \in Text : u \o t = s \o t => u = s
         /\ \A u \in Text : IsPrefix(s \o t, s \o u) <=> IsPrefix(t, u)
  <1>0. Len(s) \in Nat /\ Len(t) \in Nat
    BY DEF Text
  <1>1. \A u \in Text : /\ s \o u \in Text /\ Len(s \o u) = Len(s) + Len(u) /\ Len(u) \in Nat
                        /\ \A i \in 1 .. Len(s) : (s \o u)[i] = s[i]
                        /\ \A i \in 1 .. Len(u) : (s \o u)[Len(s) + i] = u[i]
    BY DEF Text
  <1>2. IsPrefix(s, s \o t)
    <2>1. s \o t \in Text /\ Len(s) <= Len(s \o t) /\ \A i \in 1 .. Len(s) : s[i] = (s \o t)[i]
      BY <1>0, <1>1
    <2> QED
      BY <2>1, PrefixIs
  <1>3. t = << >> => s \o t = s
    BY DEF Text
  <1>4. t # << >> => t[1] \in Chars /\ IsPrefix(Append(s, t[1]), s \o t)
    <2> SUFFICES ASSUME t # << >> PROVE t[1] \in Chars /\ IsPrefix(Append(s, t[1]), s \o t)
      OBVIOUS
    <2>1. Len(t) > 0 /\ t[1] \in Chars
      BY DEF Text
    <2>2. s # s \o t /\ (s \o t)[Len(s) + 1] = t[1]
      BY <1>0, <1>1, <2>1
    <2> QED
      BY <1>1, <1>2, <2>1, <2>2, NextCharacter
  <1>5. ASSUME NEW u \in Text
        PROVE  IsPrefix(s \o t, s \o u) <=> IsPrefix(t, u)
    <2>1. Len(s \o t) <= Len(s \o u) <=> Len(t) <= Len(u)
      BY <1>0, <1>1
    <2>2. ASSUME IsPrefix(s \o t, s \o u) PROVE IsPrefix(t, u)
      <3>1. ASSUME NEW i \in 1 .. Len(t) PROVE t[i] = u[i]
        <4>0. s \o t \in Text /\ s \o u \in Text
          BY <1>1
        <4>1. Len(s) + i \in 1 .. Len(s \o t) /\ i \in 1 .. Len(u)
          <5>1. Len(t) <= Len(u)
            BY <2>1, <2>2, <4>0, PrefixIs
          <5> QED
            BY <1>0, <1>1, <5>1
        <4>2. (s \o t)[Len(s) + i] = (s \o u)[Len(s) + i]
          BY <2>2, <4>0, <4>1, PrefixIs
        <4> QED
          BY <1>1, <4>1, <4>2
      <3>2. s \o t \in Text /\ s \o u \in Text
        BY <1>1
      <3> QED
        BY <2>1, <2>2, <3>1, <3>2, PrefixIs
    <2>3. ASSUME IsPrefix(t, u) PROVE IsPrefix(s \o t, s \o u)
      <3>1. ASSUME NEW i \in 1 .. Len(s \o t) PROVE (s \o t)[i] = (s \o u)[i]
        <4>1. CASE i <= Len(s)
          BY <1>0, <1>1, <4>1
        <4>2. CASE i > Len(s)
          <5>1. PICK j \in 1 .. Len(t) : i = Len(s) + j
            <6>1. i - Len(s) \in 1 .. Len(t) /\ i = Len(s) + (i - Len(s))
              BY <1>0, <1>1, <4>2
            <6> QED
              BY <6>1
          <5>2. j \in 1 .. Len(u) /\ t[j] = u[j]
            BY <1>0, <1>1, <2>3, <5>1, PrefixIs
          <5> QED
            BY <1>1, <5>1, <5>2
        <4>3. i <= Len(s) \/ i > Len(s)
          <5>1. Len(s \o t) \in Nat
            BY <1>0, <1>1
          <5> QED
            BY <1>0, <5>1
        <4> QED
          BY <4>1, <4>2, <4>3
      <3> QED
        BY <1>1, <2>1, <2>3, <3>1, PrefixIs
    <2> QED
      BY <2>2, <2>3
  <1>6. \A u \in Text : s \o t = s \o u => t = u
    <2> SUFFICES ASSUME NEW u \in Text, s \o t = s \o u PROVE t = u
      OBVIOUS
    <2>1. IsPrefix(s \o t, s \o u) /\ Len(t) = Len(u)
      BY <1>0, <1>1, PrefixOrder
    <2> QED
      BY <1>5, <2>1, PrefixOrder
  <1>7. \A u \in Text : u \o t = s \o t => u = s
    <2> SUFFICES ASSUME NEW u \in Text, u \o t = s \o t PROVE u = s
      OBVIOUS
    <2>1. /\ Len(u \o t) = Len(u) + Len(t) /\ Len(u) \in Nat
          /\ \A i \in 1 .. Len(u) : (u \o t)[i] = u[i]
      BY DEF Text
    <2>2. Len(u) = Len(s)
      BY <1>0, <1>1, <2>1
    <2>3. \A i \in 1 .. Len(s) : u[i] = s[i]
      BY <1>1, <2>1, <2>2
    <2> QED
      BY <2>2, <2>3, TextsEqual
  <1> QED
    BY <1>1, <1>2, <1>3, <1>4, <1>5, <1>6, <1>7

\* What is put before a text can be told,
LEMMA SameEnds ==
  \A s, t, u \in Text : s \o t = u \o t => s = u
  BY Joined

\* with what it goes on,
LEMMA Longer ==
  \A s, t \in Text : t # << >> => t[1] \in Chars /\ IsPrefix(Append(s, t[1]), s \o t)
  BY Joined

\* and whether what is put behind one is a beginning.
LEMMA SameStarts ==
  \A s, t, u \in Text : IsPrefix(s \o t, s \o u) <=> IsPrefix(t, u)
  BY Joined

\* A text cut in two.
LEMMA CutInTwo ==
  ASSUME NEW s \in Text, NEW d \in 0 .. Len(s)
  PROVE  /\ SubSeq(s, 1, d) \in Text /\ Len(SubSeq(s, 1, d)) = d
         /\ IsPrefix(SubSeq(s, 1, d), s)
         /\ substring(s, d) \in Text /\ Len(substring(s, d)) = Len(s) - d
         /\ SubSeq(s, 1, d) \o substring(s, d) = s
         /\ \A t \in Text : t \o s = (t \o SubSeq(s, 1, d)) \o substring(s, d)
         /\ d > 0 => SubSeq(s, 1, d) # << >> /\ SubSeq(s, 1, d)[1] = s[1]
         /\ d < Len(s) => /\ substring(s, d) # << >> /\ substring(s, d)[1] = s[d + 1] /\ s[d + 1] \in Chars
  <1>0. Len(s) \in Nat /\ d \in Nat /\ d <= Len(s)
    BY DEF Text
  <1> DEFINE a == SubSeq(s, 1, d)
             b == SubSeq(s, d + 1, Len(s))
  <1>1. a \in Text /\ Len(a) = d /\ \A i \in 1 .. d : a[i] = s[i]
    BY <1>0 DEF Text
  <1>2. b \in Text /\ Len(b) = Len(s) - d /\ \A i \in 1 .. Len(s) - d : b[i] = s[d + i]
    BY <1>0 DEF Text
  <1> HIDE DEF a, b
  <1>3. IsPrefix(a, s)
    BY <1>0, <1>1, PrefixIs
  <1>4. a \o b = s
    <2>1. a \o b \in Text /\ Len(a \o b) = Len(s)
      BY <1>0, <1>1, <1>2 DEF Text
    <2>2. \A i \in 1 .. d : (a \o b)[i] = s[i]
      BY <1>0, <1>1, <1>2 DEF Text
    <2>3. ASSUME NEW i \in 1 .. Len(s), i > d PROVE (a \o b)[i] = s[i]
      <3>1. (a \o b)[i] = b[i - d]
        BY <1>0, <1>1, <1>2, <2>3 DEF Text
      <3>2. i - d \in 1 .. Len(s) - d /\ d + (i - d) = i
        BY <1>0, <2>3
      <3> QED
        BY <1>2, <3>1, <3>2
    <2>4. \A i \in 1 .. Len(s) : i \in 1 .. d \/ i > d
      BY <1>0
    <2>5. \A i \in 1 .. Len(a \o b) : (a \o b)[i] = s[i]
      BY <2>1, <2>2, <2>3, <2>4
    <2> QED
      BY <2>1, <2>5, TextsEqual
  <1>5. ASSUME NEW t \in Text PROVE t \o s = (t \o a) \o b
    <2>1. t \o (a \o b) = (t \o a) \o b
      BY <1>1, <1>2 DEF Text
    <2> QED
      BY <1>4, <2>1
  <1>6. d > 0 => a # << >> /\ a[1] = s[1]
    BY <1>0, <1>1
  <1>7. d < Len(s) => /\ b # << >> /\ b[1] = s[d + 1] /\ s[d + 1] \in Chars
    BY <1>0, <1>2 DEF Text
  <1> QED
    BY <1>1, <1>2, <1>3, <1>4, <1>5, <1>6, <1>7 DEF substring, a, b

-----------------------------------------------------------------------------
(* The greatest number of a set, and where two texts part. *)

\* A set of numbers that is not empty has a least one.
LEMMA LeastNumber ==
  ASSUME NEW T \in SUBSET Nat, T # {}
  PROVE  \E m \in T : \A n \in T : m <= n
  <1> DEFINE R == OpToRel(<, Nat)
  <1>1. IsWellFoundedOn(R, Nat)
    BY NatLessThanWellFounded DEF OpToRel
  <1>2. \E m \in T : \A n \in T : ~(<<n, m>> \in R)
    <2> HIDE DEF R
    <2> QED
      BY <1>1, WFMin
  <1>3. PICK m \in T : \A n \in T : ~(n < m)
    BY <1>2 DEF OpToRel
  <1> QED
    BY <1>3

\* One that has a bound has a greatest one.
LEMMA GreatestNumber ==
  ASSUME NEW b \in Nat, NEW T \in SUBSET (0 .. b), T # {}
  PROVE  \E m \in T : \A n \in T : n <= m
  <1> DEFINE S == {b - n : n \in T}
  <1>1. S \in SUBSET Nat /\ S # {}
    OBVIOUS
  <1> HIDE DEF S
  <1>2. PICK x \in S : \A y \in S : x <= y
    BY <1>1, LeastNumber
  <1>3. PICK m \in T : x = b - m
    BY DEF S
  <1>4. ASSUME NEW n \in T PROVE n <= m
    <2>1. b - n \in S
      BY DEF S
    <2>2. b - m <= b - n
      BY <1>2, <1>3, <2>1
    <2> QED
      BY <2>2
  <1> QED
    BY <1>4

\* How far two texts are alike.
LEMMA WhereTheyPart ==
  ASSUME NEW s \in Text, NEW t \in Text
  PROVE  LET d == Len(LongestCommonPrefix({s, t}))
         IN /\ d \in Nat /\ d <= Len(s) /\ d <= Len(t)
            /\ SubSeq(s, 1, d) = SubSeq(t, 1, d)
            /\ d = Len(s) => IsPrefix(s, t)
            /\ d = Len(t) => IsPrefix(t, s)
            /\ d < Len(s) /\ d < Len(t) => s[d + 1] # t[d + 1]
            /\ s # << >> /\ t # << >> /\ s[1] = t[1] => d > 0
  <1> DEFINE C == {p \in Text : IsPrefix(p, s) /\ IsPrefix(p, t)}
             l == LongestCommonPrefix({s, t})
  <1>0. Len(s) \in Nat /\ Len(t) \in Nat
    BY DEF Text
  <1>1. CommonPrefixes({s, t}) = C
    <2> DEFINE B == Prefixes(s) \cup Prefixes(t)
    <2>1. CommonPrefixes({s, t}) = {p \in B : IsPrefix(p, s) /\ IsPrefix(p, t)}
      BY DEF CommonPrefixes
    <2>2. \A u \in Text : Prefixes(u) \subseteq Text
      BY DEF Prefixes, Text
    <2>3. ASSUME NEW p \in Text, IsPrefix(p, s) PROVE p \in Prefixes(s)
      <3>1. Len(p) \in 0 .. Len(s) /\ p = SubSeq(p, 1, Len(p)) /\ SubSeq(p, 1, Len(p)) = SubSeq(s, 1, Len(p))
        BY <2>3 DEF IsPrefix, Text
      <3>2. Len(p) = 0 => p = << >>
        BY DEF Text
      <3> QED
        BY <1>0, <3>1, <3>2 DEF Prefixes
    <2> HIDE DEF B
    <2>4. B \subseteq Text /\ \A p \in Text : IsPrefix(p, s) => p \in B
      BY <2>2, <2>3 DEF B
    <2> QED
      BY <2>1, <2>4
  <1>2. l \in C /\ \A p \in C : Len(p) <= Len(l)
    <2> DEFINE T == {Len(p) : p \in C}
    <2>1. << >> \in C
      <3>1. << >> \in Text /\ Len(<< >>) = 0
        BY DEF Text
      <3> QED
        BY <1>0, <3>1, PrefixIs
    <2>2. T \in SUBSET (0 .. Len(s)) /\ T # {}
      <3>1. \A p \in C : Len(p) \in 0 .. Len(s)
        BY <1>0, PrefixOrder DEF Text
      <3> QED
        BY <2>1, <3>1
    <2> HIDE DEF T
    <2>3. PICK m \in T : \A n \in T : n <= m
      BY <1>0, <2>2, GreatestNumber
    <2>4. \E p \in C : \A q \in C : Len(q) <= Len(p)
      BY <2>3 DEF T
    <2> HIDE DEF C
    <2> QED
      BY <1>1, <2>4 DEF LongestCommonPrefix
  <1> HIDE DEF C, l
  <1> DEFINE d == Len(l)
  <1>3. l \in Text /\ IsPrefix(l, s) /\ IsPrefix(l, t)
    BY <1>2 DEF C
  <1>4. d \in Nat /\ d <= Len(s) /\ d <= Len(t)
    BY <1>3, PrefixOrder DEF Text
  <1>5. SubSeq(s, 1, d) = SubSeq(t, 1, d)
    BY <1>3 DEF IsPrefix
  <1>6. d = Len(s) => l = s
    BY <1>3, PrefixOrder
  <1>7. d = Len(t) => l = t
    BY <1>3, PrefixOrder
  <1>8. ASSUME d < Len(s), d < Len(t) PROVE s[d + 1] # t[d + 1]
    <2> SUFFICES ASSUME s[d + 1] = t[d + 1] PROVE FALSE
      OBVIOUS
    <2>1. l # s /\ l # t
      BY <1>4, <1>8
    <2>2. s[d + 1] \in Chars /\ IsPrefix(Append(l, s[d + 1]), s) /\ IsPrefix(Append(l, t[d + 1]), t)
      BY <1>3, <2>1, NextCharacter
    <2>3. PICK a : a = Append(l, s[d + 1])
      OBVIOUS
    <2>4. a \in Text /\ Len(a) = d + 1
      BY <1>3, <2>2, <2>3, NextCharacter
    <2>5. a \in C
      BY <2>2, <2>3, <2>4 DEF C
    <2>6. Len(a) <= d
      BY <1>2, <2>5
    <2> QED
      BY <1>4, <2>4, <2>6
  <1>9. ASSUME s # << >>, t # << >>, s[1] = t[1] PROVE d > 0
    <2> SUFFICES ASSUME d = 0 PROVE FALSE
      BY <1>4
    <2>1. Len(s) > 0 /\ Len(t) > 0
      BY <1>9 DEF Text
    <2> QED
      BY <1>8, <1>9, <2>1
  <1> QED
    BY <1>3, <1>4, <1>5, <1>6, <1>7, <1>8, <1>9 DEF l

-----------------------------------------------------------------------------
(* The invariant. *)

PrefixesOf(ns) == [n \in DOMAIN ns |-> ns[n].prefix]
LinksOf(ns) == [n \in DOMAIN ns |-> ns[n].children]

\* The full paths f of N nodes with the prefixes P and the links L.
TrieTypes(N, P, L, f) ==
    /\ N \in Nat /\ 1 <= N
    /\ P \in [1 .. N -> Text] /\ L \in [1 .. N -> [Chars -> Nat]] /\ f \in [1 .. N -> Text]

\* A link leads to a node whose path goes on with that character, by its prefix.
Linked(N, P, L, f) ==
    \A n \in 1 .. N, c \in Chars :
      L[n][c] # None => /\ L[n][c] \in 1 .. N
                        /\ f[L[n][c]] = f[n] \o P[L[n][c]]
                        /\ IsPrefix(Append(f[n], c), f[L[n][c]])

\* If the path of a node goes on from that of another, so does the link from
\* there, and it leads to a beginning of the node's path.
Radix(N, L, f) ==
    \A n, m \in 1 .. N, c \in Chars :
      IsPrefix(Append(f[n], c), f[m]) => L[n][c] # None /\ IsPrefix(f[L[n][c]], f[m])

Different(N, f) == \A n, m \in 1 .. N : f[n] = f[m] => n = m

Trie(N, P, L, f) ==
    /\ TrieTypes(N, P, L, f)
    /\ f[1] = << >> /\ P[1] = << >>
    /\ Different(N, f) /\ Linked(N, P, L, f) /\ Radix(N, L, f)

\* A node without a value has two children.
Forks(nd) == nd.hasValue \/ \E c, d \in Chars : c # d /\ nd.children[c] # None /\ nd.children[d] # None
Branching(ns) == \A n \in 2 .. Len(ns) : Forks(ns[n])

Record(ns, f, n) == [path |-> f[n], regex |-> ns[n].regexEnd, value |-> ns[n].value]
WithValue(ns) == {n \in 1 .. Len(ns) : ns[n].hasValue = TRUE}

\* The nodes with a value are the accepted paths.
Recorded(ns, f, acc) ==
    /\ acc = {Record(ns, f, n) : n \in WithValue(ns)}
    /\ \A n \in 1 .. Len(ns) : ~ns[n].hasValue => ns[n].value = None /\ ns[n].regexEnd = FALSE

NodesWith(f) ==
    /\ Trie(Len(nodes), PrefixesOf(nodes), LinksOf(nodes), f)
    /\ \A n \in 1 .. Len(nodes) : f[n] \in Paths
    /\ Branching(nodes)
    /\ Recorded(nodes, f, accepted)
    /\ pc = "adding" => path = f[root] \o insertPrefix

NodeType ==
    [prefix : Text, regexEnd : BOOLEAN, hasValue : BOOLEAN, value : Nat, children : [Chars -> Nat]]

Types ==
    /\ nodes \in Seq(NodeType)
    /\ pc \in {"idle", "adding"} /\ root \in 1 .. Len(nodes)
    /\ regexEnd \in BOOLEAN /\ result \in BOOLEAN /\ calls \in 0 .. MaxAdds
    /\ insertPrefix \in Paths /\ path \in Paths
    /\ pc = "adding" => calls > 0
    /\ \A a \in accepted : /\ a.value \in 1 .. calls
                           /\ pc = "adding" => a.value < calls

IInv ==
    /\ Types
    /\ \E f \in [1 .. Len(nodes) -> Paths] : NodesWith(f)
    /\ RefusedForCollision

-----------------------------------------------------------------------------
(* The trie changed. *)

Plus(N, g, x) == [i \in 1 .. N + 1 |-> IF i = N + 1 THEN x ELSE g[i]]

\* A node is linked from r under c.
LeafLinks(N, L, r, c) ==
    [i \in 1 .. N + 1 |-> [e \in Chars |-> IF i = N + 1 THEN None ELSE IF i = r /\ e = c THEN N + 1 ELSE L[i][e]]]

\* A new node below node r, where no link was: links, prefixes and full paths
\* agree.
LEMMA LeafAdded ==
  ASSUME NEW N, NEW P, NEW L, NEW f, Trie(N, P, L, f),
         NEW r \in 1 .. N, NEW s \in Text, s # << >>, L[r][s[1]] = None
  PROVE  Trie(N + 1, Plus(N, P, s), LeafLinks(N, L, r, s[1]), Plus(N, f, f[r] \o s))
  <1> DEFINE c == s[1]
             p == f[r] \o s
             k == N + 1
             P2 == Plus(N, P, s)
             L2 == LeafLinks(N, L, r, c)
             f2 == Plus(N, f, p)
  <1>1. TrieTypes(N, P, L, f) /\ f[1] = << >> /\ P[1] = << >> /\ Different(N, f)
    BY DEF Trie
  <1>2. /\ N \in Nat /\ 1 <= N /\ \A i \in 1 .. N : f[i] \in Text /\ P[i] \in Text
        /\ \A i \in 1 .. N : L[i] \in [Chars -> Nat]
    BY <1>1 DEF TrieTypes
  <1>3. c \in Chars /\ p \in Text /\ IsPrefix(f[r], p) /\ IsPrefix(Append(f[r], c), p)
    BY <1>2, Joined
  <1>4. /\ \A i \in 1 .. N : f2[i] = f[i] /\ P2[i] = P[i]
        /\ f2[k] = p /\ P2[k] = s
        /\ \A i \in 1 .. N, e \in Chars : L2[i][e] = IF i = r /\ e = c THEN k ELSE L[i][e]
        /\ \A e \in Chars : L2[k][e] = None
        /\ \A i : i \in 1 .. N + 1 <=> i \in 1 .. N \/ i = k
        /\ k \notin 1 .. N /\ k \in 1 .. N + 1 /\ k # None
    BY <1>2 DEF Plus, LeafLinks, None
  <1>5. TrieTypes(N + 1, P2, L2, f2)
    <2>1. P2 \in [1 .. N + 1 -> Text] /\ f2 \in [1 .. N + 1 -> Text]
      BY <1>2, <1>3, <1>4 DEF Plus
    <2>2. L2 \in [1 .. N + 1 -> [Chars -> Nat]]
      BY <1>2 DEF LeafLinks, None
    <2> QED
      BY <1>2, <2>1, <2>2 DEF TrieTypes
  <1> HIDE DEF c, p, k, P2, L2, f2
  \* Nothing goes on from r with c.
  <1>6. \A m \in 1 .. N : ~IsPrefix(Append(f[r], c), f[m])
    BY <1>3 DEF Trie, Radix, c
  <1>7. \A m \in 1 .. N : ~IsPrefix(p, f[m])
    <2>1. Append(f[r], c) \in Text
      BY <1>2, <1>3, NextCharacter
    <2> QED
      BY <1>2, <1>3, <1>6, <2>1, PrefixOrder
  <1>8. Different(N + 1, f2)
    <2>1. \A m \in 1 .. N : f[m] # p
      BY <1>3, <1>7, PrefixOrder
    <2> QED
      BY <1>1, <1>4, <2>1 DEF Different
  <1>9. Linked(N + 1, P2, L2, f2)
    <2>1. ASSUME NEW n \in 1 .. N, NEW e \in Chars, L[n][e] # None, ~(n = r /\ e = c)
          PROVE  /\ L2[n][e] \in 1 .. N + 1 /\ f2[L2[n][e]] = f2[n] \o P2[L2[n][e]]
                 /\ IsPrefix(Append(f2[n], e), f2[L2[n][e]])
      <3>1. L[n][e] \in 1 .. N /\ f[L[n][e]] = f[n] \o P[L[n][e]] /\ IsPrefix(Append(f[n], e), f[L[n][e]])
        BY <2>1 DEF Trie, Linked
      <3>2. L2[n][e] = L[n][e]
        BY <1>4, <2>1
      <3> QED
        BY <1>4, <3>1, <3>2
    <2>2. L2[r][c] = k /\ f2[k] = f2[r] \o P2[k] /\ IsPrefix(Append(f2[r], c), f2[k])
      BY <1>3, <1>4 DEF p
    <2>3. ASSUME NEW n \in 1 .. N + 1, NEW e \in Chars, L2[n][e] # None
          PROVE  /\ L2[n][e] \in 1 .. N + 1 /\ f2[L2[n][e]] = f2[n] \o P2[L2[n][e]]
                 /\ IsPrefix(Append(f2[n], e), f2[L2[n][e]])
      <3>1. n \in 1 .. N
        BY <1>4, <2>3
      <3>2. CASE n = r /\ e = c
        BY <1>4, <2>2, <3>2
      <3>3. CASE ~(n = r /\ e = c)
        <4>1. L[n][e] # None
          BY <1>4, <2>3, <3>1, <3>3
        <4> QED
          BY <2>1, <3>1, <3>3, <4>1
      <3> QED
        BY <3>2, <3>3
    <2> QED
      BY <2>3 DEF Linked
  <1>10. Radix(N + 1, L2, f2)
    <2>1. ASSUME NEW n \in 1 .. N, NEW m \in 1 .. N, NEW e \in Chars, IsPrefix(Append(f[n], e), f[m])
          PROVE  L2[n][e] # None /\ IsPrefix(f2[L2[n][e]], f[m])
      <3>1. L[n][e] # None /\ IsPrefix(f[L[n][e]], f[m])
        BY <2>1 DEF Trie, Radix
      <3>2. ~(n = r /\ e = c)
        BY <1>6, <2>1
      <3>3. L2[n][e] = L[n][e] /\ L[n][e] \in 1 .. N
        BY <1>4, <3>1, <3>2 DEF Trie, Linked
      <3> QED
        BY <1>4, <3>1, <3>3
    <2>2. ASSUME NEW n \in 1 .. N, NEW e \in Chars, IsPrefix(Append(f[n], e), p)
          PROVE  L2[n][e] # None /\ IsPrefix(f2[L2[n][e]], p)
      <3>0. /\ Append(f[n], e) \in Text /\ IsPrefix(f[n], Append(f[n], e))
            /\ Append(f[r], c) \in Text /\ IsPrefix(f[r], Append(f[r], c))
        BY <1>2, <1>3, NextCharacter
      <3>1. IsPrefix(f[n], p)
        BY <1>2, <1>3, <2>2, <3>0, PrefixOrder
      <3>2. CASE f[n] = f[r]
        <4>1. n = r /\ e = c
          BY <1>1, <1>2, <1>3, <2>2, <3>2, NextCharacter DEF Different
        <4> QED
          BY <1>3, <1>4, <4>1, PrefixOrder
      <3>3. CASE IsPrefix(f[n], f[r]) /\ f[n] # f[r]
        <4>1. PICK d \in Chars : IsPrefix(Append(f[n], d), f[r])
          BY <1>2, <3>3, GoesOn
        <4>2. IsPrefix(Append(f[n], d), p)
          BY <1>2, <1>3, <4>1, Appended, Transitive
        <4>3. d = e
          BY <1>2, <1>3, <2>2, <4>2, OneNext
        <4>4. L2[n][e] # None /\ IsPrefix(f2[L2[n][e]], f[r])
          BY <2>1, <4>1, <4>3
        <4>5. L2[n][e] = L[n][e] /\ L[n][e] \in 1 .. N
          BY <1>4, <3>3, <4>4 DEF Trie, Linked
        <4> QED
          BY <1>2, <1>3, <1>4, <4>4, <4>5, Transitive
      <3>4. CASE IsPrefix(f[r], f[n]) /\ f[n] # f[r]
        <4>1. PICK d \in Chars : IsPrefix(Append(f[r], d), f[n])
          BY <1>2, <3>4, GoesOn
        <4>2. IsPrefix(Append(f[r], d), p)
          BY <1>2, <1>3, <3>1, <4>1, Appended, Transitive
        <4>3. d = c
          BY <1>2, <1>3, <4>2, OneNext
        <4> QED
          BY <1>6, <4>1, <4>3
      <3> QED
        BY <1>2, <1>3, <3>1, <3>2, <3>3, <3>4, PrefixOrder
    <2>3. ASSUME NEW m \in 1 .. N + 1, NEW e \in Chars PROVE ~IsPrefix(Append(p, e), f2[m])
      <3>1. CASE m \in 1 .. N
        BY <1>2, <1>3, <1>4, <1>7, <3>1, NextCharacter
      <3>2. CASE m = k
        <4>1. ~IsPrefix(Append(p, e), p)
          BY <1>3, NextCharacter
        <4> QED
          BY <1>4, <3>2, <4>1
      <3> QED
        BY <1>4, <3>1, <3>2
    <2> QED
      BY <1>4, <2>1, <2>2, <2>3 DEF Radix
  <1>11. f2[1] = << >> /\ P2[1] = << >>
    BY <1>1, <1>2, <1>4
  <1> QED
    BY <1>5, <1>8, <1>9, <1>10, <1>11 DEF Trie, c, p, k, P2, L2, f2

\* A node is put on the way from r to k, behind d characters of k's prefix.
MiddlePrefixes(N, P, k, d) ==
    [i \in 1 .. N + 1 |-> IF i = N + 1 THEN SubSeq(P[k], 1, d) ELSE IF i = k THEN substring(P[k], d) ELSE P[i]]
MiddleLinks(N, L, r, c, k, x) ==
    [i \in 1 .. N + 1 |-> [e \in Chars |->
        IF i = N + 1 THEN (IF e = x THEN k ELSE None) ELSE IF i = r /\ e = c THEN N + 1 ELSE L[i][e]]]

\* A node has one way to it.
LEMMA OneParent ==
  ASSUME NEW N, NEW P, NEW L, NEW f, Trie(N, P, L, f),
         NEW r \in 1 .. N, NEW c \in Chars, L[r][c] # None,
         NEW n \in 1 .. N, NEW e \in Chars, L[n][e] = L[r][c]
  PROVE  n = r /\ e = c
  <1> DEFINE k == L[r][c]
  <1>1. TrieTypes(N, P, L, f) /\ Different(N, f)
    BY DEF Trie
  <1>2. k \in 1 .. N /\ f[k] = f[r] \o P[k] /\ IsPrefix(Append(f[r], c), f[k])
    BY DEF Trie, Linked
  <1>3. f[k] = f[n] \o P[k] /\ IsPrefix(Append(f[n], e), f[k])
    BY DEF Trie, Linked
  <1>4. f[n] \in Text /\ f[r] \in Text /\ P[k] \in Text /\ f[k] \in Text
    BY <1>1, <1>2 DEF TrieTypes
  <1> HIDE DEF k
  <1>5. f[n] = f[r]
    BY <1>2, <1>3, <1>4, SameEnds
  <1>6. n = r
    BY <1>1, <1>5 DEF Different
  <1> QED
    BY <1>2, <1>3, <1>4, <1>6, NextCharacter

\* They agree when a node is put into the link from r to k, too.
LEMMA MiddleInserted ==
  ASSUME NEW N, NEW P, NEW L, NEW f, Trie(N, P, L, f),
         NEW r \in 1 .. N, NEW c \in Chars, NEW k, k = L[r][c], k # None,
         NEW d \in 1 .. Len(P[k]) - 1
  PROVE  Trie(N + 1, MiddlePrefixes(N, P, k, d), MiddleLinks(N, L, r, c, k, P[k][d + 1]),
              Plus(N, f, f[r] \o SubSeq(P[k], 1, d)))
  <1> DEFINE a == SubSeq(P[k], 1, d)
             b == substring(P[k], d)
             q == f[r] \o a
             x == P[k][d + 1]
             o == N + 1
             P2 == MiddlePrefixes(N, P, k, d)
             L2 == MiddleLinks(N, L, r, c, k, x)
             f2 == Plus(N, f, q)
  <1>1. TrieTypes(N, P, L, f) /\ f[1] = << >> /\ P[1] = << >> /\ Different(N, f)
    BY DEF Trie
  <1>2. /\ N \in Nat /\ 1 <= N /\ \A i \in 1 .. N : f[i] \in Text /\ P[i] \in Text
        /\ \A i \in 1 .. N : L[i] \in [Chars -> Nat]
    BY <1>1 DEF TrieTypes
  <1>3. k \in 1 .. N /\ f[k] = f[r] \o P[k] /\ IsPrefix(Append(f[r], c), f[k])
    BY DEF Trie, Linked
  <1>4. /\ a \in Text /\ a # << >> /\ a[1] = P[k][1] /\ b \in Text /\ b # << >> /\ b[1] = x /\ x \in Chars
        /\ IsPrefix(a, P[k]) /\ a # P[k] /\ f[r] \o P[k] = q \o b
    <2>1. P[k] \in Text /\ d \in 0 .. Len(P[k]) /\ 0 < d /\ d < Len(P[k])
      BY <1>2, <1>3 DEF Text
    <2>2. /\ a \in Text /\ Len(a) = d /\ a # << >> /\ a[1] = P[k][1] /\ IsPrefix(a, P[k])
          /\ b \in Text /\ b # << >> /\ b[1] = x /\ x \in Chars
          /\ \A t \in Text : t \o P[k] = (t \o a) \o b
      BY <2>1, CutInTwo
    <2>3. f[r] \o P[k] = q \o b
      BY <1>2, <2>2
    <2>4. Len(a) # Len(P[k])
      BY <2>1, <2>2
    <2> QED
      BY <2>2, <2>3, <2>4
  <1>5. P[k] # << >> /\ c = P[k][1]
    <2>1. f[r] \in Text /\ P[k] \in Text /\ f[k] \in Text
      BY <1>2, <1>3
    <2>2. f[r] # f[k]
      BY <1>3, <2>1, BehindNext
    <2>3. P[k] # << >>
      BY <1>3, <2>1, <2>2, Joined
    <2>4. P[k][1] \in Chars /\ IsPrefix(Append(f[r], P[k][1]), f[r] \o P[k])
      BY <2>1, <2>3, Longer, Zenon
    <2> QED
      BY <1>3, <2>1, <2>4, OneNext
  <1> HIDE DEF a, b, x
  <1>6. /\ q \in Text /\ IsPrefix(f[r], q) /\ IsPrefix(Append(f[r], c), q)
        /\ IsPrefix(q, f[k]) /\ q # f[k] /\ IsPrefix(Append(q, x), f[k])
    <2>1. q \in Text /\ IsPrefix(f[r], q) /\ IsPrefix(Append(f[r], c), q)
      BY <1>2, <1>4, <1>5, Joined
    <2>2. IsPrefix(q, f[k])
      <3>1. f[r] \in Text /\ P[k] \in Text
        BY <1>2, <1>3
      <3>2. IsPrefix(f[r] \o a, f[r] \o P[k])
        BY <1>4, <3>1, SameStarts, Zenon
      <3> QED
        BY <1>3, <3>2
    <2>3. q # f[k] /\ IsPrefix(Append(q, x), f[k])
      <3> HIDE DEF q
      <3>1. f[k] = q \o b /\ f[k] \in Text
        BY <1>2, <1>3, <1>4
      <3>2. IsPrefix(Append(q, x), f[k])
        <4>1. IsPrefix(Append(q, b[1]), q \o b)
          BY <1>4, <2>1, Longer, Zenon
        <4> QED
          BY <1>4, <3>1, <4>1
      <3> QED
        BY <1>4, <2>1, <3>1, <3>2, BehindNext
    <2> QED
      BY <2>1, <2>2, <2>3
  <1>7. /\ \A i \in 1 .. N : f2[i] = f[i] /\ P2[i] = IF i = k THEN b ELSE P[i]
        /\ f2[o] = q /\ P2[o] = a
        /\ \A i \in 1 .. N, e \in Chars : L2[i][e] = IF i = r /\ e = c THEN o ELSE L[i][e]
        /\ \A e \in Chars : L2[o][e] = IF e = x THEN k ELSE None
        /\ \A i : i \in 1 .. N + 1 <=> i \in 1 .. N \/ i = o
        /\ o \notin 1 .. N /\ o \in 1 .. N + 1 /\ o # None
    <2> HIDE DEF q
    <2> QED
      BY <1>2 DEF Plus, MiddlePrefixes, MiddleLinks, None, a, b
  <1>8. TrieTypes(N + 1, P2, L2, f2)
    <2>1. f2 \in [1 .. N + 1 -> Text]
      BY <1>2, <1>6, <1>7 DEF Plus
    <2>2. P2 \in [1 .. N + 1 -> Text]
      BY <1>2, <1>4, <1>7 DEF MiddlePrefixes
    <2>3. L2 \in [1 .. N + 1 -> [Chars -> Nat]]
      <3> HIDE DEF x
      <3> QED
        BY <1>2, <1>3 DEF MiddleLinks, None
    <2> QED
      BY <1>2, <2>1, <2>2, <2>3 DEF TrieTypes
  <1>9. k # None /\ L[r][c] = k
    OBVIOUS
  <1> HIDE DEF q, o, P2, L2, f2
  \* Whatever goes on from r with c goes on from k.
  <1>10. \A m \in 1 .. N : IsPrefix(Append(f[r], c), f[m]) => IsPrefix(f[k], f[m])
    BY <1>9 DEF Trie, Radix
  <1>11. \A m \in 1 .. N : IsPrefix(q, f[m]) => IsPrefix(f[k], f[m])
    <2>1. Append(f[r], c) \in Text
      BY <1>2, NextCharacter
    <2> QED
      BY <1>2, <1>6, <1>10, <2>1, PrefixOrder
  <1>12. \A m \in 1 .. N : f[m] # q
    <2> SUFFICES ASSUME NEW m \in 1 .. N, f[m] = q PROVE FALSE
      OBVIOUS
    <2>1. IsPrefix(f[k], q)
      BY <1>6, <1>11, PrefixOrder
    <2> QED
      BY <1>2, <1>3, <1>6, <2>1, NotBoth
  <1>13. Different(N + 1, f2)
    BY <1>1, <1>7, <1>12 DEF Different
  <1>14. \A n \in 1 .. N, e \in Chars : L[n][e] = k => n = r /\ e = c
    BY <1>9, OneParent
  <1>15. Linked(N + 1, P2, L2, f2)
    <2>1. ASSUME NEW n \in 1 .. N, NEW e \in Chars, L[n][e] # None, ~(n = r /\ e = c)
          PROVE  /\ L2[n][e] \in 1 .. N + 1 /\ f2[L2[n][e]] = f2[n] \o P2[L2[n][e]]
                 /\ IsPrefix(Append(f2[n], e), f2[L2[n][e]])
      <3>1. L[n][e] \in 1 .. N /\ f[L[n][e]] = f[n] \o P[L[n][e]] /\ IsPrefix(Append(f[n], e), f[L[n][e]])
        BY <2>1 DEF Trie, Linked
      <3>2. L2[n][e] = L[n][e] /\ L[n][e] # k
        BY <1>7, <1>14, <2>1
      <3> QED
        BY <1>7, <3>1, <3>2
    <2>2. L2[r][c] = o /\ f2[o] = f2[r] \o P2[o] /\ IsPrefix(Append(f2[r], c), f2[o])
      BY <1>6, <1>7 DEF q
    <2>3. L2[o][x] = k /\ f2[k] = f2[o] \o P2[k] /\ IsPrefix(Append(f2[o], x), f2[k])
      BY <1>3, <1>4, <1>6, <1>7
    <2>4. k \in 1 .. N + 1
      BY <1>3, <1>7
    <2>5. ASSUME NEW n \in 1 .. N + 1, NEW e \in Chars, L2[n][e] # None
          PROVE  /\ L2[n][e] \in 1 .. N + 1 /\ f2[L2[n][e]] = f2[n] \o P2[L2[n][e]]
                 /\ IsPrefix(Append(f2[n], e), f2[L2[n][e]])
      <3>1. CASE n = r /\ e = c
        BY <1>7, <2>2, <3>1
      <3>2. CASE n \in 1 .. N /\ ~(n = r /\ e = c)
        <4>1. L[n][e] # None
          BY <1>7, <2>5, <3>2
        <4> QED
          BY <2>1, <3>2, <4>1
      <3>3. CASE n = o
        <4>1. e = x
          BY <1>7, <2>5, <3>3
        <4> QED
          BY <2>3, <2>4, <3>3, <4>1
      <3> QED
        BY <1>7, <3>1, <3>2, <3>3
    <2> QED
      BY <2>5 DEF Linked
  <1>16. Radix(N + 1, L2, f2)
    <2>1. ASSUME NEW n \in 1 .. N, NEW m \in 1 .. N, NEW e \in Chars, IsPrefix(Append(f[n], e), f[m])
          PROVE  L2[n][e] # None /\ IsPrefix(f2[L2[n][e]], f[m])
      <3>1. L[n][e] # None /\ IsPrefix(f[L[n][e]], f[m]) /\ L[n][e] \in 1 .. N
        BY <2>1 DEF Trie, Radix, Linked
      <3>2. CASE n = r /\ e = c
        <4>1. IsPrefix(q, f[m])
          BY <1>2, <1>3, <1>6, <1>10, <2>1, <3>2, PrefixOrder
        <4> QED
          BY <1>7, <3>2, <4>1
      <3>3. CASE ~(n = r /\ e = c)
        <4>1. L2[n][e] = L[n][e]
          BY <1>7, <3>3
        <4> QED
          BY <1>7, <3>1, <4>1
      <3> QED
        BY <3>2, <3>3
    <2>2. ASSUME NEW n \in 1 .. N, NEW e \in Chars, IsPrefix(Append(f[n], e), q)
          PROVE  L2[n][e] # None /\ IsPrefix(f2[L2[n][e]], q)
      <3>1. Append(f[n], e) \in Text /\ Append(f[r], c) \in Text
        BY <1>2, NextCharacter
      <3>2. IsPrefix(Append(f[n], e), f[k])
        BY <1>2, <1>3, <1>6, <2>2, <3>1, PrefixOrder
      <3>3. CASE n = r
        <4>1. e = c
          BY <1>2, <1>6, <2>2, <3>3, NextCharacter
        <4> QED
          BY <1>6, <1>7, <3>3, <4>1, PrefixOrder
      <3>4. CASE n # r
        <4>1. L[n][e] # None /\ IsPrefix(f[L[n][e]], f[k]) /\ L[n][e] \in 1 .. N
          BY <1>3, <3>2 DEF Trie, Radix, Linked
        <4>2. PICK j \in 1 .. N : j = L[n][e]
          BY <4>1
        <4>3. L2[n][e] = j /\ f2[j] = f[j] /\ j # k
          BY <1>7, <1>14, <3>4, <4>2
        <4>4. ~IsPrefix(q, f[j])
          BY <1>1, <1>2, <1>3, <1>11, <4>1, <4>2, <4>3, PrefixOrder DEF Different
        <4>5. IsPrefix(f[j], q)
          BY <1>2, <1>3, <1>6, <4>1, <4>2, <4>4, PrefixOrder
        <4> QED
          BY <4>1, <4>2, <4>3, <4>5
      <3> QED
        BY <3>3, <3>4
    <2>3. ASSUME NEW m \in 1 .. N, NEW e \in Chars, IsPrefix(Append(q, e), f[m])
          PROVE  L2[o][e] # None /\ IsPrefix(f2[L2[o][e]], f[m])
      <3>1. IsPrefix(f[k], f[m])
        BY <1>2, <1>6, <1>11, <2>3, NextCharacter
      <3>2. Append(q, x) \in Text /\ IsPrefix(Append(q, x), f[m])
        BY <1>2, <1>3, <1>4, <1>6, <3>1, Appended, Transitive
      <3>3. e = x
        BY <1>2, <1>4, <1>6, <2>3, <3>2, OneNext
      <3> QED
        BY <1>3, <1>7, <1>9, <3>1, <3>3
    <2>4. \A e \in Chars : ~IsPrefix(Append(q, e), q)
      BY <1>6, NextCharacter
    <2> QED
      BY <1>7, <2>1, <2>2, <2>3, <2>4 DEF Radix
  <1>17. f2[1] = << >> /\ P2[1] = << >>
    <2>1. k # 1
      <3>1. f[r] \in Text /\ f[k] \in Text /\ Len(f[r]) < Len(f[k]) /\ Len(f[r]) \in Nat
        <4>1. f[r] \in Text /\ f[k] \in Text
          BY <1>2, <1>3
        <4>2. Len(f[r]) < Len(f[k])
          BY <1>3, <4>1, NextCharacter
        <4> QED
          BY <4>1, <4>2 DEF Text
      <3> QED
        BY <1>1, <3>1
    <2> QED
      BY <1>1, <1>2, <1>7, <2>1
  <1> QED
    BY <1>8, <1>13, <1>15, <1>16, <1>17 DEF Trie, a, b, q, x, o, P2, L2, f2

-----------------------------------------------------------------------------
(* What the nodes say of the accepted paths. *)

\* The invariant, taken apart.
LEMMA NodeFacts ==
  ASSUME Types, NEW f \in [1 .. Len(nodes) -> Paths], NodesWith(f)
  PROVE  LET N == Len(nodes)
             P == PrefixesOf(nodes)
             L == LinksOf(nodes)
         IN /\ N \in Nat /\ 1 <= N /\ DOMAIN nodes = 1 .. N /\ root \in 1 .. N
            /\ \A n \in 1 .. N : /\ nodes[n] \in NodeType /\ f[n] \in Text /\ f[n] \in Paths
                                 /\ P[n] = nodes[n].prefix /\ P[n] \in Text
                                 /\ L[n] = nodes[n].children /\ L[n] \in [Chars -> Nat]
            /\ Trie(N, P, L, f) /\ Different(N, f) /\ Linked(N, P, L, f) /\ Radix(N, L, f)
            /\ f[1] = << >>
  <1>1. Trie(Len(nodes), PrefixesOf(nodes), LinksOf(nodes), f)
    BY DEF NodesWith
  <1>2. DOMAIN nodes = 1 .. Len(nodes) /\ Len(nodes) \in Nat /\ \A n \in 1 .. Len(nodes) : nodes[n] \in NodeType
    BY DEF Types
  <1>3. \A n \in 1 .. Len(nodes) : f[n] \in Text /\ f[n] \in Paths
    BY PathTexts
  <1>4. \A n \in 1 .. Len(nodes) : nodes[n].prefix \in Text /\ nodes[n].children \in [Chars -> Nat]
    BY <1>2 DEF NodeType
  <1> QED
    BY <1>1, <1>2, <1>3, <1>4 DEF Trie, TrieTypes, PrefixesOf, LinksOf, Types

\* A node with the longest path of some.
LEMMA LongestNode ==
  ASSUME NEW N \in Nat, NEW f \in [1 .. N -> Paths], NEW S \in SUBSET (1 .. N), S # {}
  PROVE  \E m \in S : \A n \in S : Len(f[n]) <= Len(f[m])
  <1> DEFINE T == {Len(f[n]) : n \in S}
  <1>1. T \in SUBSET (0 .. MaxLength) /\ T # {}
    BY PathTexts
  <1> HIDE DEF T
  <1>2. PICK m \in T : \A n \in T : n <= m
    BY <1>1, PathTrieAssumption, GreatestNumber
  <1> QED
    BY <1>2 DEF T

\* At or below every node but the root there is one with a value.
LEMMA ValueBelow ==
  ASSUME Types, NEW f \in [1 .. Len(nodes) -> Paths], NodesWith(f), NEW n \in 2 .. Len(nodes)
  PROVE  \E m \in WithValue(nodes) : IsPrefix(f[n], f[m])
  <1> DEFINE N == Len(nodes)
             L == LinksOf(nodes)
             S == {m \in 1 .. N : IsPrefix(f[n], f[m])}
  <1>1. /\ N \in Nat /\ 1 <= N /\ f[1] = << >> /\ Different(N, f)
        /\ Linked(N, PrefixesOf(nodes), L, f)
        /\ \A m \in 1 .. N : f[m] \in Text /\ L[m] = nodes[m].children
    BY NodeFacts
  <1>2. n \in 1 .. N /\ n \in S
    BY <1>1, PrefixOrder
  <1>3. PICK m \in S : \A i \in S : Len(f[i]) <= Len(f[m])
    <2> HIDE DEF N, S
    <2>1. S \in SUBSET (1 .. N)
      BY DEF S
    <2> QED
      BY <1>1, <1>2, <2>1, LongestNode DEF N
  <1>4. m \in 1 .. N /\ IsPrefix(f[n], f[m])
    OBVIOUS
  <1>5. m # 1
    <2>1. f[n] # << >>
      BY <1>1, <1>2 DEF Different
    <2>2. Len(f[n]) > 0
      BY <1>1, <1>2, <2>1 DEF Text
    <2> QED
      BY <1>1, <1>2, <1>4, <2>2, PrefixOrder
  <1>6. ~\E c \in Chars : L[m][c] # None
    <2> SUFFICES ASSUME NEW c \in Chars, L[m][c] # None PROVE FALSE
      OBVIOUS
    <2>1. PICK k \in 1 .. N : IsPrefix(Append(f[m], c), f[k])
      BY <1>1, <1>4 DEF Linked
    <2>2. IsPrefix(f[m], f[k]) /\ Len(f[m]) < Len(f[k])
      BY <1>1, <1>4, <2>1, NextCharacter
    <2>3. k \in S
      BY <1>1, <1>2, <1>4, <2>2, Transitive
    <2> QED
      BY <1>1, <1>3, <1>4, <2>2, <2>3 DEF Text
  <1>7. nodes[m].hasValue
    <2>1. m \in 2 .. Len(nodes)
      BY <1>1, <1>4, <1>5
    <2> QED
      BY <1>1, <1>4, <1>6, <2>1 DEF NodesWith, Branching, Forks
  <1>8. nodes[m].hasValue = TRUE
    BY <1>4, <1>7, NodeFacts DEF NodeType
  <1> QED
    BY <1>4, <1>8 DEF WithValue

\* The accepted paths are those of the nodes with a value.
LEMMA AcceptedAre ==
  ASSUME NEW f, NodesWith(f)
  PROVE  /\ \A p : p \in AcceptedPaths <=> \E m \in WithValue(nodes) : p = f[m]
         /\ WithValue(nodes) \subseteq 1 .. Len(nodes)
  <1>1. accepted = {Record(nodes, f, n) : n \in WithValue(nodes)}
    BY DEF NodesWith, Recorded
  <1>2. \A n : Record(nodes, f, n).path = f[n]
    BY DEF Record
  <1> QED
    BY <1>1, <1>2 DEF AcceptedPaths, WithValue

-----------------------------------------------------------------------------
(* What addNode answers. *)

\* A path collides with paths that were accepted before.
Collides(p, regex, paths) ==
    \/ p \in paths
    \/ /\ regex /\ p # << >>
       /\ \E q \in paths : Extends(q, p)
       /\ \A q, r \in paths : Extends(q, p) /\ Extends(r, p) => q[Len(p) + 1] = r[Len(p) + 1]

\* A path from which no node's path goes on collides with none.
LEMMA NothingBehind ==
  ASSUME Types, NEW f \in [1 .. Len(nodes) -> Paths], NodesWith(f), NEW p \in Text, NEW regex,
         \A m \in 1 .. Len(nodes) : ~IsPrefix(p, f[m])
  PROVE  ~Collides(p, regex, AcceptedPaths)
  <1>1. p \notin AcceptedPaths
    BY AcceptedAre, NodeFacts, PrefixOrder
  <1>2. \A q \in AcceptedPaths : ~Extends(q, p)
    BY AcceptedAre DEF Extends, IsStrictPrefix
  <1> QED
    BY <1>1, <1>2 DEF Collides

\* The answer to a refused path.
LEMMA Refusing ==
  ASSUME IInv, pc = "adding", UNCHANGED nodes, return(FALSE), Collides(path, regexEnd, AcceptedPaths)
  PROVE  IInv'
  <1>1. PICK f \in [1 .. Len(nodes) -> Paths] : NodesWith(f)
    BY DEF IInv
  <1>2. /\ pc' = "idle" /\ result' = FALSE /\ nodes' = nodes /\ accepted' = accepted
        /\ root' = root /\ insertPrefix' = insertPrefix /\ regexEnd' = regexEnd /\ path' = path /\ calls' = calls
    BY DEF return
  <1>3. Types'
    BY <1>2 DEF IInv, Types
  <1>4. NodesWith(f)'
    BY <1>1, <1>2 DEF NodesWith
  <1>5. {a.path : a \in {b \in accepted : b.value # calls}} = AcceptedPaths
    BY DEF IInv, Types, AcceptedPaths
  <1>6. RefusedForCollision'
    <2>1. pc' = "idle" =>
            (RefusedForCollision' <=>
               (calls' > 0 =>
                  (~result' <=> Collides(path', regexEnd', {a.path : a \in {b \in accepted' : b.value # calls'}}))))
      BY DEF RefusedForCollision, Collides
    <2> QED
      BY <1>2, <1>5, <2>1
  <1> QED
    BY <1>1, <1>2, <1>3, <1>4, <1>6 DEF IInv

\* The values of the nodes are as before, but for node j, which has the new one.
ValuesKept(f, g, j) ==
    /\ j \in 1 .. Len(nodes') /\ g[j] = path
    /\ nodes'[j].hasValue = TRUE /\ nodes'[j].regexEnd = regexEnd /\ nodes'[j].value = calls
    /\ j \in 1 .. Len(nodes) => nodes[j].hasValue = FALSE
    /\ \A n \in 1 .. Len(nodes) :
         n # j => /\ g[n] = f[n] /\ nodes'[n].hasValue = nodes[n].hasValue
                  /\ nodes'[n].value = nodes[n].value /\ nodes'[n].regexEnd = nodes[n].regexEnd
    /\ \A n \in Len(nodes) + 1 .. Len(nodes') :
         n # j => nodes'[n].hasValue = FALSE /\ nodes'[n].value = None /\ nodes'[n].regexEnd = FALSE

\* The answer to an accepted path, which is now that of node j.
LEMMA Accepting ==
  ASSUME IInv, pc = "adding", return(TRUE), ~Collides(path, regexEnd, AcceptedPaths),
         NEW f \in [1 .. Len(nodes) -> Paths], NodesWith(f),
         nodes' \in Seq(NodeType), Len(nodes) <= Len(nodes'),
         NEW g \in [1 .. Len(nodes') -> Paths],
         Trie(Len(nodes'), PrefixesOf(nodes'), LinksOf(nodes'), g), Branching(nodes'),
         NEW j, ValuesKept(f, g, j)
  PROVE  IInv'
  <1>0. /\ j \in 1 .. Len(nodes') /\ g[j] = path
        /\ nodes'[j].hasValue = TRUE /\ nodes'[j].regexEnd = regexEnd /\ nodes'[j].value = calls
        /\ j \in 1 .. Len(nodes) => nodes[j].hasValue = FALSE
        /\ \A n \in 1 .. Len(nodes) :
             n # j => /\ g[n] = f[n] /\ nodes'[n].hasValue = nodes[n].hasValue
                      /\ nodes'[n].value = nodes[n].value /\ nodes'[n].regexEnd = nodes[n].regexEnd
        /\ \A n \in Len(nodes) + 1 .. Len(nodes') :
             n # j => nodes'[n].hasValue = FALSE /\ nodes'[n].value = None /\ nodes'[n].regexEnd = FALSE
    BY DEF ValuesKept
  <1> DEFINE new == [path |-> path, regex |-> regexEnd, value |-> calls]
  <1>1. /\ pc' = "idle" /\ result' = TRUE /\ accepted' = accepted \cup {new}
        /\ root' = root /\ insertPrefix' = insertPrefix /\ regexEnd' = regexEnd /\ path' = path /\ calls' = calls
    BY DEF return
  <1>2. Len(nodes) \in Nat /\ Len(nodes') \in Nat /\ root \in 1 .. Len(nodes)
    BY DEF IInv, Types
  <1>3. Types'
    <2>1. root \in 1 .. Len(nodes')
      BY <1>2
    <2>2. \A a \in accepted' : a.value \in 1 .. calls'
      <3>1. calls \in Nat /\ calls > 0
        BY DEF IInv, Types
      <3> QED
        BY <1>1, <3>1 DEF IInv, Types
    <2> QED
      BY <1>1, <2>1, <2>2 DEF IInv, Types
  <1>4. Record(nodes', g, j) = new
    BY <1>0 DEF Record
  <1>5. \A n \in 1 .. Len(nodes) : n # j => Record(nodes', g, n) = Record(nodes, f, n)
    BY <1>0 DEF Record
  <1>6. WithValue(nodes') = WithValue(nodes) \cup {j}
    <2>1. \A n \in 1 .. Len(nodes') : n \in 1 .. Len(nodes) \/ n \in Len(nodes) + 1 .. Len(nodes')
      BY <1>2
    <2>2. \A n \in 1 .. Len(nodes) : n \in 1 .. Len(nodes')
      BY <1>2
    <2> QED
      BY <1>0, <2>1, <2>2 DEF WithValue
  <1>7. j \notin WithValue(nodes) /\ WithValue(nodes) \subseteq 1 .. Len(nodes)
    BY <1>0 DEF WithValue
  <1>8. accepted = {Record(nodes, f, n) : n \in WithValue(nodes)}
    BY DEF NodesWith, Recorded
  <1>9. Recorded(nodes', g, accepted')
    <2>1. accepted' = {Record(nodes', g, n) : n \in WithValue(nodes')}
      <3> HIDE DEF new
      <3> QED
        BY <1>1, <1>4, <1>5, <1>6, <1>7, <1>8
    <2>2. \A n \in 1 .. Len(nodes') : ~nodes'[n].hasValue => nodes'[n].value = None /\ nodes'[n].regexEnd = FALSE
      <3>1. \A n \in 1 .. Len(nodes') : n \in 1 .. Len(nodes) \/ n \in Len(nodes) + 1 .. Len(nodes')
        BY <1>2
      <3>2. \A n \in 1 .. Len(nodes) : ~nodes[n].hasValue => nodes[n].value = None /\ nodes[n].regexEnd = FALSE
        BY DEF NodesWith, Recorded
      <3> QED
        BY <1>0, <3>1, <3>2
    <2> QED
      BY <2>1, <2>2 DEF Recorded
  <1>10. NodesWith(g)'
    <2>1. \A n \in 1 .. Len(nodes') : g[n] \in Paths
      OBVIOUS
    <2> QED
      BY <1>1, <1>9, <2>1 DEF NodesWith
  <1>11. {a.path : a \in {b \in accepted' : b.value # calls'}} = AcceptedPaths
    <2>1. \A a \in accepted : a.value # calls
      BY DEF IInv, Types
    <2>2. new.value = calls
      OBVIOUS
    <2> HIDE DEF new
    <2>3. {b \in accepted' : b.value # calls'} = accepted
      BY <1>1, <2>1, <2>2
    <2> QED
      BY <2>3 DEF AcceptedPaths
  <1>12. RefusedForCollision'
    <2>1. pc' = "idle" =>
            (RefusedForCollision' <=>
               (calls' > 0 =>
                  (~result' <=> Collides(path', regexEnd', {a.path : a \in {b \in accepted' : b.value # calls'}}))))
      BY DEF RefusedForCollision, Collides
    <2> QED
      BY <1>1, <1>11, <2>1
  <1> QED
    BY <1>3, <1>10, <1>12 DEF IInv

-----------------------------------------------------------------------------
(* The steps. *)

\* A sequence with one element changed.
LEMMA OneChanged ==
  ASSUME NEW S, NEW s \in Seq(S), NEW i \in 1 .. Len(s), NEW x \in S
  PROVE  /\ [s EXCEPT ![i] = x] \in Seq(S) /\ Len([s EXCEPT ![i] = x]) = Len(s)
         /\ [s EXCEPT ![i] = x][i] = x
         /\ \A j \in 1 .. Len(s) : j # i => [s EXCEPT ![i] = x][j] = s[j]
  OBVIOUS

\* A sequence with one more element.
LEMMA OneAdded ==
  ASSUME NEW S, NEW s \in Seq(S), NEW x \in S
  PROVE  /\ Append(s, x) \in Seq(S) /\ Len(Append(s, x)) = Len(s) + 1
         /\ Append(s, x)[Len(s) + 1] = x
         /\ \A j \in 1 .. Len(s) : Append(s, x)[j] = s[j]
  OBVIOUS

\* What a step of addNode knows.
Adding(f) ==
    /\ IInv /\ pc = "adding"
    /\ f \in [1 .. Len(nodes) -> Paths] /\ NodesWith(f)

\* The same, taken apart.
LEMMA AddingFacts ==
  ASSUME NEW f, Adding(f)
  PROVE  /\ Types /\ path = f[root] \o insertPrefix /\ path \in Paths /\ path \in Text
         /\ insertPrefix \in Text /\ f[root] \in Text /\ root \in 1 .. Len(nodes)
         /\ regexEnd \in BOOLEAN /\ calls \in Nat /\ IsPrefix(f[root], path)
         /\ insertPrefix # << >> => insertPrefix[1] \in Chars /\ IsPrefix(Append(f[root], insertPrefix[1]), path)
  <1>1. Types /\ path = f[root] \o insertPrefix /\ path \in Paths /\ insertPrefix \in Text /\ root \in 1 .. Len(nodes)
    BY PathTexts DEF Adding, IInv, NodesWith, Types
  <1>2. f[root] \in Text /\ path \in Text
    BY <1>1, PathTexts DEF Adding
  <1>3. IsPrefix(f[root], path)
    BY <1>1, <1>2, Joined
  <1>4. insertPrefix # << >> => insertPrefix[1] \in Chars /\ IsPrefix(Append(f[root], insertPrefix[1]), path)
    BY <1>1, <1>2, Longer, Zenon
  <1> QED
    BY <1>1, <1>2, <1>3, <1>4 DEF Types

\* addHere keeps the invariant: the node had no value, or the path is refused
\* as one that has.
LEMMA HereKeeps ==
  ASSUME NEW f, Adding(f), insertPrefix = << >>, addHere
  PROVE  IInv'
  <1>1. /\ Types /\ path = f[root] \o insertPrefix /\ path \in Paths /\ path \in Text
        /\ f[root] \in Text /\ root \in 1 .. Len(nodes) /\ regexEnd \in BOOLEAN /\ calls \in Nat
    BY AddingFacts
  <1>2. path = f[root]
    BY <1>1, Joined
  <1>3. IInv /\ pc = "adding" /\ f \in [1 .. Len(nodes) -> Paths] /\ NodesWith(f)
    BY DEF Adding
  <1>4. /\ Len(nodes) \in Nat /\ DOMAIN nodes = 1 .. Len(nodes) /\ Different(Len(nodes), f) /\ f[1] = << >>
        /\ Linked(Len(nodes), PrefixesOf(nodes), LinksOf(nodes), f)
        /\ \A n \in 1 .. Len(nodes) : nodes[n] \in NodeType /\ f[n] \in Text /\ LinksOf(nodes)[n] = nodes[n].children
    BY <1>1, <1>3, NodeFacts
  <1>5. CASE nodes[root].hasValue /\ UNCHANGED nodes /\ return(FALSE)
    <2>1. root \in WithValue(nodes)
      BY <1>1, <1>4, <1>5 DEF WithValue, NodeType
    <2>2. path \in AcceptedPaths
      BY <1>2, <1>3, <2>1, AcceptedAre
    <2> QED
      BY <1>3, <1>5, <2>2, Refusing DEF Collides
  <1>6. CASE /\ ~nodes[root].hasValue
             /\ nodes' = [nodes EXCEPT ![root].value = calls, ![root].hasValue = TRUE, ![root].regexEnd = regexEnd]
             /\ return(TRUE)
    <2>1. /\ nodes' \in Seq(NodeType) /\ Len(nodes') = Len(nodes) /\ DOMAIN nodes' = DOMAIN nodes
          /\ \A n \in 1 .. Len(nodes) : nodes'[n].prefix = nodes[n].prefix /\ nodes'[n].children = nodes[n].children
          /\ \A n \in 1 .. Len(nodes) :
                n # root => /\ nodes'[n].hasValue = nodes[n].hasValue
                            /\ nodes'[n].value = nodes[n].value /\ nodes'[n].regexEnd = nodes[n].regexEnd
          /\ nodes'[root].hasValue = TRUE /\ nodes'[root].value = calls /\ nodes'[root].regexEnd = regexEnd
      <3>1. nodes \in Seq(NodeType)
        BY <1>1 DEF Types
      <3>2. PICK x : x = [nodes[root] EXCEPT !.value = calls, !.hasValue = TRUE, !.regexEnd = regexEnd]
        OBVIOUS
      <3>3. nodes[root] \in NodeType
        BY <1>1, <1>4
      <3>4. /\ x \in NodeType /\ x.prefix = nodes[root].prefix /\ x.children = nodes[root].children
            /\ x.hasValue = TRUE /\ x.value = calls /\ x.regexEnd = regexEnd
        BY <1>1, <3>2, <3>3 DEF NodeType
      <3>5. nodes' = [nodes EXCEPT ![root] = x]
        BY <1>6, <3>2
      <3>6. /\ nodes' \in Seq(NodeType) /\ Len(nodes') = Len(nodes) /\ nodes'[root] = x
            /\ \A n \in 1 .. Len(nodes) : n # root => nodes'[n] = nodes[n]
        BY <1>1, <3>1, <3>4, <3>5, OneChanged
      <3>7. DOMAIN nodes' = DOMAIN nodes
        BY <3>5
      <3> QED
        BY <3>4, <3>6, <3>7
    <2>2. PrefixesOf(nodes') = PrefixesOf(nodes) /\ LinksOf(nodes') = LinksOf(nodes)
      BY <1>4, <2>1 DEF PrefixesOf, LinksOf
    <2>3. Trie(Len(nodes'), PrefixesOf(nodes'), LinksOf(nodes'), f)
      BY <1>3, <2>1, <2>2 DEF NodesWith
    <2>4. Branching(nodes')
      <3>1. Branching(nodes)
        BY <1>3 DEF NodesWith
      <3> QED
        BY <1>4, <2>1, <3>1 DEF Branching, Forks
    <2>5. path \notin AcceptedPaths
      <3> SUFFICES ASSUME path \in AcceptedPaths PROVE FALSE
        OBVIOUS
      <3>1. PICK m \in WithValue(nodes) : path = f[m]
        BY <1>3, AcceptedAre
      <3>2. m = root
        BY <1>1, <1>2, <1>4, <3>1 DEF Different, WithValue
      <3> QED
        BY <1>6, <3>1, <3>2 DEF WithValue
    <2>6. ASSUME path # << >>
          PROVE  \E q, r \in AcceptedPaths : Extends(q, path) /\ Extends(r, path) /\ q[Len(path) + 1] # r[Len(path) + 1]
      <3>1. root \in 2 .. Len(nodes)
        BY <1>1, <1>2, <1>4, <2>6
      <3>2. PICK c, d \in Chars : c # d /\ nodes[root].children[c] # None /\ nodes[root].children[d] # None
        BY <1>3, <1>6, <3>1 DEF NodesWith, Branching, Forks
      <3>3. ASSUME NEW e \in Chars, nodes[root].children[e] # None
            PROVE  \E q \in AcceptedPaths : Extends(q, path) /\ q[Len(path) + 1] = e
        <4>1. PICK k \in 1 .. Len(nodes) : IsPrefix(Append(path, e), f[k])
          <5>1. LinksOf(nodes)[root][e] # None
            BY <1>1, <1>4, <3>3
          <5> QED
            BY <1>1, <1>2, <1>4, <5>1 DEF Linked
        <4>2. k \in 2 .. Len(nodes)
          <5>1. Len(path) < Len(f[k]) /\ Len(path) \in Nat
            BY <1>1, <1>4, <4>1, NextCharacter DEF Text
          <5> QED
            BY <1>4, <5>1
        <4>3. PICK m \in WithValue(nodes) : IsPrefix(f[k], f[m])
          BY <1>1, <1>3, <4>2, ValueBelow
        <4>4. m \in 1 .. Len(nodes) /\ f[m] \in AcceptedPaths
          BY <1>3, AcceptedAre
        <4>5. IsPrefix(Append(path, e), f[m])
          BY <1>1, <1>4, <4>1, <4>3, <4>4, Appended, Transitive
        <4>6. IsPrefix(path, f[m]) /\ path # f[m] /\ f[m][Len(path) + 1] = e
          <5>1. f[m] \in Text
            BY <1>4, <4>4
          <5> HIDE DEF WithValue
          <5> QED
            BY <1>1, <4>5, <5>1, NextCharacter
        <4> QED
          BY <4>4, <4>6 DEF Extends, IsStrictPrefix
      <3> QED
        BY <3>2, <3>3
    <2>7. ~Collides(path, regexEnd, AcceptedPaths)
      BY <2>5, <2>6 DEF Collides
    <2>8. nodes[root].hasValue = FALSE
      BY <1>1, <1>4, <1>6 DEF NodeType
    <2>9. \A n \in Len(nodes) + 1 .. Len(nodes') : FALSE
      BY <1>4, <2>1
    <2>10. f \in [1 .. Len(nodes') -> Paths] /\ Len(nodes) <= Len(nodes') /\ root \in 1 .. Len(nodes') /\ f[root] = path
      BY <1>1, <1>2, <1>3, <1>4, <2>1
    <2>11. ValuesKept(f, f, root)
      BY <2>1, <2>8, <2>9, <2>10 DEF ValuesKept
    <2> QED
      BY <1>3, <1>6, <2>1, <2>3, <2>4, <2>7, <2>10, <2>11, Accepting
  <1> QED
    BY <1>5, <1>6 DEF addHere

\* addNewChild keeps it: a leaf is added, and no accepted path goes on that
\* way.
LEMMA NewChildKeeps ==
  ASSUME NEW f, Adding(f), insertPrefix # << >>, child = None, addNewChild
  PROVE  IInv'
  <1> DEFINE N == Len(nodes)
             c == insertPrefix[1]
             v == ValueNode(insertPrefix, regexEnd)
             g == Plus(N, f, path)
  <1>1. /\ Types /\ path = f[root] \o insertPrefix /\ path \in Paths /\ path \in Text
        /\ insertPrefix \in Text /\ f[root] \in Text /\ root \in 1 .. N
        /\ regexEnd \in BOOLEAN /\ calls \in Nat /\ c \in Chars /\ IsPrefix(Append(f[root], c), path)
    BY AddingFacts
  <1>2. IInv /\ pc = "adding" /\ f \in [1 .. N -> Paths] /\ NodesWith(f)
    BY DEF Adding
  <1>3. /\ N \in Nat /\ DOMAIN nodes = 1 .. N
        /\ Trie(N, PrefixesOf(nodes), LinksOf(nodes), f) /\ Radix(N, LinksOf(nodes), f)
        /\ \A n \in 1 .. N : /\ nodes[n] \in NodeType /\ f[n] \in Text
                             /\ LinksOf(nodes)[n] = nodes[n].children /\ PrefixesOf(nodes)[n] = nodes[n].prefix
    BY <1>1, <1>2, NodeFacts
  <1>4. LinksOf(nodes)[root][c] = None
    BY <1>1, <1>3 DEF child
  <1>5. /\ v.prefix = insertPrefix /\ v.regexEnd = regexEnd /\ v.hasValue = TRUE /\ v.value = calls
        /\ v.children = [e \in Chars |-> None] /\ v \in NodeType
    BY <1>1 DEF ValueNode, TrieNode, NodeType, None
  <1>6. nodes' = [Append(nodes, v) EXCEPT ![root].children[c] = N + 1] /\ return(TRUE)
    BY DEF addNewChild
  <1> HIDE DEF v, c
  <1>7. /\ nodes' \in Seq(NodeType) /\ Len(nodes') = N + 1 /\ DOMAIN nodes' = 1 .. N + 1
        /\ nodes'[N + 1] = v
        /\ \A n \in 1 .. N : /\ nodes'[n].prefix = nodes[n].prefix /\ nodes'[n].hasValue = nodes[n].hasValue
                             /\ nodes'[n].value = nodes[n].value /\ nodes'[n].regexEnd = nodes[n].regexEnd
                             /\ nodes'[n].children =
                                   IF n = root THEN [nodes[n].children EXCEPT ![c] = N + 1] ELSE nodes[n].children
    <2>1. nodes \in Seq(NodeType)
      BY <1>1 DEF Types
    <2>2. PICK a : a = Append(nodes, v)
      OBVIOUS
    <2>3. /\ a \in Seq(NodeType) /\ Len(a) = N + 1 /\ a[N + 1] = v
          /\ \A n \in 1 .. N : a[n] = nodes[n]
      BY <1>5, <2>1, <2>2, OneAdded
    <2>4. PICK x : x = [nodes[root] EXCEPT !.children = [@ EXCEPT ![c] = N + 1]]
      OBVIOUS
    <2>5. nodes[root] \in NodeType /\ [nodes[root].children EXCEPT ![c] = N + 1] \in [Chars -> Nat]
      BY <1>1, <1>3 DEF NodeType
    <2>6. /\ x \in NodeType /\ x.children = [nodes[root].children EXCEPT ![c] = N + 1]
          /\ x.prefix = nodes[root].prefix /\ x.hasValue = nodes[root].hasValue
          /\ x.value = nodes[root].value /\ x.regexEnd = nodes[root].regexEnd
      BY <2>4, <2>5 DEF NodeType
    <2>7. nodes' = [a EXCEPT ![root] = x]
      BY <1>1, <1>6, <2>2, <2>3, <2>4
    <2>8. root \in 1 .. Len(a) /\ root # N + 1 /\ N + 1 \in 1 .. Len(a) /\ 1 .. N \subseteq 1 .. N + 1
      BY <1>1, <1>3, <2>3
    <2>9. /\ nodes' \in Seq(NodeType) /\ Len(nodes') = N + 1 /\ nodes'[root] = x
          /\ \A n \in 1 .. N + 1 : n # root => nodes'[n] = a[n]
      BY <2>3, <2>6, <2>7, <2>8, OneChanged
    <2>10. DOMAIN nodes' = 1 .. N + 1
      BY <2>9
    <2>11. nodes'[N + 1] = v
      BY <2>3, <2>8, <2>9
    <2>12. \A n \in 1 .. N : n # root => nodes'[n] = nodes[n]
      BY <2>3, <2>8, <2>9
    <2> HIDE DEF N
    <2> QED
      BY <2>6, <2>9, <2>10, <2>11, <2>12
  <1>8. /\ PrefixesOf(nodes') = Plus(N, PrefixesOf(nodes), insertPrefix)
        /\ LinksOf(nodes') = LeafLinks(N, LinksOf(nodes), root, c)
    <2> HIDE DEF N
    <2>1. PrefixesOf(nodes') = Plus(N, PrefixesOf(nodes), insertPrefix)
      <3>1. ASSUME NEW n \in 1 .. N + 1
            PROVE  nodes'[n].prefix = IF n = N + 1 THEN insertPrefix ELSE PrefixesOf(nodes)[n]
        <4>1. n \in 1 .. N \/ n = N + 1
          BY <1>3
        <4> QED
          BY <1>3, <1>5, <1>7, <4>1
      <3> QED
        BY <1>7, <3>1 DEF PrefixesOf, Plus
    <2>2. \A n \in 1 .. N + 1 : n \in 1 .. N \/ n = N + 1
      BY <1>3
    <2>3. \A n \in 1 .. N : nodes[n].children \in [Chars -> Nat] /\ n # N + 1
      BY <1>3 DEF NodeType
    <2>4. ASSUME NEW n \in 1 .. N + 1
          PROVE  nodes'[n].children = [e \in Chars |-> IF n = N + 1 THEN None ELSE IF n = root /\ e = c THEN N + 1
                                                        ELSE LinksOf(nodes)[n][e]]
      <3>1. CASE n = N + 1
        BY <1>5, <1>7, <3>1
      <3>2. CASE n \in 1 .. N /\ n = root
        BY <1>3, <1>7, <2>3, <3>2
      <3>3. CASE n \in 1 .. N /\ n # root
        BY <1>3, <1>7, <2>3, <3>3
      <3> QED
        BY <2>2, <3>1, <3>2, <3>3
    <2>5. LinksOf(nodes') = LeafLinks(N, LinksOf(nodes), root, c)
      BY <1>7, <2>4 DEF LinksOf, LeafLinks
    <2> QED
      BY <2>1, <2>5
  <1>9. Trie(N + 1, PrefixesOf(nodes'), LinksOf(nodes'), g)
    BY <1>1, <1>3, <1>4, <1>8, LeafAdded DEF c
  <1>10. Branching(nodes')
    <2>1. Branching(nodes)
      BY <1>2 DEF NodesWith
    <2>2. \A n \in 1 .. N, e \in Chars : nodes[n].children[e] # None => nodes'[n].children[e] # None
      <3> HIDE DEF N
      <3> SUFFICES ASSUME NEW n \in 1 .. N, NEW e \in Chars, nodes[n].children[e] # None
                   PROVE  nodes'[n].children[e] # None
        OBVIOUS
      <3>1. N + 1 # None /\ nodes[n].children \in [Chars -> Nat]
        BY <1>3 DEF NodeType, None
      <3> QED
        BY <1>7, <3>1
    <2>3. \A n \in 2 .. N + 1 : n = N + 1 \/ (n \in 2 .. N /\ n \in 1 .. N)
      BY <1>3
    <2>4. ASSUME NEW n \in 2 .. N
          PROVE  Forks(nodes'[n])
      <3>1. n \in 1 .. N
        BY <1>3
      <3>2. Forks(nodes[n])
        BY <2>1 DEF Branching
      <3> QED
        BY <1>7, <2>2, <3>1, <3>2 DEF Forks
    <2>5. nodes'[N + 1].hasValue
      BY <1>5, <1>7
    <2> QED
      BY <1>7, <2>3, <2>4, <2>5 DEF Branching, Forks
  <1>11. ~Collides(path, regexEnd, AcceptedPaths)
    <2>1. \A m \in 1 .. N : ~IsPrefix(Append(f[root], c), f[m])
      BY <1>1, <1>3, <1>4 DEF Radix
    <2>2. \A m \in 1 .. N : ~IsPrefix(path, f[m])
      BY <1>1, <1>3, <2>1, Appended, Transitive
    <2> QED
      BY <1>1, <1>2, <2>2, NothingBehind
  <1>12. /\ g \in [1 .. N + 1 -> Paths] /\ g[N + 1] = path /\ N + 1 \in 1 .. N + 1 /\ N + 1 \notin 1 .. N
         /\ \A n \in 1 .. N : g[n] = f[n]
    <2>1. \A n \in 1 .. N : n \in 1 .. N + 1 /\ n # N + 1 /\ f[n] \in Paths
      BY <1>2, <1>3
    <2>2. \A n \in 1 .. N + 1 : n \in 1 .. N \/ n = N + 1
      BY <1>3
    <2> HIDE DEF N
    <2> QED
      BY <1>1, <1>3, <2>1, <2>2 DEF Plus
  <1>13. PICK j : j = Len(nodes')
    OBVIOUS
  <1>14. /\ j \in 1 .. Len(nodes') /\ nodes'[j] = v /\ g[j] = path /\ j \notin 1 .. Len(nodes)
         /\ g \in [1 .. Len(nodes') -> Paths] /\ Len(nodes) <= Len(nodes')
         /\ Trie(Len(nodes'), PrefixesOf(nodes'), LinksOf(nodes'), g)
         /\ \A n \in Len(nodes) + 1 .. Len(nodes') : n = j
    BY <1>3, <1>7, <1>9, <1>12, <1>13
  <1>15. ValuesKept(f, g, j)
    <2> HIDE DEF g
    <2> QED
      BY <1>5, <1>7, <1>12, <1>14 DEF ValuesKept
  <1> HIDE DEF g
  <1> QED
    BY <1>2, <1>6, <1>7, <1>10, <1>11, <1>14, <1>15, Accepting

\* A prefix cut, and a link changed.
CutLinked(a, k, d, r, c, o) == [a EXCEPT ![k].prefix = substring(@, d), ![r].children[c] = o]
CutAs(ns, a, k, d, r, c, o) ==
    /\ ns \in Seq(NodeType) /\ Len(ns) = Len(a) /\ DOMAIN ns = 1 .. Len(a)
    /\ \A n \in 1 .. Len(a) :
         /\ ns[n].prefix = IF n = k THEN substring(a[k].prefix, d) ELSE a[n].prefix
         /\ ns[n].children = [e \in Chars |-> IF n = r /\ e = c THEN o ELSE a[n].children[e]]
         /\ ns[n].hasValue = a[n].hasValue /\ ns[n].value = a[n].value /\ ns[n].regexEnd = a[n].regexEnd
         /\ n # k /\ n # r => ns[n] = a[n]

\* What the nodes are after that.
LEMMA CutAndLinked ==
  ASSUME NEW a \in Seq(NodeType), NEW k \in 1 .. Len(a), NEW r \in 1 .. Len(a), k # r,
         NEW c \in Chars, NEW d \in 0 .. Len(a[k].prefix), NEW o \in Nat,
         NEW ns, ns = CutLinked(a, k, d, r, c, o)
  PROVE  CutAs(ns, a, k, d, r, c, o)
  <1>1. Len(a) \in Nat /\ \A n \in 1 .. Len(a) : a[n] \in NodeType
    OBVIOUS
  <1>2. PICK x : x = [a[k] EXCEPT !.prefix = substring(@, d)]
    OBVIOUS
  <1>3. /\ x \in NodeType /\ x.prefix = substring(a[k].prefix, d) /\ x.children = a[k].children
        /\ x.hasValue = a[k].hasValue /\ x.value = a[k].value /\ x.regexEnd = a[k].regexEnd
    <2>1. a[k] \in NodeType /\ a[k].prefix \in Text
      BY <1>1 DEF NodeType
    <2>2. substring(a[k].prefix, d) \in Text
      BY <2>1, CutInTwo
    <2> QED
      BY <1>2, <2>1, <2>2 DEF NodeType
  <1>4. PICK y : y = [a[r] EXCEPT !.children = [@ EXCEPT ![c] = o]]
    OBVIOUS
  <1>5. /\ y \in NodeType /\ y.prefix = a[r].prefix /\ y.children = [a[r].children EXCEPT ![c] = o]
        /\ y.hasValue = a[r].hasValue /\ y.value = a[r].value /\ y.regexEnd = a[r].regexEnd
    <2>1. a[r] \in NodeType /\ [a[r].children EXCEPT ![c] = o] \in [Chars -> Nat]
      BY <1>1 DEF NodeType
    <2> QED
      BY <1>4, <2>1 DEF NodeType
  <1>6. PICK b : b = [a EXCEPT ![k] = x]
    OBVIOUS
  <1>7. /\ b \in Seq(NodeType) /\ Len(b) = Len(a) /\ b[k] = x
        /\ \A n \in 1 .. Len(a) : n # k => b[n] = a[n]
    BY <1>3, <1>6, OneChanged
  <1>8. ns = [b EXCEPT ![r] = y]
    BY <1>2, <1>4, <1>6, <1>7 DEF CutLinked
  <1>9. /\ ns \in Seq(NodeType) /\ Len(ns) = Len(a) /\ ns[r] = y
        /\ \A n \in 1 .. Len(a) : n # r => ns[n] = b[n]
    <2>1. r \in 1 .. Len(b) /\ b \in Seq(NodeType) /\ y \in NodeType
      BY <1>5, <1>7
    <2>2. /\ [b EXCEPT ![r] = y] \in Seq(NodeType) /\ Len([b EXCEPT ![r] = y]) = Len(b) /\ [b EXCEPT ![r] = y][r] = y
          /\ \A n \in 1 .. Len(b) : n # r => [b EXCEPT ![r] = y][n] = b[n]
      BY <2>1, OneChanged
    <2> QED
      BY <1>7, <1>8, <2>2
  <1>10. DOMAIN ns = 1 .. Len(a)
    BY <1>9
  <1>11. \A n \in 1 .. Len(a) : a[n].children = [e \in Chars |-> a[n].children[e]]
    BY <1>1 DEF NodeType
  <1>12. ASSUME NEW n \in 1 .. Len(a)
         PROVE  /\ ns[n].prefix = IF n = k THEN substring(a[k].prefix, d) ELSE a[n].prefix
                /\ ns[n].children = [e \in Chars |-> IF n = r /\ e = c THEN o ELSE a[n].children[e]]
                /\ ns[n].hasValue = a[n].hasValue /\ ns[n].value = a[n].value /\ ns[n].regexEnd = a[n].regexEnd
                /\ n # k /\ n # r => ns[n] = a[n]
    <2>1. CASE n = k
      <3>1. ns[n] = x
        BY <1>7, <1>9, <2>1
      <3> QED
        BY <1>3, <1>11, <2>1, <3>1
    <2>2. CASE n = r
      <3>1. ns[n] = y
        BY <1>9, <2>2
      <3>2. [a[r].children EXCEPT ![c] = o] = [e \in Chars |-> IF e = c THEN o ELSE a[r].children[e]]
        BY <1>11
      <3> QED
        BY <1>5, <2>2, <3>1, <3>2
    <2>3. CASE n # k /\ n # r
      <3>1. ns[n] = a[n]
        BY <1>7, <1>9, <2>3
      <3> QED
        BY <1>11, <2>3, <3>1
    <2> QED
      BY <2>1, <2>2, <2>3
  <1> QED
    BY <1>9, <1>10, <1>12 DEF CutAs

\* What addNode knows of the child.
LEMMA ChildFacts ==
  ASSUME NEW f, Adding(f), insertPrefix # << >>, child # None
  PROVE  /\ child \in 1 .. Len(nodes) /\ child \in 2 .. Len(nodes) /\ child # root
         /\ LinksOf(nodes)[root][insertPrefix[1]] = child
         /\ childPrefix \in Text /\ childPrefix # << >> /\ childPrefix[1] = insertPrefix[1]
         /\ PrefixesOf(nodes)[child] = childPrefix
         /\ f[child] \in Text /\ f[child] = f[root] \o childPrefix
         /\ \A m \in 1 .. Len(nodes) : IsPrefix(path, f[m]) => IsPrefix(f[child], f[m])
         /\ diffIndex \in Nat /\ 0 < diffIndex /\ diffIndex <= Len(childPrefix) /\ diffIndex <= Len(insertPrefix)
         /\ SubSeq(childPrefix, 1, diffIndex) = SubSeq(insertPrefix, 1, diffIndex)
         /\ diffIndex = Len(childPrefix) => IsPrefix(childPrefix, insertPrefix)
         /\ diffIndex = Len(insertPrefix) => IsPrefix(insertPrefix, childPrefix)
         /\ anyDiff => childPrefix[diffIndex + 1] # insertPrefix[diffIndex + 1]
  <1> DEFINE N == Len(nodes)
             c == insertPrefix[1]
             L == LinksOf(nodes)
             P == PrefixesOf(nodes)
  <1>1. /\ Types /\ path = f[root] \o insertPrefix /\ path \in Text
        /\ insertPrefix \in Text /\ f[root] \in Text /\ root \in 1 .. N
        /\ c \in Chars /\ IsPrefix(Append(f[root], c), path)
    BY AddingFacts
  <1>2. f \in [1 .. N -> Paths] /\ NodesWith(f)
    BY DEF Adding
  <1>3. /\ N \in Nat /\ f[1] = << >>
        /\ Linked(N, P, L, f) /\ Radix(N, L, f)
        /\ \A n \in 1 .. N : /\ f[n] \in Text /\ L[n] = nodes[n].children
                             /\ P[n] = nodes[n].prefix /\ P[n] \in Text
    BY <1>1, <1>2, NodeFacts
  <1>4. L[root][c] = child
    BY <1>1, <1>3 DEF child
  <1> HIDE DEF c
  <1>5. PICK k : k = child
    OBVIOUS
  <1>6. k \in 1 .. N /\ f[k] = f[root] \o P[k] /\ IsPrefix(Append(f[root], c), f[k])
    BY <1>1, <1>3, <1>4, <1>5 DEF Linked
  <1>7. f[root] # f[k] /\ Len(f[root]) < Len(f[k]) /\ f[k] \in Text
    BY <1>1, <1>3, <1>6, NextCharacter
  <1>8. k \in 2 .. N /\ k # root
    <2>1. Len(f[root]) \in Nat /\ Len(f[k]) \in Nat
      BY <1>1, <1>7 DEF Text
    <2>2. Len(f[k]) > 0 /\ Len(f[1]) = 0
      BY <1>3, <1>7, <2>1
    <2>3. k # 1 /\ k # root
      BY <1>7, <2>2
    <2> QED
      BY <1>3, <1>6, <2>3
  <1>9. P[k] \in Text /\ P[k] = childPrefix
    BY <1>3, <1>5, <1>6 DEF childPrefix
  <1>10. P[k] # << >>
    BY <1>1, <1>6, <1>7, <1>9, Joined
  <1>11. P[k][1] = c
    <2>1. P[k][1] \in Chars /\ IsPrefix(Append(f[root], P[k][1]), f[root] \o P[k])
      BY <1>1, <1>9, <1>10, Longer, Zenon
    <2> QED
      BY <1>1, <1>6, <1>7, <2>1, OneNext
  <1>12. \A m \in 1 .. N : IsPrefix(path, f[m]) => IsPrefix(f[k], f[m])
    <2> SUFFICES ASSUME NEW m \in 1 .. N, IsPrefix(path, f[m]) PROVE IsPrefix(f[k], f[m])
      OBVIOUS
    <2>1. IsPrefix(Append(f[root], c), f[m])
      BY <1>1, <1>3, Appended, Transitive
    <2> QED
      BY <1>1, <1>3, <1>4, <1>5, <2>1 DEF Radix
  <1>13. PICK d : d = diffIndex
    OBVIOUS
  <1>14. /\ d \in Nat /\ 0 < d /\ d <= Len(childPrefix) /\ d <= Len(insertPrefix)
         /\ SubSeq(childPrefix, 1, d) = SubSeq(insertPrefix, 1, d)
         /\ d = Len(childPrefix) => IsPrefix(childPrefix, insertPrefix)
         /\ d = Len(insertPrefix) => IsPrefix(insertPrefix, childPrefix)
         /\ d < Len(childPrefix) /\ d < Len(insertPrefix) => childPrefix[d + 1] # insertPrefix[d + 1]
    <2>1. d = Len(LongestCommonPrefix({childPrefix, insertPrefix}))
      BY <1>13 DEF diffIndex
    <2>2. PICK s \in Text : s = childPrefix
      BY <1>9
    <2>3. s # << >> /\ s[1] = insertPrefix[1]
      BY <1>9, <1>10, <1>11, <2>2 DEF c
    <2>4. d = Len(LongestCommonPrefix({s, insertPrefix}))
      BY <2>1, <2>2
    <2>5. /\ d \in Nat /\ d <= Len(s) /\ d <= Len(insertPrefix)
          /\ SubSeq(s, 1, d) = SubSeq(insertPrefix, 1, d)
          /\ d = Len(s) => IsPrefix(s, insertPrefix)
          /\ d = Len(insertPrefix) => IsPrefix(insertPrefix, s)
          /\ d < Len(s) /\ d < Len(insertPrefix) => s[d + 1] # insertPrefix[d + 1]
          /\ d > 0
      BY <1>1, <2>3, <2>4, WhereTheyPart
    <2> QED
      BY <2>2, <2>5
  <1> QED
    BY <1>3, <1>4, <1>5, <1>6, <1>7, <1>8, <1>9, <1>10, <1>11, <1>12, <1>13, <1>14 DEF anyDiff, c

\* The prefixes and links of the nodes after a node was put in the middle.
MiddleOf(ns, a, N, k, d, r, c, x) ==
    /\ ns \in Seq(NodeType) /\ Len(ns) = Len(a) /\ DOMAIN ns = 1 .. Len(a)
    /\ \A n \in 1 .. N + 1 :
         /\ ns[n].prefix = MiddlePrefixes(N, PrefixesOf(nodes), k, d)[n]
         /\ n # N + 1 => ns[n].children = MiddleLinks(N, LinksOf(nodes), r, c, k, x)[n]
         /\ n # N + 1 => /\ ns[n].hasValue = nodes[n].hasValue /\ ns[n].value = nodes[n].value
                         /\ ns[n].regexEnd = nodes[n].regexEnd
    /\ \A n \in N + 1 .. Len(a) : ns[n] = a[n]

\* What MiddleInserted has in the middle is what the nodes have after a cut.
LEMMA MiddleAs ==
  ASSUME Types, NEW a \in Seq(NodeType), NEW w \in NodeType,
         NEW N, N = Len(nodes), Len(a) > N, \A n \in 1 .. N : a[n] = nodes[n], a[N + 1] = w,
         NEW k \in 1 .. N, NEW r \in 1 .. N, k # r, NEW c \in Chars, NEW x \in Chars,
         NEW d \in 1 .. Len(nodes[k].prefix) - 1,
         w.prefix = SubSeq(nodes[k].prefix, 1, d),
         NEW ns, ns = CutLinked(a, k, d, r, c, N + 1)
  PROVE  MiddleOf(ns, a, N, k, d, r, c, x)
  <1>1. /\ N \in Nat /\ DOMAIN nodes = 1 .. N /\ Len(a) \in Nat
        /\ \A n \in 1 .. N : nodes[n] \in NodeType /\ nodes[n].prefix \in Text
    <2>1. nodes \in Seq(NodeType)
      BY DEF Types
    <2>2. N \in Nat /\ DOMAIN nodes = 1 .. N /\ Len(a) \in Nat /\ \A n \in 1 .. N : nodes[n] \in NodeType
      BY <2>1
    <2> QED
      BY <2>2 DEF NodeType
  <1>2. k \in 1 .. Len(a) /\ r \in 1 .. Len(a) /\ d \in 0 .. Len(a[k].prefix) /\ N + 1 \in Nat
    <2>1. Len(nodes[k].prefix) \in Nat
      BY <1>1 DEF Text
    <2> QED
      BY <1>1, <2>1
  <1>3. /\ ns \in Seq(NodeType) /\ Len(ns) = Len(a) /\ DOMAIN ns = 1 .. Len(a)
        /\ \A n \in 1 .. Len(a) :
             /\ ns[n].prefix = IF n = k THEN substring(a[k].prefix, d) ELSE a[n].prefix
             /\ ns[n].children = [e \in Chars |-> IF n = r /\ e = c THEN N + 1 ELSE a[n].children[e]]
             /\ ns[n].hasValue = a[n].hasValue /\ ns[n].value = a[n].value /\ ns[n].regexEnd = a[n].regexEnd
             /\ n # k /\ n # r => ns[n] = a[n]
    <2>1. CutAs(ns, a, k, d, r, c, N + 1)
      BY <1>2, CutAndLinked
    <2> QED
      BY <2>1 DEF CutAs
  <1>4. \A n \in 1 .. N : n \in 1 .. N + 1 /\ n # N + 1 /\ n \in 1 .. Len(a)
    BY <1>1
  <1>5. ASSUME NEW n \in 1 .. N
        PROVE  /\ ns[n].prefix = MiddlePrefixes(N, PrefixesOf(nodes), k, d)[n]
               /\ ns[n].children = MiddleLinks(N, LinksOf(nodes), r, c, k, x)[n]
               /\ ns[n].hasValue = nodes[n].hasValue /\ ns[n].value = nodes[n].value
               /\ ns[n].regexEnd = nodes[n].regexEnd
    <2>0. a[n] = nodes[n] /\ a[k] = nodes[k] /\ n \in 1 .. Len(a)
      BY <1>4
    <2>1. ns[n].prefix = IF n = k THEN substring(nodes[k].prefix, d) ELSE nodes[n].prefix
      BY <1>3, <2>0, Zenon
    <2>2. ns[n].prefix = MiddlePrefixes(N, PrefixesOf(nodes), k, d)[n]
      BY <1>1, <1>4, <2>1 DEF MiddlePrefixes, PrefixesOf
    <2>3. ns[n].children = [e \in Chars |-> IF n = r /\ e = c THEN N + 1 ELSE nodes[n].children[e]]
      <3>1. ns[n].children = [e \in Chars |-> IF n = r /\ e = c THEN N + 1 ELSE a[n].children[e]]
        BY <1>3, <2>0
      <3> QED
        BY <2>0, <3>1
    <2>4. LinksOf(nodes)[n] = nodes[n].children
      BY <1>1 DEF LinksOf
    <2>5. ns[n].children = MiddleLinks(N, LinksOf(nodes), r, c, k, x)[n]
      BY <1>4, <2>3, <2>4 DEF MiddleLinks
    <2> QED
      BY <1>3, <1>4, <2>2, <2>5
  <1>6. ASSUME NEW n \in N + 1 .. Len(a) PROVE ns[n] = a[n]
    <2>1. n \in 1 .. Len(a) /\ n # k /\ n # r
      BY <1>1
    <2> QED
      BY <1>3, <2>1
  <1>7. N + 1 \in N + 1 .. Len(a) /\ N + 1 \in 1 .. N + 1
    BY <1>1
  <1>8. ns[N + 1].prefix = MiddlePrefixes(N, PrefixesOf(nodes), k, d)[N + 1]
    <2>1. ns[N + 1] = w
      BY <1>6, <1>7
    <2> QED
      BY <1>1, <1>7, <2>1 DEF MiddlePrefixes, PrefixesOf
  <1>9. \A n \in 1 .. N + 1 : n \in 1 .. N \/ n = N + 1
    BY <1>1
  <1> QED
    BY <1>3, <1>5, <1>6, <1>8, <1>9 DEF MiddleOf

\* Wherever there was a link there is one.
LinksAs(ns, r, c, k, x) ==
    \A n \in 1 .. Len(nodes) : /\ ns[n].children = MiddleLinks(Len(nodes), LinksOf(nodes), r, c, k, x)[n]
                              /\ ns[n].hasValue = nodes[n].hasValue

\* With the links of MiddleInserted, nodes that forked do so still.
LEMMA LinksStay ==
  ASSUME Types, NEW k \in Nat, k # None, NEW ns, NEW r, NEW c, NEW x,
         LinksAs(ns, r, c, k, x),
         Branching(nodes), NEW n \in 2 .. Len(nodes)
  PROVE  Forks(ns[n])
  <1> DEFINE N == Len(nodes)
  <1>1. N \in Nat /\ DOMAIN nodes = 1 .. N
    BY DEF Types
  <1>2. n \in 1 .. N /\ n # N + 1 /\ n \in 1 .. N + 1 /\ N + 1 # None
    BY <1>1 DEF None
  <1>3. LinksOf(nodes)[n] = nodes[n].children
    BY <1>1, <1>2 DEF LinksOf
  <1>4. ASSUME NEW e \in Chars, nodes[n].children[e] # None PROVE ns[n].children[e] # None
    <2>1. ns[n].children = [h \in Chars |-> IF n = r /\ h = c THEN N + 1 ELSE nodes[n].children[h]]
      BY <1>2, <1>3 DEF MiddleLinks, LinksAs
    <2> QED
      BY <1>2, <1>4, <2>1
  <1>5. Forks(nodes[n])
    BY DEF Branching
  <1> QED
    BY <1>2, <1>4, <1>5 DEF Forks, LinksAs

\* addShorter keeps the invariant: a wildcard is refused for all that is below
\* the child, which goes on alike; another path gets a node before the child.
LEMMA ShorterKeeps ==
  ASSUME NEW f, Adding(f), insertPrefix # << >>, child # None,
         ~anyDiff, Len(childPrefix) > Len(insertPrefix), addShorter
  PROVE  IInv'
  <1> DEFINE N == Len(nodes)
             P == PrefixesOf(nodes)
             L == LinksOf(nodes)
             c == insertPrefix[1]
             d == Len(insertPrefix)
             x == childPrefix[d + 1]
             w == [ValueNode(SubSeq(childPrefix, 1, d), FALSE) EXCEPT !.children[x] = child]
             g == Plus(N, f, path)
  <1>1. /\ Types /\ path = f[root] \o insertPrefix /\ path \in Paths /\ path \in Text
        /\ insertPrefix \in Text /\ f[root] \in Text /\ root \in 1 .. N
        /\ regexEnd \in BOOLEAN /\ calls \in Nat /\ c \in Chars /\ IsPrefix(Append(f[root], c), path)
    BY AddingFacts
  <1>2. IInv /\ pc = "adding" /\ f \in [1 .. N -> Paths] /\ NodesWith(f)
    BY DEF Adding
  <1>3. /\ N \in Nat /\ DOMAIN nodes = 1 .. N
        /\ Trie(N, P, L, f)
        /\ \A n \in 1 .. N : /\ nodes[n] \in NodeType /\ f[n] \in Text /\ f[n] \in Paths
                             /\ L[n] = nodes[n].children /\ P[n] = nodes[n].prefix
    BY <1>1, <1>2, NodeFacts
  <1>4. /\ child \in 1 .. N /\ child \in 2 .. N /\ child # root /\ L[root][c] = child
        /\ childPrefix \in Text /\ P[child] = childPrefix
        /\ f[child] \in Text /\ f[child] = f[root] \o childPrefix
        /\ \A m \in 1 .. N : IsPrefix(path, f[m]) => IsPrefix(f[child], f[m])
        /\ diffIndex \in Nat /\ 0 < diffIndex /\ diffIndex <= Len(childPrefix) /\ diffIndex <= d
        /\ SubSeq(childPrefix, 1, diffIndex) = SubSeq(insertPrefix, 1, diffIndex)
        /\ diffIndex = d => IsPrefix(insertPrefix, childPrefix)
    BY ChildFacts
  <1>5. PICK k : k = child
    OBVIOUS
  <1>6. d \in Nat /\ Len(childPrefix) \in Nat
    BY <1>1, <1>4 DEF Text
  <1>7. diffIndex = d
    BY <1>4, <1>6 DEF anyDiff
  <1>8. d \in 1 .. Len(childPrefix) - 1 /\ d \in 0 .. Len(childPrefix) /\ d < Len(childPrefix)
    BY <1>4, <1>6, <1>7
  <1>9. SubSeq(childPrefix, 1, d) = insertPrefix
    <2>1. SubSeq(insertPrefix, 1, d) = insertPrefix
      BY <1>1 DEF Text
    <2> QED
      BY <1>4, <1>7, <2>1
  <1>10. x \in Chars
    BY <1>4, <1>8, CutInTwo
  \* The path ends above the child, and everything behind it goes on with x.
  <1>11. IsPrefix(Append(path, x), f[child])
    <2>1. PICK b : b = substring(childPrefix, d)
      OBVIOUS
    <2>2. b \in Text /\ b # << >> /\ b[1] = x /\ f[child] = path \o b
      <3>1. \A t \in Text : t \o childPrefix = (t \o SubSeq(childPrefix, 1, d)) \o substring(childPrefix, d)
        BY <1>4, <1>8, CutInTwo
      <3>2. f[child] = path \o b
        BY <1>1, <1>4, <1>9, <2>1, <3>1
      <3> QED
        BY <1>4, <1>8, <2>1, <3>2, CutInTwo
    <2>3. IsPrefix(Append(path, b[1]), path \o b)
      BY <1>1, <2>2, Longer, Zenon
    <2> QED
      BY <2>2, <2>3
  <1>12. ASSUME NEW m \in 1 .. N, IsPrefix(path, f[m])
         PROVE  IsPrefix(path, f[m]) /\ path # f[m] /\ f[m][Len(path) + 1] = x
    <2>1. IsPrefix(Append(path, x), f[m])
      BY <1>1, <1>3, <1>4, <1>10, <1>11, <1>12, Appended, Transitive
    <2>2. PICK t \in Text : t = f[m]
      BY <1>3
    <2> HIDE DEF x
    <2>3. path # t /\ t[Len(path) + 1] = x
      BY <1>1, <1>10, <2>1, <2>2, NextCharacter
    <2> QED
      BY <1>12, <2>2, <2>3
  <1>13. path # << >>
    <2>1. f[root] # path /\ IsPrefix(f[root], path) /\ Len(f[root]) < Len(path)
      BY <1>1, NextCharacter
    <2>2. Len(f[root]) \in Nat /\ Len(path) \in Nat
      BY <1>1 DEF Text
    <2> QED
      BY <2>1, <2>2
  <1>14. path \notin AcceptedPaths
    <2> SUFFICES ASSUME path \in AcceptedPaths PROVE FALSE
      OBVIOUS
    <2>1. PICK m \in 1 .. N : path = f[m]
      BY <1>2, AcceptedAre
    <2>2. IsPrefix(path, f[m])
      BY <1>1, <2>1, PrefixOrder
    <2> QED
      BY <1>12, <2>1, <2>2
  <1>15. \E q \in AcceptedPaths : Extends(q, path)
    <2>1. PICK m \in WithValue(nodes) : IsPrefix(f[child], f[m])
      BY <1>1, <1>2, <1>4, ValueBelow
    <2>2. m \in 1 .. N /\ f[m] \in AcceptedPaths
      BY <1>2, AcceptedAre
    <2>3. IsPrefix(path, f[child])
      BY <1>1, <1>4, <1>10, <1>11, NextCharacter
    <2>4. IsPrefix(path, f[m])
      BY <1>1, <1>3, <1>4, <2>1, <2>2, <2>3, Transitive
    <2> QED
      BY <1>12, <2>2, <2>4 DEF Extends, IsStrictPrefix
  <1>16. \A q \in AcceptedPaths : Extends(q, path) => q[Len(path) + 1] = x
    BY <1>2, <1>12, AcceptedAre DEF Extends, IsStrictPrefix
  <1>17. Collides(path, regexEnd, AcceptedPaths) <=> regexEnd
    BY <1>13, <1>14, <1>15, <1>16 DEF Collides
  <1>18. CASE regexEnd /\ UNCHANGED nodes /\ return(FALSE)
    BY <1>2, <1>17, <1>18, Refusing
  <1>19. CASE /\ ~regexEnd
              /\ nodes' = CutLinked(Append(nodes, w), child, d, root, c, N + 1)
              /\ return(TRUE)
    <2>1. /\ w \in NodeType /\ w.prefix = insertPrefix /\ w.hasValue = TRUE /\ w.regexEnd = FALSE /\ w.value = calls
          /\ w.children = [e \in Chars |-> IF e = x THEN k ELSE None]
      <3>1. PICK v : v = ValueNode(insertPrefix, FALSE)
        OBVIOUS
      <3>2. /\ v \in NodeType /\ v.prefix = insertPrefix /\ v.hasValue = TRUE /\ v.regexEnd = FALSE /\ v.value = calls
            /\ v.children = [e \in Chars |-> None]
        BY <1>1, <3>1 DEF ValueNode, TrieNode, NodeType, None
      <3>3. w = [v EXCEPT !.children[x] = k]
        BY <1>5, <1>9, <3>1
      <3> HIDE DEF w, x
      <3>4. PICK ch : ch = [v.children EXCEPT ![x] = k]
        OBVIOUS
      <3>5. ch \in [Chars -> Nat] /\ ch = [e \in Chars |-> IF e = x THEN k ELSE None]
        <4>1. k \in Nat
          BY <1>4, <1>5
        <4> QED
          BY <1>10, <3>2, <3>4, <4>1 DEF None
      <3>6. w = [v EXCEPT !.children = ch]
        BY <3>3, <3>4
      <3> QED
        BY <3>2, <3>5, <3>6 DEF NodeType
    <2>2. PICK a : a = Append(nodes, w)
      OBVIOUS
    <2>3. /\ a \in Seq(NodeType) /\ Len(a) = N + 1 /\ a[N + 1] = w
          /\ \A n \in 1 .. N : a[n] = nodes[n]
      <3>1. nodes \in Seq(NodeType)
        BY <1>1 DEF Types
      <3> HIDE DEF w
      <3> QED
        BY <2>1, <2>2, <3>1, OneAdded
    <2>4. PICK y : y = x
      OBVIOUS
    <2>5. PICK i : i = d
      OBVIOUS
    <2>6. /\ nodes' = CutLinked(a, k, i, root, c, N + 1)
          /\ nodes[k].prefix = childPrefix /\ i \in 1 .. Len(nodes[k].prefix) - 1
          /\ w.prefix = SubSeq(nodes[k].prefix, 1, i) /\ y \in Chars /\ y = P[k][i + 1]
          /\ w.children = [e \in Chars |-> IF e = y THEN k ELSE None]
      BY <1>3, <1>4, <1>5, <1>8, <1>9, <1>10, <1>19, <2>1, <2>2, <2>4, <2>5
    <2> HIDE DEF w, x, d, c
    <2>7. /\ nodes' \in Seq(NodeType) /\ Len(nodes') = Len(a) /\ DOMAIN nodes' = 1 .. Len(a)
          /\ \A n \in 1 .. N + 1 :
               /\ nodes'[n].prefix = MiddlePrefixes(N, P, k, i)[n]
               /\ n # N + 1 => nodes'[n].children = MiddleLinks(N, L, root, c, k, y)[n]
               /\ n # N + 1 => /\ nodes'[n].hasValue = nodes[n].hasValue /\ nodes'[n].value = nodes[n].value
                               /\ nodes'[n].regexEnd = nodes[n].regexEnd
          /\ \A n \in N + 1 .. Len(a) : nodes'[n] = a[n]
      <3>1. Len(a) > N /\ k \in 1 .. N /\ k # root
        BY <1>3, <1>4, <1>5, <2>3
      <3>2. PICK ns : ns = nodes'
        OBVIOUS
      <3>3. MiddleOf(ns, a, N, k, i, root, c, y)
        BY <1>1, <2>1, <2>3, <2>6, <3>1, <3>2, MiddleAs
      <3> QED
        BY <3>2, <3>3 DEF MiddleOf
    <2>8. nodes'[N + 1] = w /\ DOMAIN nodes' = 1 .. N + 1 /\ Len(nodes') = N + 1
      BY <1>3, <2>3, <2>7
    <2>9. PrefixesOf(nodes') = MiddlePrefixes(N, P, k, i)
      BY <2>7, <2>8 DEF PrefixesOf, MiddlePrefixes
    <2>10. LinksOf(nodes') = MiddleLinks(N, L, root, c, k, y)
      <3>1. MiddleLinks(N, L, root, c, k, y)[N + 1] = nodes'[N + 1].children
        <4>1. N + 1 \in 1 .. N + 1
          BY <1>3
        <4>2. MiddleLinks(N, L, root, c, k, y)[N + 1] = [e \in Chars |-> IF e = y THEN k ELSE None]
          BY <4>1 DEF MiddleLinks
        <4> QED
          BY <2>6, <2>8, <4>2
      <3>2. \A n \in 1 .. N + 1 : nodes'[n].children = MiddleLinks(N, L, root, c, k, y)[n]
        BY <2>7, <3>1
      <3> QED
        BY <2>8, <3>2 DEF LinksOf, MiddleLinks
    <2>11. Trie(N + 1, PrefixesOf(nodes'), LinksOf(nodes'), g)
      <3>1. L[root][c] = k /\ k # None /\ i \in 1 .. Len(P[k]) - 1 /\ path = f[root] \o SubSeq(P[k], 1, i)
        BY <1>1, <1>3, <1>4, <1>5, <1>9, <2>5, <2>6 DEF d
      <3>2. Trie(N + 1, MiddlePrefixes(N, P, k, i), MiddleLinks(N, L, root, c, k, P[k][i + 1]),
                 Plus(N, f, f[root] \o SubSeq(P[k], 1, i)))
        BY <1>1, <1>3, <3>1, MiddleInserted
      <3> QED
        BY <2>6, <2>9, <2>10, <3>1, <3>2
    <2>12. Branching(nodes')
      <3>1. Branching(nodes)
        BY <1>2 DEF NodesWith
      <3>2. \A n \in 1 .. N : /\ nodes'[n].children = MiddleLinks(N, L, root, c, k, y)[n]
                             /\ nodes'[n].hasValue = nodes[n].hasValue
        BY <1>3, <2>7
      <3>3. k \in Nat /\ k # None
        BY <1>4, <1>5
      <3>4. ASSUME NEW n \in 2 .. N
            PROVE  Forks(nodes'[n])
        <4>1. PICK ns : ns = nodes'
          OBVIOUS
        <4>2. LinksAs(ns, root, c, k, y)
          BY <3>2, <4>1 DEF LinksAs
        <4>3. Forks(ns[n])
          BY <1>1, <3>1, <3>3, <4>2, LinksStay
        <4> QED
          BY <4>1, <4>3
      <3>5. nodes'[N + 1].hasValue
        BY <2>1, <2>8
      <3>6. \A n \in 2 .. N + 1 : n = N + 1 \/ n \in 2 .. N
        BY <1>3
      <3> QED
        BY <2>8, <3>4, <3>5, <3>6 DEF Branching, Forks
    <2>13. PICK j : j = Len(nodes')
      OBVIOUS
    <2>14. /\ g \in [1 .. N + 1 -> Paths] /\ g[N + 1] = path
           /\ \A n \in 1 .. N : g[n] = f[n] /\ n # N + 1 /\ n \in 1 .. N + 1
      <3>1. \A n \in 1 .. N : n # N + 1 /\ n \in 1 .. N + 1
        BY <1>3
      <3>2. \A n \in 1 .. N + 1 : n \in 1 .. N \/ n = N + 1
        BY <1>3
      <3>3. N + 1 \in 1 .. N + 1
        BY <1>3
      <3> HIDE DEF N
      <3> QED
        BY <1>1, <1>2, <3>1, <3>2, <3>3 DEF Plus
    <2>15. /\ j \in 1 .. Len(nodes') /\ nodes'[j] = w /\ g[j] = path /\ j \notin 1 .. Len(nodes)
           /\ g \in [1 .. Len(nodes') -> Paths] /\ Len(nodes) <= Len(nodes')
           /\ Trie(Len(nodes'), PrefixesOf(nodes'), LinksOf(nodes'), g)
           /\ \A n \in Len(nodes) + 1 .. Len(nodes') : n = j
      BY <1>3, <2>8, <2>11, <2>13, <2>14
    <2>16. ValuesKept(f, g, j)
      <3> HIDE DEF g
      <3>1. regexEnd = FALSE
        BY <1>1, <1>19
      <3> QED
        BY <2>1, <2>7, <2>14, <2>15, <3>1 DEF ValuesKept
    <2>17. ~Collides(path, regexEnd, AcceptedPaths)
      BY <1>17, <1>19
    <2> HIDE DEF g
    <2> QED
      BY <1>2, <1>19, <2>7, <2>12, <2>15, <2>16, <2>17, Accepting
  <1> QED
    BY <1>18, <1>19 DEF addShorter, CutLinked

\* splitChild keeps it: a node is put before the child and a leaf below that.
LEMMA SplitKeeps ==
  ASSUME NEW f, Adding(f), insertPrefix # << >>, child # None, anyDiff, splitChild
  PROVE  IInv'
  <1> DEFINE N == Len(nodes)
             P == PrefixesOf(nodes)
             L == LinksOf(nodes)
             c == insertPrefix[1]
  <1>1. /\ Types /\ path = f[root] \o insertPrefix /\ path \in Paths /\ path \in Text
        /\ insertPrefix \in Text /\ f[root] \in Text /\ root \in 1 .. N
        /\ regexEnd \in BOOLEAN /\ calls \in Nat /\ c \in Chars /\ IsPrefix(Append(f[root], c), path)
    BY AddingFacts
  <1>2. IInv /\ pc = "adding" /\ f \in [1 .. N -> Paths] /\ NodesWith(f)
    BY DEF Adding
  <1>3. /\ N \in Nat /\ DOMAIN nodes = 1 .. N
        /\ Trie(N, P, L, f)
        /\ \A n \in 1 .. N : /\ nodes[n] \in NodeType /\ f[n] \in Text /\ f[n] \in Paths
                             /\ L[n] = nodes[n].children /\ P[n] = nodes[n].prefix
    BY <1>1, <1>2, NodeFacts
  <1>4. PICK k : k = child
    OBVIOUS
  <1>5. PICK d : d = diffIndex
    OBVIOUS
  <1>6. /\ k \in 1 .. N /\ k # root /\ L[root][c] = k /\ k # None
        /\ childPrefix \in Text /\ P[k] = childPrefix
        /\ f[k] \in Text /\ f[k] = f[root] \o childPrefix
        /\ \A m \in 1 .. N : IsPrefix(path, f[m]) => IsPrefix(f[k], f[m])
        /\ d \in Nat /\ 0 < d /\ d < Len(childPrefix) /\ d < Len(insertPrefix)
        /\ SubSeq(childPrefix, 1, d) = SubSeq(insertPrefix, 1, d)
        /\ childPrefix[d + 1] # insertPrefix[d + 1]
    BY <1>4, <1>5, ChildFacts DEF anyDiff
  <1>7. Len(insertPrefix) \in Nat /\ Len(childPrefix) \in Nat
    BY <1>1, <1>6 DEF Text
  <1>8. d \in 1 .. Len(childPrefix) - 1 /\ d \in 0 .. Len(childPrefix) /\ d \in 0 .. Len(insertPrefix)
    BY <1>6, <1>7
  <1>9. PICK x, y : x = childPrefix[d + 1] /\ y = insertPrefix[d + 1]
    OBVIOUS
  <1>10. PICK s, t : s = SubSeq(childPrefix, 1, d) /\ t = substring(insertPrefix, d)
    OBVIOUS
  <1>11. PICK q : q = f[root] \o s
    OBVIOUS
  <1>12. /\ x \in Chars /\ y \in Chars /\ x # y
         /\ s \in Text /\ t \in Text /\ t # << >> /\ t[1] = y
         /\ q \in Text /\ path = q \o t
    <2>1. s \in Text /\ x \in Chars
      BY <1>6, <1>8, <1>9, <1>10, CutInTwo
    <2>2. /\ y \in Chars /\ t \in Text /\ t # << >> /\ t[1] = y
          /\ \A u \in Text : u \o insertPrefix = (u \o SubSeq(insertPrefix, 1, d)) \o t
      <3>1. /\ insertPrefix[d + 1] \in Chars /\ substring(insertPrefix, d) \in Text
            /\ substring(insertPrefix, d) # << >> /\ substring(insertPrefix, d)[1] = insertPrefix[d + 1]
        BY <1>1, <1>6, <1>8, CutInTwo
      <3>2. \A u \in Text : u \o insertPrefix = (u \o SubSeq(insertPrefix, 1, d)) \o substring(insertPrefix, d)
        BY <1>1, <1>8, CutInTwo
      <3> QED
        BY <1>9, <1>10, <3>1, <3>2
    <2>3. path = q \o t
      BY <1>1, <1>6, <1>10, <1>11, <2>2
    <2>4. q \in Text
      BY <1>1, <1>11, <2>1, Joined
    <2> QED
      BY <1>6, <1>9, <2>1, <2>2, <2>3, <2>4
  <1>13. q \in Paths
    <2>1. Len(q) \in Nat /\ Len(t) \in Nat /\ Len(path) \in Nat
      BY <1>1, <1>12 DEF Text
    <2>2. Len(path) = Len(q) + Len(t)
      BY <1>12, Joined
    <2>3. Len(path) <= MaxLength
      <3>1. Len(path) \in 0 .. MaxLength
        BY <1>1, PathTexts
      <3> QED
        BY <3>1, PathTrieAssumption
    <2>4. Len(q) <= MaxLength
      BY <2>1, <2>2, <2>3, PathTrieAssumption
    <2> QED
      BY <1>12, <2>4, PathTexts
  \* Nothing goes on from the path.
  <1>14. ~Collides(path, regexEnd, AcceptedPaths)
    <2>1. ASSUME NEW m \in 1 .. N, IsPrefix(path, f[m]) PROVE FALSE
      <3>1. IsPrefix(f[k], f[m])
        BY <1>6, <2>1
      <3>2. IsPrefix(f[k], path) \/ IsPrefix(path, f[k])
        BY <1>1, <1>3, <1>6, <2>1, <3>1, InLine
      <3>3. IsPrefix(childPrefix, insertPrefix) \/ IsPrefix(insertPrefix, childPrefix)
        <4>1. IsPrefix(f[root] \o childPrefix, f[root] \o insertPrefix)
                \/ IsPrefix(f[root] \o insertPrefix, f[root] \o childPrefix)
          BY <1>1, <1>6, <3>2
        <4> QED
          BY <1>1, <1>6, <4>1, SameStarts, Zenon
      <3>4. d + 1 \in 1 .. Len(childPrefix) /\ d + 1 \in 1 .. Len(insertPrefix)
        BY <1>6, <1>7
      <3> QED
        BY <1>1, <1>6, <3>3, <3>4, PrefixIs
    <2> QED
      BY <1>1, <1>2, <2>1, NothingBehind
  <1>15. PICK w, v : /\ w = [TrieNode(s) EXCEPT !.children[x] = k, !.children[y] = N + 2]
                    /\ v = ValueNode(t, regexEnd)
    OBVIOUS
  <1>16. /\ w \in NodeType /\ w.prefix = s /\ w.hasValue = FALSE /\ w.regexEnd = FALSE /\ w.value = None
         /\ w.children = [e \in Chars |-> IF e = y THEN N + 2 ELSE IF e = x THEN k ELSE None]
    <2>1. PICK u : u = TrieNode(s)
      OBVIOUS
    <2>2. /\ u \in NodeType /\ u.prefix = s /\ u.hasValue = FALSE /\ u.regexEnd = FALSE /\ u.value = None
          /\ u.children = [e \in Chars |-> None]
      BY <1>12, <2>1 DEF TrieNode, NodeType, None
    <2>3. PICK ch : ch = [[u.children EXCEPT ![x] = k] EXCEPT ![y] = N + 2]
      OBVIOUS
    <2>4. ch \in [Chars -> Nat] /\ ch = [e \in Chars |-> IF e = y THEN N + 2 ELSE IF e = x THEN k ELSE None]
      <3>1. k \in Nat /\ N + 2 \in Nat
        BY <1>3, <1>6
      <3>2. [u.children EXCEPT ![x] = k] = [e \in Chars |-> IF e = x THEN k ELSE None]
        BY <2>2
      <3>3. PICK b : b = [e \in Chars |-> IF e = x THEN k ELSE None]
        OBVIOUS
      <3>4. b \in [Chars -> Nat]
        BY <3>1, <3>3 DEF None
      <3>5. ch = [b EXCEPT ![y] = N + 2]
        BY <2>3, <3>2, <3>3
      <3>6. ch \in [Chars -> Nat]
        BY <3>1, <3>4, <3>5
      <3>7. ch = [e \in Chars |-> IF e = y THEN N + 2 ELSE b[e]]
        BY <3>4, <3>5
      <3> QED
        BY <3>3, <3>6, <3>7
    <2>5. w = [u EXCEPT !.children = ch]
      BY <1>15, <2>1, <2>2, <2>3
    <2> QED
      BY <2>2, <2>4, <2>5 DEF NodeType
  <1>17. /\ v \in NodeType /\ v.prefix = t /\ v.hasValue = TRUE /\ v.regexEnd = regexEnd /\ v.value = calls
         /\ v.children = [e \in Chars |-> None]
    BY <1>1, <1>12, <1>15 DEF ValueNode, TrieNode, NodeType, None
  <1>18. PICK a : a = nodes \o <<w, v>>
    OBVIOUS
  <1>19. /\ a \in Seq(NodeType) /\ Len(a) = N + 2 /\ a[N + 1] = w /\ a[N + 2] = v
         /\ \A n \in 1 .. N : a[n] = nodes[n]
    <2>1. nodes \in Seq(NodeType)
      BY <1>1 DEF Types
    <2> QED
      BY <1>16, <1>17, <1>18, <2>1
  <1>20. nodes' = CutLinked(a, k, d, root, c, N + 1) /\ return(TRUE)
    BY <1>4, <1>5, <1>6, <1>9, <1>10, <1>15, <1>18 DEF splitChild, CutLinked
  <1> HIDE DEF c
  <1>21. MiddleOf(nodes', a, N, k, d, root, c, x)
    <2>1. PICK ns : ns = nodes'
      OBVIOUS
    <2>2. Len(a) > N /\ nodes[k].prefix = childPrefix /\ d \in 1 .. Len(nodes[k].prefix) - 1
          /\ w.prefix = SubSeq(nodes[k].prefix, 1, d)
      BY <1>3, <1>6, <1>8, <1>10, <1>16, <1>19
    <2>3. MiddleOf(ns, a, N, k, d, root, c, x)
      BY <1>1, <1>6, <1>12, <1>16, <1>19, <1>20, <2>1, <2>2, MiddleAs
    <2> QED
      BY <2>1, <2>3
  <1>22. /\ nodes' \in Seq(NodeType) /\ Len(nodes') = N + 2 /\ DOMAIN nodes' = 1 .. N + 2
         /\ nodes'[N + 1] = w /\ nodes'[N + 2] = v
         /\ \A n \in 1 .. N + 1 : nodes'[n].prefix = MiddlePrefixes(N, P, k, d)[n]
         /\ \A n \in 1 .. N : /\ nodes'[n].children = MiddleLinks(N, L, root, c, k, x)[n]
                              /\ nodes'[n].hasValue = nodes[n].hasValue /\ nodes'[n].value = nodes[n].value
                              /\ nodes'[n].regexEnd = nodes[n].regexEnd
    <2>1. N + 1 \in N + 1 .. Len(a) /\ N + 2 \in N + 1 .. Len(a)
      BY <1>3, <1>19
    <2>2. \A n \in 1 .. N : n \in 1 .. N + 1 /\ n # N + 1
      BY <1>3
    <2> QED
      BY <1>19, <1>21, <2>1, <2>2 DEF MiddleOf
  <1>23. PICK M : M = N + 1
    OBVIOUS
  <1>24. /\ M \in Nat /\ M \in 1 .. M /\ M + 1 = N + 2
         /\ \A n \in 1 .. M + 1 : n = M + 1 \/ (n \in 1 .. M /\ n # M + 1)
         /\ \A n \in 1 .. M : n = M \/ (n \in 1 .. N /\ n # M)
    BY <1>3, <1>23
  <1>25. PrefixesOf(nodes') = Plus(M, MiddlePrefixes(N, P, k, d), t)
    <2>1. ASSUME NEW n \in 1 .. M + 1
          PROVE  nodes'[n].prefix = IF n = M + 1 THEN t ELSE MiddlePrefixes(N, P, k, d)[n]
      BY <1>17, <1>22, <1>23, <1>24
    <2> QED
      BY <1>22, <1>24, <2>1 DEF PrefixesOf, Plus
  <1>26. LinksOf(nodes') = LeafLinks(M, MiddleLinks(N, L, root, c, k, x), M, y)
    <2> DEFINE K == MiddleLinks(N, L, root, c, k, x)
    <2>1. K[M] = [e \in Chars |-> IF e = x THEN k ELSE None]
      BY <1>23, <1>24 DEF MiddleLinks
    <2>2. ASSUME NEW n \in 1 .. N PROVE K[n] = [e \in Chars |-> K[n][e]]
      <3>1. n \in 1 .. N + 1
        BY <1>3
      <3> QED
        BY <3>1 DEF MiddleLinks
    <2> HIDE DEF K
    <2>3. ASSUME NEW n \in 1 .. M + 1
          PROVE  nodes'[n].children =
                   [e \in Chars |-> IF n = M + 1 THEN None ELSE IF n = M /\ e = y THEN M + 1 ELSE K[n][e]]
      <3>1. CASE n = M + 1
        BY <1>17, <1>22, <1>24, <3>1
      <3>2. CASE n = M
        <4>1. nodes'[n].children = [e \in Chars |-> IF e = y THEN M + 1 ELSE IF e = x THEN k ELSE None]
          BY <1>16, <1>22, <1>23, <1>24, <3>2
        <4>2. n # M + 1
          BY <1>24, <3>2
        <4> QED
          BY <2>1, <3>2, <4>1, <4>2
      <3>3. CASE n \in 1 .. N /\ n # M /\ n # M + 1
        <4>1. nodes'[n].children = K[n]
          BY <1>22, <3>3 DEF K
        <4> QED
          BY <2>2, <3>3, <4>1
      <3> QED
        BY <1>24, <3>1, <3>2, <3>3
    <2> QED
      BY <1>22, <1>24, <2>3 DEF LinksOf, LeafLinks, K
  <1>27. PICK g : g = Plus(M, Plus(N, f, q), path)
    OBVIOUS
  <1>28. Trie(M + 1, PrefixesOf(nodes'), LinksOf(nodes'), g)
    <2>1. Trie(M, MiddlePrefixes(N, P, k, d), MiddleLinks(N, L, root, c, k, x), Plus(N, f, q))
      <3>1. d \in 1 .. Len(P[k]) - 1 /\ q = f[root] \o SubSeq(P[k], 1, d) /\ x = P[k][d + 1]
        BY <1>6, <1>8, <1>9, <1>10, <1>11
      <3> QED
        BY <1>1, <1>3, <1>6, <1>23, <3>1, MiddleInserted
    <2>2. MiddleLinks(N, L, root, c, k, x)[M][t[1]] = None
      BY <1>12, <1>23, <1>24 DEF MiddleLinks
    <2>3. Plus(N, f, q)[M] \o t = path
      BY <1>12, <1>23, <1>24 DEF Plus
    <2>4. PICK P2, L2, f2 : /\ P2 = MiddlePrefixes(N, P, k, d) /\ L2 = MiddleLinks(N, L, root, c, k, x)
                            /\ f2 = Plus(N, f, q)
      OBVIOUS
    <2>5. Trie(M + 1, Plus(M, P2, t), LeafLinks(M, L2, M, t[1]), Plus(M, f2, f2[M] \o t))
      BY <1>12, <1>24, <2>1, <2>2, <2>4, LeafAdded
    <2> QED
      BY <1>12, <1>25, <1>26, <1>27, <2>3, <2>4, <2>5
  <1>29. Branching(nodes')
    <2>1. Branching(nodes)
      BY <1>2 DEF NodesWith
    <2>2. k \in Nat /\ k # None
      BY <1>6
    <2>3. ASSUME NEW n \in 2 .. N PROVE Forks(nodes'[n])
      <3>1. PICK ns : ns = nodes'
        OBVIOUS
      <3>2. LinksAs(ns, root, c, k, x)
        BY <1>22, <3>1 DEF LinksAs
      <3>3. Forks(ns[n])
        BY <1>1, <2>1, <2>2, <3>2, LinksStay
      <3> QED
        BY <3>1, <3>3
    <2>4. Forks(w)
      <3>1. w.children[x] = k /\ w.children[y] = N + 2 /\ N + 2 # None
        BY <1>3, <1>12, <1>16 DEF None
      <3> QED
        BY <1>12, <2>2, <3>1 DEF Forks
    <2>5. Forks(v)
      BY <1>17 DEF Forks
    <2>6. \A n \in 2 .. N + 2 : n = N + 2 \/ n = N + 1 \/ n \in 2 .. N
      BY <1>3
    <2> QED
      BY <1>22, <2>3, <2>4, <2>5, <2>6 DEF Branching
  <1>30. /\ g \in [1 .. M + 1 -> Paths] /\ g[M + 1] = path
         /\ \A n \in 1 .. N : g[n] = f[n]
    <2>1. \A n \in 1 .. N : n # N + 1 /\ n # M + 1 /\ n \in 1 .. N + 1 /\ n \in 1 .. M + 1
      BY <1>3, <1>23
    <2>2. M + 1 \in 1 .. M + 1
      BY <1>24
    <2>3. \A n \in 1 .. M + 1 : n = M + 1 \/ (n = M /\ n \in 1 .. M) \/ (n \in 1 .. N /\ n \in 1 .. M)
      BY <1>3, <1>23
    <2> HIDE DEF N
    <2>4. \A n \in 1 .. M : Plus(N, f, q)[n] \in Paths
      BY <1>2, <1>13, <1>23, <1>24 DEF Plus
    <2> QED
      BY <1>1, <1>23, <1>27, <2>1, <2>2, <2>3, <2>4 DEF Plus
  <1>31. PICK j : j = Len(nodes')
    OBVIOUS
  <1>32. /\ j \in 1 .. Len(nodes') /\ nodes'[j] = v /\ g[j] = path /\ j \notin 1 .. Len(nodes)
         /\ g \in [1 .. Len(nodes') -> Paths] /\ Len(nodes) <= Len(nodes')
         /\ Trie(Len(nodes'), PrefixesOf(nodes'), LinksOf(nodes'), g)
         /\ \A n \in Len(nodes) + 1 .. Len(nodes') : n = j \/ n = N + 1
    BY <1>3, <1>22, <1>24, <1>28, <1>30, <1>31
  <1>33. ValuesKept(f, g, j)
    BY <1>16, <1>17, <1>22, <1>30, <1>32 DEF ValuesKept
  <1> QED
    BY <1>2, <1>14, <1>20, <1>22, <1>29, <1>32, <1>33, Accepting

\* descend keeps it: the child's prefix moves from the rest of the path to the
\* path of the node.
LEMMA DescendKeeps ==
  ASSUME NEW f, Adding(f), insertPrefix # << >>, child # None,
         ~anyDiff, Len(childPrefix) <= Len(insertPrefix), descend
  PROVE  IInv'
  <1>1. /\ Types /\ path = f[root] \o insertPrefix /\ insertPrefix \in Text /\ f[root] \in Text /\ insertPrefix \in Paths
    BY AddingFacts DEF Types
  <1>2. IInv /\ pc = "adding" /\ f \in [1 .. Len(nodes) -> Paths] /\ NodesWith(f)
    BY DEF Adding
  <1>3. /\ child \in 1 .. Len(nodes) /\ childPrefix \in Text /\ f[child] = f[root] \o childPrefix
        /\ diffIndex \in Nat /\ diffIndex <= Len(childPrefix) /\ diffIndex <= Len(insertPrefix)
        /\ SubSeq(childPrefix, 1, diffIndex) = SubSeq(insertPrefix, 1, diffIndex)
    BY ChildFacts
  <1>4. PICK d : d = Len(childPrefix)
    OBVIOUS
  <1>5. d \in Nat /\ Len(insertPrefix) \in Nat /\ d \in 0 .. Len(insertPrefix)
    BY <1>1, <1>3, <1>4 DEF Text
  <1>6. diffIndex = d
    BY <1>3, <1>4, <1>5 DEF anyDiff
  <1>7. SubSeq(childPrefix, 1, d) = childPrefix
    BY <1>3, <1>4 DEF Text
  <1>8. PICK t : t = substring(insertPrefix, d)
    OBVIOUS
  <1>9. t \in Paths /\ t \in Text /\ path = f[child] \o t
    <2>1. /\ substring(insertPrefix, d) \in Text
          /\ \A u \in Text : u \o insertPrefix = (u \o SubSeq(insertPrefix, 1, d)) \o substring(insertPrefix, d)
      BY <1>1, <1>5, CutInTwo
    <2>2. SubSeq(insertPrefix, 1, d) = childPrefix
      BY <1>3, <1>6, <1>7
    <2>3. t \in Paths
      <3>1. Len(t) = Len(insertPrefix) - d
        BY <1>1, <1>5, <1>8, CutInTwo
      <3>2. Len(insertPrefix) \in 0 .. MaxLength
        BY <1>1, PathTexts
      <3>3. Len(t) <= MaxLength
        BY <1>5, <3>1, <3>2, PathTrieAssumption
      <3> QED
        BY <1>8, <2>1, <3>3, PathTexts
    <2> QED
      BY <1>1, <1>3, <1>8, <2>1, <2>2, <2>3
  <1>10. /\ root' = child /\ insertPrefix' = t /\ nodes' = nodes /\ pc' = pc /\ regexEnd' = regexEnd
         /\ path' = path /\ calls' = calls /\ accepted' = accepted /\ result' = result
    BY <1>4, <1>8 DEF descend
  <1>11. Types'
    BY <1>1, <1>3, <1>9, <1>10 DEF Types
  <1>12. NodesWith(f)'
    BY <1>2, <1>9, <1>10 DEF NodesWith
  <1>13. RefusedForCollision'
    BY <1>2, <1>10 DEF RefusedForCollision
  <1> QED
    BY <1>2, <1>10, <1>11, <1>12, <1>13 DEF IInv

\* A call begins at the root with all of its path ahead.
LEMMA CallKeeps ==
  ASSUME IInv, NEW p \in Paths, NEW regex \in BOOLEAN, addNode(p, regex)
  PROVE  IInv'
  <1>1. PICK f \in [1 .. Len(nodes) -> Paths] : NodesWith(f)
    BY DEF IInv
  <1>2. Types
    BY DEF IInv
  <1>3. /\ pc = "idle" /\ calls < MaxAdds /\ calls' = calls + 1 /\ pc' = "adding"
        /\ root' = 1 /\ insertPrefix' = p /\ path' = p /\ regexEnd' = regex
        /\ nodes' = nodes /\ accepted' = accepted /\ result' = result
    BY DEF addNode
  <1>4. p \in Text
    BY PathTexts
  <1>5. /\ Len(nodes) \in Nat /\ 1 <= Len(nodes) /\ f[1] = << >>
    BY <1>1, <1>2, NodeFacts
  <1>6. Types'
    <2>1. calls \in Nat /\ calls + 1 \in 0 .. MaxAdds
      BY <1>2, <1>3, PathTrieAssumption DEF Types
    <2>2. \A a \in accepted : a.value \in 1 .. calls' /\ a.value < calls'
      BY <1>2, <1>3, <2>1 DEF Types
    <2>3. root' \in 1 .. Len(nodes')
      BY <1>3, <1>5
    <2> QED
      BY <1>2, <1>3, <1>4, <2>1, <2>2, <2>3 DEF Types
  <1>7. path' = f[root'] \o insertPrefix'
    BY <1>3, <1>4, <1>5 DEF Text
  <1>8. NodesWith(f)'
    BY <1>1, <1>3, <1>7 DEF NodesWith
  <1>9. RefusedForCollision'
    BY <1>3 DEF RefusedForCollision
  <1> QED
    BY <1>1, <1>3, <1>6, <1>8, <1>9 DEF IInv

\* The root alone is a trie.
LEMMA InitKeeps == Init => IInv
  <1> SUFFICES ASSUME Init PROVE IInv
    OBVIOUS
  <1> DEFINE nd == TrieNode(<< >>)
  <1>1. /\ nodes = <<nd>> /\ pc = "idle" /\ root = 1 /\ insertPrefix = << >> /\ path = << >>
        /\ regexEnd = FALSE /\ result = FALSE /\ calls = 0 /\ accepted = {}
    BY DEF Init
  <1>2. << >> \in Text /\ << >> \in Paths
    <2>1. << >> \in Text /\ Len(<< >>) = 0
      BY DEF Text
    <2> QED
      BY <2>1, PathTexts, PathTrieAssumption
  <1>3. /\ nd \in NodeType /\ nd.prefix = << >> /\ nd.hasValue = FALSE /\ nd.value = None /\ nd.regexEnd = FALSE
        /\ nd.children = [c \in Chars |-> None]
    BY <1>2 DEF TrieNode, NodeType, None
  <1> HIDE DEF nd
  <1>4. nodes \in Seq(NodeType) /\ Len(nodes) = 1 /\ nodes[1] = nd /\ DOMAIN nodes = 1 .. 1
    BY <1>1, <1>3
  <1>5. PICK f : f = [n \in 1 .. 1 |-> << >>]
    OBVIOUS
  <1>6. f \in [1 .. 1 -> Paths] /\ f \in [1 .. 1 -> Text] /\ f[1] = << >>
    BY <1>2, <1>5
  <1>7. Types
    <2>1. root \in 1 .. Len(nodes) /\ calls \in 0 .. MaxAdds
      BY <1>1, <1>4, PathTrieAssumption
    <2> QED
      BY <1>1, <1>2, <1>4, <2>1 DEF Types
  <1>8. \A n \in 1 .. 1 : n = 1
    OBVIOUS
  <1>9. PrefixesOf(nodes)[1] = << >> /\ LinksOf(nodes)[1] = [c \in Chars |-> None]
    BY <1>3, <1>4 DEF PrefixesOf, LinksOf
  <1>10. TrieTypes(1, PrefixesOf(nodes), LinksOf(nodes), f)
    <2>1. PrefixesOf(nodes) \in [1 .. 1 -> Text]
      BY <1>2, <1>3, <1>4, <1>8 DEF PrefixesOf
    <2>2. LinksOf(nodes) \in [1 .. 1 -> [Chars -> Nat]]
      BY <1>3, <1>4, <1>8 DEF LinksOf, NodeType
    <2> QED
      BY <1>6, <2>1, <2>2 DEF TrieTypes
  <1>11. Linked(1, PrefixesOf(nodes), LinksOf(nodes), f)
    BY <1>8, <1>9 DEF Linked
  <1>12. Radix(1, LinksOf(nodes), f)
    <2> SUFFICES ASSUME NEW c \in Chars PROVE ~IsPrefix(Append(f[1], c), f[1])
      BY <1>8 DEF Radix
    <2>1. PICK e \in Text : e = f[1]
      BY <1>2, <1>6
    <2>2. ~IsPrefix(Append(e, c), e)
      BY BehindNext
    <2> QED
      BY <2>1, <2>2
  <1>13. Trie(1, PrefixesOf(nodes), LinksOf(nodes), f)
    BY <1>6, <1>8, <1>9, <1>10, <1>11, <1>12 DEF Trie, Different
  <1>14. Recorded(nodes, f, accepted) /\ Branching(nodes)
    BY <1>1, <1>3, <1>4, <1>8 DEF Recorded, WithValue, Branching
  <1>15. NodesWith(f)
    BY <1>1, <1>4, <1>6, <1>8, <1>13, <1>14 DEF NodesWith
  <1>16. RefusedForCollision
    BY <1>1 DEF RefusedForCollision
  <1> QED
    BY <1>4, <1>6, <1>7, <1>15, <1>16 DEF IInv

\* So every step keeps the invariant.
LEMMA StepKeeps == IInv /\ [Next]_vars => IInv'
  <1> SUFFICES ASSUME IInv, [Next]_vars PROVE IInv'
    OBVIOUS
  <1>1. CASE addNodeRecursive
    <2>1. PICK f \in [1 .. Len(nodes) -> Paths] : NodesWith(f)
      BY DEF IInv
    <2>2. Adding(f)
      BY <1>1, <2>1 DEF Adding, addNodeRecursive
    <2>3. CASE insertPrefix = << >> /\ addHere
      BY <2>2, <2>3, HereKeeps
    <2>4. CASE insertPrefix # << >> /\ child = None /\ addNewChild
      BY <2>2, <2>4, NewChildKeeps
    <2>5. CASE insertPrefix # << >> /\ child # None /\ anyDiff /\ splitChild
      BY <2>2, <2>5, SplitKeeps
    <2>6. CASE insertPrefix # << >> /\ child # None /\ ~anyDiff /\ Len(childPrefix) <= Len(insertPrefix) /\ descend
      BY <2>2, <2>6, DescendKeeps
    <2>7. CASE insertPrefix # << >> /\ child # None /\ ~anyDiff /\ Len(childPrefix) > Len(insertPrefix) /\ addShorter
      BY <2>2, <2>7, ShorterKeeps
    <2> QED
      BY <1>1, <2>3, <2>4, <2>5, <2>6, <2>7 DEF addNodeRecursive
  <1>2. CASE \E p \in Paths, regex \in BOOLEAN : addNode(p, regex)
    BY <1>2, CallKeeps
  <1>3. CASE UNCHANGED vars
    <2>1. /\ nodes' = nodes /\ pc' = pc /\ root' = root /\ insertPrefix' = insertPrefix /\ regexEnd' = regexEnd
          /\ path' = path /\ calls' = calls /\ accepted' = accepted /\ result' = result
      BY <1>3 DEF vars
    <2>2. PICK f \in [1 .. Len(nodes) -> Paths] : NodesWith(f)
      BY DEF IInv
    <2>3. NodesWith(f)'
      BY <2>1, <2>2 DEF NodesWith
    <2>4. Types'
      BY <2>1 DEF IInv, Types
    <2>5. RefusedForCollision'
      BY <2>1 DEF IInv, RefusedForCollision
    <2> QED
      BY <2>1, <2>2, <2>3, <2>4, <2>5 DEF IInv
  <1> QED
    BY <1>1, <1>2, <1>3 DEF Next

\* In every state the nodes have full paths that their links and prefixes agree
\* with, each its own; those with a value are the accepted paths, the others
\* fork; and while addNodeRecursive is under way, the path is that of its node
\* and the rest.
THEOREM Invariance == Spec => []IInv
  BY InitKeeps, StepKeeps, PTL DEF Spec

-----------------------------------------------------------------------------
(* What follows. *)

\* A link and the node that it leads to.
LinkSound(f, n, c, k) ==
    /\ k \in 2 .. Len(nodes) /\ f[k] = f[n] \o nodes[k].prefix
    /\ IsPrefix(Append(f[n], c), f[k]) /\ IsPrefix(f[n], f[k]) /\ Len(f[n]) < Len(f[k])
    /\ nodes[k].prefix \in Text /\ nodes[k].prefix # << >> /\ nodes[k].prefix[1] = c

\* Every link is sound.
LEMMA LinkFacts ==
  ASSUME Types, NEW f \in [1 .. Len(nodes) -> Paths], NodesWith(f),
         NEW n \in 1 .. Len(nodes), NEW c \in Chars, NEW k, k = nodes[n].children[c], k # None
  PROVE  LinkSound(f, n, c, k)
  <1> DEFINE N == Len(nodes)
             P == PrefixesOf(nodes)
             L == LinksOf(nodes)
  <1>1. /\ N \in Nat /\ f[1] = << >> /\ Linked(N, P, L, f)
        /\ \A m \in 1 .. N : /\ f[m] \in Text /\ L[m] = nodes[m].children
                             /\ P[m] = nodes[m].prefix /\ P[m] \in Text
    BY NodeFacts
  <1>2. L[n][c] = k
    BY <1>1
  <1>3. k \in 1 .. N /\ f[k] = f[n] \o P[k] /\ IsPrefix(Append(f[n], c), f[k])
    BY <1>1, <1>2 DEF Linked
  <1>4. PICK s \in Text, t \in Text : s = f[n] /\ t = f[k]
    BY <1>1, <1>3
  <1>5. IsPrefix(s, t) /\ s # t /\ Len(s) < Len(t)
    BY <1>3, <1>4, NextCharacter
  <1>6. k # 1
    <2>1. Len(s) \in Nat /\ Len(t) \in Nat
      BY DEF Text
    <2>2. t # << >>
      BY <1>5, <2>1
    <2> QED
      BY <1>1, <1>4, <2>2
  <1>7. PICK u \in Text : u = P[k]
    BY <1>1, <1>3
  <1>8. t = s \o u
    BY <1>3, <1>4, <1>7
  <1>9. u # << >>
    BY <1>5, <1>8, Joined
  <1>10. u[1] = c
    <2>1. u[1] \in Chars /\ IsPrefix(Append(s, u[1]), s \o u)
      BY <1>9, Longer, Zenon
    <2>2. IsPrefix(Append(s, c), s \o u)
      BY <1>3, <1>4, <1>8
    <2>3. s \o u \in Text
      BY <1>8
    <2> QED
      BY <2>1, <2>2, <2>3, OneNext
  <1> QED
    <2>1. k \in 2 .. N /\ nodes[k].prefix = u
      BY <1>1, <1>3, <1>6, <1>7
    <2> HIDE DEF N, P, L
    <2>2. f[k] = f[n] \o nodes[k].prefix
      BY <1>4, <1>8, <2>1
    <2>3. IsPrefix(f[n], f[k]) /\ Len(f[n]) < Len(f[k])
      BY <1>4, <1>5
    <2> QED
      BY <1>3, <1>9, <1>10, <2>1, <2>2, <2>3 DEF N, LinkSound

\* It contains the type invariant.
LEMMA TypesHold == IInv => TypeOK
  <1> SUFFICES ASSUME IInv PROVE TypeOK
    OBVIOUS
  <1>1. PICK f \in [1 .. Len(nodes) -> Paths] : NodesWith(f)
    BY DEF IInv
  <1>2. Types
    BY DEF IInv
  <1>3. DOMAIN nodes = 1 .. Len(nodes) /\ Len(nodes) \in Nat
    BY <1>1, <1>2, NodeFacts
  <1>4. ASSUME NEW n \in 1 .. Len(nodes), NEW c \in Chars, nodes[n].children[c] # None
        PROVE  /\ nodes[n].children[c] \in DOMAIN nodes /\ nodes[n].children[c] # 1
               /\ nodes[nodes[n].children[c]].prefix # << >> /\ nodes[nodes[n].children[c]].prefix[1] = c
    <2>1. PICK k : k = nodes[n].children[c]
      OBVIOUS
    <2>2. k \in 2 .. Len(nodes) /\ nodes[k].prefix # << >> /\ nodes[k].prefix[1] = c
      <3>1. k # None
        BY <1>4, <2>1
      <3>2. LinkSound(f, n, c, k)
        BY <1>1, <1>2, <2>1, <3>1, LinkFacts
      <3> QED
        BY <3>2 DEF LinkSound
    <2> QED
      BY <1>3, <2>1, <2>2
  <1> QED
    BY <1>2, <1>3, <1>4 DEF Types, TypeOK

-----------------------------------------------------------------------------
(* The paths from the root. *)

\* What may follow the path of node n.
Ends(f, n) == {u \in Text : \E m \in 1 .. Len(nodes) : f[m] = f[n] \o u}
Below(f, n) == {nodes[n].prefix \o u : u \in Ends(f, n)}

\* A text goes on from its beginning.
LEMMA Remainder ==
  ASSUME NEW s \in Text, NEW t \in Text, IsPrefix(s, t)
  PROVE  \E u \in Text : t = s \o u
  <1>1. Len(s) \in 0 .. Len(t) /\ Len(s) \in Nat
    BY PrefixOrder DEF Text
  <1>2. SubSeq(t, 1, Len(s)) = s
    <2>1. SubSeq(s, 1, Len(s)) = SubSeq(t, 1, Len(s))
      BY DEF IsPrefix
    <2>2. SubSeq(s, 1, Len(s)) \in Text /\ Len(SubSeq(s, 1, Len(s))) = Len(s) /\ IsPrefix(SubSeq(s, 1, Len(s)), s)
      BY <1>1, CutInTwo
    <2> QED
      BY <2>1, <2>2, PrefixOrder
  <1>3. PICK u : u = substring(t, Len(s))
    OBVIOUS
  <1>4. u \in Text /\ SubSeq(t, 1, Len(s)) \o u = t
    BY <1>1, <1>3, CutInTwo
  <1> QED
    BY <1>2, <1>4

\* Three texts put together.
LEMMA Associative ==
  \A s, t, u \in Text : t \o u \in Text /\ s \o (t \o u) = (s \o t) \o u
  <1>1. ASSUME NEW s \in Text, NEW t \in Text, NEW u \in Text
        PROVE  t \o u \in Text /\ s \o (t \o u) = (s \o t) \o u
    BY DEF Text
  <1> QED
    BY <1>1

\* What is put behind a text can be told.
LEMMA SameBeginnings ==
  \A s, t, u \in Text : s \o t = s \o u => t = u
  BY Joined

\* If a node's path goes on from that of node n, it does so by a link.
NextNode(f, n, c, m) ==
    \E k \in childrenOf(n) : k \in 1 .. Len(nodes) /\ k = nodes[n].children[c] /\ LinkSound(f, n, c, k) /\ IsPrefix(f[k], f[m])

\* The link is there, as Radix says.
LEMMA GoesByLink ==
  ASSUME Types, NEW f \in [1 .. Len(nodes) -> Paths], NodesWith(f),
         NEW n \in 1 .. Len(nodes), NEW m \in 1 .. Len(nodes), NEW c \in Chars, IsPrefix(Append(f[n], c), f[m])
  PROVE  NextNode(f, n, c, m)
  <1> DEFINE N == Len(nodes)
             L == LinksOf(nodes)
  <1>1. N \in Nat /\ Radix(N, L, f) /\ \A i \in 1 .. N : L[i] = nodes[i].children
    BY NodeFacts
  <1>2. PICK k : k = nodes[n].children[c]
    OBVIOUS
  <1>3. k # None /\ IsPrefix(f[k], f[m])
    <2>1. L[n][c] # None /\ IsPrefix(f[L[n][c]], f[m])
      BY <1>1 DEF Radix
    <2> QED
      BY <1>1, <1>2, <2>1
  <1>4. LinkSound(f, n, c, k)
    BY <1>2, <1>3, LinkFacts
  <1>5. k \in 1 .. N
    BY <1>1, <1>4 DEF LinkSound
  <1>6. k \in childrenOf(n)
    BY <1>2, <1>3 DEF childrenOf
  <1> QED
    BY <1>2, <1>3, <1>4, <1>5, <1>6 DEF NextNode

\* A child is a node with a longer path.
LEMMA ChildOf ==
  ASSUME Types, NEW f \in [1 .. Len(nodes) -> Paths], NodesWith(f),
         NEW n \in 1 .. Len(nodes), NEW k \in childrenOf(n)
  PROVE  \E c \in Chars : LinkSound(f, n, c, k) /\ k \in 1 .. Len(nodes)
  <1>1. PICK c \in Chars : k = nodes[n].children[c] /\ k # None
    BY DEF childrenOf
  <1>2. LinkSound(f, n, c, k)
    BY <1>1, LinkFacts
  <1>3. Len(nodes) \in Nat
    BY NodeFacts
  <1>4. k \in 1 .. Len(nodes)
    BY <1>2, <1>3 DEF LinkSound
  <1> QED
    BY <1>2, <1>4

\* What follows a node is nothing, or what is below one of its children.
LEMMA EndsAre ==
  ASSUME Types, NEW f \in [1 .. Len(nodes) -> Paths], NodesWith(f), NEW n \in 1 .. Len(nodes)
  PROVE  Ends(f, n) = {<< >>} \cup UNION {Below(f, k) : k \in childrenOf(n)}
  <1> DEFINE N == Len(nodes)
             E == {<< >>} \cup UNION {Below(f, k) : k \in childrenOf(n)}
  <1>0. N \in Nat /\ \A i \in 1 .. N : f[i] \in Text
    BY NodeFacts
  <1>1. PICK s \in Text : s = f[n]
    BY <1>0
  <1>2. << >> \in Text /\ s \o << >> = s
    BY DEF Text
  <1>3. << >> \in Ends(f, n)
    BY <1>1, <1>2 DEF Ends
  <1>4. ASSUME NEW k \in childrenOf(n), NEW v \in Below(f, k)
        PROVE  v \in Ends(f, n)
    <2>1. PICK c \in Chars : LinkSound(f, n, c, k) /\ k \in 1 .. N
      BY <1>4, ChildOf
    <2>2. PICK u \in Text : u \in Ends(f, k) /\ v = nodes[k].prefix \o u
      BY <1>4 DEF Below, Ends
    <2>3. PICK m \in 1 .. N : f[m] = f[k] \o u
      BY <2>2 DEF Ends
    <2>4. PICK p \in Text : p = nodes[k].prefix /\ f[k] = s \o p
      BY <1>1, <2>1 DEF LinkSound
    <2>5. v \in Text /\ v = p \o u /\ s \o v = (s \o p) \o u
      <3>1. v = p \o u
        BY <2>2, <2>4
      <3>2. p \o u \in Text /\ s \o (p \o u) = (s \o p) \o u
        BY Associative, Zenon
      <3> QED
        BY <3>1, <3>2
    <2>6. f[m] = s \o v
      BY <2>3, <2>4, <2>5, Zenon
    <2> QED
      BY <1>1, <2>5, <2>6 DEF Ends
  <1>5. ASSUME NEW v \in Ends(f, n), v # << >>
        PROVE  \E k \in childrenOf(n) : v \in Below(f, k)
    <2>1. v \in Text
      BY DEF Ends
    <2>2. PICK m \in 1 .. N : f[m] = s \o v
      BY <1>1 DEF Ends
    <2>3. v[1] \in Chars /\ IsPrefix(Append(s, v[1]), s \o v)
      BY <1>5, <2>1, Longer, Zenon
    <2>4. PICK c \in Chars : IsPrefix(Append(f[n], c), f[m])
      BY <1>1, <2>2, <2>3
    <2>5. NextNode(f, n, c, m)
      BY <2>4, GoesByLink
    <2>6. PICK k \in childrenOf(n) : k \in 1 .. N /\ LinkSound(f, n, c, k) /\ IsPrefix(f[k], f[m])
      BY <2>5 DEF NextNode
    <2>7. PICK p \in Text : p = nodes[k].prefix /\ f[k] = s \o p
      BY <1>1, <2>6 DEF LinkSound
    <2>8. PICK u \in Text : f[m] = f[k] \o u
      BY <1>0, <2>6, Remainder
    <2>9. p \o u \in Text /\ s \o (p \o u) = (s \o p) \o u
      BY Associative, Zenon
    <2>10. s \o v = s \o (p \o u)
      BY <2>2, <2>7, <2>8, <2>9, Zenon
    <2>11. v = p \o u
      BY <2>1, <2>9, <2>10, SameBeginnings
    <2> QED
      BY <2>6, <2>7, <2>8, <2>11 DEF Below, Ends
  <1> QED
    BY <1>3, <1>4, <1>5

\* The paths from the root are those of the nodes.
LEMMA FullPathsAre ==
  ASSUME Types, NEW f \in [1 .. Len(nodes) -> Paths], NodesWith(f)
  PROVE  FullPaths = {f[m] : m \in 1 .. Len(nodes)}
  <1> DEFINE N == Len(nodes)
             R(g, n) == {nodes[n].prefix \o s : s \in {<< >>} \cup UNION {g[k] : k \in childrenOf(n)}}
             H(g) == [n \in DOMAIN nodes |-> R(g, n)]
             b == CHOOSE g : g = H(g)
             B == [n \in 1 .. N |-> Below(f, n)]
  <1>0. FullPaths = b[1]
    BY DEF FullPaths
  <1>1. /\ N \in Nat /\ 1 \in 1 .. N /\ DOMAIN nodes = 1 .. N /\ f[1] = << >>
        /\ \A n \in 1 .. N : f[n] \in Text /\ f[n] \in Paths
    <2>1. /\ N \in Nat /\ 1 <= N /\ DOMAIN nodes = 1 .. N /\ f[1] = << >>
          /\ \A n \in 1 .. N : f[n] \in Text /\ f[n] \in Paths
      BY NodeFacts
    <2> QED
      BY <2>1
  <1>2. ASSUME NEW g, NEW n \in 1 .. N, \A k \in childrenOf(n) : g[k] = Below(f, k)
        PROVE  R(g, n) = Below(f, n)
    <2>1. {<< >>} \cup UNION {g[k] : k \in childrenOf(n)} = Ends(f, n)
      <3>1. {g[k] : k \in childrenOf(n)} = {Below(f, k) : k \in childrenOf(n)}
        BY <1>2
      <3> QED
        BY <3>1, EndsAre
    <2> QED
      BY <2>1 DEF Below
  <1>3. \A n \in 1 .. N : \A k \in childrenOf(n) : k \in 1 .. N /\ Len(f[n]) < Len(f[k])
    BY ChildOf DEF LinkSound
  <1>4. B = H(B)
    <2>1. \A n \in 1 .. N : B[n] = Below(f, n)
      OBVIOUS
    <2> HIDE DEF B, R
    <2>2. \A n \in 1 .. N : R(B, n) = Below(f, n)
      BY <1>2, <1>3, <2>1
    <2>3. H(B) = [n \in 1 .. N |-> Below(f, n)]
      BY <1>1, <2>2
    <2> QED
      BY <2>3 DEF B
  <1>5. b = H(b)
    <2> HIDE DEF B, H
    <2> QED
      BY <1>4
  <1> HIDE DEF b, R
  <1>6. \A n \in 1 .. N : b[n] = R(b, n)
    BY <1>1, <1>5
  <1> DEFINE S == {n \in 1 .. N : b[n] # Below(f, n)}
  <1>7. S = {}
    <2> SUFFICES ASSUME S # {} PROVE FALSE
      OBVIOUS
    <2>1. S \in SUBSET (1 .. N)
      OBVIOUS
    <2>2. PICK m \in S : \A n \in S : Len(f[n]) <= Len(f[m])
      <3> HIDE DEF S
      <3> QED
        BY <1>1, <2>1, LongestNode
    <2>3. m \in 1 .. N /\ b[m] # Below(f, m)
      OBVIOUS
    <2>4. ASSUME NEW k \in childrenOf(m) PROVE b[k] = Below(f, k)
      <3>1. k \in 1 .. N /\ Len(f[m]) < Len(f[k]) /\ f[m] \in Text /\ f[k] \in Text
        BY <1>1, <1>3, <2>3
      <3>2. Len(f[m]) \in Nat /\ Len(f[k]) \in Nat
        BY <3>1 DEF Text
      <3>3. k \notin S
        BY <2>2, <3>1, <3>2
      <3> QED
        BY <3>1, <3>3
    <2>5. R(b, m) = Below(f, m)
      BY <1>2, <2>3, <2>4
    <2> QED
      BY <1>6, <2>3, <2>5
  <1>8. b[1] = Below(f, 1)
    BY <1>1, <1>7
  <1>9. \A u \in Text : << >> \o u = u
    BY DEF Text
  <1>10. nodes[1].prefix = << >>
    <2>1. PrefixesOf(nodes)[1] = << >>
      BY DEF NodesWith, Trie
    <2> QED
      BY <1>1, <2>1 DEF PrefixesOf
  <1>11. Ends(f, 1) = {f[m] : m \in 1 .. N}
    <2>1. \A u \in Text, m \in 1 .. N : f[m] = f[1] \o u <=> f[m] = u
      BY <1>1, <1>9
    <2>2. Ends(f, 1) = {u \in Text : \E m \in 1 .. N : f[m] = u}
      BY <2>1 DEF Ends
    <2> QED
      BY <1>1, <2>2
  <1>12. Below(f, 1) = Ends(f, 1)
    <2>1. \A u \in Ends(f, 1) : nodes[1].prefix \o u = u
      BY <1>9, <1>10 DEF Ends
    <2> QED
      BY <2>1 DEF Below
  <1> QED
    BY <1>0, <1>8, <1>11, <1>12

\* They are those at which the accepted ones end or part.
LEMMA BranchingsAre ==
  ASSUME Types, NEW f \in [1 .. Len(nodes) -> Paths], NodesWith(f)
  PROVE  {f[m] : m \in 1 .. Len(nodes)} = {<< >>} \cup AcceptedPaths \cup {p \in Paths : Branches(p)}
  <1> DEFINE N == Len(nodes)
             F == {f[m] : m \in 1 .. N}
  <1>1. /\ N \in Nat /\ 1 \in 1 .. N /\ f[1] = << >>
        /\ \A n \in 1 .. N : f[n] \in Text /\ f[n] \in Paths
    <2>1. /\ N \in Nat /\ 1 <= N /\ f[1] = << >>
          /\ \A n \in 1 .. N : f[n] \in Text /\ f[n] \in Paths
      BY NodeFacts
    <2> QED
      BY <2>1
  <1>2. WithValue(nodes) \subseteq 1 .. N /\ \A p : p \in AcceptedPaths <=> \E m \in WithValue(nodes) : p = f[m]
    BY AcceptedAre
  <1>3. << >> \in F /\ AcceptedPaths \subseteq F /\ AcceptedPaths \subseteq Text
    BY <1>1, <1>2
  \* Below each link there is an accepted path.
  <1>4. ASSUME NEW n \in 1 .. N, NEW c \in Chars, nodes[n].children[c] # None
        PROVE  \E a \in AcceptedPaths : Extends(a, f[n]) /\ a[Len(f[n]) + 1] = c
    <2>1. PICK k : k = nodes[n].children[c]
      OBVIOUS
    <2>2. k \in 2 .. N /\ IsPrefix(Append(f[n], c), f[k])
      <3>1. LinkSound(f, n, c, k)
        BY <1>4, <2>1, LinkFacts
      <3> QED
        BY <3>1 DEF LinkSound
    <2>3. PICK m \in WithValue(nodes) : IsPrefix(f[k], f[m])
      BY <2>2, ValueBelow
    <2>4. PICK s \in Text, t \in Text, a \in Text : s = f[n] /\ t = f[k] /\ a = f[m]
      BY <1>1, <1>2, <2>2
    <2>5. IsPrefix(Append(s, c), a)
      BY <2>2, <2>3, <2>4, Appended, Transitive
    <2>6. IsPrefix(s, a) /\ s # a /\ a[Len(s) + 1] = c
      BY <2>5, NextCharacter
    <2> QED
      BY <1>2, <2>4, <2>6 DEF Extends, IsStrictPrefix
  <1>5. ASSUME NEW n \in 1 .. N, n # 1, f[n] \notin AcceptedPaths
        PROVE  Branches(f[n])
    <2>1. nodes[n].hasValue # TRUE
      BY <1>2, <1>5 DEF WithValue
    <2>2. n \in 2 .. N /\ nodes[n].hasValue \in BOOLEAN
      BY <1>1, <1>5, NodeFacts DEF NodeType
    <2>3. PICK c \in Chars, d \in Chars : c # d /\ nodes[n].children[c] # None /\ nodes[n].children[d] # None
      BY <2>1, <2>2 DEF NodesWith, Branching, Forks
    <2>4. PICK a \in AcceptedPaths : Extends(a, f[n]) /\ a[Len(f[n]) + 1] = c
      BY <1>4, <2>3
    <2>5. PICK b \in AcceptedPaths : Extends(b, f[n]) /\ b[Len(f[n]) + 1] = d
      BY <1>4, <2>3
    <2> QED
      BY <2>3, <2>4, <2>5 DEF Branches
  <1>6. ASSUME NEW p \in Paths, Branches(p)
        PROVE  p \in F
    <2>1. PICK a \in Text, b \in Text : /\ a \in AcceptedPaths /\ b \in AcceptedPaths
                                        /\ IsPrefix(p, a) /\ IsPrefix(p, b) /\ p # a /\ p # b
                                        /\ a[Len(p) + 1] # b[Len(p) + 1]
      BY <1>3, <1>6 DEF Branches, Extends, IsStrictPrefix
    <2>2. PICK i \in 1 .. N, j \in 1 .. N : a = f[i] /\ b = f[j]
      BY <1>2, <2>1
    <2>3. p \in Text
      BY PathTexts
    <2> DEFINE S == {n \in 1 .. N : IsPrefix(f[n], p)}
    <2>4. 1 \in S
      <3>1. << >> \in Text /\ << >> \o p = p
        BY <2>3 DEF Text
      <3>2. IsPrefix(<< >>, << >> \o p)
        BY <2>3, <3>1, Joined
      <3> QED
        BY <1>1, <3>1, <3>2
    <2>5. PICK n \in S : \A m \in S : Len(f[m]) <= Len(f[n])
      <3>1. S \in SUBSET (1 .. N)
        OBVIOUS
      <3> HIDE DEF S
      <3> QED
        BY <1>1, <2>4, <3>1, LongestNode
    <2>6. PICK s \in Text : n \in 1 .. N /\ s = f[n] /\ IsPrefix(s, p)
      BY <1>1
    <2> SUFFICES ASSUME s # p PROVE FALSE
      BY <2>6
    <2>7. PICK c \in Chars : IsPrefix(Append(s, c), p)
      BY <2>3, <2>6, GoesOn
    <2>8. IsPrefix(Append(f[n], c), f[i]) /\ IsPrefix(Append(f[n], c), f[j])
      BY <2>1, <2>2, <2>3, <2>6, <2>7, Appended, Transitive
    <2>9. PICK k : k = nodes[n].children[c]
      OBVIOUS
    <2>10. k \in 1 .. N /\ Len(f[n]) < Len(f[k]) /\ IsPrefix(f[k], f[i]) /\ IsPrefix(f[k], f[j])
      <3>1. NextNode(f, n, c, i) /\ NextNode(f, n, c, j)
        BY <2>6, <2>8, GoesByLink
      <3> QED
        BY <2>9, <3>1 DEF NextNode, LinkSound
    <2>11. PICK t \in Text : t = f[k] /\ IsPrefix(t, a) /\ IsPrefix(t, b)
      BY <1>1, <2>2, <2>10
    <2>12. Len(s) < Len(t) /\ Len(s) \in Nat /\ Len(t) \in Nat
      BY <2>6, <2>10, <2>11 DEF Text
    <2>13. ~IsPrefix(t, p)
      BY <2>5, <2>6, <2>10, <2>11, <2>12
    <2>14. IsPrefix(p, t) /\ p # t
      <3>1. IsPrefix(p, t)
        BY <2>1, <2>3, <2>11, <2>13, InLine
      <3>2. IsPrefix(t, t)
        BY PrefixOrder
      <3> QED
        BY <2>13, <3>1, <3>2
    <2>15. PICK e \in Chars : IsPrefix(Append(p, e), t)
      BY <2>3, <2>14, GoesOn
    <2>16. IsPrefix(Append(p, e), a) /\ IsPrefix(Append(p, e), b)
      BY <2>3, <2>11, <2>15, Appended, Transitive
    <2>17. a[Len(p) + 1] = e /\ b[Len(p) + 1] = e
      BY <2>3, <2>16, NextCharacter
    <2> QED
      BY <2>1, <2>17
  <1>7. \A n \in 1 .. N : n = 1 \/ f[n] \in AcceptedPaths \/ Branches(f[n])
    BY <1>5
  <1> QED
    BY <1>1, <1>3, <1>6, <1>7

\* Each once.
LEMMA CountIs ==
  ASSUME Types, NEW f \in [1 .. Len(nodes) -> Paths], NodesWith(f)
  PROVE  Cardinality({f[m] : m \in 1 .. Len(nodes)}) = Len(nodes)
  <1> DEFINE N == Len(nodes)
             F == {f[m] : m \in 1 .. N}
  <1>1. N \in Nat /\ \A n, m \in 1 .. N : f[n] = f[m] => n = m
    BY NodeFacts DEF Different
  <1>2. f \in [1 .. N -> F] /\ \A p \in F : \E m \in 1 .. N : f[m] = p
    OBVIOUS
  <1> HIDE DEF N, F
  <1>3. f \in Bijection(1 .. N, F)
    BY <1>1, <1>2 DEF Bijection, Injection, Surjection, IsInjective
  <1>4. Cardinality(F) = N
    BY <1>1, <1>3, FS_CountingElements DEF ExistsBijection
  <1> QED
    BY <1>4 DEF F, N

\* And with what is known of the nodes' paths, the shape of the trie,
LEMMA WellFormedHolds == IInv => WellFormed
  <1> SUFFICES ASSUME IInv PROVE WellFormed
    OBVIOUS
  <1>1. PICK f \in [1 .. Len(nodes) -> Paths] : NodesWith(f)
    BY DEF IInv
  <1>2. Types
    BY DEF IInv
  <1>3. FullPaths = {f[m] : m \in 1 .. Len(nodes)}
    BY <1>1, <1>2, FullPathsAre
  <1>4. NodesAreBranchings
    BY <1>1, <1>2, <1>3, BranchingsAre, CountIs DEF NodesAreBranchings
  <1> QED
    BY <1>4, TypesHold DEF WellFormed

-----------------------------------------------------------------------------
(* The answers of lookups. *)

\* The nodes from n on whose wildcards cover the path t, the first of them,
\* and the value for the path.
Covers(f, n, t) == {m \in 1 .. Len(nodes) : nodes[m].regexEnd /\ IsPrefix(f[n], f[m]) /\ Extends(t, f[m])}
First(f, S) == CHOOSE m \in S : \A i \in S : Len(f[m]) <= Len(f[i])
At(f, t) == {m \in 1 .. Len(nodes) : f[m] = t}
ValueIn(S) == nodes[CHOOSE m \in S : TRUE].value
Answer(f, n, t) ==
    IF Covers(f, n, t) # {} THEN nodes[First(f, Covers(f, n, t))].value
    ELSE IF At(f, t) # {} THEN ValueIn(At(f, t)) ELSE None

\* There is but one first node.
LEMMA FirstIs ==
  ASSUME Types, NEW f \in [1 .. Len(nodes) -> Paths], NodesWith(f), NEW n \in 1 .. Len(nodes), NEW t \in Text,
         Covers(f, n, t) # {}
  PROVE  /\ First(f, Covers(f, n, t)) \in Covers(f, n, t)
         /\ \A i \in Covers(f, n, t) : Len(f[First(f, Covers(f, n, t))]) <= Len(f[i])
         /\ \A m \in Covers(f, n, t) :
              (\A i \in Covers(f, n, t) : Len(f[m]) <= Len(f[i])) => m = First(f, Covers(f, n, t))
  <1> DEFINE N == Len(nodes)
             S == Covers(f, n, t)
             x == First(f, S)
  <1>1. N \in Nat /\ \A i \in 1 .. N : f[i] \in Text
    BY NodeFacts
  <1>2. S \in SUBSET (1 .. N) /\ S # {} /\ \A i \in S : IsPrefix(f[i], t)
    BY DEF Covers, Extends, IsStrictPrefix
  <1> HIDE DEF S
  <1>3. \E m \in S : \A i \in S : Len(f[m]) <= Len(f[i])
    <2> DEFINE T == {Len(f[i]) : i \in S}
    <2>1. T \in SUBSET Nat /\ T # {}
      <3>1. \A p \in Text : Len(p) \in Nat
        BY DEF Text
      <3>2. \A i \in S : f[i] \in Text
        BY <1>1, <1>2
      <3> QED
        BY <1>2, <3>1, <3>2
    <2> HIDE DEF T
    <2>2. PICK y \in T : \A z \in T : y <= z
      BY <2>1, LeastNumber
    <2> QED
      BY <2>2 DEF T
  <1>4. x \in S /\ \A i \in S : Len(f[x]) <= Len(f[i])
    BY <1>3 DEF First
  <1> HIDE DEF x
  <1>5. ASSUME NEW m \in S, \A i \in S : Len(f[m]) <= Len(f[i]) PROVE m = x
    <2>1. PICK p \in Text, q \in Text : p = f[m] /\ q = f[x]
      BY <1>1, <1>2, <1>4
    <2>2. Len(p) = Len(q)
      <3>1. Len(p) <= Len(q) /\ Len(q) <= Len(p)
        BY <1>4, <1>5, <2>1
      <3> QED
        BY <3>1 DEF Text
    <2>3. IsPrefix(p, q) \/ IsPrefix(q, p)
      BY <1>2, <1>4, <2>1, InLine
    <2>4. p = q
      BY <2>2, <2>3, PrefixOrder
    <2>5. \A i, j \in 1 .. N : f[i] = f[j] => i = j
      BY NodeFacts DEF Different
    <2>6. m \in 1 .. N /\ x \in 1 .. N /\ f[m] = f[x]
      BY <1>2, <1>4, <2>1, <2>4
    <2> QED
      BY <2>5, <2>6
  <1> QED
    BY <1>4, <1>5 DEF S, x

\* Node m is the one with its path.
LEMMA AtIs ==
  ASSUME Types, NEW f \in [1 .. Len(nodes) -> Paths], NodesWith(f), NEW m \in 1 .. Len(nodes), NEW t, t = f[m]
  PROVE  At(f, t) # {} /\ ValueIn(At(f, t)) = nodes[m].value
  <1>1. \A n \in 1 .. Len(nodes) : f[n] = f[m] => n = m
    BY NodeFacts DEF Different
  <1>2. At(f, t) = {m}
    BY <1>1 DEF At
  <1> QED
    BY <1>2 DEF ValueIn

\* At the end of the path the answer is the node's value.
LEMMA AnswerHere ==
  ASSUME Types, NEW f \in [1 .. Len(nodes) -> Paths], NodesWith(f), NEW n \in 1 .. Len(nodes)
  PROVE  Answer(f, n, f[n]) = nodes[n].value
  <1>1. \A i \in 1 .. Len(nodes) : f[i] \in Text
    BY NodeFacts
  <1>2. Covers(f, n, f[n]) = {}
    BY <1>1, NotBoth DEF Covers, Extends, IsStrictPrefix
  <1> QED
    BY <1>2, AtIs DEF Answer

\* So it is at a wildcard.
LEMMA AnswerAtWildcard ==
  ASSUME Types, NEW f \in [1 .. Len(nodes) -> Paths], NodesWith(f), NEW n \in 1 .. Len(nodes), NEW t \in Text,
         nodes[n].regexEnd, IsPrefix(f[n], t), f[n] # t
  PROVE  Answer(f, n, t) = nodes[n].value
  <1>1. \A i \in 1 .. Len(nodes) : f[i] \in Text
    BY NodeFacts
  <1>2. n \in Covers(f, n, t)
    BY <1>1, PrefixOrder DEF Covers, Extends, IsStrictPrefix
  <1>3. \A i \in Covers(f, n, t) : Len(f[n]) <= Len(f[i])
    BY <1>1, PrefixOrder DEF Covers
  <1>4. Covers(f, n, t) # {} /\ n = First(f, Covers(f, n, t))
    <2>1. Covers(f, n, t) # {}
      BY <1>2
    <2> QED
      BY <1>2, <1>3, <2>1, FirstIs
  <1> QED
    BY <1>4 DEF Answer

\* Behind a node that does not answer, what lies on the way to t is behind its link.
LEMMA OnTheWay ==
  ASSUME Types, NEW f \in [1 .. Len(nodes) -> Paths], NodesWith(f), NEW n \in 1 .. Len(nodes),
         NEW t \in Text, NEW c \in Chars, IsPrefix(Append(f[n], c), t),
         NEW m \in 1 .. Len(nodes), IsPrefix(f[n], f[m]), m # n, IsPrefix(f[m], t)
  PROVE  NextNode(f, n, c, m)
  <1>1. PICK s \in Text, u \in Text : s = f[n] /\ u = f[m]
    BY NodeFacts
  <1>2. s # u
    BY <1>1, NodeFacts DEF Different
  <1>3. PICK d \in Chars : IsPrefix(Append(s, d), u)
    BY <1>1, <1>2, GoesOn
  <1>4. IsPrefix(Append(s, d), t)
    BY <1>1, <1>3, Appended, Transitive
  <1>5. d = c
    BY <1>1, <1>4, OneNext
  <1> QED
    BY <1>1, <1>3, <1>5, GoesByLink

\* If there is no link, or the link leads elsewhere, nothing covers t.
LEMMA AnswerNowhere ==
  ASSUME Types, NEW f \in [1 .. Len(nodes) -> Paths], NodesWith(f), NEW n \in 1 .. Len(nodes),
         NEW t \in Text, NEW c \in Chars, IsPrefix(Append(f[n], c), t), ~nodes[n].regexEnd,
         \/ nodes[n].children[c] = None
         \/ ~IsPrefix(f[nodes[n].children[c]], t)
  PROVE  Answer(f, n, t) = None
  <1>1. \A i \in 1 .. Len(nodes) : f[i] \in Text
    BY NodeFacts
  <1>2. IsPrefix(f[n], t) /\ f[n] # t
    BY <1>1, BehindNext
  <1>3. ASSUME NEW m \in 1 .. Len(nodes), m # n, IsPrefix(f[n], f[m]), IsPrefix(f[m], t)
        PROVE  FALSE
    <2>1. NextNode(f, n, c, m)
      BY <1>3, OnTheWay
    <2>2. PICK k \in 1 .. Len(nodes) : k # None /\ k = nodes[n].children[c] /\ IsPrefix(f[k], f[m])
      BY <2>1 DEF NextNode, childrenOf
    <2>3. IsPrefix(f[k], t)
      BY <1>1, <1>3, <2>2, Transitive
    <2> QED
      BY <2>2, <2>3
  <1>4. Covers(f, n, t) = {}
    BY <1>3 DEF Covers, Extends, IsStrictPrefix
  <1>5. At(f, t) = {}
    <2> SUFFICES ASSUME NEW m \in 1 .. Len(nodes), f[m] = t PROVE FALSE
      BY DEF At
    <2>1. IsPrefix(f[n], f[m]) /\ IsPrefix(f[m], t) /\ m # n
      BY <1>2, PrefixOrder
    <2> QED
      BY <1>3, <2>1
  <1> QED
    BY <1>4, <1>5 DEF Answer

\* Else the answer is that of the node at the link's end.
LEMMA AnswerBelow ==
  ASSUME Types, NEW f \in [1 .. Len(nodes) -> Paths], NodesWith(f), NEW n \in 1 .. Len(nodes),
         NEW t \in Text, NEW c \in Chars, IsPrefix(Append(f[n], c), t), ~nodes[n].regexEnd,
         NEW k \in 1 .. Len(nodes), k # None, k = nodes[n].children[c]
  PROVE  Answer(f, n, t) = Answer(f, k, t)
  <1>1. \A i \in 1 .. Len(nodes) : f[i] \in Text
    BY NodeFacts
  <1>2. IsPrefix(f[n], f[k])
    <2>1. LinkSound(f, n, c, k)
      BY LinkFacts
    <2> QED
      BY <2>1 DEF LinkSound
  <1>3. ASSUME NEW m \in Covers(f, n, t) PROVE m \in Covers(f, k, t)
    <2>1. m \in 1 .. Len(nodes) /\ m # n /\ IsPrefix(f[n], f[m]) /\ IsPrefix(f[m], t)
      BY DEF Covers, Extends, IsStrictPrefix
    <2>2. NextNode(f, n, c, m)
      BY <2>1, OnTheWay
    <2>3. IsPrefix(f[k], f[m])
      BY <2>2 DEF NextNode
    <2> QED
      BY <2>3 DEF Covers
  <1>4. ASSUME NEW m \in Covers(f, k, t) PROVE m \in Covers(f, n, t)
    <2>1. m \in 1 .. Len(nodes) /\ IsPrefix(f[k], f[m])
      BY DEF Covers
    <2>2. IsPrefix(f[n], f[m])
      BY <1>1, <1>2, <2>1, Transitive
    <2> QED
      BY <2>1, <2>2 DEF Covers
  <1>5. Covers(f, n, t) = Covers(f, k, t)
    BY <1>3, <1>4
  <1> QED
    BY <1>5 DEF Answer

\* A lookup from node x[1] with the rest x[2] of the path, by the lookups g.
Step(g, x) ==
    LET n == x[1]
        s == x[2]
        c == nodes[n].children[s[1]]
    IN IF s = << >> \/ nodes[n].regexEnd THEN nodes[n].value
       ELSE IF c = None \/ ~IsPrefix(nodes[c].prefix, s) THEN None
       ELSE g[<<c, substring(s, Len(nodes[c].prefix))>>]

\* The lookups g of texts shorter than s give the answers.
ShorterAnswered(g, f, s) ==
    \A k \in 1 .. Len(nodes), u \in Paths : Len(u) < Len(s) => g[<<k, u>>] = Answer(f, k, f[k] \o u)

\* If shorter lookups give the answers, so does one more step.
LEMMA StepIs ==
  ASSUME Types, NEW f \in [1 .. Len(nodes) -> Paths], NodesWith(f),
         NEW n \in 1 .. Len(nodes), NEW s \in Paths, NEW g, ShorterAnswered(g, f, s)
  PROVE  Step(g, <<n, s>>) = Answer(f, n, f[n] \o s)
  <1> DEFINE N == Len(nodes)
  <1>0. s \in Text /\ \A i \in 1 .. N : f[i] \in Text
    BY PathTexts, NodeFacts
  <1>1. PICK o \in Text, t \in Text : o = f[n] /\ t = o \o s /\ IsPrefix(o, t)
    <2>1. \A o \in Text : o \o s \in Text /\ IsPrefix(o, o \o s)
      BY <1>0, Joined
    <2> QED
      BY <1>0, <2>1
  <1>2. CASE s = << >>
    <2>1. o \o s = o
      BY <1>2 DEF Text
    <2>2. Answer(f, n, f[n]) = nodes[n].value
      BY AnswerHere
    <2> QED
      BY <1>1, <1>2, <2>1, <2>2 DEF Step
  <1>3. CASE s # << >>
    <2>1. PICK c \in Chars : c = s[1] /\ IsPrefix(Append(f[n], c), t)
      BY <1>0, <1>1, <1>3, Longer
    <2>2. f[n] # t
      BY <1>1, <2>1, BehindNext
    <2>3. CASE nodes[n].regexEnd
      <3>1. Answer(f, n, t) = nodes[n].value
        BY <1>1, <2>2, <2>3, AnswerAtWildcard
      <3> QED
        BY <1>1, <1>3, <2>3, <3>1 DEF Step
    <2>4. CASE ~nodes[n].regexEnd
      <3>1. PICK k : k = nodes[n].children[c]
        OBVIOUS
      <3>2. Step(g, <<n, s>>) = IF k = None \/ ~IsPrefix(nodes[k].prefix, s) THEN None
                                ELSE g[<<k, substring(s, Len(nodes[k].prefix))>>]
        BY <1>3, <2>1, <2>4, <3>1 DEF Step
      <3>3. CASE k = None
        <4>1. Answer(f, n, t) = None
          BY <2>1, <2>4, <3>1, <3>3, AnswerNowhere
        <4> QED
          BY <1>1, <3>2, <3>3, <4>1
      <3>4. CASE k # None
        <4>1. LinkSound(f, n, c, k)
          BY <3>1, <3>4, LinkFacts
        <4>2. k \in 1 .. N
          <5>1. N \in Nat
            BY NodeFacts
          <5> QED
            BY <4>1, <5>1 DEF LinkSound
        <4>3. PICK p \in Text : p = nodes[k].prefix /\ p # << >> /\ f[k] = o \o p
          BY <1>1, <4>1 DEF LinkSound
        <4>4. IsPrefix(f[k], t) <=> IsPrefix(p, s)
          <5>1. IsPrefix(o \o p, o \o s) <=> IsPrefix(p, s)
            BY <1>0, SameStarts, Zenon
          <5> QED
            BY <1>1, <4>3, <5>1
        <4>5. CASE ~IsPrefix(p, s)
          <5>1. Answer(f, n, t) = None
            BY <2>1, <2>4, <3>1, <4>4, <4>5, AnswerNowhere
          <5> QED
            BY <1>1, <3>2, <4>3, <4>5, <5>1
        <4>6. CASE IsPrefix(p, s)
          <5>1. PICK u : u = substring(s, Len(p))
            OBVIOUS
          <5>2. Len(p) \in 0 .. Len(s) /\ Len(p) # 0 /\ Len(s) \in 0 .. MaxLength
            <6>1. Len(p) <= Len(s)
              BY <1>0, <4>6, PrefixOrder
            <6>2. Len(p) \in Nat /\ Len(p) # 0
              BY <4>3 DEF Text
            <6>3. Len(s) \in 0 .. MaxLength
              BY PathTexts
            <6> QED
              BY <6>1, <6>2, <6>3, PathTrieAssumption
          <5>3. u \in Text /\ Len(u) = Len(s) - Len(p) /\ SubSeq(s, 1, Len(p)) \o u = s
            BY <1>0, <5>1, <5>2, CutInTwo
          <5>4. p \o u = s
            <6>1. PICK v \in Text : s = p \o v
              BY <1>0, <4>6, Remainder
            <6>2. SubSeq(s, 1, Len(p)) = p
              <7>1. SubSeq(p, 1, Len(p)) = SubSeq(s, 1, Len(p))
                BY <4>6 DEF IsPrefix
              <7>2. SubSeq(p, 1, Len(p)) = p
                BY DEF Text
              <7> QED
                BY <7>1, <7>2
            <6> QED
              BY <5>3, <6>2
          <5>5. u \in Paths /\ Len(u) < Len(s)
            BY <5>2, <5>3, PathTexts, PathTrieAssumption
          <5>6. f[k] \o u = t
            <6>1. o \o (p \o u) = (o \o p) \o u
              BY <5>3, Associative, Zenon
            <6> QED
              BY <1>1, <4>3, <5>4, <6>1
          <5>7. g[<<k, u>>] = Answer(f, k, f[k] \o u)
            BY <4>2, <5>5 DEF ShorterAnswered
          <5>8. Answer(f, n, t) = Answer(f, k, t)
            BY <2>1, <2>4, <3>1, <3>4, <4>2, AnswerBelow
          <5>9. Step(g, <<n, s>>) = g[<<k, u>>]
            BY <3>2, <3>4, <4>3, <4>6, <5>1
          <5> QED
            BY <1>1, <5>6, <5>7, <5>8, <5>9
        <4> QED
          BY <4>5, <4>6
      <3> QED
        BY <3>3, <3>4
    <2> QED
      BY <2>3, <2>4
  <1> QED
    BY <1>2, <1>3

\* A function as findRecursive describes exists, since the answers are one, and
\* it is the only one: a shortest lookup with another answer would be a step
\* before one with the right answer.
LEMMA FindIs ==
  ASSUME Types, NEW f \in [1 .. Len(nodes) -> Paths], NodesWith(f)
  PROVE  \A p \in Paths : findRecursive(p) = Answer(f, 1, p)
  <1> DEFINE N == Len(nodes)
             D == (DOMAIN nodes) \X Paths
             H(g) == [x \in D |-> Step(g, x)]
             b == CHOOSE g : g = H(g)
             A(x) == Answer(f, x[1], f[x[1]] \o x[2])
             G == [x \in D |-> A(x)]
  <1>0. \A p : findRecursive(p) = b[<<1, p>>]
    BY DEF findRecursive, Step
  <1>1. N \in Nat /\ 1 \in 1 .. N /\ DOMAIN nodes = 1 .. N /\ f[1] = << >>
    <2>1. N \in Nat /\ 1 <= N /\ DOMAIN nodes = 1 .. N /\ f[1] = << >>
      BY NodeFacts
    <2> QED
      BY <2>1
  <1>2. \A x \in D : x[1] \in 1 .. N /\ x[2] \in Paths /\ x = <<x[1], x[2]>>
    BY <1>1
  <1>3. \A n \in 1 .. N, s \in Paths : <<n, s>> \in D /\ A(<<n, s>>) = Answer(f, n, f[n] \o s)
    BY <1>1
  <1>4. \A n \in 1 .. N, s \in Paths : G[<<n, s>>] = Answer(f, n, f[n] \o s)
    BY <1>3
  <1>5. \A x \in D : Step(G, x) = A(x)
    <2> HIDE DEF D, G
    <2> SUFFICES ASSUME NEW x \in D PROVE Step(G, x) = A(x)
      OBVIOUS
    <2>1. PICK n \in 1 .. N, s \in Paths : x = <<n, s>>
      BY <1>2
    <2>2. ShorterAnswered(G, f, s)
      BY <1>4 DEF ShorterAnswered
    <2>3. Step(G, <<n, s>>) = Answer(f, n, f[n] \o s)
      BY <2>2, StepIs
    <2> QED
      BY <1>3, <2>1, <2>3
  <1>6. G = H(G)
    <2> HIDE DEF G, A
    <2>1. H(G) = [x \in D |-> A(x)]
      BY <1>5
    <2> QED
      BY <2>1 DEF G
  <1>7. b = H(b)
    <2> HIDE DEF G, H
    <2> QED
      BY <1>6
  <1> HIDE DEF b
  <1>8. \A x \in D : b[x] = Step(b, x)
    BY <1>7
  <1> HIDE DEF D, A, G, H
  <1> DEFINE T == {Len(x[2]) : x \in {y \in D : b[y] # A(y)}}
  <1>9. T \in SUBSET Nat
    <2>1. \A x \in D : x[2] \in Text
      BY <1>2, PathTexts
    <2>2. \A s \in Text : Len(s) \in Nat
      BY DEF Text
    <2> QED
      BY <2>1, <2>2
  <1>10. T = {}
    <2> SUFFICES ASSUME T # {} PROVE FALSE
      OBVIOUS
    <2>1. PICK l \in T : \A i \in T : l <= i
      <3> HIDE DEF T
      <3> QED
        BY <1>9, LeastNumber
    <2>2. PICK x \in D : b[x] # A(x) /\ l = Len(x[2])
      OBVIOUS
    <2>3. PICK n \in 1 .. N, s \in Paths : x = <<n, s>> /\ l = Len(s)
      BY <1>2, <2>2
    <2>4. ASSUME NEW k \in 1 .. N, NEW u \in Paths, Len(u) < Len(s)
          PROVE  b[<<k, u>>] = Answer(f, k, f[k] \o u)
      <3>1. Len(u) \in Nat /\ Len(s) \in Nat
        BY PathTexts DEF Text
      <3>2. Len(u) \notin T
        BY <2>1, <2>3, <2>4, <3>1
      <3>3. PICK y : y = <<k, u>>
        OBVIOUS
      <3>4. y \in D /\ A(y) = Answer(f, k, f[k] \o u) /\ Len(y[2]) = Len(u)
        BY <1>3, <3>3
      <3>5. b[y] = A(y)
        BY <3>2, <3>4
      <3> QED
        BY <3>3, <3>4, <3>5
    <2>5. ShorterAnswered(b, f, s)
      BY <2>4 DEF ShorterAnswered
    <2>6. Step(b, <<n, s>>) = Answer(f, n, f[n] \o s)
      BY <2>5, StepIs
    <2> QED
      BY <1>3, <1>8, <2>2, <2>3, <2>6
  <1>11. \A x \in D : b[x] = A(x)
    BY <1>10
  <1>12. \A p \in Paths : << >> \o p = p
    <2>1. \A p \in Text : << >> \o p = p
      BY DEF Text
    <2> QED
      BY <2>1, PathTexts
  <1> HIDE DEF T
  <1> SUFFICES ASSUME NEW p \in Paths PROVE findRecursive(p) = Answer(f, 1, p)
    OBVIOUS
  <1>13. b[<<1, p>>] = Answer(f, 1, f[1] \o p)
    BY <1>1, <1>3, <1>11
  <1> QED
    BY <1>0, <1>1, <1>12, <1>13

\* What the accepted paths call for, with the names of the property.
WildFor(p) == {a \in accepted : a.regex /\ Extends(p, a.path)}
OwnFor(p) == {a \in accepted : a.path = p}
CalledFor(p) ==
    IF WildFor(p) # {} THEN (CHOOSE a \in WildFor(p) : \A b \in WildFor(p) : Len(a.path) <= Len(b.path)).value
    ELSE IF OwnFor(p) # {} THEN (CHOOSE a \in OwnFor(p) : TRUE).value
    ELSE None

\* The nodes that answer are those of the accepted paths that do.
LEMMA AnswerIs ==
  ASSUME Types, NEW f \in [1 .. Len(nodes) -> Paths], NodesWith(f), NEW p \in Paths
  PROVE  Answer(f, 1, p) = CalledFor(p)
  <1> DEFINE N == Len(nodes)
             S == Covers(f, 1, p)
             W == WildFor(p)
             rec(m) == Record(nodes, f, m)
  <1>0. p \in Text /\ N \in Nat /\ 1 \in 1 .. N /\ f[1] = << >> /\ \A i \in 1 .. N : f[i] \in Text
    <2>1. N \in Nat /\ 1 <= N /\ f[1] = << >> /\ \A i \in 1 .. N : f[i] \in Text
      BY NodeFacts
    <2> QED
      BY <2>1, PathTexts
  <1>1. \A m : rec(m).path = f[m] /\ rec(m).regex = nodes[m].regexEnd /\ rec(m).value = nodes[m].value
    BY DEF Record
  <1>2. /\ \A a : a \in accepted <=> \E m \in 1 .. N : nodes[m].hasValue = TRUE /\ a = rec(m)
        /\ \A m \in 1 .. N : nodes[m].hasValue # TRUE => nodes[m].value = None /\ nodes[m].regexEnd = FALSE
    <2>1. \A m \in 1 .. N : nodes[m].hasValue \in BOOLEAN
      BY NodeFacts DEF NodeType
    <2> QED
      BY <2>1 DEF NodesWith, Recorded, WithValue
  <1> HIDE DEF rec
  <1>3. \A t \in Text : IsPrefix(<< >>, t)
    <2> SUFFICES ASSUME NEW t \in Text PROVE IsPrefix(<< >>, t)
      OBVIOUS
    <2>1. << >> \in Text /\ << >> \o t = t
      BY DEF Text
    <2>2. IsPrefix(<< >>, << >> \o t)
      BY <2>1, Joined
    <2> QED
      BY <2>1, <2>2
  <1>4. \A m : m \in S <=> m \in 1 .. N /\ nodes[m].regexEnd /\ Extends(p, f[m])
    BY <1>0, <1>3 DEF Covers
  <1>5. \A a : a \in W <=> \E m \in S : a = rec(m)
    <2>1. ASSUME NEW a \in W PROVE \E m \in S : a = rec(m)
      <3>1. PICK m \in 1 .. N : a = rec(m)
        BY <1>2 DEF WildFor
      <3>2. m \in S
        BY <1>1, <1>4, <3>1 DEF WildFor
      <3> QED
        BY <3>1, <3>2
    <2>2. ASSUME NEW m \in S PROVE rec(m) \in W
      <3>1. m \in 1 .. N /\ nodes[m].regexEnd /\ Extends(p, f[m])
        BY <1>4
      <3>2. rec(m) \in accepted
        BY <1>2, <3>1
      <3> QED
        BY <1>1, <3>1, <3>2 DEF WildFor
    <2> QED
      BY <2>1, <2>2
  <1>6. CASE S # {}
    <2>1. W # {}
      BY <1>5, <1>6
    <2>2. PICK x : x = First(f, S)
      OBVIOUS
    <2>3. /\ x \in S /\ \A i \in S : Len(f[x]) <= Len(f[i])
          /\ \A m \in S : (\A i \in S : Len(f[m]) <= Len(f[i])) => m = x
      BY <1>0, <1>6, <2>2, FirstIs
    <2> DEFINE best == CHOOSE a \in W : \A b \in W : Len(a.path) <= Len(b.path)
    <2>4. best \in W /\ \A b \in W : Len(best.path) <= Len(b.path)
      <3>1. rec(x) \in W /\ \A b \in W : Len(rec(x).path) <= Len(b.path)
        BY <1>1, <1>5, <2>3
      <3> HIDE DEF W
      <3> QED
        BY <3>1
    <2>5. CalledFor(p) = best.value
      BY <2>1 DEF CalledFor
    <2> HIDE DEF best
    <2>6. PICK m \in S : best = rec(m)
      BY <1>5, <2>4
    <2>7. \A i \in S : Len(f[m]) <= Len(f[i])
      <3> SUFFICES ASSUME NEW i \in S PROVE Len(f[m]) <= Len(f[i])
        OBVIOUS
      <3>1. Len(best.path) <= Len(rec(i).path)
        BY <1>5, <2>4
      <3> QED
        BY <1>1, <2>6, <3>1
    <2>8. m = x
      BY <2>3, <2>7
    <2>9. Answer(f, 1, p) = nodes[x].value
      BY <1>6, <2>2 DEF Answer
    <2> QED
      BY <1>1, <2>5, <2>6, <2>8, <2>9
  <1>7. CASE S = {}
    <2>1. W = {}
      BY <1>5, <1>7
    <2>2. Answer(f, 1, p) = IF At(f, p) # {} THEN ValueIn(At(f, p)) ELSE None
      BY <1>7 DEF Answer
    <2>3. CalledFor(p) = IF OwnFor(p) # {} THEN (CHOOSE a \in OwnFor(p) : TRUE).value ELSE None
      BY <2>1 DEF CalledFor
    <2>4. \A a \in OwnFor(p) : \E m \in 1 .. N : nodes[m].hasValue = TRUE /\ a = rec(m) /\ f[m] = p
      BY <1>1, <1>2 DEF OwnFor
    <2>5. CASE At(f, p) = {}
      <3>1. OwnFor(p) = {}
        BY <2>4, <2>5 DEF At
      <3> QED
        BY <2>2, <2>3, <2>5, <3>1
    <2>6. CASE At(f, p) # {}
      <3>1. PICK m \in 1 .. N : f[m] = p
        BY <2>6 DEF At
      <3>2. Answer(f, 1, p) = nodes[m].value
        BY <2>2, <2>6, <3>1, AtIs
      <3>3. CASE nodes[m].hasValue = TRUE
        <4>1. rec(m) \in OwnFor(p)
          BY <1>1, <1>2, <3>1, <3>3 DEF OwnFor
        <4>2. PICK a \in OwnFor(p) : CalledFor(p) = a.value
          BY <2>3, <4>1
        <4>3. PICK i \in 1 .. N : a = rec(i) /\ f[i] = p
          BY <2>4
        <4>4. i = m
          BY <3>1, <4>3, NodeFacts DEF Different
        <4> QED
          BY <1>1, <3>2, <4>2, <4>3, <4>4
      <3>4. CASE nodes[m].hasValue # TRUE
        <4>1. nodes[m].value = None
          BY <1>2, <3>4
        <4>2. OwnFor(p) = {}
          <5> SUFFICES ASSUME NEW a \in OwnFor(p) PROVE FALSE
            OBVIOUS
          <5>1. PICK i \in 1 .. N : nodes[i].hasValue = TRUE /\ f[i] = p
            BY <2>4
          <5>2. i = m
            BY <3>1, <5>1, NodeFacts DEF Different
          <5> QED
            BY <3>4, <5>1, <5>2
        <4> QED
          BY <2>3, <3>2, <4>1, <4>2
      <3> QED
        BY <3>3, <3>4
    <2> QED
      BY <2>5, <2>6
  <1> QED
    BY <1>6, <1>7

\* and the answers.
LEMMA AnswersHold == IInv => AnswersAsAdded
  <1> SUFFICES ASSUME IInv PROVE AnswersAsAdded
    OBVIOUS
  <1>1. PICK f \in [1 .. Len(nodes) -> Paths] : NodesWith(f)
    BY DEF IInv
  <1>2. Types
    BY DEF IInv
  <1>3. \A p \in Paths : findRecursive(p) = CalledFor(p)
    BY <1>1, <1>2, FindIs, AnswerIs
  <1>4. LookupsAsAdded
    BY <1>3 DEF LookupsAsAdded, CalledFor, WildFor, OwnFor
  <1>5. RefusedForCollision
    BY DEF IInv
  <1> QED
    BY <1>4, <1>5 DEF AnswersAsAdded

\* The trie is well formed, for any characters and any lengths and numbers of
\* paths: the splits of addNodeRecursive leave a node for every path that ends
\* or parts and no other.
THEOREM WellFormedAlways == Spec => []WellFormed
  BY Invariance, WellFormedHolds, PTL

\* What addNode and getHandler answer is what the accepted paths call for.
THEOREM AnswersAlways == Spec => []AnswersAsAdded
  BY Invariance, AnswersHold, PTL

-----------------------------------------------------------------------------
(* Its steps.                                                              *)

\* descend leaves less of the path, as the child's prefix is not empty.
LEMMA DescendShortens ==
  ASSUME NEW f, Adding(f), insertPrefix # << >>, child # None,
         Len(childPrefix) <= Len(insertPrefix), descend
  PROVE  Len(insertPrefix') < Len(insertPrefix)
  <1>1. /\ Types /\ insertPrefix \in Text /\ f \in [1 .. Len(nodes) -> Paths] /\ NodesWith(f)
        /\ root \in 1 .. Len(nodes)
    BY AddingFacts DEF Adding, Types
  <1>2. insertPrefix[1] \in Chars
    BY <1>1 DEF Text
  <1>3. LinkSound(f, root, insertPrefix[1], child)
    BY <1>1, <1>2, LinkFacts DEF child
  <1>4. childPrefix \in Text /\ childPrefix # << >>
    BY <1>3 DEF LinkSound, childPrefix
  <1>5. Len(childPrefix) \in 1 .. Len(insertPrefix) /\ Len(insertPrefix) \in Nat
    BY <1>1, <1>4 DEF Text
  <1>6. Len(substring(insertPrefix, Len(childPrefix))) = Len(insertPrefix) - Len(childPrefix)
    BY <1>1, <1>5, CutInTwo
  <1> QED
    BY <1>5, <1>6 DEF descend

\* However deep the trie is, every level of addNodeRecursive leaves less of the
\* path, so that addNode returns.
THEOREM AdditionsAlwaysEnd == Spec => AdditionsEnd
  <1>1. ASSUME IInv, [Next]_vars
        PROVE  [pc = "adding" /\ pc' = "adding" => Len(insertPrefix') < Len(insertPrefix)]_vars
    <2>1. SUFFICES ASSUME Next, pc = "adding", pc' = "adding"
                   PROVE  Len(insertPrefix') < Len(insertPrefix)
      BY <1>1
    <2>2. addNodeRecursive
      BY <2>1 DEF Next, addNode
    <2>3. /\ insertPrefix # << >> /\ child # None
          /\ Len(childPrefix) <= Len(insertPrefix) /\ descend
      BY <2>1, <2>2 DEF addNodeRecursive, addHere, addNewChild, splitChild, addShorter, return
    <2>4. PICK f \in [1 .. Len(nodes) -> Paths] : NodesWith(f)
      BY <1>1 DEF IInv
    <2>5. Adding(f)
      BY <1>1, <2>1, <2>4 DEF Adding
    <2> QED
      BY <2>3, <2>5, DescendShortens
  <1> QED
    BY <1>1, Invariance, PTL DEF Spec, AdditionsEnd

===============================================================================
