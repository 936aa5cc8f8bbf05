------------------------------ MODULE TextCalls ------------------------------
(***************************************************************************)
(* Calls of the text functions, one at a time, against definitions of what  *)
(* they should return.  Parsing is fed with one character after another and *)
(* so covers texts of any length; a list is read item by item; Strings are *)
(* built, changed and copied by one call after another.                    *)
(***************************************************************************)
EXTENDS Strconv, StringRef, StringObject, CString

CONSTANTS
    Chars,          \* characters fed to the parsers
    Radices,        \* of the calls, valid and not
    BufferLens,     \* sizes of the buffers for formatted numbers
    Texts, Patterns,    \* for comparison and search
    Lists,          \* header values
    Lengths,        \* of texts copied for system calls
    Pieces,         \* texts that Strings are made of
    Sizes,          \* arguments of trimToSize and reserve
    MaxStringCalls  \* bound: calls of Strings in a behaviour

VARIABLES
    call,       \* the function and its arguments
    result,     \* what it has returned or come to
    seen        \* history: what the parser, the list or the Strings should come to

vars == <<call, result, seen>>

Letters == {t[1] : t \in {u \in Patterns : Len(u) = 1}}

Kinds == {"int32", "int64", "uint32", "uint64"}
Width(kind) == IF kind \in {"int32", "uint32"} THEN W32 ELSE W64
Values(kind) ==
    IF kind \in {"int32", "int64"} THEN MinSigned(Width(kind))..MaxSigned(Width(kind))
    ELSE 0..MaxUnsigned(Width(kind))

NoCall == [fn |-> "none"]
ValidRadices == Radices \cap 2..16

-----------------------------------------------------------------------------

Parse(kind, radix) ==
    /\ call' = [fn |-> "parse", kind |-> kind, radix |-> radix]
    /\ result' = parseStart(radix)
    /\ seen' = [value |-> 0, length |-> 0, negative |-> FALSE, digits |-> FALSE, wellFormed |-> radix \in 2..16]

\* Values above all ranges are one value.
Ceiling == 2 ^ (W64 + 1)
Read(s, c) ==
    IF c = MINUS /\ s.length = 0 THEN [s EXCEPT !.length = 1, !.negative = TRUE]
    ELSE IF charValue(c) \in 0..(call.radix - 1)
    THEN [s EXCEPT !.length = 1, !.digits = TRUE, !.value = Min({Ceiling, s.value * call.radix + charValue(c)})]
    ELSE [s EXCEPT !.length = 1, !.wellFormed = FALSE]

ParseChar(c) ==
    /\ call.fn = "parse" /\ ~result.failed
    /\ result' = CASE call.kind = "int32" -> parseInt32Char(result, c)
                   [] call.kind = "int64" -> parseInt64Char(result, c)
                   [] call.kind = "uint32" -> parseUint32Char(result, c)
                   [] call.kind = "uint64" -> parseUint64Char(result, c)
    /\ seen' = Read(seen, c)
    /\ UNCHANGED call

Format(kind, value, radix, bufferLen) ==
    /\ call' = [fn |-> "format", kind |-> kind, value |-> value, radix |-> radix, bufferLen |-> bufferLen]
    /\ result' = CASE kind = "int32" -> int32ToStr(value, radix, bufferLen)
                   [] kind = "int64" -> int64ToStr(value, radix, bufferLen)
                   [] kind = "uint32" -> uint32ToStr(value, radix, bufferLen)
                   [] kind = "uint64" -> uint64ToStr(value, radix, bufferLen)
    /\ UNCHANGED seen

Digits(n) ==
    /\ call' = [fn |-> "digits", decades |-> n]
    /\ result' = <<digitsBase10_32(n), digitsBase10_64(n)>>
    /\ UNCHANGED seen

Compare(s, t) ==
    /\ call' = [fn |-> "compare", s |-> s, t |-> t]
    /\ result' = [compare |-> compare(s, t), equals |-> equals(s, t), ignoreCase |-> engEqualsIgnoreCase(s, t),
                  starts |-> startsWith(s, t), ends |-> endsWith(s, t), engCompare |-> engCompareIgnoreCase(s, t),
                  operators |-> operators(s, t), cstrOperators |-> stringOperators(s, t)]
    /\ UNCHANGED seen

Search(s, t, index) ==
    /\ call' = [fn |-> "search", s |-> s, t |-> t, index |-> index]
    /\ result' = [first |-> indexOf(s, t, index), last |-> lastIndexOf(s, t, index)]
    /\ UNCHANGED seen

SearchChar(s, c, index) ==
    /\ call' = [fn |-> "searchChar", s |-> s, c |-> c, index |-> index]
    /\ result' = [first |-> indexOfChar(s, c, index), last |-> lastIndexOfChar(s, c, index), anywhere |-> lastIndexOfCharAnywhere(s, c)]
    /\ UNCHANGED seen

CopyText(valid, n) ==
    /\ call' = [fn |-> "copy", valid |-> valid, length |-> n]
    /\ result' = [narrow |-> CStringBuf(n), wide |-> WCStringBuf(valid, n), path |-> WinPathBuf(valid, n)]
    /\ UNCHANGED seen

List(text) ==
    /\ call' = [fn |-> "list", text |-> text]
    /\ result' = [text |-> text, item |-> <<>>]
    /\ seen' = <<>>

NextItem ==
    /\ call.fn = "list" /\ (seen = <<>> \/ result.text # <<>>)
    /\ result' = next(result.text)
    /\ seen' = Append(seen, result'.item)
    /\ UNCHANGED call

-----------------------------------------------------------------------------
(* Strings: result is the memory, seen the texts they should hold, the      *)
(* blocks given up without a delete and the calls that break the code.      *)

Strings ==
    /\ call' = [fn |-> "strings"]
    /\ result' = [rep |-> [o \in Objects |-> shortForm(0, Put(Junk(minCapacity), 0, <<NUL>>))], heap |-> <<>>, bad |-> FALSE]
    /\ seen' = [text |-> [o \in Objects |-> <<>>], lost |-> {}, loose |-> {}, calls |-> 0]

Owned(o) == IF isLong(result, o) THEN {result.rep[o].data} ELSE {}
InBlock(o, ptr) == ptr.in = "block" /\ ptr.at \in Owned(o)

\* A StringRef to a text of somebody else, or to all of a String or all but a
\* character of it.
Sources(objs) ==
    {[ptr |-> ToText(t), text |-> t] : t \in Pieces} \cup
    {[ptr |-> Beyond(getPtr(result, p), i), text |-> SubSeq(seen.text[p], i + 1, Len(seen.text[p]) - j)] :
        p \in {q \in objs : seen.text[q] # <<>>}, i \in 0..1, j \in 0..1}

\* The same as C strings, which go on to their nulls.
CStrings ==
    {[ptr |-> ToText(Append(t, NUL)), text |-> t] : t \in Pieces} \cup
    {[ptr |-> Beyond(getPtr(result, p), i), text |-> SubSeq(seen.text[p], i + 1, Len(seen.text[p]))] :
        p \in {q \in Objects : seen.text[q] # <<>>}, i \in 0..1}

Calling == call.fn = "strings" /\ ~result.bad /\ seen.calls < MaxStringCalls

Changed(memory, texts, lost, loose) ==
    /\ result' = memory
    /\ seen' = [text |-> texts, lost |-> seen.lost \cup lost, loose |-> seen.loose \cup loose, calls |-> seen.calls + 1]
    /\ UNCHANGED call

\* String has no destructor: an object that is constructed where another one
\* was takes its block with it.
Construct(o) ==
    /\ Calling
    /\ \E s \in Sources(Objects \ {o}) :
          Changed(construct(result, o, s.ptr, Len(s.text)), [seen.text EXCEPT ![o] = s.text], Owned(o), {})

Concat(o) ==
    /\ Calling
    /\ \E p \in Objects \ {o}, t \in Pieces :
          \/ Changed(concat(result, o, getPtr(result, p), length(result, p), ToText(t), Len(t)),
                     [seen.text EXCEPT ![o] = seen.text[p] \o t], Owned(o), {})
          \/ Changed(concat(result, o, ToText(t), Len(t), getPtr(result, p), length(result, p)),
                     [seen.text EXCEPT ![o] = t \o seen.text[p]], Owned(o), {})

CopyConstruct(o, p) ==
    /\ Calling /\ o # p
    /\ Changed(copyConstruct(result, o, p), [seen.text EXCEPT ![o] = seen.text[p]], Owned(o),
               IF isLong(result, p) /\ length(result, p) < minCapacity THEN {"sharedBlock"} ELSE {})

MoveConstruct(o, p) ==
    /\ Calling /\ o # p
    /\ Changed(moveConstruct(result, o, p), [seen.text EXCEPT ![o] = seen.text[p], ![p] = <<>>], Owned(o), {})

AssignCopy(o, p) ==
    /\ Calling
    /\ Changed(assignCopy(result, o, p), [seen.text EXCEPT ![o] = seen.text[p]], {}, {})

AssignMove(o, p) ==
    /\ Calling
    /\ Changed(assignMove(result, o, p), IF o = p THEN seen.text ELSE [seen.text EXCEPT ![o] = seen.text[p], ![p] = <<>>],
               IF o = p THEN {} ELSE Owned(o), {})

Assign(o) ==
    /\ Calling
    /\ \/ \E s \in Sources(Objects) :
             Changed(assign(result, o, s.ptr, Len(s.text)), [seen.text EXCEPT ![o] = s.text], {}, {})
       \/ \E c \in CStrings :
             Changed(assignCstr(result, o, c.ptr, Len(c.text)), [seen.text EXCEPT ![o] = c.text], {},
                     IF InBlock(o, c.ptr) \/ overlap(getPtr(result, o), c.ptr, Len(c.text) + 1) THEN {"ownCString"} ELSE {})

AppendText(o) ==
    /\ Calling
    /\ \E s \in Sources(Objects) :
          Changed(append_raw(result, o, s.ptr, Len(s.text)), [seen.text EXCEPT ![o] = @ \o s.text], {},
                  IF InBlock(o, s.ptr) /\ ~fits(result, o, Len(s.text)) THEN {"ownText"} ELSE {})

Resize(o) ==
    /\ Calling
    /\ \/ Changed(clear(result, o), [seen.text EXCEPT ![o] = <<>>], {}, {})
       \/ \E n \in Sizes :
             Changed(trimToSize(result, o, n), [seen.text EXCEPT ![o] = SubSeq(@, 1, Min({n, Len(@)}))], {}, {})
       \/ \E n \in Sizes : Changed(reserve(result, o, n), seen.text, {}, {})

StringCall(o) ==
    \/ Construct(o) \/ Concat(o) \/ Assign(o) \/ AppendText(o) \/ Resize(o)
    \/ \E p \in Objects : CopyConstruct(o, p) \/ MoveConstruct(o, p) \/ AssignCopy(o, p) \/ AssignMove(o, p)

Init == call = NoCall /\ result = <<>> /\ seen = <<>>

Call ==
    \/ \E kind \in Kinds, radix \in Radices : Parse(kind, radix)
    \/ \E kind \in Kinds, radix \in ValidRadices, n \in BufferLens :
          \E value \in Values(kind) : Format(kind, value, radix, n)
    \/ \E n \in 1..20 : Digits(n)
    \/ \E s \in Texts, t \in Patterns : Compare(s, t) \/ \E index \in 0..Len(s) : Search(s, t, index)
    \/ \E s \in Texts, c \in Letters : \E index \in 0..Len(s) : SearchChar(s, c, index)
    \/ \E valid \in BOOLEAN, n \in Lengths : CopyText(valid, n)
    \/ \E text \in Lists : List(text)
    \/ Strings

Next ==
    \/ call.fn = "none" /\ Call
    \/ \E c \in Chars : ParseChar(c)
    \/ NextItem
    \/ \E o \in Objects : StringCall(o)

Spec == Init /\ [][Next]_vars

-----------------------------------------------------------------------------
(* Properties. *)

\* A parser accepts a text exactly if it is a sign, where there may be one,
\* and digits of the radix whose value is in the range of the type, and then
\* returns that value: no text of any length wraps around.
ParsesExactlyRange ==
    call.fn = "parse" =>
        LET signed == call.kind \in {"int32", "int64"}
            value == IF seen.negative THEN -seen.value ELSE seen.value
            valid == /\ seen.wellFormed /\ seen.digits
                     /\ seen.negative => signed
                     /\ value \in Values(call.kind)
        IN (IF signed THEN parseIntEnd(result) ELSE parseUintEnd(result)) =
              IF valid THEN <<value, TRUE>> ELSE <<0, FALSE>>

\* A formatted number is parsed as itself, but for zero in a radix other than ten,
\* and the least number of 64 bits where the table is wrong.
FormatParses ==
    call.fn = "format" /\ Len(result.buffer) = result.size =>
        LET wrong == call.kind = "int64" /\ call.value = MinSigned(W64) /\ ~IsPower(int64_min_values[call.radix], call.radix, 63)
            parsed == CASE call.kind = "int32" -> parseInt32(result.buffer, call.radix)
                        [] call.kind = "int64" -> parseInt64(result.buffer, call.radix)
                        [] call.kind = "uint32" -> parseUint32(result.buffer, call.radix)
                        [] call.kind = "uint64" -> parseUint64(result.buffer, call.radix)
        IN wrong \/ (call.value = 0 /\ call.radix # 10) \/ parsed = <<call.value, TRUE>>

\* The tables have the least numbers of 32 bits in every radix, and those of
\* 64 bits in the even ones.
MinTablesExact ==
    call.fn = "none" => \A radix \in ValidRadices :
        /\ IsPower(int32_min_values[radix], radix, 31)
        /\ radix % 2 = 0 => IsPower(int64_min_values[radix], radix, 63)

\* Whatever the buffer's size, no more is written than it or the temporary
\* buffer holds, and the size returned tells whether the text was cut.
BufferRespected ==
    call.fn = "format" =>
        /\ result.size <= result.tempLen
        /\ Len(result.buffer) = Min({result.size, call.bufferLen})

\* The comparisons against powers of ten count the digits of every number of
\* 32 and of 64 bits.
DigitsExact ==
    call.fn = "digits" =>
        /\ call.decades <= 10 => result[1] = call.decades
        /\ result[2] = call.decades

\* compare is antisymmetric and agrees with equals, which the comparison that
\* ignores case only widens by pairs of a letter and its capital, and a text
\* that starts or ends with another has it where a search finds it.
CompareConsistent ==
    call.fn = "compare" =>
        /\ result.compare = -compare(call.t, call.s)
        /\ result.compare = 0 <=> result.equals
        /\ result.equals => result.ignoreCase
        /\ result.ignoreCase /\ ~result.equals =>
              \E i \in DOMAIN call.s : call.s[i] - call.t[i] \in {-32, 32} /\ {call.s[i], call.t[i]} \cap 65..90 # {}
        /\ result.starts <=> Len(call.t) <= Len(call.s) /\ indexOf(call.s, call.t, 0) = 0
        /\ result.ends /\ Len(call.t) > 0 => indexOf(call.s, call.t, Len(call.s) - Len(call.t)) # -1

\* Of the operators of StringRefs, and of a String and a const char*, exactly
\* those hold that one order allows.  Over texts without nulls the second order is
\* that of a dictionary, and the first one agrees with it on texts of which none
\* begins with the other (it has the longer one of those first, where the comments of
\* compare speak of strcmp).  Texts that the comparison without case takes for the
\* same are.
Before(s, t) ==
    \E n \in 0..Min({Len(s), Len(t)}) :
        /\ \A i \in 1..n : s[i] = t[i]
        /\ n < Len(t) /\ (n = Len(s) \/ s[n + 1] < t[n + 1])
Ordered(r) ==
    /\ Cardinality({x \in {"lt", "eq", "gt"} : r[x]}) = 1
    /\ r.le = (r.lt \/ r.eq) /\ r.ge = (r.gt \/ r.eq) /\ r.ne = ~r.eq
OrdersAgree ==
    call.fn = "compare" =>
        LET prefix == startsWith(call.s, call.t) \/ startsWith(call.t, call.s)
        IN /\ Ordered(result.operators)
           /\ \A u \in Patterns : result.operators.lt /\ operators(call.t, u).lt => operators(call.s, u).lt
           /\ 0 \notin Range(call.s) =>
                 /\ Ordered(result.cstrOperators)
                 /\ result.cstrOperators.lt <=> Before(call.s, call.t)
                 /\ ~prefix => result.operators.lt = result.cstrOperators.lt
           /\ result.engCompare = 0 => result.ignoreCase
           /\ result.engCompare = -engCompareIgnoreCase(call.t, call.s)

\* On both sides of the limit indexOf finds the first occurrence from the index
\* on: the skips pass over none.  (From the limit on this is so for patterns that have
\* no character outside the table, but for the last one.)
SearchFindsFirst ==
    call.fn = "search" /\ Len(call.t) > 0
    /\ (Len(call.s) - call.index >= SearchLimit => ~OutsideTable(Front(call.t))) =>
        LET found == {i \in call.index..(Len(call.s) - Len(call.t)) : SubSeq(call.s, i + 1, i + Len(call.t)) = call.t}
        IN result.first = IF found = {} THEN -1 ELSE Min(found)

\* Below the limit lastIndexOf finds the last occurrence that ends before the
\* index.  (Above it the skips pass over some and may be zero.)
SearchFindsLast ==
    call.fn = "search" /\ Len(call.t) > 0 /\ call.index - Len(call.t) < SearchLimit =>
        LET found == {i \in 0..(call.index - Len(call.t)) : SubSeq(call.s, i + 1, i + Len(call.t)) = call.t}
        IN result.last = IF found = {} THEN -1 ELSE Max(found)

\* A search for a character finds what the search for the text of it does.
CharsFound ==
    call.fn = "searchChar" =>
        /\ result.first = indexOf(call.s, <<call.c>>, call.index)
        /\ call.index - 1 < SearchLimit => result.last = lastIndexOf(call.s, <<call.c>>, call.index)

\* A copy for a system call and its null lie within the memory that was taken
\* for it, and error() tells exactly of texts that are empty or not well formed.
\* This is so but for wide copies of texts that have as many characters as the
\* array has elements, or more, and fewer than it has bytes.
Inside(copy) == copy.offset + copy.chars <= copy.room /\ copy.null < copy.room
Misjudged(n) == n \in StatLen..(StatLen * WideSize - 1)
CopiesInside ==
    call.fn = "copy" =>
        /\ Inside(result.narrow)
        /\ ~(call.valid /\ Misjudged(call.length)) =>
              \A copy \in {result.wide, result.path} :
                 /\ Inside(copy)
                 /\ copy.errored <=> ~call.valid \/ call.length = 0
                 /\ ~copy.errored => copy.chars = call.length /\ copy.null = copy.offset + copy.chars

\* The items returned are the stretches between commas in their order, without
\* blanks at their ends; only an empty one at the end of the list is left out.
CommaPositions(text) == {i \in 1..Len(text) : text[i] = COMMA}
Stretch(text, k) ==
    LET commas == SetToSortSeq(CommaPositions(text) \cup {0, Len(text) + 1}, <)
    IN SubSeq(text, commas[k] + 1, commas[k + 1] - 1)
Trimmed(item, stretch) ==
    /\ item # <<>> => ~Blank(item[1]) /\ ~Blank(Last(item))
    /\ SelectSeq(item, LAMBDA c : ~Blank(c)) = SelectSeq(stretch, LAMBDA c : ~Blank(c))
    /\ \E i \in 0..Len(stretch) : item = SubSeq(stretch, i + 1, i + Len(item))
ItemsExact ==
    call.fn = "list" =>
        /\ Len(seen) <= Cardinality(CommaPositions(call.text)) + 1
        /\ \A k \in DOMAIN seen : Trimmed(seen[k], Stretch(call.text, k))
        /\ seen # <<>> /\ result.text = <<>> =>
              \/ Len(seen) = Cardinality(CommaPositions(call.text)) + 1
              \/ Len(seen) = Cardinality(CommaPositions(call.text)) /\ Last(call.text) = COMMA

\* Numbers are parsed and formatted exactly: none wraps, the text is that of the
\* number, cut to the buffer, and the tables it rests on are right.
NumbersExact == ParsesExactlyRange /\ FormatParses /\ MinTablesExact /\ BufferRespected /\ DigitsExact

\* Comparisons, searches and the items of lists are those of their definitions,
\* and copies of texts lie where they may.
StringsExact ==
    CompareConsistent /\ OrdersAgree /\ SearchFindsFirst /\ SearchFindsLast /\ CharsFound /\ ItemsExact /\ CopiesInside

\* Whatever the sequence of calls, every String holds its text with a null behind
\* it, in a block that no other String has, no array is left, no block is used or
\* deleted twice, and none is lost but those of objects that were destroyed or
\* moved to.  This is so as long as nobody copies a long form that holds a short
\* text, appends to a String a part of itself that makes it grow, or assigns to a
\* String a C string in its own block or a part of the text in the object.
StringsSound ==
    call.fn = "strings" /\ seen.loose = {} =>
        /\ ~result.bad
        /\ \A o \in Objects :
              /\ SubSeq(Cells(result, getPtr(result, o)), 1, length(result, o) + 1) = Append(seen.text[o], NUL)
              /\ \A p \in Objects \ {o} : Owned(o) \cap Owned(p) = {}
        /\ {b \in DOMAIN result.heap : result.heap[b] # <<>>} = seen.lost \cup UNION {Owned(o) : o \in Objects}
==============================================================================
