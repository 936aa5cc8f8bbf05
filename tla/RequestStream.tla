--------------------------- MODULE RequestStream ---------------------------
(***************************************************************************)
(* What a client sends on one HTTP/1 connection, as HttpConnection and the *)
(* body readers see it through a BufferedReader.  The unit is a line with  *)
(* its end, of which its meaning is kept, or a byte of content that ends   *)
(* no line; content may look like lines too.  Lengths count units.         *)
(*                                                                         *)
(* A unit also says which of the client's requests it belongs to and       *)
(* whether it is content.  The program does not see that; the properties   *)
(* compare what it does with it.                                           *)
(***************************************************************************)
EXTENDS Naturals, Sequences

CONSTANTS
    Inputs,     \* the streams of units clients may send
    Failures    \* whether reads of the socket may fail

VARIABLES
    input,      \* the stream of this client
    pos         \* the position of the next unit to read

streamVars == <<input, pos>>

LineKinds == {"request", "badRequest", "header", "padded", "noColon", "blank", "chunk"}

\* Fields of a unit: n is a length or a status, v a version or a header.
Versions == {"1.0", "1.1"}
SpecialHeaders ==
    {"Content-Length", "bad Content-Length", "chunked", "identity", "close",
     "keep-alive", "close, keep-alive", "Host", "other"}
Unit == [kind : LineKinds \cup {"byte", "mixed", "preface"}, v : Versions \cup SpecialHeaders,
         n : Nat, req : Nat, data : BOOLEAN]

AtEnd == pos > Len(input)

\* The first unit from pos on that ends a line, or the last one there is.
LineEnd ==
    LET ends == {p \in pos .. Len(input) : input[p].kind \in LineKinds}
    IN  IF ends = {} THEN Len(input) ELSE CHOOSE p \in ends : \A q \in ends : p <= q

\* The line readLine returns: one unit, or one with other bytes before it.
NextLine ==
    IF LineEnd = pos /\ input[pos].kind \in LineKinds
      THEN input[pos] ELSE [input[pos] EXCEPT !.kind = "mixed"]

-----------------------------------------------------------------------------
(* The operations of the BufferedReader as their callers see them.         *)

\* readLine fails at the end of the stream, for a line over the limit and when
\* the socket does.
LineFails(err) ==
    \/ AtEnd /\ err = "Eof"
    \/ Failures /\ err \in {"IoError", "LineTooLong"}

LineRead ==
    /\ ~AtEnd
    /\ pos' = LineEnd + 1
    /\ UNCHANGED input

ReadFails(err) ==
    \/ AtEnd /\ err = "Eof"
    \/ Failures /\ err = "IoError"

\* read hands over some of the next units, as many as there is room for at most.
Readable(n) == {m \in 1 .. n : pos + m - 1 <= Len(input)}

Advance(m) ==
    /\ pos' = pos + m
    /\ UNCHANGED input

Units(m) == [i \in 1 .. m |-> pos + i - 1]

-----------------------------------------------------------------------------
(* What the client means.                                                  *)

\* Where its k-th request begins, or the stream ends.
StartIn(s, k) ==
    CHOOSE p \in 1 .. (Len(s) + 1) :
        /\ p <= Len(s) => s[p].req >= k
        /\ \A q \in 1 .. (p - 1) : s[q].req < k

Start(k) == StartIn(input, k)

\* The content of its k-th request.
Content(k) == {p \in Start(k) .. (Start(k + 1) - 1) : input[p].data}

-----------------------------------------------------------------------------
(* What makes the labels of a stream right: its requests follow one        *)
(* another, and each is framed as its own headers say, as far as the       *)
(* stream goes.  A request without a request line or with other lines      *)
(* among its headers has no framing, nor has what comes after a line among *)
(* its chunks that should not be there.                                    *)

Numbered(s) ==
    \A p \in DOMAIN s :
        IF p = 1 THEN s[p].req = 1 ELSE s[p].req \in {s[p - 1].req, s[p - 1].req + 1}

IsLine(u) == ~u.data /\ u.kind \in LineKinds

\* Up to the blank line a request that begins at a and ends before e has only
\* lines.
HeadFramed(s, a, e) ==
    /\ ~s[a].data
    /\ \A p \in a .. (e - 1) :
         p < Len(s) /\ (\A q \in a .. p : s[q].kind # "blank") => p + 1 < e /\ IsLine(s[p + 1])

\* The word of the header line at p: another one if it goes on in the next line.
\* (No client here folds a header so that the next line makes it a valid one.)
GoneOn(v) ==
    CASE v = "Content-Length" -> "bad Content-Length"
      [] v = "chunked" -> "identity"
      [] OTHER -> v

Word(s, p) == IF s[p + 1].kind = "padded" THEN GoneOn(s[p].v) ELSE s[p].v

\* The header lines between a and h with one of these words.
Lines(s, a, h, words) ==
    {p \in (a + 1) .. (h - 1) : s[p].kind = "header" /\ Word(s, p) \in words}

\* Of several the last one counts.
LastIn(s, a, h, words, p) ==
    p \in Lines(s, a, h, words) /\ \A q \in Lines(s, a, h, words) : q <= p

SaysChunked(s, a, h) ==
    \E p \in Lines(s, a, h, {"chunked"}) : LastIn(s, a, h, {"chunked", "identity"}, p)

\* The n units from p on, as far as there are so many, are content.
DataFrom(s, e, p, n) == \A q \in p .. (p + n - 1) : q <= Len(s) => q < e /\ s[q].data

IsBlank(u) == ~u.data /\ u.kind = "blank"
IsSize(u) == ~u.data /\ u.kind = "chunk"

\* A line with the size of a chunk at p, if it is one, belongs to the request, ...
SizeAt(s, e, p) == p <= Len(s) /\ s[p].kind = "chunk" => p < e /\ ~s[p].data

\* ... and so does a blank line behind a chunk, with the next chunk behind it.
ChunkEnds(s, e, p) ==
    p <= Len(s) /\ s[p].kind = "blank" => p < e /\ ~s[p].data /\ SizeAt(s, e, p + 1)

\* Behind the last chunk come other lines up to a blank one, the last of the request.
Trailers(s, e, p) ==
    /\ \A q \in p .. (e - 1) : IsLine(s[q]) /\ (s[q].kind = "blank" => q = e - 1)
    /\ e <= Len(s) => p < e /\ IsBlank(s[e - 1])

ChunkFramed(s, e, p) ==
    IF s[p].n = 0 THEN Trailers(s, e, p + 1)
    ELSE DataFrom(s, e, p + 1, s[p].n) /\ ChunkEnds(s, e, p + s[p].n + 1)

\* Content of n units from p on, if there are so many.
LengthFramed(s, e, p, n) ==
    /\ e = IF p + n <= Len(s) THEN p + n ELSE Len(s) + 1
    /\ DataFrom(s, e, p, n)

\* The content of a request with the blank line at h.
BodyFramed(s, a, h, e) ==
    IF SaysChunked(s, a, h)
      THEN /\ SizeAt(s, e, h + 1)
           /\ \A p \in (h + 1) .. (e - 1) : IsSize(s[p]) => ChunkFramed(s, e, p)
    ELSE IF Lines(s, a, h, {"Content-Length"}) # {}
      THEN \A p \in Lines(s, a, h, {"Content-Length"}) :
             LastIn(s, a, h, {"Content-Length"}, p) => LengthFramed(s, e, h + 1, s[p].n)
    ELSE e = h + 1

Framed(s) ==
    /\ Numbered(s)
    /\ \A i \in DOMAIN s :
         LET a == StartIn(s, s[i].req)
             e == StartIn(s, s[i].req + 1)
         IN  s[a].kind = "request" =>
               /\ HeadFramed(s, a, e)
               /\ \A h \in a .. (e - 1) :
                    /\ s[h].kind = "blank"
                    /\ \A q \in (a + 1) .. (h - 1) : s[q].kind \in {"header", "padded"}
                    => BodyFramed(s, a, h, e)

\* A request line has a version, a header line a header, and a line that is no
\* request line the status that parseRequestLine finds for it.
ASSUME StreamAssumption ==
    /\ Failures \in BOOLEAN
    /\ Inputs \subseteq Seq(Unit)
    /\ \A s \in Inputs : \A i \in DOMAIN s :
         /\ s[i].kind = "request" => s[i].v \in Versions
         /\ s[i].kind = "header" => s[i].v \in SpecialHeaders
         /\ s[i].kind = "badRequest" => s[i].n \in {400, 501, 505}

\* The labels of the streams are right.
ASSUME FramingAssumption == \A s \in Inputs : Framed(s)
=============================================================================
