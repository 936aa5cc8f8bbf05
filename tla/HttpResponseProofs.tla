------------------------- MODULE HttpResponseProofs -------------------------
(***************************************************************************)
(* The theorems about HttpResponse, for every set of lengths and sizes and *)
(* handlers that make any number of calls.  IInv says for each of the      *)
(* writers what it has sent; what the client has got follows from it.      *)
(***************************************************************************)
EXTENDS HttpResponse, WellFoundedInduction, NaturalsInduction, TLAPS

Destroyed == phase = "destroyed"
IsHead(p) == p.kind = "head"

\* Until the response is begun nothing has been done with it.
Fresh ==
    respStatus = "HEADERS" =>
        /\ httpOutputStream = "null" /\ wire = << >>
        /\ left = 0 /\ contentBuffer = 0 /\ careless = {}
        /\ ~broken /\ ~unanswered /\ phase # "returned"

\* There is one writer, and who has not got it has done nothing with it.
OneWriter ==
    /\ initialised = IF httpOutputStream = "null" THEN {} ELSE {httpOutputStream}
    /\ httpOutputStream \in {"null", "length"} => closed = {}
    /\ httpOutputStream = "null" => ~holds /\ given = 0 /\ ended = "open"
    /\ ended = "Ok" /\ httpOutputStream # "length" => closed # {}

\* A response without a writer is at most a head, which announces nothing.
NullWire ==
    httpOutputStream = "null" =>
        /\ Content(wire) = 0
        /\ wire # << >> =>
             /\ Len(wire) = 1 /\ IsHead(wire[1])
             /\ LengthHeaders(wire[1].headers) = {} /\ ~EndsChunked(wire[1].headers)

\* What a ContentLengthWriter has sent and what is left are the length announced.
LengthWire ==
    httpOutputStream = "length" =>
        /\ Content(wire) = given
        /\ wire = << >> => broken
        /\ wire # << >> =>
             /\ IsHead(wire[1])
             /\ \A i \in Body : wire[i].kind = "data"
             /\ "both" \in careless \/ ~EndsChunked(wire[1].headers)
             /\ \E i \in DOMAIN wire[1].headers :
                  /\ LengthHeaders(wire[1].headers) = {i}
                  /\ given + left = wire[1].headers[i][2]

\* A ChunkedWriter sends chunks, and the last one when it is closed or destroyed.
ChunkedWire ==
    httpOutputStream = "chunked" =>
        /\ Content(wire) = given
        /\ wire = << >> => broken
        /\ wire # << >> =>
             /\ IsHead(wire[1]) /\ EndsChunked(wire[1].headers)
             /\ \A i \in Body : wire[i].kind \in {"chunk", "last"}
        /\ careless = {} =>
             /\ \A i \in Body : wire[i].kind = "last" => i = Len(wire) /\ (Destroyed \/ closed # {})
             /\ (Destroyed \/ closed # {}) /\ ~broken => wire[Len(wire)].kind = "last"

\* A BufferedContentLengthWriter sends nothing before it is closed, and then head
\* and content at once.
BufferedWire ==
    httpOutputStream = "buffered" =>
        /\ given = contentBuffer
        /\ careless = {} => LengthHeaders(headers) = {} /\ Encodings(headers) = {}
        /\ closed = {} /\ ~Destroyed => wire = << >>
        /\ closed = {} /\ wire # << >> => "garbage" \in Kinds
        /\ closed = {} /\ Destroyed /\ wire = << >> => broken
        /\ closed # {} =>
             /\ wire = << >> => broken
             /\ wire # << >> =>
                  /\ Content(wire) = given
                  /\ IsHead(wire[1])
                  /\ given = 0 => Len(wire) = 1
                  /\ given # 0 => Len(wire) = 2 /\ wire[2].kind = "data"
                  /\ careless = {} =>
                       /\ ~EndsChunked(wire[1].headers)
                       /\ given = 0 => LengthHeaders(wire[1].headers) = {}
                       /\ given # 0 => \E i \in DOMAIN wire[1].headers :
                            LengthHeaders(wire[1].headers) = {i} /\ wire[1].headers[i][2] = given

\* A response that is begun has a head, or will get it, or somebody was told why not.
BegunIsAnswered ==
    /\ phase = "handler" => result = "none"
    /\ respStatus = "CLOSED" /\ ~broken /\ ~unanswered /\ result \in {"none", "Ok"} =>
         wire # << >> \/ (httpOutputStream = "buffered" /\ closed = {})

IInv == TypeOK /\ Fresh /\ OneWriter /\ NullWire /\ LengthWire /\ ChunkedWire /\ BufferedWire /\ BegunIsAnswered

-----------------------------------------------------------------------------
\* A set of numbers that is not empty has a least one.
LEMMA LeastNumber ==
  ASSUME NEW T, T \subseteq Nat, T # {}
  PROVE  \E m \in T : \A n \in T : ~(n < m)
  <1> DEFINE R == {ss \in Nat \X Nat : ss[1] < ss[2]}
  <1>1. IsWellFoundedOn(R, Nat)
    BY NatLessThanWellFounded DEF OpToRel
  <1>2. \E m \in T : \A n \in T : ~(<<n, m>> \in R)
    <2> HIDE DEF R
    <2> QED
      BY <1>1, WFMin
  <1> QED
    BY <1>2

\* Induction over the numbers, for a set instead of a predicate.
LEMMA NumbersFromZero ==
  ASSUME NEW S, 0 \in S, \A n \in Nat : n \in S => n + 1 \in S
  PROVE  Nat \subseteq S
  <1> DEFINE T == {n \in Nat : n \notin S}
  <1> SUFFICES ASSUME T # {} PROVE FALSE
    OBVIOUS
  <1>1. PICK m \in T : \A n \in T : ~(n < m)
    BY LeastNumber
  <1>2. m # 0 /\ m - 1 \in Nat /\ m - 1 < m
    BY <1>1
  <1>3. m - 1 \in S
    BY <1>1, <1>2
  <1> QED
    BY <1>1, <1>2, <1>3

-----------------------------------------------------------------------------
(* How much content there is in pieces: the function by which Content is   *)
(* defined exists and there is only one.                                   *)

\* f sums up the first n pieces.
Sums(f, pieces, n) == \A i \in 0 .. n : f[i] = IF i = 0 THEN 0 ELSE f[i - 1] + pieces[i].n

\* There is such a function.
LEMMA SumsExist ==
  ASSUME NEW pieces \in Seq(Pieces), NEW n \in Nat, n <= Len(pieces)
  PROVE  \E f \in [0 .. n -> Nat] : Sums(f, pieces, n)
  <1> DEFINE S == {m \in Nat : m <= Len(pieces) => \E f \in [0 .. m -> Nat] : Sums(f, pieces, m)}
  <1>1. 0 \in S
    <2> DEFINE f == [i \in 0 .. 0 |-> 0]
    <2>1. Sums(f, pieces, 0)
      BY DEF Sums
    <2> QED
      BY <2>1
  <1>2. ASSUME NEW m \in Nat, m \in S PROVE m + 1 \in S
    <2> SUFFICES ASSUME m + 1 <= Len(pieces) PROVE \E f \in [0 .. (m + 1) -> Nat] : Sums(f, pieces, m + 1)
      OBVIOUS
    <2>1. PICK f \in [0 .. m -> Nat] : Sums(f, pieces, m)
      BY <1>2
    <2>2. pieces[m + 1].n \in Nat
      <3>1. pieces[m + 1] \in Pieces
        OBVIOUS
      <3> QED
        BY <3>1 DEF Pieces
    <2> DEFINE g == [i \in 0 .. (m + 1) |-> IF i = m + 1 THEN f[m] + pieces[m + 1].n ELSE f[i]]
    <2>3. g \in [0 .. (m + 1) -> Nat]
      BY <2>1, <2>2
    <2>4. \A i \in 0 .. (m + 1) : g[i] = IF i = 0 THEN 0 ELSE g[i - 1] + pieces[i].n
      BY <2>1 DEF Sums
    <2> QED
      BY <2>3, <2>4 DEF Sums
  <1> HIDE DEF S
  <1>3. Nat \subseteq S
    BY <1>1, <1>2, NumbersFromZero
  <1> QED
    BY <1>3 DEF S

\* Sums of sequences agree as far as the sequences do.
LEMMA SumsAgree ==
  ASSUME NEW p \in Seq(Pieces), NEW q \in Seq(Pieces), Len(p) <= Len(q),
         \A i \in 1 .. Len(p) : p[i] = q[i],
         NEW f, Sums(f, p, Len(p)), NEW g, Sums(g, q, Len(q))
  PROVE  f[Len(p)] = g[Len(p)]
  <1> DEFINE S == {i \in Nat : i <= Len(p) => f[i] = g[i]}
  <1>1. 0 \in S
    BY DEF Sums
  <1>2. ASSUME NEW i \in Nat, i \in S PROVE i + 1 \in S
    <2> SUFFICES ASSUME i + 1 <= Len(p) PROVE f[i + 1] = g[i + 1]
      OBVIOUS
    <2>1. f[i] = g[i] /\ p[i + 1] = q[i + 1]
      BY <1>2
    <2>2. f[i + 1] = f[i] + p[i + 1].n
      BY DEF Sums
    <2>3. g[i + 1] = g[i] + q[i + 1].n
      BY DEF Sums
    <2> QED
      BY <2>1, <2>2, <2>3
  <1> HIDE DEF S
  <1>3. Nat \subseteq S
    BY <1>1, <1>2, NumbersFromZero
  <1> QED
    BY <1>3 DEF S

\* Content is the last of the sums.
LEMMA ContentIs ==
  ASSUME NEW pieces \in Seq(Pieces)
  PROVE  \E f \in [0 .. Len(pieces) -> Nat] :
           Sums(f, pieces, Len(pieces)) /\ Content(pieces) = f[Len(pieces)]
  <1> DEFINE G(f) == [i \in 0 .. Len(pieces) |-> IF i = 0 THEN 0 ELSE f[i - 1] + pieces[i].n]
             sum == CHOOSE f : f = G(f)
  <1>1. Content(pieces) = sum[Len(pieces)]
    BY DEF Content
  <1>2. PICK f \in [0 .. Len(pieces) -> Nat] : Sums(f, pieces, Len(pieces))
    BY SumsExist
  <1>3. f = G(f)
    BY <1>2 DEF Sums
  <1>4. sum = G(sum)
    BY <1>3
  <1>5. Sums(sum, pieces, Len(pieces))
    <2> HIDE DEF sum
    <2> QED
      BY <1>4 DEF Sums
  <1> HIDE DEF sum
  <1>6. sum[Len(pieces)] = f[Len(pieces)]
    BY <1>2, <1>5, SumsAgree
  <1> QED
    BY <1>1, <1>2, <1>6

\* No pieces have no content.
LEMMA ContentOfNone == Content(<< >>) = 0
  <1>1. << >> \in Seq(Pieces) /\ Len(<< >>) = 0
    OBVIOUS
  <1>2. PICK f \in [0 .. 0 -> Nat] : Sums(f, << >>, 0) /\ Content(<< >>) = f[0]
    BY <1>1, ContentIs
  <1> QED
    BY <1>2 DEF Sums

\* One more piece: what it does to the sequence and to its content.
LEMMA OneMore ==
  ASSUME NEW pieces \in Seq(Pieces), NEW p \in Pieces
  PROVE  LET more == pieces \o <<p>>
         IN  /\ more \in Seq(Pieces) /\ more # << >>
             /\ Len(more) = Len(pieces) + 1
             /\ \A i \in 1 .. Len(pieces) : more[i] = pieces[i]
             /\ more[Len(pieces) + 1] = p
             /\ Content(more) = Content(pieces) + p.n /\ Content(pieces) \in Nat
  <1> DEFINE more == pieces \o <<p>>
  <1>1. /\ more \in Seq(Pieces) /\ Len(more) = Len(pieces) + 1
        /\ \A i \in 1 .. Len(pieces) : more[i] = pieces[i]
        /\ more[Len(pieces) + 1] = p
    OBVIOUS
  <1> HIDE DEF more
  <1>2. more # << >>
    BY <1>1
  <1>3. PICK f \in [0 .. Len(pieces) -> Nat] : Sums(f, pieces, Len(pieces)) /\ Content(pieces) = f[Len(pieces)]
    BY ContentIs
  <1>4. PICK g \in [0 .. Len(more) -> Nat] : Sums(g, more, Len(more)) /\ Content(more) = g[Len(more)]
    BY <1>1, ContentIs
  <1>5. f[Len(pieces)] = g[Len(pieces)]
    <2>1. Len(pieces) <= Len(more) /\ \A i \in 1 .. Len(pieces) : pieces[i] = more[i]
      BY <1>1
    <2> QED
      BY <1>1, <1>3, <1>4, <2>1, SumsAgree
  <1>6. g[Len(more)] = g[Len(pieces)] + p.n
    BY <1>1, <1>4 DEF Sums
  <1> QED
    BY <1>1, <1>2, <1>3, <1>4, <1>5, <1>6 DEF more

\* A head and a piece of content at once.
LEMMA HeadAndData ==
  ASSUME NEW h \in Pieces, h.n = 0, NEW d \in Pieces
  PROVE  /\ <<h, d>> \in Seq(Pieces) /\ <<h, d>> # << >> /\ Len(<<h, d>>) = 2
         /\ <<h, d>>[1] = h /\ <<h, d>>[2] = d
         /\ Content(<<h, d>>) = d.n /\ << >> \o <<h, d>> = <<h, d>>
  <1> DEFINE two == <<h, d>>
  <1>1. /\ two \in Seq(Pieces) /\ two # << >> /\ Len(two) = 2 /\ two[1] = h /\ two[2] = d
        /\ << >> \o two = two
    OBVIOUS
  <1>2. d.n \in Nat
    BY DEF Pieces
  <1> HIDE DEF two
  <1>3. PICK f \in [0 .. 2 -> Nat] : Sums(f, two, 2) /\ Content(two) = f[2]
    BY <1>1, ContentIs
  <1>4. f[2] = f[1] + d.n /\ f[1] = f[0] + 0 /\ f[0] = 0
    BY <1>1, <1>3 DEF Sums
  <1> QED
    BY <1>1, <1>2, <1>3, <1>4 DEF two

\* The head is a piece, and so are the others.
LEMMA PiecesTyped ==
  /\ \A hs \in Seq(HeaderNames \X Nat) : HeadPiece(hs) \in Pieces /\ HeadPiece(hs).n = 0
       /\ IsHead(HeadPiece(hs)) /\ HeadPiece(hs).headers = hs
  /\ \A k \in {"data", "chunk", "last", "garbage"}, m \in Nat :
       Piece(k, m) \in Pieces /\ Piece(k, m).n = m /\ Piece(k, m).kind = k
  BY DEF Pieces, HeadPiece, Piece, IsHead

-----------------------------------------------------------------------------
(* What the headers announce                                               *)

\* A valid length is the only one.
LEMMA LengthIsOne ==
  ASSUME headers \in Seq(HeaderNames \X Nat), setContentLength, ~InvalidHeader
  PROVE  \E i \in DOMAIN headers : LengthHeaders(headers) = {i} /\ contentLength = headers[i][2] /\ contentLength \in Nat
  <1>1. PICK i \in LengthHeaders(headers) : TRUE
    BY DEF setContentLength
  <1>2. LengthHeaders(headers) = {i}
    BY <1>1 DEF InvalidHeader
  <1>3. contentLength = headers[i][2]
    BY <1>2 DEF contentLength
  <1>4. i \in DOMAIN headers
    BY <1>1 DEF LengthHeaders, Indices
  <1>5. headers[i] \in HeaderNames \X Nat
    BY <1>4
  <1> QED
    BY <1>2, <1>3, <1>4, <1>5

\* Without an encoding nothing ends with one.
LEMMA NoEncodings == ASSUME NEW hs, Encodings(hs) = {} PROVE ~EndsChunked(hs)
  BY DEF EndsChunked, Encodings, Indices

\* What a sequence is with one more header.
LEMMA HeaderAdded ==
  ASSUME NEW hs \in Seq(HeaderNames \X Nat), NEW h \in HeaderNames \X Nat
  PROVE  LET more == Append(hs, h)
         IN  /\ more \in Seq(HeaderNames \X Nat) /\ Len(hs) \in Nat /\ Len(more) = Len(hs) + 1
             /\ more[Len(hs) + 1] = h
             /\ DOMAIN more = 1 .. (Len(hs) + 1) /\ DOMAIN hs = 1 .. Len(hs)
             /\ \A i \in DOMAIN hs : more[i] = hs[i]
  <1> DEFINE Header == HeaderNames \X Nat
  <1> HIDE DEF Header
  <1>1. ASSUME NEW s \in Seq(Header), NEW x \in Header
        PROVE  /\ Append(s, x) \in Seq(Header) /\ Len(s) \in Nat /\ Len(Append(s, x)) = Len(s) + 1
               /\ Append(s, x)[Len(s) + 1] = x
               /\ DOMAIN Append(s, x) = 1 .. (Len(s) + 1) /\ DOMAIN s = 1 .. Len(s)
               /\ \A i \in DOMAIN s : Append(s, x)[i] = s[i]
    OBVIOUS
  <1> QED
    BY <1>1 DEF Header

\* The headers that the response may add, and the handler.
LEMMA HeadersTyped ==
  /\ <<"chunked", 0>> \in HeaderNames \X Nat
  /\ \A m \in Nat : <<"Content-Length", m>> \in HeaderNames \X Nat
  /\ HeaderChoices \subseteq HeaderNames \X Nat
  <1>1. ASSUME NEW h \in HeaderChoices PROVE h \in HeaderNames \X Nat
    <2>1. CASE \E n \in Lengths : h = <<"Content-Length", n>>
      <3>1. PICK n \in Lengths : h = <<"Content-Length", n>>
        BY <2>1
      <3>2. n \in Nat /\ "Content-Length" \in HeaderNames
        BY ResponseAssumption DEF HeaderNames
      <3> QED
        BY <3>1, <3>2
    <2>2. CASE \E k \in HeaderNames : h = <<k, 0>>
      BY <2>2
    <2> QED
      BY <2>1, <2>2 DEF HeaderChoices
  <1>2. <<"chunked", 0>> \in HeaderNames \X Nat /\ \A m \in Nat : <<"Content-Length", m>> \in HeaderNames \X Nat
    BY DEF HeaderNames
  <1> QED
    BY <1>1, <1>2

\* The header that getOutputStream adds for HTTP/1.1 counts.
LEMMA ChunkedAdded ==
  ASSUME NEW hs \in Seq(HeaderNames \X Nat)
  PROVE  /\ Append(hs, <<"chunked", 0>>) \in Seq(HeaderNames \X Nat)
         /\ EndsChunked(Append(hs, <<"chunked", 0>>))
  <1> DEFINE more == Append(hs, <<"chunked", 0>>)
  <1>1. /\ more \in Seq(HeaderNames \X Nat) /\ DOMAIN more = 1 .. (Len(hs) + 1) /\ Len(hs) \in Nat
        /\ more[Len(hs) + 1] = <<"chunked", 0>>
    BY HeaderAdded, HeadersTyped
  <1> HIDE DEF more
  <1>2. Len(hs) + 1 \in Indices(more, {"chunked"})
    BY <1>1 DEF Indices
  <1>3. \A j \in Encodings(more) : j <= Len(hs) + 1
    BY <1>1 DEF Encodings, Indices
  <1>4. EndsChunked(more)
    BY <1>2, <1>3 DEF EndsChunked
  <1> QED
    BY <1>1, <1>4 DEF more

\* So does the one that a BufferedContentLengthWriter adds.
LEMMA LengthAdded ==
  ASSUME NEW hs \in Seq(HeaderNames \X Nat), NEW m \in Nat
  PROVE  LET more == Append(hs, <<"Content-Length", m>>)
         IN  /\ more \in Seq(HeaderNames \X Nat)
             /\ LengthHeaders(hs) = {} /\ Encodings(hs) = {} =>
                  /\ ~EndsChunked(more)
                  /\ \E i \in DOMAIN more : LengthHeaders(more) = {i} /\ more[i][2] = m
  <1> DEFINE more == Append(hs, <<"Content-Length", m>>)
  <1>1. /\ more \in Seq(HeaderNames \X Nat) /\ Len(hs) \in Nat
        /\ more[Len(hs) + 1] = <<"Content-Length", m>>
        /\ DOMAIN more = 1 .. (Len(hs) + 1) /\ DOMAIN hs = 1 .. Len(hs)
        /\ \A i \in DOMAIN hs : more[i] = hs[i]
    BY HeaderAdded, HeadersTyped
  <1> HIDE DEF more
  <1>2. ASSUME LengthHeaders(hs) = {}, Encodings(hs) = {}
        PROVE  ~EndsChunked(more) /\ \E i \in DOMAIN more : LengthHeaders(more) = {i} /\ more[i][2] = m
    <2>0. \A i \in DOMAIN more : i \in DOMAIN hs \/ i = Len(hs) + 1
      BY <1>1
    <2>1. Encodings(more) = {}
      BY <1>1, <1>2, <2>0 DEF Encodings, Indices
    <2>2. \A i \in DOMAIN more : more[i][1] = "Content-Length" <=> i = Len(hs) + 1
      BY <1>1, <1>2, <2>0 DEF LengthHeaders, Indices
    <2>3. LengthHeaders(more) = {Len(hs) + 1}
      BY <1>1, <2>2 DEF LengthHeaders, Indices
    <2> QED
      BY <1>1, <2>1, <2>3, NoEncodings
  <1> QED
    BY <1>1, <1>2 DEF more

-----------------------------------------------------------------------------
(* What a write to the socket does                                         *)

\* One more piece has been sent, or the socket has failed.
LEMMA SendOne ==
  ASSUME TypeOK, NEW p \in Pieces, NEW err, Send(<<p>>, err)
  PROVE  /\ broken' \in BOOLEAN /\ wire' \in Seq(Pieces) /\ Content(wire) \in Nat
         /\ \/ /\ err = "Ok" /\ ~broken /\ ~broken'
               /\ wire' # << >> /\ Len(wire') = Len(wire) + 1
               /\ \A i \in 1 .. Len(wire) : wire'[i] = wire[i]
               /\ wire'[Len(wire) + 1] = p
               /\ Content(wire') = Content(wire) + p.n
            \/ err = "IoError" /\ broken' /\ wire' = wire
  <1>1. wire \in Seq(Pieces) /\ broken \in BOOLEAN
    BY DEF TypeOK
  <1>2. CASE err = "Ok" /\ ~broken /\ wire' = wire \o <<p>> /\ UNCHANGED broken
    BY <1>1, <1>2, OneMore
  <1>3. CASE err = "IoError" /\ broken' = TRUE /\ UNCHANGED wire
    BY <1>1, <1>3, OneMore
  <1> QED
    BY <1>2, <1>3 DEF Send

\* The head has been sent first, or the socket has failed.
LEMMA SendHead ==
  ASSUME TypeOK, wire = << >>, NEW hs \in Seq(HeaderNames \X Nat), NEW err, writeHeaders(hs, err)
  PROVE  /\ broken' \in BOOLEAN /\ wire' \in Seq(Pieces) /\ Content(wire') = 0
         /\ \/ /\ err = "Ok" /\ ~broken'
               /\ wire' # << >> /\ Len(wire') = 1
               /\ IsHead(wire'[1]) /\ wire'[1].headers = hs
            \/ err = "IoError" /\ broken' /\ wire' = << >>
  <1>1. HeadPiece(hs) \in Pieces /\ HeadPiece(hs).n = 0 /\ IsHead(HeadPiece(hs)) /\ HeadPiece(hs).headers = hs
    BY PiecesTyped
  <1>2. Send(<<HeadPiece(hs)>>, err)
    BY DEF writeHeaders
  <1>3. Content(wire) = 0 /\ Len(wire) = 0
    BY ContentOfNone
  <1> QED
    BY <1>1, <1>2, <1>3, SendOne

-----------------------------------------------------------------------------
\* A response that is made satisfies the invariant.
LEMMA InitIInv == Init => IInv
  <1> SUFFICES ASSUME Init PROVE IInv
    OBVIOUS
  <1> USE ResponseAssumption DEF Init
  <1>1. TypeOK
    <2>1. broken \in BOOLEAN /\ holds \in BOOLEAN /\ unanswered \in BOOLEAN
      BY Zenon
    <2>2. headers \in Seq(HeaderNames \X Nat) /\ wire \in Seq(Pieces)
      OBVIOUS
    <2> QED
      BY <2>1, <2>2 DEF TypeOK
  <1>2. Fresh /\ OneWriter /\ NullWire /\ LengthWire /\ ChunkedWire /\ BufferedWire
    BY ContentOfNone DEF Fresh, OneWriter, NullWire, LengthWire, ChunkedWire, BufferedWire
  <1>3. BegunIsAnswered
    BY DEF BegunIsAnswered
  <1> QED
    BY <1>1, <1>2, <1>3 DEF IInv

\* setStatus does not matter to the invariant.
LEMMA StatusPreserved == ASSUME IInv, NEW s \in {"good", "bad"}, setStatus(s) PROVE IInv'
  <1> USE DEF IInv, setStatus, Call
  <1>1. TypeOK'
    BY ResponseAssumption DEF TypeOK
  <1>2. Fresh' /\ OneWriter' /\ NullWire' /\ LengthWire' /\ ChunkedWire' /\ BufferedWire'
    BY DEF Fresh, OneWriter, NullWire, LengthWire, ChunkedWire, BufferedWire, Body, Kinds, Destroyed
  <1>3. BegunIsAnswered'
    BY DEF BegunIsAnswered
  <1> QED
    BY <1>1, <1>2, <1>3

\* addHeader is careless when the response has begun, and else precedes everything.
LEMMA HeaderPreserved == ASSUME IInv, NEW h \in HeaderChoices, addHeader(h) PROVE IInv'
  <1> USE DEF IInv, addHeader, Call
  <1>0. headers' \in Seq(HeaderNames \X Nat)
    BY HeadersTyped, HeaderAdded DEF TypeOK
  <1>1. TypeOK'
    BY <1>0, ResponseAssumption DEF TypeOK
  <1>2. Fresh' /\ OneWriter' /\ NullWire' /\ BegunIsAnswered'
    BY DEF Fresh, OneWriter, NullWire, BegunIsAnswered
  <1>3. LengthWire' /\ ChunkedWire'
    BY DEF TypeOK, Fresh, LengthWire, ChunkedWire, Body, Destroyed
  <1>4. BufferedWire'
    BY DEF TypeOK, Fresh, BufferedWire, Kinds, Destroyed
  <1> QED
    BY <1>1, <1>2, <1>3, <1>4

\* What parseHeaders and the choice of the writer leave when the headers are valid.
LEMMA BegunWith ==
  ASSUME IInv, respStatus = "HEADERS", ~InvalidHeader, parseHeaders
  PROVE  /\ left' \in Nat /\ careless' \in SUBSET {"both"}
         /\ Chosen = "length" =>
              /\ "both" \in careless' \/ ~EndsChunked(headers)
              /\ \E i \in DOMAIN headers : LengthHeaders(headers) = {i} /\ left' = headers[i][2]
         /\ Chosen = "chunked" => EndsChunked(headers)
         /\ Chosen = "null" => LengthHeaders(headers) = {} /\ ~EndsChunked(headers)
         /\ Chosen = "null" /\ version = "1.0" => Encodings(headers) = {}
         /\ Chosen \in {"null", "length", "chunked"}
  <1> USE DEF IInv, Fresh, parseHeaders, setTeChunked, Chosen
  <1>1. CASE setContentLength
    <2>1. PICK i \in DOMAIN headers : LengthHeaders(headers) = {i} /\ contentLength = headers[i][2] /\ contentLength \in Nat
      BY <1>1, LengthIsOne DEF TypeOK
    <2> QED
      BY <1>1, <2>1
  <1>2. CASE ~setContentLength
    <2>1. LengthHeaders(headers) = {} /\ left' = 0 /\ careless' = {}
      BY <1>2 DEF setContentLength
    <2>2. version = "1.0" => Encodings(headers) = {}
      BY DEF InvalidHeader
    <2>3. CASE setTeChunked
      BY <1>2, <2>1, <2>3
    <2>4. CASE ~setTeChunked
      BY <1>2, <2>1, <2>2, <2>4
    <2> QED
      BY <2>3, <2>4
  <1> QED
    BY <1>1, <1>2

\* A head has been sent for the writer that the headers ask for, or it has failed.
LEMMA HeadSent ==
  ASSUME IInv, respStatus = "HEADERS", ~InvalidHeader, parseHeaders,
         respStatus' = "CLOSED", httpOutputStream' = Chosen,
         initialised' = IF Chosen = "null" THEN {} ELSE {Chosen},
         NEW err, writeHeaders(headers, err),
         UNCHANGED <<version, status, headers, closed, contentBuffer, given, ended>>,
         calls' \in 0 .. MaxCalls, phase' \in {"handler", "returned"},
         phase' = "handler" => result' = "none", result' \in {"none", "Ok", "IoError", "InvalidHeader"},
         holds' \in BOOLEAN, unanswered' \in BOOLEAN, holds' => Chosen # "null"
  PROVE  IInv'
  <1> USE DEF IInv
  <1>1. /\ broken' \in BOOLEAN /\ wire' \in Seq(Pieces) /\ Content(wire') = 0
        /\ \/ /\ err = "Ok" /\ ~broken'
              /\ wire' # << >> /\ Len(wire') = 1
              /\ IsHead(wire'[1]) /\ wire'[1].headers = headers
           \/ err = "IoError" /\ broken' /\ wire' = << >>
    BY SendHead DEF TypeOK, Fresh
  <1>2. closed = {} /\ given = 0 /\ ended = "open" /\ ~holds /\ contentBuffer = 0
    BY DEF Fresh, OneWriter
  <1>3. TypeOK'
    BY <1>1, <1>2, BegunWith DEF TypeOK
  <1>4. Fresh' /\ OneWriter'
    BY <1>2 DEF Fresh, OneWriter
  <1>5. NullWire' /\ LengthWire'
    BY <1>1, <1>2, BegunWith DEF NullWire, LengthWire, Body
  <1>6. ChunkedWire' /\ BufferedWire'
    BY <1>1, <1>2, BegunWith DEF ChunkedWire, BufferedWire, Body, Destroyed
  <1>7. BegunIsAnswered'
    BY <1>1, <1>2 DEF BegunIsAnswered
  <1> QED
    BY <1>3, <1>4, <1>5, <1>6, <1>7

\* The stream that there is already, or none: nothing is sent.
LEMMA StreamAsBefore ==
  ASSUME IInv, Call,
         UNCHANGED <<status, headers, httpOutputStream, left, initialised, closed, contentBuffer,
                     given, ended, careless, broken, wire>>,
         respStatus' \in {respStatus, "CLOSED"}, holds' \in BOOLEAN, unanswered' \in BOOLEAN,
         httpOutputStream = "null" => ~holds',
         respStatus = "HEADERS" => unanswered' /\ respStatus' = "CLOSED",
         respStatus = "CLOSED" => unanswered' = unanswered
  PROVE  IInv'
  <1> USE DEF IInv, Call
  <1>1. TypeOK'
    BY ResponseAssumption DEF TypeOK
  <1>2. Fresh' /\ OneWriter' /\ NullWire'
    BY DEF TypeOK, Fresh, OneWriter, NullWire
  <1>3. LengthWire' /\ ChunkedWire' /\ BufferedWire'
    BY DEF LengthWire, ChunkedWire, BufferedWire, Body, Kinds, Destroyed
  <1>4. BegunIsAnswered'
    BY DEF TypeOK, BegunIsAnswered
  <1> QED
    BY <1>1, <1>2, <1>3, <1>4

\* The call of getOutputStream that begins the response.
LEMMA BeginPreserved ==
  ASSUME IInv, Call, BeginBody, UNCHANGED <<status, closed, contentBuffer, given, ended>>
  PROVE  IInv'
  <1> USE DEF IInv, BeginBody, Call
  <1>1. /\ respStatus = "HEADERS" /\ ~InvalidHeader /\ parseHeaders /\ respStatus' = "CLOSED"
        /\ initialised = {} /\ calls' \in 0 .. MaxCalls /\ phase' = "handler" /\ result' = "none"
        /\ headers \in Seq(HeaderNames \X Nat)
    BY ResponseAssumption DEF TypeOK, Fresh, OneWriter, BegunIsAnswered
  <1>2. closed = {} /\ given = 0 /\ ended = "open" /\ ~holds /\ contentBuffer = 0 /\ wire = << >> /\ ~broken /\ ~unanswered
    BY DEF Fresh, OneWriter
  <1>3. CASE Chosen # "null"
    <2>1. PICK err \in {"Ok", "IoError"} :
            writeHeaders(headers, err) /\ holds' = (err = "Ok") /\ unanswered' = (err # "Ok")
      BY <1>3
    <2>2. holds' \in BOOLEAN /\ unanswered' \in BOOLEAN
      BY <2>1, Zenon
    <2>3. initialised' = {Chosen} /\ httpOutputStream' = Chosen /\ UNCHANGED headers
      BY <1>1, <1>3
    <2> QED
      BY <1>1, <1>3, <2>1, <2>2, <2>3, HeadSent
  <1>4. CASE Chosen = "null" /\ version = "1.0"
    <2>1. /\ httpOutputStream' = "buffered" /\ initialised' = {"buffered"} /\ holds' = TRUE
          /\ UNCHANGED <<broken, wire, headers, unanswered>>
      BY <1>1, <1>4 DEF Silent
    <2>2. left' \in Nat /\ careless' \in SUBSET {"both"} /\ LengthHeaders(headers) = {} /\ Encodings(headers) = {}
      BY <1>1, <1>4, BegunWith
    <2>3. TypeOK'
      BY <1>1, <1>2, <2>1, <2>2 DEF TypeOK
    <2>4. Fresh' /\ OneWriter' /\ NullWire' /\ LengthWire' /\ ChunkedWire'
      BY <1>1, <1>2, <2>1 DEF Fresh, OneWriter, NullWire, LengthWire, ChunkedWire
    <2>5. BufferedWire' /\ BegunIsAnswered'
      BY <1>1, <1>2, <2>1, <2>2 DEF BufferedWire, BegunIsAnswered, Destroyed
    <2> QED
      BY <2>3, <2>4, <2>5
  <1>5. CASE Chosen = "null" /\ version = "1.1"
    <2>1. PICK err \in {"Ok", "IoError"} :
            writeHeaders(headers', err) /\ holds' = (err = "Ok") /\ unanswered' = (err # "Ok")
      BY <1>5
    <2>2. holds' \in BOOLEAN /\ unanswered' \in BOOLEAN
      BY <2>1, Zenon
    <2>3. headers' \in Seq(HeaderNames \X Nat) /\ EndsChunked(headers')
      BY <1>1, <1>5, ChunkedAdded
    <2>4. httpOutputStream' = "chunked" /\ initialised' = {"chunked"}
      BY <1>1, <1>5
    <2>5. left' \in Nat /\ careless' \in SUBSET {"both"}
      BY <1>1, BegunWith
    <2>6. /\ broken' \in BOOLEAN /\ wire' \in Seq(Pieces) /\ Content(wire') = 0
          /\ \/ /\ err = "Ok" /\ ~broken'
                /\ wire' # << >> /\ Len(wire') = 1
                /\ IsHead(wire'[1]) /\ wire'[1].headers = headers'
             \/ err = "IoError" /\ broken' /\ wire' = << >>
      BY <1>2, <2>1, <2>3, SendHead
    <2>7. TypeOK'
      BY <1>1, <1>2, <2>2, <2>3, <2>4, <2>5, <2>6 DEF TypeOK
    <2>8. Fresh' /\ OneWriter' /\ NullWire' /\ LengthWire' /\ BufferedWire'
      BY <1>1, <1>2, <2>4 DEF Fresh, OneWriter, NullWire, LengthWire, BufferedWire
    <2>9. ChunkedWire'
      BY <1>1, <1>2, <2>3, <2>4, <2>6 DEF ChunkedWire, Body, Destroyed
    <2>10. BegunIsAnswered'
      BY <1>1, <1>2, <2>4, <2>6 DEF BegunIsAnswered
    <2> QED
      BY <2>7, <2>8, <2>9, <2>10
  <1> QED
    BY <1>3, <1>4, <1>5 DEF TypeOK

\* getOutputStream: the stream there is, a refusal, or the beginning of the response.
LEMMA StreamPreserved == ASSUME IInv, getOutputStream PROVE IInv'
  <1> USE DEF getOutputStream
  <1>1. CASE httpOutputStream # "null" /\ holds' = TRUE /\ UNCHANGED <<headers, respStatus, httpOutputStream, left, initialised, careless, unanswered>> /\ Silent
    <2>1. respStatus = "CLOSED" /\ unanswered \in BOOLEAN
      BY <1>1 DEF IInv, TypeOK, Fresh
    <2> QED
      BY <1>1, <2>1, StreamAsBefore DEF Silent
  <1>2. CASE /\ httpOutputStream = "null" /\ (respStatus = "CLOSED" \/ InvalidHeader)
             /\ respStatus' = "CLOSED"
             /\ unanswered' = (unanswered \/ respStatus = "HEADERS")
             /\ Silent
             /\ UNCHANGED <<headers, httpOutputStream, left, initialised, holds, careless>>
    <2>1. unanswered' \in BOOLEAN /\ ~holds'
      BY <1>2, Zenon DEF IInv, OneWriter
    <2>2. holds' \in BOOLEAN
      BY <1>2, Zenon DEF IInv, TypeOK
    <2>3. (respStatus = "HEADERS" => unanswered') /\ (respStatus = "CLOSED" => unanswered' = unanswered)
      BY <1>2 DEF IInv, TypeOK
    <2> QED
      BY <1>2, <2>1, <2>2, <2>3, StreamAsBefore DEF Silent
  <1>3. CASE BeginBody
    BY <1>3, BeginPreserved
  <1> QED
    BY <1>1, <1>2, <1>3

\* close() of the response, whoever calls it: what the caller is told is Ok, or is kept
\* in unanswered or in result.
LEMMA ClosePreserved ==
  ASSUME IInv, phase = "handler", NEW err \in {"Ok", "IoError", "InvalidHeader"}, doClose(err),
         UNCHANGED <<version, status, headers, closed, contentBuffer, holds, given, ended>>,
         calls' \in 0 .. MaxCalls, unanswered' \in BOOLEAN,
         \/ phase' = "handler" /\ result' = "none" /\ (unanswered' <=> (unanswered \/ err # "Ok"))
         \/ phase' = "returned" /\ result' = err /\ (unanswered' <=> unanswered)
  PROVE  IInv'
  <1> USE DEF IInv
  <1>1. CASE respStatus = "CLOSED" \/ InvalidHeader
    <2>1. /\ respStatus' = "CLOSED" /\ err = (IF respStatus = "CLOSED" THEN "Ok" ELSE "InvalidHeader")
          /\ UNCHANGED <<httpOutputStream, left, initialised, careless, broken, wire>>
      BY <1>1 DEF doClose, Silent, TypeOK
    <2>2. TypeOK'
      BY <2>1 DEF TypeOK
    <2>3. Fresh' /\ OneWriter' /\ NullWire'
      BY <2>1 DEF TypeOK, Fresh, OneWriter, NullWire
    <2>4. LengthWire' /\ ChunkedWire' /\ BufferedWire'
      BY <2>1 DEF LengthWire, ChunkedWire, BufferedWire, Body, Kinds, Destroyed
    <2>5. BegunIsAnswered'
      BY <2>1 DEF TypeOK, BegunIsAnswered
    <2> QED
      BY <2>2, <2>3, <2>4, <2>5
  <1>2. CASE respStatus = "HEADERS" /\ ~InvalidHeader
    <2>1. /\ respStatus' = "CLOSED" /\ parseHeaders /\ httpOutputStream' = Chosen
          /\ initialised' = (IF Chosen = "null" THEN {} ELSE {Chosen}) /\ writeHeaders(headers, err)
          /\ ~holds /\ holds \in BOOLEAN
      BY <1>2 DEF doClose, Fresh, OneWriter, TypeOK
    <2>2. holds' \in BOOLEAN /\ ~holds'
      BY <2>1
    <2> QED
      BY <1>2, <2>1, <2>2, HeadSent
  <1> QED
    BY <1>1, <1>2 DEF TypeOK

\* The handler closes the response.
LEMMA HandlerClosePreserved == ASSUME IInv, HandlerClosesResponse PROVE IInv'
  <1> USE DEF HandlerClosesResponse, Call
  <1>1. PICK err \in {"Ok", "IoError", "InvalidHeader"} : doClose(err) /\ unanswered' = (unanswered \/ err # "Ok")
    OBVIOUS
  <1>2. unanswered' \in BOOLEAN /\ (unanswered' <=> (unanswered \/ err # "Ok"))
    BY <1>1, Zenon
  <1>3. calls' \in 0 .. MaxCalls /\ result' = "none" /\ phase' = "handler"
    BY ResponseAssumption DEF IInv, TypeOK, BegunIsAnswered
  <1> QED
    BY <1>1, <1>2, <1>3, ClosePreserved

\* HttpConnection closes it when the handler has returned.
LEMMA ReturnPreserved == ASSUME IInv, HandlerReturns PROVE IInv'
  <1> USE DEF HandlerReturns
  <1>1. PICK err \in {"Ok", "IoError", "InvalidHeader"} : doClose(err) /\ result' = err
    OBVIOUS
  <1>2. unanswered' \in BOOLEAN /\ (unanswered' <=> unanswered)
    BY Zenon DEF IInv, TypeOK
  <1>3. calls' \in 0 .. MaxCalls
    BY DEF IInv, TypeOK
  <1> QED
    BY <1>1, <1>2, <1>3, ClosePreserved

-----------------------------------------------------------------------------
(* The streams                                                             *)

\* What a write does not touch.
LEMMA WriteFrame ==
  ASSUME IInv, NEW n \in Sizes, write(n)
  PROVE  /\ holds /\ n \in Nat /\ phase = "handler" /\ phase' = "handler" /\ respStatus = "CLOSED"
         /\ calls' \in 0 .. MaxCalls
         /\ httpOutputStream \in {"length", "chunked", "buffered"}
         /\ careless' = IF httpOutputStream = "chunked" /\ "chunked" \in closed
                          THEN careless \cup {"lateWrite"} ELSE careless
         /\ UNCHANGED <<version, status, headers, respStatus, httpOutputStream, initialised, closed,
                        result, holds, ended, unanswered>>
  BY ResponseAssumption DEF write, Call, IInv, TypeOK, Fresh, OneWriter

\* A write of a ContentLengthWriter takes from what is left what it sends.
LEMMA WriteLengthPreserved ==
  ASSUME IInv, NEW n \in Sizes, write(n), httpOutputStream = "length"
  PROVE  IInv'
  <1> USE DEF IInv
  <1>1. PICK err \in {"Ok", "IoError", "ContentLengthExceeded", "StreamClosed"} :
          writeLength(n, err) /\ given' = IF err = "Ok" THEN given + n ELSE given
    BY DEF write, writeChunk, writeBuffered
  <1>2. careless' = careless /\ contentBuffer' = contentBuffer
    BY <1>1, WriteFrame DEF writeLength
  <1>3. \/ UNCHANGED <<left, given, broken, wire>>
        \/ /\ err = "Ok" /\ ~broken /\ ~broken' /\ n <= left /\ left' = left - n /\ given' = given + n
           /\ wire' \in Seq(Pieces) /\ wire' # << >> /\ Len(wire') = Len(wire) + 1
           /\ \A i \in 1 .. Len(wire) : wire'[i] = wire[i]
           /\ wire'[Len(wire) + 1].kind = "data"
           /\ Content(wire') = Content(wire) + n
        \/ UNCHANGED <<left, given, wire>> /\ broken'
    <2>1. CASE Exceeds(n)
      BY <1>1, <2>1 DEF writeLength, Silent
    <2>2. CASE ~Exceeds(n)
      <3>1. Send(<<Piece("data", n)>>, err) /\ left' = (IF err = "Ok" THEN left - n ELSE left) /\ n <= left
        BY <1>1, <2>2, WriteFrame DEF writeLength, Exceeds, TypeOK
      <3>2. Piece("data", n) \in Pieces /\ Piece("data", n).kind = "data" /\ Piece("data", n).n = n
        BY PiecesTyped, WriteFrame
      <3> QED
        BY <1>1, <3>1, <3>2, SendOne
    <2> QED
      BY <2>1, <2>2
  <1>4. broken' \in BOOLEAN
    BY <1>1, WriteFrame, Zenon DEF writeLength, Silent, Send, TypeOK
  <1>5. n \in Nat /\ left \in Nat /\ given \in Nat /\ wire \in Seq(Pieces)
    BY WriteFrame DEF TypeOK
  <1>6. left' \in Nat /\ given' \in Nat /\ wire' \in Seq(Pieces)
    BY <1>3, <1>5
  <1>7. TypeOK'
    BY <1>2, <1>4, <1>6, WriteFrame DEF TypeOK
  <1>8. Fresh' /\ OneWriter' /\ NullWire' /\ ChunkedWire' /\ BufferedWire'
    BY WriteFrame DEF Fresh, OneWriter, NullWire, ChunkedWire, BufferedWire
  <1>9. LengthWire'
    <2>1. CASE UNCHANGED <<left, given, wire>> /\ (broken => broken')
      BY <1>2, <2>1, WriteFrame DEF LengthWire, Body
    <2>2. CASE /\ ~broken /\ n <= left /\ left' = left - n /\ given' = given + n
               /\ wire' # << >> /\ Len(wire') = Len(wire) + 1
               /\ \A i \in 1 .. Len(wire) : wire'[i] = wire[i]
               /\ wire'[Len(wire) + 1].kind = "data"
               /\ Content(wire') = Content(wire) + n
      <3>1. Content(wire) = given /\ wire # << >> /\ Len(wire) \in Nat /\ Len(wire) # 0
        BY <1>5, <2>2 DEF LengthWire
      <3>2. wire'[1] = wire[1] /\ \A i \in Body' : i = Len(wire) + 1 \/ (i \in Body /\ wire'[i] = wire[i])
        BY <2>2, <3>1 DEF Body
      <3>3. Content(wire') = given' /\ given' + left' = given + left
        BY <1>5, <2>2, <3>1
      <3> QED
        BY <1>2, <2>2, <3>1, <3>2, <3>3, WriteFrame DEF LengthWire
    <2> QED
      BY <1>3, <2>1, <2>2
  <1>10. BegunIsAnswered'
    BY <1>2, <1>3, WriteFrame DEF BegunIsAnswered
  <1> QED
    BY <1>7, <1>8, <1>9, <1>10

\* A write of a ChunkedWriter sends a chunk, or nothing when it is empty.
LEMMA WriteChunkPreserved ==
  ASSUME IInv, NEW n \in Sizes, write(n), httpOutputStream = "chunked"
  PROVE  IInv'
  <1> USE DEF IInv
  <1>1. PICK err \in {"Ok", "IoError", "ContentLengthExceeded", "StreamClosed"} :
          writeChunk(n, err) /\ given' = IF err = "Ok" THEN given + n ELSE given
    BY DEF write, writeLength, writeBuffered
  <1>2. left' = left /\ contentBuffer' = contentBuffer
    BY <1>1 DEF writeChunk
  <1>3. \/ UNCHANGED <<given, broken, wire>>
        \/ /\ err = "Ok" /\ ~broken /\ ~broken' /\ given' = given + n
           /\ wire' \in Seq(Pieces) /\ wire' # << >> /\ Len(wire') = Len(wire) + 1
           /\ \A i \in 1 .. Len(wire) : wire'[i] = wire[i]
           /\ wire'[Len(wire) + 1].kind = "chunk"
           /\ Content(wire') = Content(wire) + n
        \/ UNCHANGED <<given, wire>> /\ broken'
    <2>0. given \in Nat
      BY DEF TypeOK
    <2>1. CASE n = 0
      <3>1. err = "Ok" /\ Silent
        BY <1>1, <2>1 DEF writeChunk, ChunkOf
      <3> QED
        BY <1>1, <2>0, <2>1, <3>1 DEF Silent
    <2>2. CASE n # 0
      <3>1. ChunkOf(n) = <<Piece("chunk", n)>> /\ ChunkOf(n) # << >>
        BY <2>2 DEF ChunkOf
      <3>2. Send(<<Piece("chunk", n)>>, err)
        BY <1>1, <3>1 DEF writeChunk
      <3>3. Piece("chunk", n) \in Pieces /\ Piece("chunk", n).kind = "chunk" /\ Piece("chunk", n).n = n
        BY PiecesTyped, WriteFrame
      <3> QED
        BY <1>1, <3>2, <3>3, SendOne
    <2> QED
      BY <2>1, <2>2
  <1>4. broken' \in BOOLEAN
    BY <1>1, Zenon DEF writeChunk, Silent, Send, TypeOK
  <1>5. n \in Nat /\ given \in Nat /\ wire \in Seq(Pieces)
    BY WriteFrame DEF TypeOK
  <1>6. given' \in Nat /\ wire' \in Seq(Pieces)
    BY <1>3, <1>5
  <1>7. TypeOK'
    BY <1>2, <1>4, <1>6, WriteFrame DEF TypeOK
  <1>8. Fresh' /\ OneWriter' /\ NullWire' /\ LengthWire' /\ BufferedWire'
    BY WriteFrame DEF Fresh, OneWriter, NullWire, LengthWire, BufferedWire
  <1>9. ChunkedWire'
    <2>0. careless' = {} => careless = {} /\ closed = {} /\ ~Destroyed
      BY WriteFrame DEF TypeOK, OneWriter, Destroyed
    <2>1. CASE UNCHANGED <<given, wire>> /\ (broken => broken')
      BY <2>0, <2>1, WriteFrame DEF ChunkedWire, Body, Destroyed
    <2>2. CASE /\ ~broken /\ given' = given + n
               /\ wire' # << >> /\ Len(wire') = Len(wire) + 1
               /\ \A i \in 1 .. Len(wire) : wire'[i] = wire[i]
               /\ wire'[Len(wire) + 1].kind = "chunk"
               /\ Content(wire') = Content(wire) + n
      <3>1. Content(wire) = given /\ wire # << >> /\ Len(wire) \in Nat /\ Len(wire) # 0
        BY <1>5, <2>2 DEF ChunkedWire
      <3>2. wire'[1] = wire[1] /\ \A i \in Body' : i = Len(wire) + 1 \/ (i \in Body /\ wire'[i] = wire[i])
        BY <2>2, <3>1 DEF Body
      <3> QED
        BY <2>0, <2>2, <3>1, <3>2, WriteFrame DEF ChunkedWire, Destroyed
    <2> QED
      BY <1>3, <2>1, <2>2
  <1>10. BegunIsAnswered'
    BY <1>3, WriteFrame DEF BegunIsAnswered
  <1> QED
    BY <1>7, <1>8, <1>9, <1>10

\* A write of a BufferedContentLengthWriter is kept until it is closed.
LEMMA WriteBufferedPreserved ==
  ASSUME IInv, NEW n \in Sizes, write(n), httpOutputStream = "buffered"
  PROVE  IInv'
  <1> USE DEF IInv
  <1>1. PICK err \in {"Ok", "IoError", "ContentLengthExceeded", "StreamClosed"} :
          writeBuffered(n, err) /\ given' = IF err = "Ok" THEN given + n ELSE given
    BY DEF write, writeLength, writeChunk
  <1>2. /\ UNCHANGED <<left, broken, wire>> /\ careless' = careless
        /\ \/ UNCHANGED <<given, contentBuffer>>
           \/ closed = {} /\ contentBuffer' = contentBuffer + n /\ given' = given + n
    BY <1>1, WriteFrame DEF writeBuffered, Silent, TypeOK, OneWriter
  <1>3. TypeOK'
    <2>1. given' \in Nat /\ contentBuffer' \in Nat
      BY <1>2, WriteFrame DEF TypeOK
    <2> QED
      BY <1>2, <2>1, WriteFrame DEF TypeOK
  <1>4. Fresh' /\ OneWriter' /\ NullWire' /\ LengthWire' /\ ChunkedWire'
    BY WriteFrame DEF Fresh, OneWriter, NullWire, LengthWire, ChunkedWire
  <1>5. BufferedWire'
    <2>1. CASE UNCHANGED <<given, contentBuffer>>
      BY <1>2, <2>1, WriteFrame DEF BufferedWire, Kinds, Destroyed
    <2>2. CASE closed = {} /\ contentBuffer' = contentBuffer + n /\ given' = given + n
      BY <1>2, <2>2, WriteFrame DEF BufferedWire, Kinds, Destroyed
    <2> QED
      BY <1>2, <2>1, <2>2
  <1>6. BegunIsAnswered'
    BY <1>2, WriteFrame DEF BegunIsAnswered
  <1> QED
    BY <1>3, <1>4, <1>5, <1>6

\* A write of any of the three writers.
LEMMA WritePreserved == ASSUME IInv, NEW n \in Sizes, write(n) PROVE IInv'
  BY WriteFrame, WriteLengthPreserved, WriteChunkPreserved, WriteBufferedPreserved

\* What a close of the stream does not touch.
LEMMA CloseFrame ==
  ASSUME IInv, closeStream
  PROVE  /\ holds /\ phase = "handler" /\ phase' = "handler" /\ respStatus = "CLOSED"
         /\ calls' \in 0 .. MaxCalls
         /\ httpOutputStream \in {"length", "chunked", "buffered"}
         /\ UNCHANGED <<version, status, headers, respStatus, httpOutputStream, left, initialised, contentBuffer,
                        result, holds, given, careless, unanswered>>
  BY ResponseAssumption DEF closeStream, Call, IInv, TypeOK, Fresh, OneWriter

\* A ContentLengthWriter has nothing to close.
LEMMA CloseLengthPreserved == ASSUME IInv, closeStream, httpOutputStream = "length" PROVE IInv'
  <1> USE DEF IInv
  <1>1. /\ UNCHANGED <<broken, wire, closed>>
        /\ ended' \in {"open", "Ok", "IoError", "StreamClosed"}
    BY DEF closeStream, closeWriter, Silent, TypeOK
  <1>2. TypeOK'
    BY <1>1, CloseFrame DEF TypeOK
  <1>3. Fresh' /\ OneWriter' /\ NullWire' /\ ChunkedWire' /\ BufferedWire'
    BY <1>1, CloseFrame DEF Fresh, OneWriter, NullWire, ChunkedWire, BufferedWire
  <1>4. LengthWire' /\ BegunIsAnswered'
    BY <1>1, CloseFrame DEF LengthWire, BegunIsAnswered, Body
  <1> QED
    BY <1>2, <1>3, <1>4

\* The last chunk behind the others, as close and the destructor send it.
LEMMA LastChunk ==
  ASSUME IInv, httpOutputStream = "chunked", closed = {}, ~Destroyed,
         NEW err, Send(<<Piece("last", 0)>>, err),
         UNCHANGED <<httpOutputStream, given, careless>>, closed' # {} \/ phase' = "destroyed"
  PROVE  ChunkedWire' /\ broken' \in BOOLEAN /\ wire' \in Seq(Pieces) /\ (broken' \/ wire' # << >>)
  <1> USE DEF IInv
  <1>1. Piece("last", 0) \in Pieces /\ Piece("last", 0).kind = "last" /\ Piece("last", 0).n = 0
    BY PiecesTyped
  <1>2. wire \in Seq(Pieces) /\ given \in Nat
    BY DEF TypeOK
  <1>3. /\ broken' \in BOOLEAN /\ wire' \in Seq(Pieces)
        /\ \/ /\ ~broken /\ ~broken' /\ wire' # << >> /\ Len(wire') = Len(wire) + 1
              /\ \A i \in 1 .. Len(wire) : wire'[i] = wire[i]
              /\ wire'[Len(wire) + 1].kind = "last"
              /\ Content(wire') = Content(wire) + 0
           \/ broken' /\ wire' = wire
    BY <1>1, SendOne
  <1>4. CASE broken' /\ wire' = wire
    BY <1>3, <1>4 DEF ChunkedWire, Body, Destroyed
  <1>5. CASE /\ ~broken /\ wire' # << >> /\ Len(wire') = Len(wire) + 1
             /\ \A i \in 1 .. Len(wire) : wire'[i] = wire[i]
             /\ wire'[Len(wire) + 1].kind = "last"
             /\ Content(wire') = Content(wire) + 0
    <2>1. Content(wire) = given /\ wire # << >> /\ Len(wire) \in Nat /\ Len(wire) # 0
      BY <1>2, <1>5 DEF ChunkedWire
    <2>2. wire'[1] = wire[1] /\ \A i \in Body' : i = Len(wire) + 1 \/ (i \in Body /\ wire'[i] = wire[i])
      BY <1>5, <2>1 DEF Body
    <2>3. Content(wire') = given'
      BY <1>2, <1>5, <2>1
    <2> QED
      BY <1>3, <1>5, <2>1, <2>2, <2>3 DEF ChunkedWire, Destroyed
  <1> QED
    BY <1>3, <1>4, <1>5

\* The close of a ChunkedWriter, which may come twice.
LEMMA CloseChunkedPreserved == ASSUME IInv, closeStream, httpOutputStream = "chunked" PROVE IInv'
  <1> USE DEF IInv
  <1>1. PICK err \in {"Ok", "IoError", "StreamClosed"} : closeWriter(err) /\ ended' = IF ended = "open" THEN err ELSE ended
    BY DEF closeStream
  <1>2. closed' = {"chunked"} /\ initialised = {"chunked"} /\ ended' \in {"open", "Ok", "IoError", "StreamClosed"}
    BY <1>1 DEF closeWriter, TypeOK, OneWriter
  <1>3. CASE "chunked" \in closed
    <2>1. closed' = closed /\ UNCHANGED <<broken, wire>>
      BY <1>1, <1>2, <1>3 DEF closeWriter, Silent, TypeOK
    <2>2. TypeOK'
      BY <1>2, <2>1, CloseFrame DEF TypeOK
    <2>3. Fresh' /\ OneWriter' /\ NullWire' /\ LengthWire' /\ BufferedWire' /\ BegunIsAnswered'
      BY <1>2, <2>1, CloseFrame DEF Fresh, OneWriter, NullWire, LengthWire, BufferedWire, BegunIsAnswered
    <2>4. ChunkedWire'
      BY <2>1, CloseFrame DEF ChunkedWire, Body, Destroyed
    <2> QED
      BY <2>2, <2>3, <2>4
  <1>4. CASE "chunked" \notin closed
    <2>1. closed = {} /\ Send(<<Piece("last", 0)>>, err) /\ ~Destroyed
      BY <1>1, <1>2, <1>4, CloseFrame DEF closeWriter, TypeOK, Destroyed
    <2>2. ChunkedWire' /\ broken' \in BOOLEAN /\ wire' \in Seq(Pieces) /\ (broken' \/ wire' # << >>)
      BY <1>2, <2>1, CloseFrame, LastChunk
    <2>3. TypeOK'
      BY <1>2, <2>2, CloseFrame DEF TypeOK
    <2>4. Fresh' /\ OneWriter' /\ NullWire' /\ LengthWire' /\ BufferedWire' /\ BegunIsAnswered'
      BY <1>2, <2>2, CloseFrame DEF Fresh, OneWriter, NullWire, LengthWire, BufferedWire, BegunIsAnswered
    <2> QED
      BY <2>2, <2>3, <2>4
  <1> QED
    BY <1>3, <1>4

\* Head and content of a BufferedContentLengthWriter, as close sends them.
LEMMA BufferedSent ==
  ASSUME IInv, httpOutputStream = "buffered", wire = << >>, NEW err, Send(BufferedResponse, err)
  PROVE  /\ broken' \in BOOLEAN /\ wire' \in Seq(Pieces)
         /\ \/ broken' /\ wire' = << >>
            \/ /\ ~broken' /\ wire' # << >> /\ Content(wire') = contentBuffer /\ IsHead(wire'[1])
               /\ contentBuffer = 0 => Len(wire') = 1 /\ wire'[1].headers = headers
               /\ contentBuffer # 0 =>
                    /\ Len(wire') = 2 /\ wire'[2].kind = "data"
                    /\ wire'[1].headers = Append(headers, <<"Content-Length", contentBuffer>>)
  <1> USE DEF IInv
  <1>0. headers \in Seq(HeaderNames \X Nat) /\ contentBuffer \in Nat /\ broken \in BOOLEAN
    BY DEF TypeOK
  <1>1. CASE contentBuffer = 0
    <2>1. writeHeaders(headers, err)
      BY <1>1 DEF BufferedResponse, writeHeaders
    <2> QED
      BY <1>0, <1>1, <2>1, SendHead
  <1>2. CASE contentBuffer # 0
    <2> DEFINE hs == Append(headers, <<"Content-Length", contentBuffer>>)
               head == HeadPiece(hs)
               data == Piece("data", contentBuffer)
    <2>1. hs \in Seq(HeaderNames \X Nat)
      BY <1>0, LengthAdded
    <2>2. head \in Pieces /\ head.n = 0 /\ IsHead(head) /\ head.headers = hs
      BY <2>1, PiecesTyped
    <2>3. data \in Pieces /\ data.n = contentBuffer /\ data.kind = "data"
      BY <1>0, PiecesTyped
    <2>4. Send(<<head, data>>, err)
      BY <1>2 DEF BufferedResponse
    <2> HIDE DEF head, data, hs
    <2> DEFINE two == <<head, data>>
    <2>5. /\ two \in Seq(Pieces) /\ two # << >> /\ Len(two) = 2 /\ two[1] = head /\ two[2] = data
          /\ Content(two) = contentBuffer /\ << >> \o two = two
      BY <2>2, <2>3, HeadAndData
    <2>6. Send(two, err)
      BY <2>4
    <2> HIDE DEF two
    <2>7. \/ ~broken' /\ broken' \in BOOLEAN /\ wire' = two
          \/ broken' /\ broken' \in BOOLEAN /\ wire' = << >>
      BY <1>0, <2>5, <2>6 DEF Send
    <2> QED
      BY <1>2, <2>2, <2>3, <2>5, <2>7 DEF hs, TypeOK
  <1> QED
    BY <1>1, <1>2

\* The close of a BufferedContentLengthWriter, which may come twice.
LEMMA CloseBufferedPreserved == ASSUME IInv, closeStream, httpOutputStream = "buffered" PROVE IInv'
  <1> USE DEF IInv
  <1>1. PICK err \in {"Ok", "IoError", "StreamClosed"} : closeWriter(err) /\ ended' = IF ended = "open" THEN err ELSE ended
    BY DEF closeStream
  <1>2. closed' = {"buffered"} /\ initialised = {"buffered"} /\ ended' \in {"open", "Ok", "IoError", "StreamClosed"}
    BY <1>1 DEF closeWriter, TypeOK, OneWriter
  <1>3. CASE "buffered" \in closed
    <2>1. closed' = closed /\ UNCHANGED <<broken, wire>>
      BY <1>1, <1>2, <1>3 DEF closeWriter, Silent, TypeOK
    <2>2. TypeOK'
      BY <1>2, <2>1, CloseFrame DEF TypeOK
    <2>3. Fresh' /\ OneWriter' /\ NullWire' /\ LengthWire' /\ ChunkedWire' /\ BegunIsAnswered'
      BY <1>2, <2>1, CloseFrame DEF Fresh, OneWriter, NullWire, LengthWire, ChunkedWire, BegunIsAnswered
    <2>4. BufferedWire'
      BY <2>1, CloseFrame DEF BufferedWire, Kinds, Destroyed
    <2> QED
      BY <2>2, <2>3, <2>4
  <1>4. CASE "buffered" \notin closed
    <2>1. closed = {} /\ Send(BufferedResponse, err) /\ wire = << >>
      BY <1>1, <1>2, <1>4, CloseFrame DEF closeWriter, TypeOK, Destroyed, BufferedWire
    <2>2. /\ broken' \in BOOLEAN /\ wire' \in Seq(Pieces)
          /\ \/ broken' /\ wire' = << >>
             \/ /\ ~broken' /\ wire' # << >> /\ Content(wire') = contentBuffer /\ IsHead(wire'[1])
                /\ contentBuffer = 0 => Len(wire') = 1 /\ wire'[1].headers = headers
                /\ contentBuffer # 0 =>
                     /\ Len(wire') = 2 /\ wire'[2].kind = "data"
                     /\ wire'[1].headers = Append(headers, <<"Content-Length", contentBuffer>>)
      BY <2>1, BufferedSent
    <2>3. TypeOK'
      BY <1>2, <2>2, CloseFrame DEF TypeOK
    <2>4. Fresh' /\ OneWriter' /\ NullWire' /\ LengthWire' /\ ChunkedWire' /\ BegunIsAnswered'
      BY <1>2, <2>2, CloseFrame DEF Fresh, OneWriter, NullWire, LengthWire, ChunkedWire, BegunIsAnswered
    <2>5. /\ given = contentBuffer /\ contentBuffer \in Nat
          /\ careless = {} => LengthHeaders(headers) = {} /\ Encodings(headers) = {}
      BY DEF BufferedWire, TypeOK
    <2>6. /\ Encodings(headers) = {} => ~EndsChunked(headers)
          /\ LengthHeaders(headers) = {} /\ Encodings(headers) = {} =>
               LET more == Append(headers, <<"Content-Length", contentBuffer>>)
               IN  /\ ~EndsChunked(more)
                   /\ \E i \in DOMAIN more : LengthHeaders(more) = {i} /\ more[i][2] = contentBuffer
      BY <2>5, LengthAdded, NoEncodings DEF TypeOK
    <2>7. BufferedWire'
      BY <1>2, <2>2, <2>5, <2>6, CloseFrame DEF BufferedWire
    <2> QED
      BY <2>3, <2>4, <2>7
  <1> QED
    BY <1>3, <1>4

\* The close of any of the three writers.
LEMMA ClosingPreserved == ASSUME IInv, closeStream PROVE IInv'
  BY CloseFrame, CloseLengthPreserved, CloseChunkedPreserved, CloseBufferedPreserved

\* The destructors end a chunked response, and send garbage for a buffered one.
LEMMA DestroyPreserved == ASSUME IInv, Destroy PROVE IInv'
  <1> USE DEF IInv
  <1>1. /\ phase # "destroyed" /\ phase' = "destroyed" /\ DestroyWriters
        /\ UNCHANGED <<version, status, headers, respStatus, httpOutputStream, left, initialised, closed,
                       contentBuffer, calls, result, holds, given, ended, careless, unanswered>>
    BY DEF Destroy
  <1>2. CASE "chunked" \in initialised \ closed
    <2>1. httpOutputStream = "chunked" /\ closed = {} /\ ~Destroyed /\ respStatus = "CLOSED"
      BY <1>1, <1>2 DEF TypeOK, OneWriter, Destroyed, Fresh
    <2>2. PICK err \in {"Ok", "IoError"} : Send(<<Piece("last", 0)>>, err)
      BY <1>1, <1>2, <2>1 DEF DestroyWriters, OneWriter
    <2>3. ChunkedWire' /\ broken' \in BOOLEAN /\ wire' \in Seq(Pieces) /\ (broken' \/ wire' # << >>)
      BY <1>1, <2>1, <2>2, LastChunk
    <2>4. TypeOK'
      BY <1>1, <2>3 DEF TypeOK
    <2>5. Fresh' /\ OneWriter' /\ NullWire' /\ LengthWire' /\ BufferedWire' /\ BegunIsAnswered'
      BY <1>1, <2>1, <2>3 DEF Fresh, OneWriter, NullWire, LengthWire, BufferedWire, BegunIsAnswered
    <2> QED
      BY <2>3, <2>4, <2>5
  <1>3. CASE "buffered" \in initialised \ closed
    <2>1. httpOutputStream = "buffered" /\ closed = {} /\ wire = << >> /\ respStatus = "CLOSED"
      BY <1>1, <1>3 DEF TypeOK, OneWriter, BufferedWire, Fresh, Destroyed
    <2>2. PICK err \in {"Ok", "IoError"} : Send(<<Piece("garbage", 0)>>, err)
      BY <1>1, <1>3, <2>1 DEF DestroyWriters, OneWriter
    <2>3. Piece("garbage", 0) \in Pieces /\ Piece("garbage", 0).kind = "garbage" /\ Len(wire) = 0
      BY <2>1, PiecesTyped
    <2>4. /\ broken' \in BOOLEAN /\ wire' \in Seq(Pieces)
          /\ (broken' /\ wire' = << >>) \/ (wire' # << >> /\ Len(wire') = 1 /\ wire'[1].kind = "garbage")
      BY <2>1, <2>2, <2>3, SendOne
    <2>5. TypeOK'
      BY <1>1, <2>4 DEF TypeOK
    <2>6. Fresh' /\ OneWriter' /\ NullWire' /\ LengthWire' /\ ChunkedWire' /\ BegunIsAnswered'
      BY <1>1, <2>1, <2>4 DEF Fresh, OneWriter, NullWire, LengthWire, ChunkedWire, BegunIsAnswered
    <2>7. wire' # << >> => "garbage" \in Kinds'
      BY <2>4 DEF Kinds
    <2>8. BufferedWire'
      BY <1>1, <2>1, <2>4, <2>7 DEF BufferedWire, Destroyed
    <2> QED
      BY <2>5, <2>6, <2>8
  <1>4. CASE initialised \ closed \subseteq {"length"} /\ Silent
    <2>1. /\ UNCHANGED <<broken, wire>>
          /\ httpOutputStream \in {"null", "length"} \/ closed # {}
      BY <1>4 DEF Silent, TypeOK, OneWriter
    <2>2. TypeOK'
      BY <1>1, <2>1 DEF TypeOK
    <2>3. Fresh' /\ OneWriter' /\ NullWire' /\ BegunIsAnswered'
      BY <1>1, <2>1 DEF Fresh, OneWriter, NullWire, BegunIsAnswered
    <2>4. LengthWire' /\ ChunkedWire' /\ BufferedWire'
      BY <1>1, <2>1 DEF LengthWire, ChunkedWire, BufferedWire, Body, Kinds, Destroyed
    <2> QED
      BY <2>2, <2>3, <2>4
  <1> QED
    BY <1>1, <1>2, <1>3, <1>4 DEF DestroyWriters

-----------------------------------------------------------------------------
\* Whatever the handler calls, the invariant holds.
THEOREM Invariance == Spec => []IInv
  <1>1. IInv /\ [Next]_vars => IInv'
    <2> SUFFICES ASSUME IInv, [Next]_vars PROVE IInv'
      OBVIOUS
    <2>1. CASE Next
      BY <2>1, StatusPreserved, HeaderPreserved, StreamPreserved, HandlerClosePreserved, WritePreserved,
         ClosingPreserved, ReturnPreserved, DestroyPreserved DEF Next
    <2>2. CASE UNCHANGED vars
      <3> USE <2>2 DEF vars, IInv
      <3>1. TypeOK'
        BY DEF TypeOK
      <3>2. Fresh' /\ OneWriter' /\ NullWire' /\ BegunIsAnswered'
        BY DEF Fresh, OneWriter, NullWire, BegunIsAnswered
      <3>3. LengthWire' /\ ChunkedWire' /\ BufferedWire'
        BY DEF LengthWire, ChunkedWire, BufferedWire, Body, Kinds, Destroyed
      <3> QED
        BY <3>1, <3>2, <3>3
    <2> QED
      BY <2>1, <2>2
  <1> QED
    BY InitIInv, <1>1, PTL DEF Spec

\* Type correctness; in particular the length that is left does not wrap.
THEOREM TypeCorrect == Spec => []TypeOK
  <1>1. IInv => TypeOK
    BY DEF IInv
  <1> QED
    BY Invariance, <1>1, PTL

\* A handler is not told Ok in vain: there is a head, or a destructor will send it.
THEOREM OkMeansAnswer == Spec => []OkIsAnswered
  <1>1. IInv => OkIsAnswered
    <2> SUFFICES ASSUME IInv, phase = "returned", result = "Ok", ~broken, ~unanswered, wire = << >>
                 PROVE  "buffered" \in initialised \ closed
      BY DEF OkIsAnswered
    <2> QED
      BY DEF IInv, TypeOK, Fresh, OneWriter, BegunIsAnswered
  <1> QED
    BY Invariance, <1>1, PTL

\* One head, and content framed as it says, whatever a careful handler calls.
THEOREM FramingFollowsHead == Spec => []AnswerFramed
  <1>1. IInv => FramedAsHeaders
    <2> SUFFICES ASSUME IInv, Careful, wire # << >>
                 PROVE  /\ \A i \in 1 .. Len(wire) : (wire[i].kind = "head") = (i = 1)
                        /\ IF EndsChunked(wire[1].headers)
                             THEN \A i \in Body : wire[i].kind = "chunk" \/ (wire[i].kind = "last" /\ i = Len(wire))
                             ELSE IF LengthHeaders(wire[1].headers) # {}
                               THEN /\ \E i \in DOMAIN wire[1].headers :
                                          LengthHeaders(wire[1].headers) = {i} /\ Received <= wire[1].headers[i][2]
                                    /\ \A i \in Body : wire[i].kind = "data"
                               ELSE Body = {}
      BY DEF FramedAsHeaders
    <2> USE DEF IInv, Careful
    <2>0. /\ careless = {} /\ "garbage" \notin Kinds /\ wire \in Seq(Pieces) /\ Len(wire) \in Nat /\ Len(wire) # 0
          /\ left \in Nat /\ given \in Nat /\ httpOutputStream \in {"null", "length", "chunked", "buffered"}
      BY DEF TypeOK
    <2>1. ASSUME Len(wire) = 1, IsHead(wire[1]), ~EndsChunked(wire[1].headers), LengthHeaders(wire[1].headers) = {}
          PROVE  Body = {} /\ \A i \in 1 .. Len(wire) : (wire[i].kind = "head") = (i = 1)
      <3>1. Body = {} /\ 1 .. Len(wire) = {1}
        BY <2>1 DEF Body
      <3> QED
        BY <2>1, <3>1 DEF IsHead
    <2>2. CASE httpOutputStream = "null"
      <3>1. Len(wire) = 1 /\ IsHead(wire[1]) /\ ~EndsChunked(wire[1].headers) /\ LengthHeaders(wire[1].headers) = {}
        BY <2>2 DEF NullWire
      <3> QED
        BY <2>1, <3>1
    <2>3. CASE httpOutputStream = "length"
      <3>1. /\ IsHead(wire[1]) /\ \A i \in Body : wire[i].kind = "data"
            /\ ~EndsChunked(wire[1].headers) /\ Received = given
        BY <2>0, <2>3 DEF LengthWire, Received
      <3>2. PICK i \in DOMAIN wire[1].headers :
              LengthHeaders(wire[1].headers) = {i} /\ given + left = wire[1].headers[i][2]
        BY <2>0, <2>3 DEF LengthWire
      <3>3. Received <= wire[1].headers[i][2]
        BY <2>0, <3>1, <3>2
      <3>4. \A k \in 1 .. Len(wire) : (wire[k].kind = "head") = (k = 1)
        BY <2>0, <3>1 DEF Body, IsHead
      <3> QED
        BY <3>1, <3>2, <3>3, <3>4
    <2>4. CASE httpOutputStream = "chunked"
      BY <2>0, <2>4 DEF ChunkedWire, Body, IsHead
    <2>5. CASE httpOutputStream = "buffered"
      <3>1. closed # {}
        BY <2>0, <2>5 DEF BufferedWire
      <3>2. Received = given /\ IsHead(wire[1]) /\ ~EndsChunked(wire[1].headers)
        BY <2>0, <2>5, <3>1 DEF BufferedWire, Received
      <3>3. CASE given = 0
        <4>1. Len(wire) = 1 /\ LengthHeaders(wire[1].headers) = {}
          BY <2>0, <2>5, <3>1, <3>3 DEF BufferedWire
        <4> QED
          BY <2>1, <3>2, <4>1
      <3>4. CASE given # 0
        <4>1. /\ Len(wire) = 2 /\ wire[2].kind = "data"
              /\ \E i \in DOMAIN wire[1].headers :
                   LengthHeaders(wire[1].headers) = {i} /\ wire[1].headers[i][2] = given
          BY <2>0, <2>5, <3>1, <3>4 DEF BufferedWire
        <4>2. Body = {2} /\ \A k \in 1 .. Len(wire) : (wire[k].kind = "head") = (k = 1)
          BY <3>2, <4>1 DEF Body, IsHead
        <4> QED
          BY <2>0, <3>2, <4>1, <4>2
      <3> QED
        BY <3>3, <3>4
    <2> QED
      BY <2>0, <2>2, <2>3, <2>4, <2>5
  <1> QED
    BY Invariance, TypeCorrect, <1>1, PTL DEF AnswerFramed

\* What was written with result Ok has been sent, with the last chunk behind chunks.
THEOREM DeliveredInFull == Spec => []DeliveredComplete
  <1>1. IInv => DeliveredComplete
    <2> SUFFICES ASSUME IInv, phase = "destroyed" \/ ended = "Ok", ~broken, Careful
                 PROVE  /\ Received = given
                        /\ wire # << >> /\ EndsChunked(wire[1].headers) => wire[Len(wire)].kind = "last"
      BY DEF DeliveredComplete
    <2> USE DEF IInv, Careful
    <2>0. /\ careless = {} /\ "garbage" \notin Kinds /\ wire \in Seq(Pieces)
          /\ httpOutputStream \in {"null", "length", "chunked", "buffered"}
      BY DEF TypeOK
    <2>1. CASE httpOutputStream = "null"
      BY <2>0, <2>1 DEF OneWriter, NullWire, Received
    <2>2. CASE httpOutputStream = "length"
      BY <2>0, <2>2 DEF LengthWire, Received
    <2>3. CASE httpOutputStream = "chunked"
      BY <2>0, <2>3 DEF ChunkedWire, OneWriter, Received, Destroyed
    <2>4. CASE httpOutputStream = "buffered"
      <3>1. closed # {}
        BY <2>0, <2>4 DEF BufferedWire, OneWriter, Destroyed
      <3> QED
        BY <2>0, <2>4, <3>1 DEF BufferedWire, Received
    <2> QED
      BY <2>0, <2>1, <2>2, <2>3, <2>4
  <1> QED
    BY Invariance, <1>1, PTL

=============================================================================
