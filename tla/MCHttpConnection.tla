-------------------------- MODULE MCHttpConnection --------------------------
(***************************************************************************)
(* Small instances of HttpConnection: clients that send one or two of      *)
(* these requests, or break off in the middle of the last one.             *)
(***************************************************************************)
EXTENDS HttpConnection

U(kind, v, n, data) == [kind |-> kind, v |-> v, n |-> n, req |-> 0, data |-> data]
Request(v, n) == U("request", v, n, FALSE)
Header(h, n) == U("header", h, n, FALSE)
Blank == U("blank", "other", 0, FALSE)
Chunk(n) == U("chunk", "other", n, FALSE)
Byte == U("byte", "other", 0, TRUE)
DataLine(kind, v, n) == U(kind, v, n, TRUE)
Host == Header("Host", 0)

\* Requests with no content, with two lengths of it, in chunks, ...
Get == <<Request("1.1", 1), Host, Blank>>
OldGet == <<Request("1.0", 1), Header("keep-alive", 0), Blank>>
Post == <<Request("1.1", 1), Host, Header("Content-Length", 3), Blank, Byte,
          DataLine("request", "1.0", 1), DataLine("blank", "other", 0)>>
LongPost == <<Request("1.1", 1), Host, Header("Content-Length", 4), Blank, Byte, Byte, Byte, Byte>>
ChunkedPost == <<Request("1.1", 1), Host, Header("Content-Length", 9), Header("chunked", 0), Blank,
                 Chunk(2), Byte, DataLine("blank", "other", 0), Blank, Chunk(1), Byte, Blank,
                 Chunk(0), Header("other", 0), Blank>>

\* ... to URLs without a handler, and ones that are refused, with lines that should
\* not be there or not HTTP.
LostGet == <<Request("1.1", 0), Host, Blank>>
LostPost == <<Request("1.1", 0), Host, Header("Content-Length", 1), Blank, Byte>>
Contradictory == <<Request("1.1", 1), Header("close, keep-alive", 0), Blank>>
OldChunked == <<Request("1.0", 1), Header("chunked", 0), Blank, Chunk(0), Blank>>
Folded == <<Request("1.1", 1), Host, U("padded", "other", 0, FALSE), Blank>>
FoldedFirst == <<Request("1.1", 1), U("padded", "other", 0, FALSE), Blank>>
NoColon == <<Request("1.1", 1), Host, U("noColon", "other", 0, FALSE), Header("close", 0), Blank>>
BadChunks == <<Request("1.1", 1), Host, Header("chunked", 0), Blank, Chunk(1), Byte, Byte, Blank,
               Chunk(0), Blank>>
NoChunks == <<Request("1.1", 1), Host, Header("chunked", 0), Blank, Byte, Blank>>
Unknown == <<U("badRequest", "other", 501, FALSE)>>
Garbage == <<Byte, Blank>>

Good == {Get, OldGet, Post, LongPost, ChunkedPost, LostGet}
Bad == {LostPost, Contradictory, OldChunked, Folded, FoldedFirst, NoColon,
        BadChunks, NoChunks, Unknown, Garbage}

Labelled(r, k) == [i \in DOMAIN r |-> [r[i] EXCEPT !.req = k]]
Both(r, s) == Labelled(r, 1) \o Labelled(s, 2)

Whole == {Both(r, s) : r \in Good, s \in Good \cup Bad} \cup {Both(r, Get) : r \in Bad}
First(r, n) == [i \in 1 .. n |-> Labelled(r, 1)[i]]
CutOff == {First(Post, n) : n \in {2, 5, 6}} \cup {First(ChunkedPost, n) : n \in {5, 7, 9, 13}}

MCInputs == Whole \cup CutOff \cup {Labelled(<<U("preface", "other", 0, FALSE)>>, 1)}
=============================================================================
