------------------------------ MODULE HpackPeer ------------------------------
(***************************************************************************)
(* An HPACK encoder, as RFC 7541 has it, at the other end of an            *)
(* HpackDecoder: it keeps its own copy of the dynamic table and chooses    *)
(* among all the representations of a header field.  After every header    *)
(* block both ends must have the same headers and the same table.          *)
(***************************************************************************)
EXTENDS HpackDecoder

CONSTANTS
    Names, Values,   \* the names and values of the headers the peer sends
    Sizes            \* the table sizes it asks for

\* The peer's strings have as many bytes as the decoder reads right, and its numbers
\* need no more than two extension bytes.
ASSUME PeerAssumption ==
    /\ \A s \in Names \cup Values : s \in Seq(Byte) /\ Len(s) \in 1 .. (High - 2)
    /\ Sizes \subseteq Nat
    /\ \A n \in Sizes \cup {InitTableBytes} : STATIC_TABLE_MAX + n < High * High

VARIABLES
    peerTable,   \* its dynamic table, newest entry first
    peerMax,     \* its size
    sent         \* the headers of the last block

peerVars == <<peerTable, peerMax, sent>>
allVars == <<vars, peerVars>>

\* The representation of n with the bits of kind in front and a prefix up to max.
EncodeNumber(kind, max, n) ==
    IF n < max THEN <<kind + n>>
    ELSE IF n - max < High THEN <<kind + max, n - max>>
    ELSE <<kind + max, High + ((n - max) % High), (n - max) \div High>>

EncodeString(s) == EncodeNumber(0, High - 1, Len(s)) \o s

\* The size of the n newest entries.
SizeOf(t, n) ==
    LET sum[i \in 0 .. Len(t)] == IF i = 0 THEN 0 ELSE sum[i - 1] + EntrySize(t[i])
    IN  sum[n]

\* As many of the newest entries as fit into max bytes.
Fit(t, max, n) ==
    /\ SizeOf(t, n) <= max
    /\ n < Len(t) => SizeOf(t, n + 1) > max

Fitting(t, max) == SubSeq(t, 1, CHOOSE n \in 0 .. Len(t) : Fit(t, max, n))

PeerEntry(i) == (StaticTable \o peerTable)[i]
PeerIndices == 1 .. (STATIC_TABLE_MAX + Len(peerTable))

\* The table after h has been added.  An entry larger than the table empties it.
Extended(h) ==
    IF EntrySize(h) > peerMax THEN << >> ELSE <<h>> \o Fitting(peerTable, peerMax - EntrySize(h))

Header == Names \X Values

Send(b, hs) ==
    /\ decode(b)
    /\ sent' = hs

SendIndexed ==
    \E i \in PeerIndices :
        /\ Send(EncodeNumber(High, High - 1, i), <<PeerEntry(i)>>)
        /\ UNCHANGED <<peerTable, peerMax>>

\* The ways to say the name of h in a literal field of that kind.
NameCodes(kind, max, h, indices) ==
    {<<kind>> \o EncodeString(h[1])} \cup
    {EncodeNumber(kind, max, i) : i \in {j \in indices : PeerEntry(j)[1] = h[1]}}

SendIncremental(h, indices) ==
    /\ \E name \in NameCodes(High \div 2, High \div 2 - 1, h, indices) :
          Send(name \o EncodeString(h[2]), <<h>>)
    /\ peerTable' = Extended(h)
    /\ UNCHANGED peerMax

SendNoIndexing ==
    \E h \in Header, kind \in {0, High \div 8} :
        /\ \E name \in NameCodes(kind, High \div 8 - 1, h, PeerIndices) :
              Send(name \o EncodeString(h[2]), <<h>>)
        /\ UNCHANGED <<peerTable, peerMax>>

\* A new size comes at the beginning of a block, here before an indexed field.
SendSize ==
    \E n \in Sizes, i \in 1 .. STATIC_TABLE_MAX :
        /\ Send(EncodeNumber(High \div 4, High \div 4 - 1, n) \o EncodeNumber(High, High - 1, i),
                <<StaticTable[i]>>)
        /\ peerTable' = Fitting(peerTable, n)
        /\ peerMax' = n

DecoderStep == (DecodeStep \/ UpdateTable) /\ UNCHANGED peerVars

PeerInit ==
    /\ InitDecoder
    /\ peerTable = << >> /\ peerMax = InitTableBytes /\ sent = << >>

\* The decoder copies the name of an indexed entry after it has dropped entries
\* for the new one, and keeps its table when the new one is too large for it.
\* The ends agree for a peer that adds no entry larger than the table and takes
\* no name from an entry that must go.
Remaining(h) ==
    1 .. (STATIC_TABLE_MAX + Len(Fitting(peerTable, peerMax - EntrySize(h))))

CarefulNext ==
    \/ SendIndexed \/ SendNoIndexing \/ SendSize \/ DecoderStep
    \/ \E h \in Header : EntrySize(h) <= peerMax /\ SendIncremental(h, Remaining(h))

CarefulSpec == PeerInit /\ [][CarefulNext]_allVars

-----------------------------------------------------------------------------
\* Both ends agree on the headers of the last block ...
HeadersAgree == phase = "idle" => ok /\ headers = sent

\* ... and on the entries of the table and the order they are in.
TablesAgree ==
    phase = "idle" =>
        /\ Len(peerTable) = dynamicSize
        /\ \A i \in 1 .. dynamicSize : peerTable[i] = EntryAt(STATIC_TABLE_MAX + i)
        /\ maxTableBytes = peerMax

\* After every header block the peer and the decoder have the same headers and
\* the same dynamic table, entry for entry: had add or resize dropped one entry
\* more or less, all later indices would mean something else.
EndsAgree == HeadersAgree /\ TablesAgree
=============================================================================
