-------------------------- MODULE MCHttp2Connection --------------------------
(* Clients of the HTTP/2 reader.  Bytes have four values, so that 2 and 3   *)
(* are negative as char.                                                    *)
EXTENDS Http2Connection, Bitwise

MachineOr(x, y) == x | y
MachineAnd(x, y) == x & y

Header(n, type, flags, id) ==
    [kind |-> "header",
     header |-> [length |-> <<n \div 16, (n \div 4) % 4, n % 4>>, type |-> type,
                 flags |-> flags, stream |-> <<0, 0, 0, id>>]]
ByteUnit(v) == [kind |-> "byte", value |-> v]
Preface == [kind |-> "preface"]

FirstFrames ==
    {Header(0, SETTINGS, 0, 0), Header(0, SETTINGS, ACK, 0), Header(4, SETTINGS, 0, 0),
     Header(0, SETTINGS, 0, 1), Header(0, HEADERS, 0, 2)}

Zeros(n) == [i \in 1..n |-> ByteUnit(0)]

Frames ==
    {<<Header(0, SETTINGS, ACK, 0)>>, <<Header(0, 6, 0, 0)>>, <<Header(0, 10, 0, 0)>>,
     <<Header(17, 0, 0, 1), ByteUnit(1)>>, <<Header(0, HEADERS, 0, 1)>>,
     <<Header(1, HEADERS, 0, 2), ByteUnit(3)>>,
     <<Header(2, HEADERS, PADDED, 2), ByteUnit(1), ByteUnit(0)>>,
     <<Header(3, HEADERS, PADDED, 2), ByteUnit(2), ByteUnit(0)>>,
     <<Header(5, HEADERS, PRIORITY, 2)>> \o Zeros(5),
     <<Header(7, HEADERS, PRIORITY + PADDED, 2), ByteUnit(1)>> \o Zeros(6),
     <<Header(1, HEADERS, PADDED, 1), ByteUnit(0)>>}

LastFrames ==
    {<<Header(0, 6, 0, 0)>>, <<Header(0, 10, 0, 0)>>, <<Header(2, HEADERS, PADDED, 2), ByteUnit(1), ByteUnit(0)>>}

\* Frames that end too early: the stream's end or other bytes follow.
CutFrames ==
    {<<Header(1, HEADERS, PADDED, 2)>>, <<Header(2, HEADERS, PADDED, 2), ByteUnit(2)>>,
     <<Header(3, HEADERS, PRIORITY, 2)>> \o Zeros(3)}

MCStrayHeaders ==
    {h.header : h \in {Header(3, SETTINGS, ACK, 1), Header(0, 10, 0, 0),
                       Header(1, HEADERS, PADDED, 2), Header(0, HEADERS, PRIORITY + PADDED, 2)}}

MCInputs ==
    {<<>>, <<Preface>>, <<Header(0, SETTINGS, 0, 0)>>,
     <<Preface, ByteUnit(1), Header(0, SETTINGS, 0, 0)>>}
    \cup {<<Preface, Header(0, SETTINGS, 0, 0)>> \o f : f \in CutFrames}
    \cup {<<Preface, Header(0, SETTINGS, 0, 0)>> \o f \o g : f \in CutFrames, g \in LastFrames}
    \cup {<<Preface, f>> : f \in FirstFrames}
    \cup {<<Preface, f>> \o g : f \in FirstFrames, g \in Frames}
    \cup {<<Preface, Header(0, SETTINGS, 0, 0)>> \o f \o g : f \in Frames, g \in LastFrames}
=============================================================================
