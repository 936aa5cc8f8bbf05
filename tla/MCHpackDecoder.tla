--------------------------- MODULE MCHpackDecoder ---------------------------
(***************************************************************************)
(* Small instances of HpackDecoder, with the bytes of MCHpackPeer and      *)
(* header blocks nobody has encoded: any bytes in any order.               *)
(***************************************************************************)
EXTENDS HpackDecoder

MCStaticTable ==
    <<<< <<1>>, << >> >>, << <<2>>, <<3>> >>, << <<2>>, <<4>> >>,
      << <<3>>, << >> >>, << <<4>>, << >> >>, << <<5>>, << >> >>>>

MCChars == 0 .. 31

\* Any code will do that makes a string of the peer's into another one.
MCHuffmanDecode(raw) == [i \in DOMAIN raw |-> raw[Len(raw) + 1 - i]]

\* Bytes of every kind of field, and of lengths.
MCBytes == {1, 4, 7, 9, 15, 23}

\* All blocks of up to three bytes, fields with a new name, and an index
\* that wraps to 0.
MCBlocks ==
    UNION {[1 .. n -> MCBytes] : n \in 1 .. 3} \cup
    {<<8, 1, 4, 1, 9>>, <<2, 7, 1, 22>>, <<0, 1, 4, 1, 9>>, <<31, 1>>, <<31, 17, 31, 31, 31, 15>>}
=============================================================================
