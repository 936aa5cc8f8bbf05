---------------------------- MODULE MCHpackPeer ----------------------------
(***************************************************************************)
(* Small instances of HpackPeer: bytes of 5 bits, so that the prefixes of  *)
(* the fields have 4, 3, 2 and 1 bits, a static table of 6 entries and a   *)
(* dynamic one with room for two, whose indices need an extension byte.    *)
(***************************************************************************)
EXTENDS HpackPeer

MCStaticTable ==
    <<<< <<1>>, << >> >>, << <<2>>, <<3>> >>, << <<2>>, <<4>> >>,
      << <<3>>, << >> >>, << <<4>>, << >> >>, << <<5>>, << >> >>>>

MCChars == 0 .. 31

\* Any code will do that makes a string of the peer's into another one.
MCHuffmanDecode(raw) == [i \in DOMAIN raw |-> raw[Len(raw) + 1 - i]]

MCNames == {<<1>>, <<6>>}
MCValues == {<<3>>, <<7, 8>>}
=============================================================================
