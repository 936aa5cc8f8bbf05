------------------------------ MODULE MCHuffman ------------------------------
(* Texts start with characters of 5, 6, 7, 8 and 10 bits, so that the last  *)
(* one starts at each bit of a byte.                                         *)
EXTENDS Huffman

MCShort == {48, 32, 58, 88, 33}
==============================================================================
