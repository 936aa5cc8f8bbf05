----------------------------- MODULE MCTextCalls -----------------------------
(* The characters at the edges of the digits, all digits and the sign; texts *)
(* over two characters on both sides of the limit of the search.             *)
EXTENDS TextCalls

Over(set, n) == UNION {[1..k -> set] : k \in 0..n}

MCChars == {45} \cup 47..58 \cup 64..71 \cup 96..103 \cup {0, 255}
MCRadices == 1..17
MCBufferLens == {0, 3, 4, 9, 10, 20}
MCTexts == Over({97, 98}, 6) \cup {<<130>>, <<200>>, <<97, 0, 98>>, <<97, 98, 130, 97, 98>>, <<97, 98, 97, 97, 255>>}
MCPatterns == Over({97, 98}, 3) \cup Over({65, 97}, 2) \cup {<<130>>, <<97, 130>>, <<98, 130>>, <<130, 97>>}
MCLengths == 0..300
MCLists == Over({32, 44, 120}, 5)
MCPieces == {<<>>, <<97>>, <<97, 98>>, <<98, 97, 98, 98>>}
MCSymmetry == Permutations(Objects)
==============================================================================
