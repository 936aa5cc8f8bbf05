-------------------------- MODULE MCBufferedReader --------------------------
(***************************************************************************)
(* Small instances of BufferedReader: a client that sends both kinds of    *)
(* line end and an empty line, and a buffer of 2 or 4 bytes that grows.    *)
(***************************************************************************)
EXTENDS BufferedReader

MCInput == <<"x", CR, LF, LF, "y", "x", "y", "x">>
MCPatterns == {<<"x", "y", "x">>, <<"x", CR>>, <<"y", "x", "y">>}
=============================================================================
