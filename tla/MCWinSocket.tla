---------------------------- MODULE MCWinSocket ----------------------------
(* Two threads share a socket; handles are reused. *)
EXTENDS WinSocket
=============================================================================
