--------------------------- MODULE MCHttpResponse ---------------------------
(***************************************************************************)
(* Small instances of HttpResponse: handlers that make up to a few calls,  *)
(* enough for a status, two headers, the stream, a write and a close.      *)
(***************************************************************************)
EXTENDS HttpResponse
=============================================================================
