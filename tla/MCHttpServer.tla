---------------------------- MODULE MCHttpServer ----------------------------
(***************************************************************************)
(* Small instances of HttpServer.  With two clients a callback can be      *)
(* behind the accept loop, and so can a shutdown.                          *)
(***************************************************************************)
EXTENDS HttpServer
=============================================================================
