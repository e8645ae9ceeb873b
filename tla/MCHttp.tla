------------------------------- MODULE MCHttp -------------------------------
(* Two requests, one of them a download, over two threads at most.          *)
EXTENDS Http

CONSTANTS main, t1, t2
=============================================================================
