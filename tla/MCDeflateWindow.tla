-------------------------- MODULE MCDeflateWindow --------------------------
(* Model checking of DeflateWindow. *)
EXTENDS DeflateWindow
=============================================================================
