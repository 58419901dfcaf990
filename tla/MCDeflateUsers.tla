--------------------------- MODULE MCDeflateUsers ---------------------------
(* Model checking of DeflateStream and of its users. *)
EXTENDS DeflateUsers
=============================================================================
