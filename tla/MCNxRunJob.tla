----------------------------- MODULE MCNxRunJob -----------------------------
(* Model checking of NxRunJob: threads as model values. *)
EXTENDS NxRunJob

CONSTANTS t1, t2

MCThreads == {t1, t2}
=============================================================================
