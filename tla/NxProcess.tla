----------------------------- MODULE NxProcess -----------------------------
(***************************************************************************)
(* A process with the library loaded, which calls one function at a time:  *)
(* of its streams, or the checksums and copies.                            *)
(***************************************************************************)
EXTENDS StreamSwitch, NxCopy

ProcessInit == Init /\ CopyInit

ProcessNext ==
  \/ task = "none" /\ Next /\ UNCHANGED copyVars
  \/ open \cup lost = {} /\ CopyNext /\ UNCHANGED vars
  \/ Forget /\ UNCHANGED vars

ProcessSpec == ProcessInit /\ [][ProcessNext]_<<vars, copyVars>>
=============================================================================
