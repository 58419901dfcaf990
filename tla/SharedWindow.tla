---------------------------- MODULE SharedWindow ----------------------------
(***************************************************************************)
(* What the device handle promises the threads that share it: at any time  *)
(* at most one VAS window of the handle is open, jobs are pasted into that *)
(* window only, and a window is given up only by a thread that has itself  *)
(* tried it.  NxRunJob implements this with a read-write lock and a        *)
(* generation counter.                                                     *)
(***************************************************************************)
EXTENDS Naturals

CONSTANTS
  Threads,    \* the threads that share one nx_dev_t
  MaxWindows  \* bound: names of windows; one nobody has tried can be used again

VARIABLES
  live,    \* the open window, 0 when there is none
  tried    \* tried[t]: the last window t pasted into since its call began, or 0

avars == <<live, tried>>

AInit ==
  /\ live = 1
  /\ tried = [t \in Threads |-> 0]

\* A job is pasted into the open window, and into no other.
ATry(t) ==
  /\ live # 0
  /\ tried' = [tried EXCEPT ![t] = live]
  /\ UNCHANGED live

\* A call ends: what it tried is forgotten.
AEnd(t) ==
  /\ tried' = [tried EXCEPT ![t] = 0]
  /\ UNCHANGED live

\* The open window is closed by a thread that tried it ...
ARetire(t) ==
  /\ live # 0
  /\ tried[t] = live
  /\ live' = 0
  /\ UNCHANGED tried

\* ... and one no thread has tried takes its place.
AReplace ==
  /\ live = 0
  /\ live' \in {w \in 1..MaxWindows : \A t \in Threads : tried[t] # w}
  /\ UNCHANGED tried

ANext ==
  \/ \E t \in Threads : ATry(t) \/ AEnd(t) \/ ARetire(t)
  \/ AReplace

ASpec == AInit /\ [][ANext]_avars
=============================================================================
