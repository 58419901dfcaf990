----------------------------- MODULE StreamMap -----------------------------
(***************************************************************************)
(* What the map from z_streams to their entries promises: the operation of *)
(* a stream takes effect at once, somewhere between call and return, and a *)
(* put that fails changes nothing.  An operation that runs while a put     *)
(* runs out of memory may miss its key; NxMap shows why.                   *)
(***************************************************************************)
CONSTANTS
  Keys,     \* addresses of z_streams; a stream is used by one thread at a time
  Vals,     \* entries
  NULL

VARIABLES
  content,    \* content[k]: the entry of k, or NULL
  running,    \* the keys with an operation under way
  failing,    \* those whose put has run out of memory
  disturbed,  \* those whose operation another put's failure may disturb
  ret         \* ret[k]: the result of the last operation of k

mvars == <<content, running, failing, disturbed, ret>>

MInit ==
  /\ content = [k \in Keys |-> NULL]
  /\ running = {}
  /\ failing = {}
  /\ disturbed = {}
  /\ ret = [k \in Keys |-> NULL]

MCall(k) ==
  /\ k \notin running
  /\ running' = running \cup {k}
  /\ disturbed' = IF failing = {} THEN disturbed ELSE disturbed \cup {k}
  /\ UNCHANGED <<content, failing, ret>>

\* The operation of k ends with result r.
Returns(k, r) ==
  /\ running' = running \ {k}
  /\ disturbed' = disturbed \ {k}
  /\ ret' = [ret EXCEPT ![k] = r]

MPut(k) ==
  /\ k \in running \ failing
  /\ content[k] = NULL
  /\ \E v \in Vals : content' = [content EXCEPT ![k] = v]
  /\ Returns(k, "ok")
  /\ UNCHANGED failing

MGet(k) ==
  /\ k \in running \ failing
  /\ Returns(k, content[k])
  /\ UNCHANGED <<content, failing>>

MRemove(k) ==
  /\ k \in running \ failing
  /\ Returns(k, content[k])
  /\ content' = [content EXCEPT ![k] = NULL]
  /\ UNCHANGED failing

\* A put runs out of memory: it will fail, and may disturb what runs meanwhile.
MOutOfMemory(k) ==
  /\ k \in running \ failing
  /\ failing' = failing \cup {k}
  /\ disturbed' = disturbed \cup (running \ {k})
  /\ UNCHANGED <<content, running, ret>>

MPutFails(k) ==
  /\ k \in failing
  /\ failing' = failing \ {k}
  /\ Returns(k, "failed")
  /\ UNCHANGED content

\* A disturbed operation may not find its key, or fail.
MMiss(k) ==
  /\ k \in disturbed
  /\ \E r \in {NULL, "failed"} : Returns(k, r)
  /\ UNCHANGED <<content, failing>>

MNext ==
  \E k \in Keys :
    \/ MCall(k)
    \/ MPut(k) \/ MGet(k) \/ MRemove(k)
    \/ MOutOfMemory(k) \/ MPutFails(k) \/ MMiss(k)

MSpec == MInit /\ [][MNext]_mvars
=============================================================================
