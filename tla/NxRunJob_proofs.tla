--------------------------- MODULE NxRunJob_proofs ---------------------------
(***************************************************************************)
(* Proofs about NxRunJob for any set of threads, any timeouts and any      *)
(* number of windows: the read-write lock and the generation counter keep  *)
(* the window of the handle consistent, so NxRunJob is a SharedWindow.     *)
(***************************************************************************)
EXTENDS NxRunJob, TLAPS

\* The generation names the last window opened, the only one that can be open.
GenerationInv ==
  \A w \in Windows : w # generation => window[w] = "closed"

\* The lock: a writer is a thread that is replacing the window, a reader one
\* that is about to paste, and the two exclude each other.
LockInv ==
  /\ readers = {t \in Threads : pc[t] = "paste"}
  /\ \A t \in Threads : pc[t] = "reopen" <=> writer = t
  /\ writer # Nobody => readers = {}

\* The handle points to the last window, or to none once that one is closed;
\* it points to a closed window only while a writer is replacing it.
HandleInv ==
  /\ paste_addr # NULL => paste_addr = generation
  /\ (paste_addr = NULL \/ writer # Nobody) <=> window[generation] = "closed"

\* A thread's window_generation names the window it pasted into last.
TriedInv == tried = window_generation

IInv == TypeOK /\ GenerationInv /\ LockInv /\ HandleInv /\ TriedInv

-----------------------------------------------------------------------------
\* The wait counter of nx_wait_ticks stays in its cycle.
LEMMA NextWaitType == \A n \in 0..2 : NextWait(n) \in 0..2
<1> SUFFICES ASSUME NEW n \in Nat, n = 0 \/ n = 1 \/ n = 2
             PROVE  NextWait(n) \in 0..2
  OBVIOUS
<1> QED
  BY DEF NextWait

\* The invariant holds when nx_open has opened the first window.
LEMMA InitIInv == Init => IInv
<1> SUFFICES ASSUME Init PROVE IInv
  OBVIOUS
<1> USE RJAssumption
<1>1. TypeOK
  BY DEF Init, TypeOK, PcLabels, Windows, NULL, NoGeneration
<1>2. GenerationInv
  BY DEF Init, GenerationInv, Windows
<1>3. LockInv
  BY DEF Init, LockInv
<1>4. HandleInv
  BY DEF Init, HandleInv, Windows, NULL
<1>5. TriedInv
  BY DEF Init, TriedInv, NULL, NoGeneration
<1> QED
  BY <1>1, <1>2, <1>3, <1>4, <1>5 DEF IInv

\* Every action of nxu_run_job keeps the types.
LEMMA TypeStep == TypeOK /\ [Next]_vars => TypeOK'
<1> SUFFICES ASSUME TypeOK, [Next]_vars PROVE TypeOK'
  OBVIOUS
<1> USE RJAssumption DEF TypeOK, vars, handleVars, lockVars, localVars, jobVars, envVars,
        Goto, Return, PcLabels, Windows, NULL, NoGeneration
<1>1. ASSUME NEW t \in Threads, SubmitJob(t) PROVE TypeOK'
  BY <1>1 DEF SubmitJob
<1>2. ASSUME NEW t \in Threads, RdLock(t) PROVE TypeOK'
  BY <1>2 DEF RdLock
<1>3. ASSUME NEW t \in Threads, PasteTaken(t) PROVE TypeOK'
  <2>1. window_generation' \in [Threads -> 0..MaxWindows]
    BY <1>3 DEF PasteTaken
  <2>2. tried' \in [Threads -> 0..MaxWindows]
    BY <1>3 DEF PasteTaken
  <2>3. inNx' \in [Threads -> SUBSET {"cur", "late"}]
    BY <1>3 DEF PasteTaken
  <2>4. ticks_total' \in [Threads -> Nat]
    BY <1>3 DEF PasteTaken
  <2> QED
    BY <1>3, <2>1, <2>2, <2>3, <2>4 DEF PasteTaken
<1>4. ASSUME NEW t \in Threads, PasteRefused(t) PROVE TypeOK'
  <2>1. /\ window_generation' \in [Threads -> 0..MaxWindows]
        /\ tried' \in [Threads -> 0..MaxWindows]
    <3>1. CASE paste_addr = NULL
      BY <1>4, <3>1 DEF PasteRefused
    <3>2. CASE paste_addr # NULL
      <4>1. window_generation' = [window_generation EXCEPT ![t] = generation]
        BY <1>4, <3>2 DEF PasteRefused
      <4>2. tried' = [tried EXCEPT ![t] = paste_addr]
        BY <1>4, <3>2 DEF PasteRefused
      <4>3. window_generation' \in [Threads -> 0..MaxWindows]
        BY <4>1
      <4>4. tried' \in [Threads -> 0..MaxWindows]
        BY <4>2
      <4> QED
        BY <4>3, <4>4
    <3> QED
      BY <3>1, <3>2
  <2> QED
    BY <1>4, <2>1 DEF PasteRefused
<1>0. ASSUME NEW t \in Threads, NEW r \in {"ok", "EAGAIN"}, Return(t, r)
      PROVE  /\ pc' \in [Threads -> PcLabels] /\ ret' \in [Threads -> {"none", "ok", "EAGAIN"}]
             /\ window_generation' \in [Threads -> 0..MaxWindows]
             /\ ticks_total' \in [Threads -> Nat] /\ wait_count' \in [Threads -> 0..2]
             /\ tried' \in [Threads -> 0..MaxWindows]
  BY <1>0
<1>5. ASSUME NEW t \in Threads, CsbValid(t) PROVE TypeOK'
  <2>1. Return(t, "ok")
    BY <1>5 DEF CsbValid
  <2> QED
    BY <1>0, <1>5, <2>1 DEF CsbValid
<1>6. ASSUME NEW t \in Threads, CsbPoll(t) PROVE TypeOK'
  <2>1. CASE ticks_total[t] + 1 < CsbTimeout
    <3>1. /\ ticks_total' = [ticks_total EXCEPT ![t] = @ + 1]
          /\ UNCHANGED <<pc, ret, window_generation, wait_count, tried>>
      BY <1>6, <2>1 DEF CsbPoll
    <3>2. ticks_total' \in [Threads -> Nat]
      BY <3>1
    <3> QED
      BY <1>6, <3>1, <3>2 DEF CsbPoll
  <2>2. CASE ~(ticks_total[t] + 1 < CsbTimeout)
    <3>1. Return(t, "EAGAIN")
      BY <1>6, <2>2 DEF CsbPoll
    <3> QED
      BY <1>0, <1>6, <3>1 DEF CsbPoll
  <2> QED
    BY <2>1, <2>2
<1>7. ASSUME NEW t \in Threads, LooksSuspended(t) PROVE TypeOK'
  BY <1>7 DEF LooksSuspended
<1>8. ASSUME NEW t \in Threads, WaitAndRetry(t) PROVE TypeOK'
  <2>1. CASE AfterWait(t) > PasteTimeout
    <3>1. Return(t, "EAGAIN")
      BY <1>8, <2>1 DEF WaitAndRetry
    <3> QED
      BY <1>0, <1>8, <3>1 DEF WaitAndRetry
  <2>2. CASE ~(AfterWait(t) > PasteTimeout)
    <3>1. /\ ticks_total' = [ticks_total EXCEPT ![t] = AfterWait(t)]
          /\ Goto(t, "rdlock") /\ UNCHANGED <<ret, window_generation, wait_count, tried>>
      BY <1>8, <2>2 DEF WaitAndRetry
    <3>2. ticks_total' \in [Threads -> Nat]
      BY <3>1 DEF AfterWait
    <3> QED
      BY <1>8, <3>1, <3>2 DEF WaitAndRetry
  <2> QED
    BY <2>1, <2>2
<1>9. ASSUME NEW t \in Threads, WrLockStale(t) PROVE TypeOK'
  BY <1>9 DEF WrLockStale
<1>10. ASSUME NEW t \in Threads, WrLockClose(t) PROVE TypeOK'
  BY <1>10 DEF WrLockClose, FunctionEnd
<1>11. ASSUME NEW t \in Threads, ReopenOk(t) PROVE TypeOK'
  BY <1>11 DEF ReopenOk
<1>12. ASSUME NEW t \in Threads, ReopenFails(t) PROVE TypeOK'
  <2> DEFINE wait_ticks == Backoff(wait_count[t])
             waited == ticks_total[t] + wait_ticks
  <2>1. wait_ticks \in Nat /\ waited \in Nat
    BY DEF Backoff
  <2> HIDE DEF wait_ticks, waited
  <2>3. CASE GivesUp(waited, wait_ticks)
    <3>1. Return(t, "EAGAIN") /\ paste_addr' = NULL /\ writer' = Nobody
      BY <1>12, <2>3 DEF ReopenFails, wait_ticks, waited
    <3>2. UNCHANGED <<generation, init_total_credits, readers, jobVars, envVars>>
      BY <1>12 DEF ReopenFails
    <3>3. /\ pc' \in [Threads -> PcLabels] /\ ret' \in [Threads -> {"none", "ok", "EAGAIN"}]
          /\ window_generation' \in [Threads -> 0..MaxWindows]
          /\ ticks_total' \in [Threads -> Nat] /\ wait_count' \in [Threads -> 0..2]
          /\ tried' \in [Threads -> 0..MaxWindows]
      BY <1>0, <3>1
    <3>4. paste_addr' \in 0..MaxWindows /\ writer' \in Threads \cup {Nobody}
      BY <3>1
    <3> QED
      BY ONLY TypeOK, <3>2, <3>3, <3>4
        DEF TypeOK, handleVars, jobVars, envVars, Windows, NULL
  <2>4. CASE ~GivesUp(waited, wait_ticks)
    <3>1. /\ ticks_total' = [ticks_total EXCEPT ![t] = waited]
          /\ wait_count' = [wait_count EXCEPT ![t] = NextWait(wait_count[t])]
          /\ UNCHANGED <<paste_addr, writer, pc, ret, window_generation, tried>>
      BY <1>12, <2>4 DEF ReopenFails, wait_ticks, waited
    <3>2. ticks_total' \in [Threads -> Nat]
      BY <2>1, <3>1
    <3>3. wait_count' \in [Threads -> 0..2]
      BY <3>1, NextWaitType
    <3> QED
      BY <1>12, <3>1, <3>2, <3>3 DEF ReopenFails
  <2> QED
    BY <2>3, <2>4
<1>13. ASSUME NEW t \in Threads, NxComplete(t) PROVE TypeOK'
  BY <1>13 DEF NxComplete
<1>14. ASSUME Hypervisor PROVE TypeOK'
  BY <1>14 DEF Hypervisor, OpenWindows
<1>15. ASSUME OtherUsers PROVE TypeOK'
  BY <1>15 DEF OtherUsers
<1>16. CASE UNCHANGED vars
  BY <1>16
<1> QED
  BY <1>1, <1>2, <1>3, <1>4, <1>5, <1>6, <1>7, <1>8, <1>9, <1>10, <1>11, <1>12,
     <1>13, <1>14, <1>15, <1>16 DEF Next, Thread

-----------------------------------------------------------------------------
\* Every action keeps all windows closed but the one of the generation.
LEMMA GenerationStep == IInv /\ [Next]_vars => GenerationInv'
<1> SUFFICES ASSUME IInv, [Next]_vars PROVE GenerationInv'
  OBVIOUS
<1> USE RJAssumption DEF IInv, TypeOK, GenerationInv, Windows
<1>1. ASSUME NEW t \in Threads, WrLockClose(t) PROVE GenerationInv'
  BY <1>1 DEF WrLockClose, FunctionEnd, handleVars
<1>2. ASSUME NEW t \in Threads, ReopenOk(t) PROVE GenerationInv'
  <2>1. window[generation] = "closed"
    BY <1>2 DEF ReopenOk, HandleInv, LockInv
  <2>2. PICK w \in Windows : window' = [window EXCEPT ![w] = "active"] /\ generation' = w
    BY <1>2 DEF ReopenOk
  <2> QED
    BY <2>1, <2>2
<1>3. ASSUME Hypervisor PROVE GenerationInv'
  BY <1>3 DEF Hypervisor, OpenWindows, handleVars
<1>4. CASE UNCHANGED <<generation, window>>
  BY <1>4
<1> QED
  BY <1>1, <1>2, <1>3, <1>4 DEF Next, Thread, vars, handleVars, envVars, SubmitJob,
     RdLock, PasteTaken, PasteRefused, CsbValid, CsbPoll, LooksSuspended, WaitAndRetry,
     WrLockStale, ReopenFails, NxComplete, OtherUsers

\* Every action keeps the read-write lock exclusive.
LEMMA LockStep == IInv /\ [Next]_vars => LockInv'
<1> SUFFICES ASSUME IInv, [Next]_vars PROVE LockInv'
  OBVIOUS
<1> USE RJAssumption DEF IInv, TypeOK, LockInv, Goto, Return
<1>1. ASSUME NEW t \in Threads, RdLock(t) PROVE LockInv'
  BY <1>1 DEF RdLock
<1>2. ASSUME NEW t \in Threads, PasteTaken(t) \/ PasteRefused(t) PROVE LockInv'
  BY <1>2 DEF PasteTaken, PasteRefused
<1>3. ASSUME NEW t \in Threads, WrLockClose(t) PROVE LockInv'
  BY <1>3 DEF WrLockClose, WriterMayEnter
<1>4. ASSUME NEW t \in Threads, ReopenOk(t) PROVE LockInv'
  BY <1>4 DEF ReopenOk
<1>5. ASSUME NEW t \in Threads, ReopenFails(t) PROVE LockInv'
  <2>1. CASE writer' = Nobody /\ Return(t, "EAGAIN")
    BY <1>5, <2>1 DEF ReopenFails
  <2>2. CASE UNCHANGED <<writer, pc>>
    BY <1>5, <2>2 DEF ReopenFails
  <2> QED
    BY <1>5, <2>1, <2>2 DEF ReopenFails
<1>6. ASSUME NEW t \in Threads, pc[t] \notin {"paste", "reopen"},
             pc' = pc \/ \E l \in PcLabels \ {"paste", "reopen"} : Goto(t, l),
             UNCHANGED lockVars
      PROVE  LockInv'
  BY <1>6 DEF lockVars
<1>7. ASSUME UNCHANGED <<readers, writer, pc>> PROVE LockInv'
  BY <1>7
<1>8. ASSUME NEW t \in Threads,
             \/ SubmitJob(t) \/ CsbValid(t) \/ CsbPoll(t) \/ LooksSuspended(t)
             \/ WaitAndRetry(t) \/ WrLockStale(t)
      PROVE  LockInv'
  BY <1>6, <1>8 DEF SubmitJob, CsbValid, CsbPoll, LooksSuspended, WaitAndRetry,
     WrLockStale, PcLabels, lockVars
<1> QED
  BY <1>1, <1>2, <1>3, <1>4, <1>5, <1>7, <1>8 DEF Next, Thread, vars, lockVars,
     NxComplete, Hypervisor, OtherUsers

\* Every action keeps paste_addr pointing to the open window or nowhere.
LEMMA HandleStep == IInv /\ [Next]_vars => HandleInv'
<1> SUFFICES ASSUME IInv, [Next]_vars PROVE HandleInv'
  OBVIOUS
<1> USE RJAssumption DEF IInv, TypeOK, HandleInv, Windows
<1>1. ASSUME NEW t \in Threads, WrLockClose(t) PROVE HandleInv'
  BY <1>1 DEF WrLockClose, FunctionEnd, WriterMayEnter, NULL, handleVars
<1>2. ASSUME NEW t \in Threads, ReopenOk(t) PROVE HandleInv'
  BY <1>2 DEF ReopenOk, NULL
<1>3. ASSUME NEW t \in Threads, ReopenFails(t) PROVE HandleInv'
  <2>1. writer = t /\ window[generation] = "closed"
    BY <1>3 DEF ReopenFails, LockInv
  <2>2. CASE paste_addr' = NULL
    BY <1>3, <2>1, <2>2 DEF ReopenFails, envVars
  <2>3. CASE UNCHANGED <<paste_addr, writer>>
    BY <1>3, <2>1, <2>3 DEF ReopenFails, envVars
  <2> QED
    BY <1>3, <2>2, <2>3 DEF ReopenFails
<1>4. ASSUME Hypervisor PROVE HandleInv'
  BY <1>4 DEF Hypervisor, OpenWindows, handleVars, lockVars
<1>5. CASE UNCHANGED <<paste_addr, writer, generation, window>>
  BY <1>5
<1> QED
  BY <1>1, <1>2, <1>3, <1>4, <1>5 DEF Next, Thread, vars, handleVars, lockVars, envVars,
     SubmitJob, RdLock, PasteTaken, PasteRefused, CsbValid, CsbPoll, LooksSuspended,
     WaitAndRetry, WrLockStale, NxComplete, OtherUsers

\* Every action keeps window_generation naming the window pasted into last.
LEMMA TriedStep == IInv /\ [Next]_vars => TriedInv'
<1> SUFFICES ASSUME IInv, [Next]_vars PROVE TriedInv'
  OBVIOUS
<1> USE RJAssumption DEF IInv, TypeOK, TriedInv
<1>1. ASSUME NEW t \in Threads, NEW r \in {"ok", "EAGAIN"}, Return(t, r) PROVE TriedInv'
  BY <1>1 DEF Return, NoGeneration, NULL
<1>2. ASSUME NEW t \in Threads,
             window_generation' = [window_generation EXCEPT ![t] = generation],
             tried' = [tried EXCEPT ![t] = paste_addr],
             paste_addr # NULL
      PROVE  TriedInv'
  BY <1>2 DEF HandleInv
<1>3. CASE UNCHANGED <<window_generation, tried>>
  BY <1>3
<1> QED
  BY <1>1, <1>2, <1>3 DEF Next, Thread, vars, localVars, SubmitJob, RdLock, PasteTaken,
     PasteRefused, CsbValid, CsbPoll, LooksSuspended, WaitAndRetry, WrLockStale, WrLockClose,
     ReopenOk, ReopenFails, NxComplete, Hypervisor, OtherUsers

\* The lock, the generation and the handle stay consistent in every behaviour.
THEOREM InductiveInvariant == Spec => []IInv
<1>1. Init => IInv
  BY InitIInv
<1>2. IInv /\ [Next]_vars => IInv'
  BY TypeStep, GenerationStep, LockStep, HandleStep, TriedStep DEF IInv
<1> QED
  BY <1>1, <1>2, PTL DEF Spec

\* Type correctness of the handle, the threads and the windows.
THEOREM TypeCorrect == Spec => []TypeOK
<1>1. IInv => TypeOK
  BY DEF IInv
<1> QED
  BY <1>1, InductiveInvariant, PTL

\* No thread ever pastes into a window that another thread has closed.
THEOREM PasteSafe == Spec => []PasteAddressMapped
<1>1. IInv => PasteAddressMapped
  <2> SUFFICES ASSUME IInv, NEW t \in Threads, pc[t] = "paste", paste_addr # NULL
               PROVE  paste_addr \in OpenWindows
    BY DEF PasteAddressMapped
  <2>1. writer = Nobody
    BY DEF IInv, LockInv
  <2>2. paste_addr = generation /\ generation \in Windows /\ window[generation] # "closed"
    BY <2>1 DEF IInv, TypeOK, HandleInv
  <2> QED
    BY <2>2 DEF IInv, TypeOK, OpenWindows
<1> QED
  BY <1>1, InductiveInvariant, PTL

\* The handle never loses track of an open window.
THEOREM NoLeak == Spec => []NoWindowLeaked
<1>1. IInv => NoWindowLeaked
  BY RJAssumption DEF IInv, TypeOK, GenerationInv, HandleInv, NoWindowLeaked, OpenWindows, Windows
<1> QED
  BY <1>1, InductiveInvariant, PTL

\* A window is closed only by a thread that pasted into it in this call.
THEOREM ClosesOwn == Spec => ClosesOnlyWhatItTried
<1> DEFINE Closes == \A w \in Windows, t \in Threads :
       (window[w] # "closed" /\ window'[w] = "closed" /\ writer' = t) => tried[t] = w
<1>1. IInv /\ [Next]_vars => [Closes]_vars
  <2> SUFFICES ASSUME IInv, Next, NEW w \in Windows, NEW t \in Threads,
                      window[w] # "closed", window'[w] = "closed", writer' = t
               PROVE  tried[t] = w
    BY DEF vars
  <2>1. ASSUME NEW u \in Threads, WrLockClose(u) PROVE tried[t] = w
    <3>1. u = t /\ w = paste_addr
      BY <2>1 DEF WrLockClose, FunctionEnd
    <3>2. paste_addr = generation /\ window_generation[t] = generation
      BY <2>1, <3>1, RJAssumption DEF WrLockClose, SameGeneration, IInv, HandleInv, Windows, NULL
    <3> QED
      BY <3>1, <3>2 DEF IInv, TriedInv
  <2>2. ASSUME NEW u \in Threads, ReopenOk(u) PROVE FALSE
    BY <2>2 DEF ReopenOk, IInv, TypeOK
  <2>3. ASSUME Hypervisor PROVE FALSE
    BY <2>3 DEF Hypervisor, IInv, TypeOK, OpenWindows
  <2>4. CASE UNCHANGED window
    BY <2>4
  <2> QED
    BY <2>1, <2>2, <2>3, <2>4 DEF Next, Thread, envVars, SubmitJob, RdLock, PasteTaken,
       PasteRefused, CsbValid, CsbPoll, LooksSuspended, WaitAndRetry, WrLockStale,
       ReopenFails, NxComplete, OtherUsers
<1> QED
  BY <1>1, InductiveInvariant, PTL DEF Spec, ClosesOnlyWhatItTried

-----------------------------------------------------------------------------
\* The rwlock and the generation implement the window the threads were promised.
live == IF paste_addr \in OpenWindows THEN paste_addr ELSE 0

\* The one window that can be open is the last one opened.
LEMMA LiveIsLast ==
  ASSUME IInv
  PROVE  /\ live # 0 <=> window[generation] # "closed"
         /\ live # 0 => live = generation /\ paste_addr = generation
         /\ live = 0 \/ live \in Windows
BY DEF IInv, TypeOK, GenerationInv, HandleInv, live, OpenWindows, Windows, NULL

\* nxu_run_job implements SharedWindow: whatever its threads do, one window is
\* shared, pasted into while open, and replaced by the threads that tried it.
THEOREM Refinement == Spec => ImplementsSharedWindow
<1>1. Init => Shared!AInit
  BY RJAssumption DEF Init, Shared!AInit, OpenWindows, Windows, NULL
<1>2. IInv /\ IInv' /\ [Next]_vars => [Shared!ANext]_(Shared!avars)
  <2> SUFFICES ASSUME IInv, IInv', [Next]_vars
               PROVE  [Shared!ANext]_(Shared!avars)
    OBVIOUS
  <2> DEFINE L == live
  <2>1. ASSUME NEW t \in Threads, NEW r \in {"ok", "EAGAIN"}, Return(t, r), live' = live
        PROVE  Shared!AEnd(t)
    BY <2>1 DEF Return, Shared!AEnd, live, NULL
  <2>2. ASSUME NEW t \in Threads, PasteTaken(t) \/ PasteRefused(t), paste_addr # NULL
        PROVE  Shared!ATry(t)
    <3>1. paste_addr \in OpenWindows
      <4>1. writer = Nobody
        BY <2>2 DEF PasteTaken, PasteRefused, IInv, LockInv
      <4> QED
        BY <2>2, <4>1 DEF IInv, TypeOK, HandleInv, GenerationInv, OpenWindows
    <3>2. tried' = [tried EXCEPT ![t] = paste_addr]
      BY <2>2 DEF PasteTaken, PasteRefused
    <3>3. UNCHANGED <<paste_addr, window>>
      BY <2>2 DEF PasteTaken, PasteRefused, envVars, handleVars
    <3> QED
      BY <2>2, <3>1, <3>2, <3>3 DEF Shared!ATry, OpenWindows, NULL
  <2>3. ASSUME NEW t \in Threads, WrLockClose(t), live # 0 PROVE Shared!ARetire(t)
    <3>1. paste_addr = generation /\ paste_addr \in OpenWindows /\ paste_addr # 0
      BY <2>3, LiveIsLast DEF live
    <3>2. tried[t] = paste_addr
      BY <2>3, <3>1 DEF WrLockClose, SameGeneration, IInv, TriedInv
    <3>3. UNCHANGED <<paste_addr, tried>> /\ window'[paste_addr] = "closed"
      BY <2>3, <3>1 DEF WrLockClose, FunctionEnd, handleVars, OpenWindows
    <3>4. paste_addr \notin OpenWindows'
      BY <3>3 DEF OpenWindows
    <3> QED
      BY <3>1, <3>2, <3>3, <3>4 DEF Shared!ARetire
  <2>4. ASSUME NEW t \in Threads, WrLockClose(t), live = 0 PROVE UNCHANGED Shared!avars
    <3>1. UNCHANGED <<paste_addr, tried>>
      BY <2>4 DEF WrLockClose, handleVars
    <3>2. paste_addr \notin OpenWindows
      BY <2>4 DEF live, OpenWindows, Windows
    <3>3. paste_addr \notin OpenWindows'
      BY <2>4, <3>1 DEF WrLockClose, FunctionEnd, OpenWindows
    <3> QED
      BY <3>1, <3>2, <3>3 DEF Shared!avars
  <2>5. ASSUME NEW t \in Threads, ReopenOk(t) PROVE Shared!AReplace
    <3>1. window[generation] = "closed"
      BY <2>5, RJAssumption DEF ReopenOk, IInv, HandleInv, LockInv
    <3>2. live = 0
      BY <3>1, LiveIsLast
    <3>3. PICK w \in Windows : /\ NextGeneration(w) /\ paste_addr' = w
                               /\ window' = [window EXCEPT ![w] = "active"]
      BY <2>5 DEF ReopenOk
    <3>4. live' = w
      BY <3>3 DEF live, OpenWindows, IInv, TypeOK
    <3>5. \A u \in Threads : tried[u] # w
      BY <3>3 DEF NextGeneration, Remembered, IInv, TriedInv
    <3>6. UNCHANGED tried
      BY <2>5 DEF ReopenOk
    <3> QED
      BY <3>2, <3>4, <3>5, <3>6 DEF Shared!AReplace, live, Windows
  <2>6. ASSUME NEW t \in Threads, ReopenFails(t)
        PROVE  live' = live /\ (Return(t, "EAGAIN") \/ UNCHANGED tried)
    <3>1. window[generation] = "closed"
      BY <2>6, RJAssumption DEF ReopenFails, IInv, HandleInv, LockInv
    <3>2. UNCHANGED <<window, generation>>
      BY <2>6 DEF ReopenFails, envVars
    <3>3. live = 0 /\ live' = 0
      BY <3>1, <3>2, LiveIsLast DEF IInv, live, OpenWindows, TypeOK, HandleInv, GenerationInv, Windows, NULL
    <3> QED
      BY <2>6, <3>3 DEF ReopenFails
  <2>7. ASSUME Hypervisor PROVE UNCHANGED Shared!avars
    <3>1. OpenWindows' = OpenWindows
      BY <2>7 DEF Hypervisor, OpenWindows, IInv, TypeOK
    <3> QED
      BY <2>7, <3>1 DEF Hypervisor, handleVars, Shared!avars
  <2>8. CASE UNCHANGED <<paste_addr, window, tried>>
    BY <2>8 DEF Shared!avars, OpenWindows
  <2>9. ASSUME NEW t \in Threads, PasteTaken(t) \/ PasteRefused(t), paste_addr = NULL
        PROVE  UNCHANGED <<paste_addr, window, tried>>
    BY <2>9 DEF PasteTaken, PasteRefused, handleVars, envVars
  <2>10. ASSUME NEW t \in Threads, CsbValid(t) \/ CsbPoll(t) \/ WaitAndRetry(t)
         PROVE  /\ live' = live
                /\ Return(t, "ok") \/ Return(t, "EAGAIN") \/ UNCHANGED tried
    <3>1. UNCHANGED <<paste_addr, window>>
      BY <2>10 DEF CsbValid, CsbPoll, WaitAndRetry, handleVars, envVars
    <3> QED
      BY <2>10, <3>1 DEF CsbValid, CsbPoll, WaitAndRetry, live, OpenWindows
  <2>11. ASSUME live' = live, UNCHANGED tried PROVE UNCHANGED Shared!avars
    BY <2>11 DEF live, Shared!avars
  <2>12. ASSUME NEW t \in Threads, CsbValid(t) \/ CsbPoll(t) \/ WaitAndRetry(t) \/ ReopenFails(t)
         PROVE  Shared!AEnd(t) \/ UNCHANGED Shared!avars
    BY <2>1, <2>6, <2>10, <2>11, <2>12
  <2> QED
    BY <2>2, <2>3, <2>4, <2>5, <2>7, <2>8, <2>9, <2>12 DEF Next, Thread, vars,
       handleVars, envVars, Shared!ANext, SubmitJob, RdLock, LooksSuspended, WrLockStale,
       NxComplete, OtherUsers
<1> QED
  BY <1>1, <1>2, InductiveInvariant, PTL DEF Spec, ImplementsSharedWindow, Shared!ASpec
=============================================================================
