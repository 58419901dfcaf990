------------------------------ MODULE NxRunJob ------------------------------
(***************************************************************************)
(* nx_submit_job and nxu_run_job (lib/nx_zlib.c, lib/gzip_vas.c): several  *)
(* threads share one device handle, paste jobs into its VAS window, wait   *)
(* for the accelerator, and replace the window when it looks suspended.    *)
(*                                                                         *)
(* Time is counted in units of freq>>5 ticks (31 ms), the shortest backoff *)
(* and the suspension threshold; one failed paste costs one unit.          *)
(***************************************************************************)
EXTENDS Naturals, FiniteSets

CONSTANTS
  Threads,        \* threads that share the handle, one command block each
  Nobody,         \* the writer of a lock nobody holds for writing
  PowerVM,        \* nx_config.virtualization = POWERVM
  PasteTimeout,   \* nx_config.timeout_paste_success, in units
  CsbTimeout,     \* nx_config.timeout_wait_for_csb_v, in polls of the CSB
  MaxCredits,     \* bound: the largest number of VAS credits
  MaxWindows      \* bound: names of windows (see NextGeneration)

ASSUME RJAssumption ==
  /\ Nobody \notin Threads
  /\ PowerVM \in BOOLEAN
  /\ PasteTimeout \in Nat
  /\ CsbTimeout \in Nat \ {0}
  /\ MaxCredits \in Nat \ {0}
  /\ MaxWindows \in Nat \ {0}

NULL == 0
NoGeneration == 0   \* window_generation == -1: no generation is

VARIABLES
  \* the handle, struct nx_dev_t
  paste_addr,          \* the window the handle points to, or NULL
  generation,
  init_total_credits,
  readers, writer,     \* rwlock
  \* the locals of nxu_run_job and its result, by thread
  pc,
  window_generation,
  ticks_total,
  wait_count,
  ret,
  \* the job in the thread's command block
  csb_v,               \* the CSB the thread polls is valid
  inNx,                \* jobs the accelerator still has: this call's, older ones
  done,                \* the accelerator completed this call's job
  \* the hypervisor and the kernel
  window,              \* window[w]: state of window w
  total, others,       \* VAS credits: the total, and those other users hold
  \* history
  tried                \* the last window the thread pasted into in this call

handleVars == <<paste_addr, generation, init_total_credits>>
lockVars   == <<readers, writer>>
localVars  == <<window_generation, ticks_total, wait_count>>
jobVars    == <<csb_v, inNx, done>>
envVars    == <<window, total, others>>
vars == <<handleVars, lockVars, pc, localVars, ret, jobVars, envVars, tried>>

Windows == 1..MaxWindows
OpenWindows == {w \in Windows : window[w] \in {"active", "suspended"}}
used == others + Cardinality(OpenWindows)

\* freq >> (5 - (wait_count % 3)), in units.
Backoff(n) == IF n = 0 THEN 1 ELSE IF n = 1 THEN 2 ELSE 4

\* The count of backoffs is used modulo 3 only.
NextWait(n) == (n + 1) % 3

Goto(t, l) == pc' = [pc EXCEPT ![t] = l]

\* nxu_run_job returns: its locals are gone.
Return(t, r) ==
  /\ Goto(t, "idle")
  /\ ret' = [ret EXCEPT ![t] = r]
  /\ window_generation' = [window_generation EXCEPT ![t] = NoGeneration]
  /\ ticks_total' = [ticks_total EXCEPT ![t] = 0]
  /\ wait_count' = [wait_count EXCEPT ![t] = 0]
  /\ tried' = [tried EXCEPT ![t] = NULL]

-----------------------------------------------------------------------------
\* nx_open has left the handle with its first window.
Init ==
  /\ paste_addr = 1
  /\ generation = 1
  /\ total \in 1..MaxCredits
  /\ others \in 0..(total - 1)
  /\ init_total_credits = total
  /\ readers = {}
  /\ writer = Nobody
  /\ pc = [t \in Threads |-> "idle"]
  /\ window_generation = [t \in Threads |-> NoGeneration]
  /\ ticks_total = [t \in Threads |-> 0]
  /\ wait_count = [t \in Threads |-> 0]
  /\ ret = [t \in Threads |-> "none"]
  /\ csb_v = [t \in Threads |-> FALSE]
  /\ inNx = [t \in Threads |-> {}]
  /\ done = [t \in Threads |-> FALSE]
  /\ window = [w \in Windows |-> IF w = 1 THEN "active" ELSE "closed"]
  /\ tried = [t \in Threads |-> NULL]

\* nx_submit_job clears the CSB of the command block and enters nxu_run_job.
\* A job of an earlier call may still be in the accelerator.
SubmitJob(t) ==
  /\ pc[t] = "idle"
  /\ Goto(t, "rdlock")
  /\ ret' = [ret EXCEPT ![t] = "none"]
  /\ csb_v' = [csb_v EXCEPT ![t] = FALSE]
  /\ done' = [done EXCEPT ![t] = FALSE]
  /\ inNx' = [inNx EXCEPT ![t] = IF @ = {} THEN {} ELSE {"late"}]
  /\ UNCHANGED <<handleVars, lockVars, localVars, envVars, tried>>

RdLock(t) ==
  /\ pc[t] = "rdlock"
  /\ writer = Nobody
  /\ readers' = readers \cup {t}
  /\ Goto(t, "paste")
  /\ UNCHANGED <<handleVars, writer, localVars, ret, jobVars, envVars, tried>>

\* A paste into an active window is taken or, when the queue is full or the
\* paste buffer busy, refused; a suspended window refuses it.
CanTake(w) == w \in Windows /\ window[w] = "active"

PasteTaken(t) ==
  /\ pc[t] = "paste"
  /\ paste_addr # NULL
  /\ CanTake(paste_addr)
  /\ window_generation' = [window_generation EXCEPT ![t] = generation]
  /\ tried' = [tried EXCEPT ![t] = paste_addr]
  /\ inNx' = [inNx EXCEPT ![t] = @ \cup {"cur"}]
  /\ readers' = readers \ {t}
  /\ ticks_total' = [ticks_total EXCEPT ![t] = 0]  \* t of nx_wait_for_csb
  /\ Goto(t, "csb")
  /\ UNCHANGED <<handleVars, writer, wait_count, ret, csb_v, done, envVars>>

PasteRefused(t) ==
  /\ pc[t] = "paste"
  /\ readers' = readers \ {t}
  /\ IF paste_addr # NULL
       THEN /\ window_generation' = [window_generation EXCEPT ![t] = generation]
            /\ tried' = [tried EXCEPT ![t] = paste_addr]
       ELSE UNCHANGED <<window_generation, tried>>
  /\ Goto(t, "failed")
  /\ UNCHANGED <<handleVars, writer, ticks_total, wait_count, ret, jobVars, envVars>>

-----------------------------------------------------------------------------
\* nx_wait_for_csb.
CsbValid(t) ==
  /\ pc[t] = "csb"
  /\ csb_v[t]
  /\ Return(t, "ok")
  /\ UNCHANGED <<handleVars, lockVars, jobVars, envVars>>

CsbPoll(t) ==
  /\ pc[t] = "csb"
  /\ ~csb_v[t]
  /\ IF ticks_total[t] + 1 < CsbTimeout
       THEN /\ ticks_total' = [ticks_total EXCEPT ![t] = @ + 1]
            /\ UNCHANGED <<pc, ret, window_generation, wait_count, tried>>
       ELSE Return(t, "EAGAIN")
  /\ UNCHANGED <<handleVars, lockVars, jobVars, envVars>>

-----------------------------------------------------------------------------
\* The unlocked test after a failed paste.
SuspendedTest(t) ==
  /\ PowerVM
  /\ ticks_total[t] > 1
  /\ used > total - 1 \/ init_total_credits > total

LooksSuspended(t) ==
  /\ pc[t] = "failed"
  /\ paste_addr = NULL \/ SuspendedTest(t)
  /\ Goto(t, "wrlock")
  /\ UNCHANGED <<handleVars, lockVars, localVars, ret, jobVars, envVars, tried>>

\* The window looks sound, or sysfs does not give the credits: wait and paste
\* again, or give up.
AfterWaitForgetful(t) == 1
AfterWait(t) == ticks_total[t] + 1

WaitAndRetry(t) ==
  /\ pc[t] = "failed"
  /\ paste_addr # NULL
  /\ IF AfterWait(t) > PasteTimeout
       THEN Return(t, "EAGAIN")
       ELSE /\ Goto(t, "rdlock")
            /\ ticks_total' = [ticks_total EXCEPT ![t] = AfterWait(t)]
            /\ UNCHANGED <<ret, window_generation, wait_count, tried>>
  /\ UNCHANGED <<handleVars, lockVars, jobVars, envVars>>

-----------------------------------------------------------------------------
WriterIgnoresReaders == writer = Nobody
WriterMayEnter == writer = Nobody /\ readers = {}

SameGeneration(t) == window_generation[t] = generation

\* Another thread has reallocated the window meanwhile: unlock, try again.
WrLockStale(t) ==
  /\ pc[t] = "wrlock"
  /\ WriterMayEnter
  /\ ~SameGeneration(t)
  /\ Goto(t, "rdlock")
  /\ UNCHANGED <<handleVars, lockVars, localVars, ret, jobVars, envVars, tried>>

\* nx_function_end: the window is unmapped and closed, the handle still holds
\* its address and its descriptor.
FunctionEnd == [w \in Windows |-> IF w = paste_addr THEN "closed" ELSE window[w]]

WrLockClose(t) ==
  /\ pc[t] = "wrlock"
  /\ WriterMayEnter
  /\ SameGeneration(t)
  /\ writer' = t
  /\ window' = FunctionEnd
  /\ Goto(t, "reopen")
  /\ UNCHANGED <<handleVars, readers, localVars, ret, jobVars, total, others, tried>>

\* nx_function_begin succeeds: a new window, a new generation.  The generation
\* is a number which is only compared, so it stands for the window as well, and
\* one that no thread remembers may be used again: with more of them than threads
\* and one, the handle can open windows for ever.
Remembered == {generation} \cup {window_generation[t] : t \in Threads}
GenerationKept(w) == w = generation
NextGeneration(w) == w \notin Remembered /\ \A v \in 1..(w - 1) : v \in Remembered

ReopenOk(t) ==
  /\ pc[t] = "reopen"
  /\ used < total
  /\ \E w \in Windows :
       /\ NextGeneration(w)
       /\ window' = [window EXCEPT ![w] = "active"]
       /\ paste_addr' = w
       /\ generation' = w
  /\ init_total_credits' = total
  /\ writer' = Nobody
  /\ ticks_total' = [ticks_total EXCEPT ![t] = 0]
  /\ Goto(t, "rdlock")
  /\ UNCHANGED <<readers, window_generation, wait_count, ret, jobVars, total, others, tried>>

\* nx_function_begin fails: back off, and give the handle up after the timeout.
GivesUp(waited, wait_ticks) == waited + wait_ticks > PasteTimeout

ReopenFails(t) ==
  LET wait_ticks == Backoff(wait_count[t])
      waited == ticks_total[t] + wait_ticks
  IN
  /\ pc[t] = "reopen"
  /\ IF GivesUp(waited, wait_ticks)
       THEN /\ paste_addr' = NULL
            /\ writer' = Nobody
            /\ Return(t, "EAGAIN")
       ELSE /\ ticks_total' = [ticks_total EXCEPT ![t] = waited]
            /\ wait_count' = [wait_count EXCEPT ![t] = NextWait(@)]
            /\ UNCHANGED <<paste_addr, writer, pc, ret, window_generation, tried>>
  /\ UNCHANGED <<generation, init_total_credits, readers, jobVars, envVars>>

-----------------------------------------------------------------------------
\* The accelerator completes a job and makes the CSB of its block valid.
NxComplete(t) ==
  \E job \in inNx[t] :
    /\ inNx' = [inNx EXCEPT ![t] = @ \ {job}]
    /\ csb_v' = [csb_v EXCEPT ![t] = TRUE]
    /\ done' = [done EXCEPT ![t] = @ \/ job = "cur"]
    /\ UNCHANGED <<handleVars, lockVars, pc, localVars, ret, envVars, tried>>

\* A core is added or removed (DLPAR), a partition migrates: the number of
\* credits changes and the open window may be suspended or resumed.
Hypervisor ==
  /\ PowerVM
  /\ total' \in 1..MaxCredits
  /\ \/ UNCHANGED window
     \/ \E w \in OpenWindows, s \in {"active", "suspended"} :
          window' = [window EXCEPT ![w] = s]
  /\ UNCHANGED <<handleVars, lockVars, pc, localVars, ret, jobVars, others, tried>>

\* Other processes open and close windows.
OtherUsers ==
  /\ \/ used < total /\ others < MaxCredits /\ others' = others + 1
     \/ others > 0 /\ others' = others - 1
  /\ UNCHANGED <<handleVars, lockVars, pc, localVars, ret, jobVars,
                 window, total, tried>>

-----------------------------------------------------------------------------
Thread(t) ==
  \/ RdLock(t)
  \/ PasteTaken(t) \/ PasteRefused(t)
  \/ CsbValid(t) \/ CsbPoll(t)
  \/ LooksSuspended(t) \/ WaitAndRetry(t)
  \/ WrLockStale(t) \/ WrLockClose(t)
  \/ ReopenOk(t) \/ ReopenFails(t)

Next ==
  \/ \E t \in Threads : SubmitJob(t) \/ Thread(t) \/ NxComplete(t)
  \/ Hypervisor
  \/ OtherUsers

Spec == Init /\ [][Next]_vars

\* A thread that can run runs, and one that waits for the lock gets it in the
\* end.  Nothing is assumed of callers, of the accelerator, of other users.
Fairness == \A t \in Threads : SF_vars(Thread(t))

FairSpec == Spec /\ Fairness

-----------------------------------------------------------------------------
PcLabels == {"idle", "rdlock", "paste", "csb", "failed", "wrlock", "reopen"}

TypeOK ==
  /\ paste_addr \in 0..MaxWindows
  /\ generation \in Windows
  /\ init_total_credits \in 1..MaxCredits
  /\ readers \subseteq Threads
  /\ writer \in Threads \cup {Nobody}
  /\ pc \in [Threads -> PcLabels]
  /\ window_generation \in [Threads -> 0..MaxWindows]
  /\ ticks_total \in [Threads -> Nat]
  /\ wait_count \in [Threads -> 0..2]
  /\ ret \in [Threads -> {"none", "ok", "EAGAIN"}]
  /\ csb_v \in [Threads -> BOOLEAN]
  /\ inNx \in [Threads -> SUBSET {"cur", "late"}]
  /\ done \in [Threads -> BOOLEAN]
  /\ window \in [Windows -> {"active", "suspended", "closed"}]
  /\ total \in 1..MaxCredits
  /\ others \in 0..MaxCredits
  /\ tried \in [Threads -> 0..MaxWindows]

\* A thread about to paste finds the handle's address mapped: the window was
\* not closed under it, though the address outlives nx_function_end.
PasteAddressMapped ==
  \A t \in Threads :
    pc[t] = "paste" /\ paste_addr # NULL => paste_addr \in OpenWindows

\* Of all the windows the handle has opened only the one it points to is open:
\* replacing it, and failing to, leaks no window and no credit.
NoWindowLeaked == OpenWindows \subseteq {paste_addr}

\* A window is closed only by a thread that pasted into that very window in
\* this call: one that waited for the lock while the window was replaced
\* leaves the fresh one alone.
ClosesOnlyWhatItTried ==
  [][\A w \in Windows, t \in Threads :
       (window[w] # "closed" /\ window'[w] = "closed" /\ writer' = t)
         => tried[t] = w]_vars

\* A job is reported complete only when it is ("0 if successful").
\* It does not hold: the README reports it.
ZeroOnlyIfJobDone == \A t \in Threads : ret[t] = "ok" => done[t]

\* Calls that go idle in the end.
EveryCallReturns == \A t \in Threads : (pc[t] # "idle") ~> (pc[t] = "idle")

\* As long as the handle keeps its window every call returns, though pastes are
\* refused, credits are low and other threads hold the lock.
ReturnsWithWindow == (\E w \in Windows : <>[](paste_addr = w)) => EveryCallReturns

\* timeout_paste_success is the "max time in seconds to wait for a successful
\* paste": every call returns.
\* It does not hold, in two ways: a window that is replaced again and again starts the
\* clock of the call again, and a call on a handle without a window counts no ticks.
AlwaysReturns == EveryCallReturns
ReturnsThoughReplaced == (<>[](paste_addr # NULL)) => EveryCallReturns
ReturnsThoughGivenUp == (<>[](paste_addr = NULL)) => EveryCallReturns

-----------------------------------------------------------------------------
\* The window of the handle is a SharedWindow.
Shared == INSTANCE SharedWindow WITH
  live <- IF paste_addr \in OpenWindows THEN paste_addr ELSE 0

ImplementsSharedWindow == Shared!ASpec
=============================================================================
