------------------------------ MODULE NxDevice ------------------------------
(***************************************************************************)
(* The device handles of lib/nx_zlib.c: nx_open hands out a VAS window and *)
(* saves it for reuse, nx_close drops a user, both under one mutex per     *)
(* process.  Processes fork and exit; all of them compete for the VAS      *)
(* window credits of the partition.                                        *)
(*                                                                         *)
(* A client is a thread with one z_stream; its stream keeps the handle in  *)
(* nxdevp from nx_deflateInit2_/nx_inflateInit2_ to nx_deflateEnd/         *)
(* nx_inflateEnd.                                                          *)
(***************************************************************************)
EXTENDS Naturals, FiniteSets

CONSTANTS
  Procs,        \* process ids
  Clients,      \* clients of one process
  Handles,      \* bound: addresses malloc can give to a struct nx_dev_t
  NULL,         \* the null handle, no process, nobody
  MaxReuse,     \* nx_config.max_vas_reuse_count of each process
  PowerVM,      \* nx_config.virtualization = POWERVM
  Credits,      \* nr_total_credits of the partition
  OpenRetries,  \* the retries of nx_open when credits run out (10 in the code)
  RecyclePids   \* whether the kernel may give the id of a dead process again

ASSUME DevAssumption ==
  /\ IsFiniteSet(Clients)
  /\ NULL \notin Procs \cup Clients \cup Handles
  /\ MaxReuse \in [Procs -> Nat]
  /\ PowerVM \in BOOLEAN
  /\ Credits \in Nat \ {0}
  /\ OpenRetries \in Nat \ {0}
  /\ RecyclePids \in BOOLEAN

VARIABLES
  alive,    \* the processes that run
  exiting,  \* those in which the library's destructor has run
  born,     \* the ids that have been used
  \* memory of each process
  heap,     \* heap[p][h]: the struct nx_dev_t at address h
  saved,    \* saved_nx_devp
  mutex,    \* holder of saved_nx_devp_mutex, or NULL
  dev,      \* dev[p][c]: nxdevp of the stream of c, or NULL
  \* where a client is inside nx_open or nx_close, and its locals
  pc,
  arg,      \* arg[p][c]: the local nx_devp
  retries

vars == <<alive, exiting, born, heap, saved, mutex, dev, pc, arg, retries>>

Windows == 0..Credits     \* window 0 is no window
Sharing(p) == MaxReuse[p] > 0

\* An address with no struct in it.  leaked is history: a stream got the handle, and
\* will never give it back.
Freed == [alloc |-> FALSE, open_cnt |-> 0, use_cnt |-> 0, creator_pid |-> NULL,
          win |-> 0, inherited |-> FALSE, leaked |-> FALSE]

\* malloc does not clear the struct; every field but the window is set later.
Fresh == [Freed EXCEPT !.alloc = TRUE]

\* The windows a process keeps open; a forked child inherits the descriptors.
WindowsOf(p) == {heap[p][h].win : h \in Handles} \ {0}
OpenWindows == UNION {WindowsOf(p) : p \in alive}
used_credits == Cardinality(OpenWindows)

\* used_credits >= total_credits - 1; the test is made on PowerVM only, and not
\* when sysfs cannot be read.
LowOnCredits == PowerVM /\ used_credits + 1 >= Credits

Users(p, h) == {c \in Clients : dev[p][c] = h}

-----------------------------------------------------------------------------
Set(f, p, c, v) == [f EXCEPT ![p] = [@ EXCEPT ![c] = v]]

Goto(p, c, l) == pc' = Set(pc, p, c, l)

Init ==
  /\ \E p \in Procs : alive = {p} /\ born = {p}
  /\ exiting = {}
  /\ heap = [p \in Procs |-> [h \in Handles |-> Freed]]
  /\ saved = [p \in Procs |-> NULL]
  /\ mutex = [p \in Procs |-> NULL]
  /\ dev = [p \in Procs |-> [c \in Clients |-> NULL]]
  /\ pc = [p \in Procs |-> [c \in Clients |-> "idle"]]
  /\ arg = [p \in Procs |-> [c \in Clients |-> NULL]]
  /\ retries = [p \in Procs |-> [c \in Clients |-> 0]]

-----------------------------------------------------------------------------
\* nx_open.  The credits are read first, without the mutex; when they are low
\* it returns NULL with EAGAIN and nothing changes.
OpenChecked(p, c) ==
  /\ p \in alive
  /\ pc[p][c] = "idle"
  /\ dev[p][c] = NULL
  /\ ~LowOnCredits
  /\ Goto(p, c, "open")
  /\ UNCHANGED <<alive, born, heap, saved, mutex, dev, arg, retries>>

\* The saved handle can be used again: it is not worn out, and not inherited.
WithinReuseLimit(p, d) == d.use_cnt <= MaxReuse[p]
AnyMaker(p, d) == TRUE
MadeBy(p, d) == d.creator_pid = p
Reusable(p) ==
  /\ Sharing(p)
  /\ saved[p] # NULL
  /\ WithinReuseLimit(p, heap[p][saved[p]])
  /\ MadeBy(p, heap[p][saved[p]])

AddUserForgotten(d) == [d EXCEPT !.use_cnt = @ + 1]
AddUser(d) == [d EXCEPT !.use_cnt = @ + 1, !.open_cnt = @ + 1]

OpenReuse(p, c) ==
  /\ pc[p][c] = "open"
  /\ mutex[p] = NULL
  /\ Reusable(p)
  /\ heap' = Set(heap, p, saved[p], AddUser(heap[p][saved[p]]))
  /\ dev' = Set(dev, p, c, saved[p])
  /\ Goto(p, c, "opened")
  /\ UNCHANGED <<alive, born, saved, mutex, arg, retries>>

Locked(p, c) == IF Sharing(p) THEN [mutex EXCEPT ![p] = c] ELSE mutex

NotUnlocked(p) == mutex
Unlocked(p) == IF Sharing(p) THEN [mutex EXCEPT ![p] = NULL] ELSE mutex

\* Otherwise a new handle is allocated, under the mutex when handles are shared.
OpenAlloc(p, c) ==
  /\ pc[p][c] = "open"
  /\ Sharing(p) => mutex[p] = NULL
  /\ ~Reusable(p)
  /\ \E h \in Handles :
       /\ ~heap[p][h].alloc
       /\ heap' = Set(heap, p, h, Fresh)
       /\ arg' = Set(arg, p, c, h)
  /\ mutex' = Locked(p, c)
  /\ Goto(p, c, "begin")
  /\ UNCHANGED <<alive, born, saved, dev, retries>>

\* malloc fails: unlock, ENOMEM.
OpenNoMemory(p, c) ==
  /\ pc[p][c] = "open"
  /\ Sharing(p) => mutex[p] = NULL
  /\ ~Reusable(p)
  /\ Goto(p, c, "idle")
  /\ UNCHANGED <<alive, born, heap, saved, mutex, dev, arg, retries>>

\* nx_function_begin opens a window if the partition has a credit left.
BeginOk(p, c) ==
  /\ pc[p][c] = "begin"
  /\ used_credits < Credits
  /\ LET w == CHOOSE v \in Windows \ {0} : v \notin OpenWindows
     IN  heap' = Set(heap, p, arg[p][c], [heap[p][arg[p][c]] EXCEPT !.win = w])
  /\ retries' = Set(retries, p, c, 0)
  /\ Goto(p, c, "publish")
  /\ UNCHANGED <<alive, born, saved, mutex, dev, arg>>

\* It fails: out of credits, retry a few times; otherwise unlock and free.
RetryBegin(p, c) ==
  \/ retries[p][c] = 0 /\ PowerVM /\ used_credits >= Credits
  \/ retries[p][c] \in 1..(OpenRetries - 1)

BeginRetried(p, c) ==
  /\ pc[p][c] = "begin"
  /\ RetryBegin(p, c)
  /\ retries' = Set(retries, p, c, retries[p][c] + 1)
  /\ UNCHANGED <<alive, born, heap, saved, mutex, dev, pc, arg>>

BeginFailed(p, c) ==
  /\ pc[p][c] = "begin"
  /\ ~RetryBegin(p, c)
  /\ heap' = Set(heap, p, arg[p][c], Freed)
  /\ mutex' = Unlocked(p)
  /\ arg' = Set(arg, p, c, NULL)
  /\ retries' = Set(retries, p, c, 0)
  /\ Goto(p, c, "idle")
  /\ UNCHANGED <<alive, born, saved, dev>>

\* The new handle replaces the saved one, which is freed if nobody uses it.
FirstUse(p, d) == [d EXCEPT !.open_cnt = 1, !.use_cnt = 1, !.creator_pid = p]

UnusedSaved(p) == saved[p] # NULL /\ heap[p][saved[p]].open_cnt = 0

OpenPublish(p, c) ==
  LET new == arg[p][c] IN
  /\ pc[p][c] = "publish"
  /\ IF Sharing(p)
       THEN /\ heap' = [heap EXCEPT ![p] = [h \in Handles |->
                          IF h = new THEN FirstUse(p, @[h])
                          ELSE IF h = saved[p] /\ UnusedSaved(p) THEN Freed
                          ELSE @[h]]]
            /\ saved' = [saved EXCEPT ![p] = new]
       ELSE UNCHANGED <<heap, saved>>
  /\ mutex' = Unlocked(p)
  /\ dev' = Set(dev, p, c, new)
  /\ arg' = Set(arg, p, c, NULL)
  /\ Goto(p, c, "opened")
  /\ UNCHANGED <<alive, born, retries>>

-----------------------------------------------------------------------------
\* The rest of nx_deflateInit2_ or nx_inflateInit2_ succeeds, and the stream
\* uses the handle until its end ...
InitDone(p, c) ==
  /\ pc[p][c] = "opened"
  /\ Goto(p, c, "using")
  /\ UNCHANGED <<alive, born, heap, saved, mutex, dev, arg, retries>>

\* ... or it fails (no memory, a bad level, bad windowBits) and returns without
\* closing the handle.
Leak(d) == [d EXCEPT !.leaked = TRUE]

InitFailed(p, c) ==
  /\ pc[p][c] = "opened"
  /\ heap' = Set(heap, p, dev[p][c], Leak(heap[p][dev[p][c]]))
  /\ dev' = Set(dev, p, c, NULL)
  /\ Goto(p, c, "idle")
  /\ UNCHANGED <<alive, born, saved, mutex, arg, retries>>

-----------------------------------------------------------------------------
\* nx_close.  Unshared handles are freed at once.
CloseUnshared(p, c) ==
  /\ pc[p][c] = "using"
  /\ ~Sharing(p)
  /\ heap' = Set(heap, p, dev[p][c], Freed)
  /\ dev' = Set(dev, p, c, NULL)
  /\ Goto(p, c, "idle")
  /\ UNCHANGED <<alive, born, saved, mutex, arg, retries>>

\* Under the mutex the stream stops being a user ...
CloseLock(p, c) ==
  LET h == dev[p][c] IN
  /\ pc[p][c] = "using"
  /\ Sharing(p)
  /\ mutex[p] = NULL
  /\ mutex' = [mutex EXCEPT ![p] = c]
  /\ heap' = Set(heap, p, h, [heap[p][h] EXCEPT !.open_cnt = @ - 1])
  /\ arg' = Set(arg, p, c, h)
  /\ dev' = Set(dev, p, c, NULL)
  /\ Goto(p, c, "close")
  /\ UNCHANGED <<alive, born, saved, retries>>

\* ... and the credits decide what becomes of a handle without users.
OnlyWhenLow(p, h) == LowOnCredits
FreeUnused(p, h) ==
  \/ LowOnCredits
  \/ h # saved[p]

OneUserLeft(p, h) == heap[p][h].open_cnt <= 1
NoUserLeft(p, h) == heap[p][h].open_cnt = 0

CloseFree(p, c) ==
  /\ pc[p][c] = "close"
  /\ NoUserLeft(p, arg[p][c])
  /\ FreeUnused(p, arg[p][c])
  /\ heap' = Set(heap, p, arg[p][c], Freed)
  /\ saved' = IF LowOnCredits THEN [saved EXCEPT ![p] = NULL] ELSE saved
  /\ mutex' = [mutex EXCEPT ![p] = NULL]
  /\ arg' = Set(arg, p, c, NULL)
  /\ Goto(p, c, "idle")
  /\ UNCHANGED <<alive, born, dev, retries>>

CloseKeep(p, c) ==
  /\ pc[p][c] = "close"
  /\ ~(NoUserLeft(p, arg[p][c]) /\ FreeUnused(p, arg[p][c]))
  /\ mutex' = [mutex EXCEPT ![p] = NULL]
  /\ arg' = Set(arg, p, c, NULL)
  /\ Goto(p, c, "idle")
  /\ UNCHANGED <<alive, born, heap, saved, dev, retries>>

-----------------------------------------------------------------------------
\* fork: the child gets a copy of the memory and of the descriptors.  No client
\* of the parent is inside the library.  The child goes on with the configuration
\* of its parent.
Quiescent(p) == \A c \in Clients : pc[p][c] \in {"idle", "using"}

Inherit(d) == [d EXCEPT !.inherited = d.alloc]

Fork(p, q) ==
  /\ p \in alive \ exiting /\ q \notin alive
  /\ RecyclePids \/ q \notin born
  /\ MaxReuse[q] = MaxReuse[p]
  /\ Quiescent(p)
  /\ alive' = alive \cup {q}
  /\ born' = born \cup {q}
  /\ heap' = [heap EXCEPT ![q] = [h \in Handles |-> Inherit(heap[p][h])]]
  /\ saved' = [saved EXCEPT ![q] = saved[p]]
  /\ mutex' = [mutex EXCEPT ![q] = NULL]
  /\ dev' = [dev EXCEPT ![q] = dev[p]]
  /\ pc' = [pc EXCEPT ![q] = pc[p]]
  /\ UNCHANGED <<exiting, arg, retries>>

\* A thread calls exit, whatever the others are at: nx_close_all frees the saved handle
\* and its window without the mutex and without a look at open_cnt.  What the others
\* then do with it, until the process is gone, is undefined and not followed.
CloseAll(p) ==
  /\ p \in alive \ exiting
  /\ exiting' = exiting \cup {p}
  /\ IF saved[p] # NULL /\ MadeBy(p, heap[p][saved[p]])
       THEN /\ heap' = Set(heap, p, saved[p], Freed)
            /\ saved' = [saved EXCEPT ![p] = NULL]
       ELSE UNCHANGED <<heap, saved>>
  /\ UNCHANGED <<alive, born, mutex, dev, pc, arg, retries>>

\* The process is gone, after that or by a signal: the kernel closes its descriptors.
Exit(p) ==
  /\ p \in alive
  /\ alive' = alive \ {p}
  /\ exiting' = exiting \ {p}
  /\ heap' = [heap EXCEPT ![p] = [h \in Handles |-> Freed]]
  /\ saved' = [saved EXCEPT ![p] = NULL]
  /\ mutex' = [mutex EXCEPT ![p] = NULL]
  /\ dev' = [dev EXCEPT ![p] = [c \in Clients |-> NULL]]
  /\ pc' = [pc EXCEPT ![p] = [c \in Clients |-> "idle"]]
  /\ arg' = [arg EXCEPT ![p] = [c \in Clients |-> NULL]]
  /\ retries' = [retries EXCEPT ![p] = [c \in Clients |-> 0]]
  /\ UNCHANGED born

-----------------------------------------------------------------------------
Runs(p) == p \notin exiting /\ UNCHANGED exiting

Library(p, c) ==
  /\ Runs(p)
  /\ \/ OpenReuse(p, c) \/ OpenAlloc(p, c) \/ OpenNoMemory(p, c)
     \/ BeginOk(p, c) \/ BeginRetried(p, c) \/ BeginFailed(p, c) \/ OpenPublish(p, c)
     \/ InitDone(p, c) \/ InitFailed(p, c)
     \/ CloseFree(p, c) \/ CloseKeep(p, c)

Application(p, c) ==
  /\ Runs(p)
  /\ OpenChecked(p, c) \/ CloseUnshared(p, c) \/ CloseLock(p, c)

Next ==
  \/ \E p \in Procs, c \in Clients : Library(p, c) \/ Application(p, c)
  \/ \E p, q \in Procs : Fork(p, q)
  \/ \E p \in Procs : CloseAll(p) \/ Exit(p)

Spec == Init /\ [][Next]_vars

\* Threads are scheduled, and a thread that waits for the mutex gets it in the
\* end; nothing makes an application open or close streams.  A process that has begun
\* to exit does.
FairSpec ==
  /\ Spec
  /\ \A p \in Procs, c \in Clients : SF_vars(Library(p, c))
  /\ \A p \in Procs : WF_vars(p \in exiting /\ Exit(p))

-----------------------------------------------------------------------------
Device ==
  [alloc : BOOLEAN, open_cnt : Nat, use_cnt : Nat,
   creator_pid : Procs \cup {NULL}, win : Windows, inherited : BOOLEAN, leaked : BOOLEAN]

TypeOK ==
  /\ exiting \subseteq alive /\ alive \subseteq born /\ born \subseteq Procs
  /\ heap \in [Procs -> [Handles -> Device]]
  /\ saved \in [Procs -> Handles \cup {NULL}]
  /\ mutex \in [Procs -> Clients \cup {NULL}]
  /\ dev \in [Procs -> [Clients -> Handles \cup {NULL}]]
  /\ pc \in [Procs -> [Clients -> {"idle", "open", "begin", "publish", "opened", "using", "close"}]]
  /\ arg \in [Procs -> [Clients -> Handles \cup {NULL}]]
  /\ retries \in [Procs -> [Clients -> 0..OpenRetries]]

\* No pointer to a handle dangles: not the nxdevp of a stream, not the saved
\* handle, not the handle being opened or closed.  Every free found no user, but
\* that of the destructor.
NoDangling ==
  \A p \in Procs \ exiting :
    /\ saved[p] # NULL => heap[p][saved[p]].alloc
    /\ \A c \in Clients :
         /\ dev[p][c] # NULL => heap[p][dev[p][c]].alloc
         /\ arg[p][c] # NULL => heap[p][arg[p][c]].alloc

\* open_cnt never falls below the number of streams that hold the handle, so
\* the last close, and no earlier one, can free it.
OpenCntCoversUsers ==
  \A p \in Procs \ exiting, h \in Handles :
    Sharing(p) => heap[p][h].open_cnt >= Cardinality(Users(p, h))

\* A handle nobody uses is the saved one: every other is freed by its last user,
\* unless a failed Init has left the handle with a user more than it has.
NoIdleOrphan ==
  \A p \in alive, h \in Handles :
    Sharing(p) /\ heap[p][h].alloc /\ mutex[p] = NULL /\ Users(p, h) = {}
      => h = saved[p] \/ heap[p][h].leaked

\* "In all cases, access to the variables controlling the saved handle are protected
\* by a mutex": the saved handle is replaced or dropped only by the holder of the mutex.
\* It does not hold: the destructor drops it without.
SavedUnderMutex ==
  [][\A p \in alive \cap alive' : saved'[p] # saved[p] => mutex[p] # NULL]_vars

\* That is the only one.
SavedUnderMutexUntilExit ==
  [][\A p \in alive \cap alive' :
       saved'[p] # saved[p] => mutex[p] # NULL \/ p \in exiting']_vars

\* nx_open hands out only windows this process opened, none it inherited.
NotInherited ==
  \A p \in Procs, c \in Clients :
    pc[p][c] = "opened" => ~heap[p][dev[p][c]].inherited

\* Every nx_open and nx_close returns: no path leaves the mutex locked.
CallsReturn ==
  \A p \in Procs, c \in Clients :
    (pc[p][c] \notin {"idle", "using"}) ~> (pc[p][c] \in {"idle", "using"})

=============================================================================
