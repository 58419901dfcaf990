--------------------------- MODULE NxDevice_proofs ---------------------------
(***************************************************************************)
(* Proofs about NxDevice for any processes, clients, addresses, reuse limit *)
(* and credits: no pointer to a handle dangles, because open_cnt never      *)
(* falls below the number of streams that hold the handle; the saved handle *)
(* changes under the mutex only; nx_open hands out no inherited window as   *)
(* long as the kernel does not recycle process ids; and where credits are   *)
(* never low, an idle handle is the saved one.                              *)
(***************************************************************************)
EXTENDS NxDevice, FiniteSetTheorems, TLAPS

Calling == {"begin", "publish", "close"}

\* The locals of a client follow its place: nxdevp is set while a stream is
\* open, nx_devp while a call works on a handle.
LocalsInv ==
  \A p \in Procs, c \in Clients :
    /\ dev[p][c] # NULL <=> pc[p][c] \in {"opened", "using"}
    /\ arg[p][c] # NULL <=> pc[p][c] \in Calling
    /\ p \notin alive => pc[p][c] = "idle"

\* With shared handles a client that works on a handle holds the mutex;
\* without, the mutex and the saved handle are never used.
MutexInv ==
  \A p \in Procs :
    /\ Sharing(p) => \A c \in Clients : mutex[p] = c <=> pc[p][c] \in Calling
    /\ ~Sharing(p) => /\ mutex[p] = NULL /\ saved[p] = NULL
                      /\ \A c \in Clients : pc[p][c] # "close"

\* A handle that is being opened is known to its opener alone.
OpeningInv ==
  \A p \in Procs, c \in Clients :
    Sharing(p) /\ pc[p][c] \in {"begin", "publish"} =>
      /\ arg[p][c] # saved[p]
      /\ \A d \in Clients : dev[p][d] # arg[p][c]

\* An unshared handle belongs to one client.
OwnerInv ==
  \A p \in Procs, c, d \in Clients :
    ~Sharing(p) /\ c # d =>
      /\ dev[p][c] # NULL => dev[p][c] # dev[p][d] /\ dev[p][c] # arg[p][d]
      /\ arg[p][c] # NULL => arg[p][c] # arg[p][d]

IInv ==
  /\ TypeOK /\ LocalsInv /\ MutexInv /\ OpeningInv /\ OwnerInv
  /\ NoDangling /\ OpenCntCoversUsers

-----------------------------------------------------------------------------
\* Set changes one client of one process.
LEMMA SetIs ==
  ASSUME NEW S, NEW f \in [Procs -> [Clients -> S]], NEW v \in S,
         NEW p \in Procs, NEW c \in Clients
  PROVE  /\ Set(f, p, c, v) \in [Procs -> [Clients -> S]]
         /\ \A q \in Procs, d \in Clients :
              Set(f, p, c, v)[q][d] = IF q = p /\ d = c THEN v ELSE f[q][d]
<1>1. [f[p] EXCEPT ![c] = v] \in [Clients -> S]
  OBVIOUS
<1> QED
  BY <1>1 DEF Set

\* The same for the memory of a process.
LEMMA SetHeapIs ==
  ASSUME NEW S, NEW f \in [Procs -> [Handles -> S]], NEW v \in S,
         NEW p \in Procs, NEW h \in Handles
  PROVE  /\ Set(f, p, h, v) \in [Procs -> [Handles -> S]]
         /\ \A q \in Procs, i \in Handles :
              Set(f, p, h, v)[q][i] = IF q = p /\ i = h THEN v ELSE f[q][i]
<1>1. [f[p] EXCEPT ![h] = v] \in [Handles -> S]
  OBVIOUS
<1> QED
  BY <1>1 DEF Set

\* What the library does to a struct nx_dev_t leaves it one.
LEMMA DeviceEdits ==
  ASSUME NEW d \in Device, NEW p \in Procs, NEW w \in Windows
  PROVE  /\ AddUser(d) \in Device
         /\ FirstUse(p, d) \in Device
         /\ [d EXCEPT !.win = w] \in Device
         /\ d.open_cnt # 0 => [d EXCEPT !.open_cnt = @ - 1] \in Device
         /\ Inherit(d) \in Device /\ Leak(d) \in Device
<1> USE DevAssumption
<1> DEFINE Cnt == Nat
           Pid == Procs \cup {NULL}
           Bool == BOOLEAN
           N == Nat
<1>d. Device = [alloc : Bool, open_cnt : N, use_cnt : Cnt, creator_pid : Pid,
                win : Windows, inherited : Bool, leaked : Bool]
  BY DEF Device
<1>1. \A n \in N : n + 1 \in N /\ (n # 0 => n - 1 \in N)
  OBVIOUS
<1>2. d.use_cnt + 1 \in Cnt
  BY DEF Device
<1>3. 1 \in Cnt /\ 1 \in N /\ p \in Pid /\ TRUE \in Bool
  OBVIOUS
<1> HIDE DEF Cnt, Pid, Bool, N
<1> HIDE DevAssumption
<1>4. AddUser(d) \in Device
  BY <1>d, <1>1, <1>2 DEF AddUser
<1>5. FirstUse(p, d) \in Device
  BY <1>d, <1>3 DEF FirstUse
<1>6. [d EXCEPT !.win = w] \in Device
  BY <1>d
<1>7. d.open_cnt # 0 => [d EXCEPT !.open_cnt = @ - 1] \in Device
  BY <1>d, <1>1
<1>8. Inherit(d) \in Device
  BY <1>d DEF Inherit
<1>9. Leak(d) \in Device
  BY <1>d, <1>3 DEF Leak
<1> QED
  BY <1>4, <1>5, <1>6, <1>7, <1>8, <1>9

\* A partition with a credit left has a window that is not open.
LEMMA WindowLeft ==
  ASSUME TypeOK, used_credits < Credits
  PROVE  (CHOOSE v \in Windows \ {0} : v \notin OpenWindows) \in Windows
<1> USE DevAssumption
<1>1. OpenWindows \subseteq 1..Credits
  BY DEF OpenWindows, WindowsOf, TypeOK, Device, Windows
<1>2. Cardinality(1..Credits) = Credits
  BY FS_Interval
<1>3. OpenWindows # 1..Credits
  BY <1>2 DEF used_credits
<1>4. PICK v \in 1..Credits : v \notin OpenWindows
  BY <1>1, <1>3
<1>5. v \in Windows \ {0}
  BY <1>4 DEF Windows
<1> QED
  BY <1>4, <1>5

\* Streams come and go from the users of a handle.
LEMMA UsersFinite ==
  \A p \in Procs, h \in Handles :
    IsFiniteSet(Users(p, h)) /\ Cardinality(Users(p, h)) \in Nat
<1> TAKE p \in Procs, h \in Handles
<1>1. Users(p, h) \in SUBSET Clients
  BY DEF Users
<1>2. IsFiniteSet(Users(p, h))
  BY <1>1, FS_Subset, DevAssumption
<1> QED
  BY <1>2, FS_CardinalityType

-----------------------------------------------------------------------------
\* The invariant holds when the first process starts.
LEMMA InitIInv == Init => IInv
<1> SUFFICES ASSUME Init PROVE IInv
  OBVIOUS
<1> USE DevAssumption
<1>1. TypeOK
  BY DEF Init, TypeOK, Device, Freed, Windows
<1>2. LocalsInv /\ MutexInv /\ OpeningInv /\ OwnerInv
  BY DEF Init, LocalsInv, MutexInv, OpeningInv, OwnerInv, Calling
<1>3. NoDangling
  BY DEF Init, NoDangling
<1>4. OpenCntCoversUsers
  <2> SUFFICES ASSUME NEW p \in Procs, NEW h \in Handles
               PROVE  heap[p][h].open_cnt >= Cardinality(Users(p, h))
    BY DEF OpenCntCoversUsers
  <2>1. Users(p, h) = {}
    BY DEF Init, Users
  <2> QED
    BY <2>1, FS_EmptySet DEF Init, Freed
<1> QED
  BY <1>1, <1>2, <1>3, <1>4 DEF IInv

\* Every action of a client or a process keeps the types.
LEMMA TypeStep == IInv /\ [Next]_vars => TypeOK'
<1> SUFFICES ASSUME IInv, [Next]_vars PROVE TypeOK'
  OBVIOUS
<1>0. TypeOK /\ LocalsInv
  BY DEF IInv
<1> DEFINE Labels == {"idle", "open", "begin", "publish", "opened", "using", "close"}
<1>t. /\ heap \in [Procs -> [Handles -> Device]]
      /\ dev \in [Procs -> [Clients -> Handles \cup {NULL}]]
      /\ pc \in [Procs -> [Clients -> Labels]]
      /\ arg \in [Procs -> [Clients -> Handles \cup {NULL}]]
      /\ retries \in [Procs -> [Clients -> 0..OpenRetries]]
      /\ Freed \in Device
  BY <1>0, DevAssumption DEF TypeOK, Device, Freed, Windows
<1>pc. ASSUME NEW p \in Procs, NEW c \in Clients, NEW l \in Labels, Goto(p, c, l)
       PROVE  pc' \in [Procs -> [Clients -> Labels]]
  BY <1>pc, <1>t, SetIs DEF Goto
<1>dev. ASSUME NEW p \in Procs, NEW c \in Clients, NEW v \in Handles \cup {NULL}
        PROVE  /\ Set(dev, p, c, v) \in [Procs -> [Clients -> Handles \cup {NULL}]]
               /\ Set(arg, p, c, v) \in [Procs -> [Clients -> Handles \cup {NULL}]]
  BY <1>dev, <1>t, SetIs
<1>re. ASSUME NEW p \in Procs, NEW c \in Clients, NEW v \in 0..OpenRetries
       PROVE  Set(retries, p, c, v) \in [Procs -> [Clients -> 0..OpenRetries]]
  BY <1>re, <1>t, SetIs
<1>heap. ASSUME NEW p \in Procs, NEW h \in Handles, NEW d \in Device
         PROVE  Set(heap, p, h, d) \in [Procs -> [Handles -> Device]]
  BY <1>heap, <1>t, SetHeapIs
<1>w. 0 \in Windows
  BY DevAssumption DEF Windows
<1>1. ASSUME NEW p \in Procs, NEW c \in Clients, Library(p, c) PROVE TypeOK'
  <2>0. exiting' = exiting
    BY <1>1 DEF Library, Runs
  <2>1. CASE OpenReuse(p, c)
    <3>1. saved[p] \in Handles /\ heap[p][saved[p]] \in Device
      BY <2>1, <1>0 DEF OpenReuse, Reusable, TypeOK
    <3>2. AddUser(heap[p][saved[p]]) \in Device
      BY <2>1, <3>1, <1>w, DeviceEdits DEF OpenReuse, Reusable, WithinReuseLimit
    <3>3. heap' \in [Procs -> [Handles -> Device]]
      BY <2>1, <3>1, <3>2, <1>heap DEF OpenReuse
    <3>4. dev' \in [Procs -> [Clients -> Handles \cup {NULL}]]
      BY <2>1, <3>1, <1>dev DEF OpenReuse
    <3>5. pc' \in [Procs -> [Clients -> Labels]]
      BY <2>1, <1>pc DEF OpenReuse
    <3>6. UNCHANGED <<alive, born, saved, mutex, arg, retries>>
      BY <2>1 DEF OpenReuse
    <3> QED
      BY <2>0, <1>0, <3>3, <3>4, <3>5, <3>6 DEF TypeOK
  <2>2. CASE OpenAlloc(p, c)
    <3>1. PICK h \in Handles : heap' = Set(heap, p, h, Fresh) /\ arg' = Set(arg, p, c, h)
      BY <2>2 DEF OpenAlloc
    <3>2. Fresh \in Device
      BY <1>t DEF Fresh, Device
    <3>3. heap' \in [Procs -> [Handles -> Device]]
      BY <3>1, <3>2, <1>heap
    <3>4. arg' \in [Procs -> [Clients -> Handles \cup {NULL}]]
      BY <3>1, <1>dev
    <3>5. pc' \in [Procs -> [Clients -> Labels]]
      BY <2>2, <1>pc DEF OpenAlloc
    <3>6. mutex' \in [Procs -> Clients \cup {NULL}]
      BY <2>2, <1>0 DEF OpenAlloc, Locked, TypeOK
    <3> QED
      BY <2>0, <2>2, <1>0, <3>3, <3>4, <3>5, <3>6 DEF OpenAlloc, TypeOK
  <2>3. CASE OpenNoMemory(p, c)
    <3>1. pc' \in [Procs -> [Clients -> Labels]]
      BY <2>3, <1>pc DEF OpenNoMemory
    <3> QED
      BY <2>0, <2>3, <1>0, <3>1 DEF OpenNoMemory, TypeOK
  <2>4. CASE BeginOk(p, c)
    <3>1. arg[p][c] \in Handles /\ heap[p][arg[p][c]] \in Device
      BY <2>4, <1>0, <1>t DEF BeginOk, LocalsInv, Calling
    <3> DEFINE w == CHOOSE v \in Windows \ {0} : v \notin OpenWindows
    <3>2. w \in Windows
      BY <2>4, <1>0, WindowLeft DEF BeginOk
    <3> HIDE DEF w
    <3>3. [heap[p][arg[p][c]] EXCEPT !.win = w] \in Device
      BY <3>1, <3>2, DeviceEdits
    <3>4. heap' = Set(heap, p, arg[p][c], [heap[p][arg[p][c]] EXCEPT !.win = w])
      BY <2>4 DEF BeginOk, w
    <3>5. heap' \in [Procs -> [Handles -> Device]]
      BY <3>1, <3>3, <3>4, <1>heap
    <3>6. pc' \in [Procs -> [Clients -> Labels]]
      BY <2>4, <1>pc DEF BeginOk
    <3>7. retries' \in [Procs -> [Clients -> 0..OpenRetries]]
      <4>1. retries' = Set(retries, p, c, 0)
        BY <2>4 DEF BeginOk
      <4>2. 0 \in 0..OpenRetries
        BY DevAssumption
      <4> QED
        BY <4>1, <4>2, <1>re
    <3>8. UNCHANGED <<alive, born, saved, mutex, dev, arg>>
      BY <2>4 DEF BeginOk
    <3> QED
      BY <2>0, <1>0, <3>5, <3>6, <3>7, <3>8 DEF TypeOK
  <2>5. CASE BeginRetried(p, c)
    <3>1. retries[p][c] + 1 \in 0..OpenRetries
      BY <2>5, <1>t, DevAssumption DEF BeginRetried, RetryBegin
    <3>2. retries' \in [Procs -> [Clients -> 0..OpenRetries]]
      BY <2>5, <3>1, <1>re DEF BeginRetried
    <3> QED
      BY <2>0, <2>5, <1>0, <3>2 DEF BeginRetried, TypeOK
  <2>6. CASE BeginFailed(p, c)
    <3>1. arg[p][c] \in Handles
      BY <2>6, <1>0, <1>t DEF BeginFailed, LocalsInv, Calling
    <3>2. heap' \in [Procs -> [Handles -> Device]]
      BY <2>6, <3>1, <1>t, <1>heap DEF BeginFailed
    <3>3. /\ arg' \in [Procs -> [Clients -> Handles \cup {NULL}]]
          /\ dev' \in [Procs -> [Clients -> Handles \cup {NULL}]]
      BY <2>6, <1>dev, <1>0 DEF BeginFailed, TypeOK
    <3>4. pc' \in [Procs -> [Clients -> Labels]]
      BY <2>6, <1>pc DEF BeginFailed
    <3>5. retries' \in [Procs -> [Clients -> 0..OpenRetries]]
      BY <2>6, <1>re, DevAssumption DEF BeginFailed
    <3>6. mutex' \in [Procs -> Clients \cup {NULL}]
      BY <2>6, <1>0 DEF BeginFailed, Unlocked, TypeOK
    <3>7. UNCHANGED <<alive, born, saved>>
      BY <2>6 DEF BeginFailed
    <3> QED
      BY <2>0, <1>0, <3>2, <3>3, <3>4, <3>5, <3>6, <3>7 DEF TypeOK
  <2>7. CASE OpenPublish(p, c)
    <3>1. arg[p][c] \in Handles
      BY <2>7, <1>0, <1>t DEF OpenPublish, LocalsInv, Calling
    <3>2. /\ arg' \in [Procs -> [Clients -> Handles \cup {NULL}]]
          /\ dev' \in [Procs -> [Clients -> Handles \cup {NULL}]]
      BY <2>7, <3>1, <1>dev DEF OpenPublish
    <3>3. pc' \in [Procs -> [Clients -> Labels]]
      BY <2>7, <1>pc DEF OpenPublish
    <3>4. mutex' \in [Procs -> Clients \cup {NULL}]
      BY <2>7, <1>0 DEF OpenPublish, Unlocked, TypeOK
    <3>5. \A h \in Handles : FirstUse(p, heap[p][h]) \in Device
      BY <1>t, <1>w, DeviceEdits
    <3>6. /\ heap' \in [Procs -> [Handles -> Device]]
          /\ saved' \in [Procs -> Handles \cup {NULL}]
      <4>1. CASE Sharing(p)
        <5>1. \A g \in [Handles -> Device] : [heap EXCEPT ![p] = g] \in [Procs -> [Handles -> Device]]
          BY <1>t
        <5>2. [h \in Handles |-> IF h = arg[p][c] THEN FirstUse(p, heap[p][h])
                 ELSE IF h = saved[p] /\ UnusedSaved(p) THEN Freed
                 ELSE heap[p][h]] \in [Handles -> Device]
          BY <1>t, <3>5
        <5>3. heap' = [heap EXCEPT ![p] = [h \in Handles |-> IF h = arg[p][c] THEN FirstUse(p, heap[p][h])
                 ELSE IF h = saved[p] /\ UnusedSaved(p) THEN Freed
                 ELSE heap[p][h]]]
          BY <2>7, <4>1, <1>t DEF OpenPublish
        <5> QED
          BY <2>7, <4>1, <1>0, <3>1, <5>1, <5>2, <5>3 DEF OpenPublish, TypeOK
      <4>2. CASE ~Sharing(p)
        BY <2>7, <4>2, <1>0 DEF OpenPublish, TypeOK
      <4> QED
        BY <4>1, <4>2
    <3> QED
      BY <2>0, <2>7, <1>0, <3>2, <3>3, <3>4, <3>6 DEF OpenPublish, TypeOK
  <2>8. CASE InitDone(p, c)
    <3>1. pc' \in [Procs -> [Clients -> Labels]]
      BY <2>8, <1>pc DEF InitDone
    <3> QED
      BY <2>0, <2>8, <1>0, <3>1 DEF InitDone, TypeOK
  <2>9. CASE InitFailed(p, c)
    <3>1. pc' \in [Procs -> [Clients -> Labels]]
      BY <2>9, <1>pc DEF InitFailed
    <3>2. dev' \in [Procs -> [Clients -> Handles \cup {NULL}]]
      BY <2>9, <1>dev DEF InitFailed
    <3>3. dev[p][c] \in Handles /\ heap[p][dev[p][c]] \in Device
      BY <2>9, <1>0, <1>t DEF InitFailed, LocalsInv
    <3>4. Leak(heap[p][dev[p][c]]) \in Device
      BY <3>3, <1>w, DeviceEdits
    <3>5. heap' \in [Procs -> [Handles -> Device]]
      BY <2>9, <3>3, <3>4, <1>heap DEF InitFailed
    <3> QED
      BY <2>0, <2>9, <1>0, <3>1, <3>2, <3>5 DEF InitFailed, TypeOK
  <2>10. CASE CloseFree(p, c) \/ CloseKeep(p, c)
    <3>1. arg[p][c] \in Handles
      BY <2>10, <1>0, <1>t DEF CloseFree, CloseKeep, LocalsInv, Calling
    <3>2. heap' \in [Procs -> [Handles -> Device]]
      BY <2>10, <3>1, <1>t, <1>heap DEF CloseFree, CloseKeep
    <3>3. arg' \in [Procs -> [Clients -> Handles \cup {NULL}]]
      BY <2>10, <1>dev DEF CloseFree, CloseKeep
    <3>4. pc' \in [Procs -> [Clients -> Labels]]
      BY <2>10, <1>pc DEF CloseFree, CloseKeep
    <3>5. /\ mutex' \in [Procs -> Clients \cup {NULL}]
          /\ saved' \in [Procs -> Handles \cup {NULL}]
      BY <2>10, <1>0 DEF CloseFree, CloseKeep, TypeOK
    <3> QED
      BY <2>0, <2>10, <1>0, <3>2, <3>3, <3>4, <3>5 DEF CloseFree, CloseKeep, TypeOK
  <2> QED
    BY <1>1, <2>1, <2>2, <2>3, <2>4, <2>5, <2>6, <2>7, <2>8, <2>9, <2>10 DEF Library
<1>2. ASSUME NEW p \in Procs, NEW c \in Clients, Application(p, c) PROVE TypeOK'
  <2>0. exiting' = exiting /\ p \notin exiting
    BY <1>2 DEF Application, Runs
  <2>1. CASE OpenChecked(p, c)
    <3>1. pc' \in [Procs -> [Clients -> Labels]]
      BY <2>1, <1>pc DEF OpenChecked
    <3> QED
      BY <2>0, <2>1, <1>0, <3>1 DEF OpenChecked, TypeOK
  <2>2. CASE CloseUnshared(p, c) \/ CloseLock(p, c)
    <3>1. dev[p][c] \in Handles /\ dev[p][c] # NULL
      BY <2>2, <1>0, <1>t DEF CloseUnshared, CloseLock, LocalsInv
    <3>2. dev' \in [Procs -> [Clients -> Handles \cup {NULL}]]
      BY <2>2, <1>dev DEF CloseUnshared, CloseLock
    <3>3. pc' \in [Procs -> [Clients -> Labels]]
      BY <2>2, <1>pc DEF CloseUnshared, CloseLock
    <3>4. CASE CloseUnshared(p, c)
      <4>1. heap' \in [Procs -> [Handles -> Device]]
        BY <3>4, <3>1, <1>t, <1>heap DEF CloseUnshared
      <4> QED
        BY <2>0, <3>4, <1>0, <3>2, <3>3, <4>1 DEF CloseUnshared, TypeOK
    <3>5. CASE CloseLock(p, c)
      <4>1. heap[p][dev[p][c]].open_cnt \in Nat \ {0}
        <5>1. c \in Users(p, dev[p][c])
          BY DEF Users
        <5>2. Cardinality(Users(p, dev[p][c])) \in Nat \ {0}
          BY <3>1, <5>1, UsersFinite, FS_EmptySet
        <5>3. heap[p][dev[p][c]].open_cnt >= Cardinality(Users(p, dev[p][c]))
          BY <2>0, <3>1, <3>5 DEF IInv, OpenCntCoversUsers, CloseLock
        <5>4. heap[p][dev[p][c]].open_cnt \in Nat
          BY <3>1, <1>t DEF Device
        <5> QED
          BY <5>2, <5>3, <5>4
      <4>2. [heap[p][dev[p][c]] EXCEPT !.open_cnt = @ - 1] \in Device
        <5> DEFINE d == heap[p][dev[p][c]]
        <5>1. d \in Device /\ d.open_cnt # 0
          BY <4>1, <3>1, <1>t
        <5> HIDE DEF d
        <5>2. [d EXCEPT !.open_cnt = @ - 1] \in Device
          BY <5>1, <1>w, DeviceEdits
        <5> QED
          BY <5>2 DEF d
      <4>3. heap' \in [Procs -> [Handles -> Device]]
        BY <3>5, <3>1, <4>2, <1>heap DEF CloseLock
      <4>4. arg' \in [Procs -> [Clients -> Handles \cup {NULL}]]
        BY <3>5, <3>1, <1>dev DEF CloseLock
      <4>5. mutex' \in [Procs -> Clients \cup {NULL}]
        BY <3>5, <1>0 DEF CloseLock, TypeOK
      <4> QED
        BY <2>0, <3>5, <1>0, <3>2, <3>3, <4>3, <4>4, <4>5 DEF CloseLock, TypeOK
    <3> QED
      BY <2>2, <3>4, <3>5
  <2> QED
    BY <1>2, <2>1, <2>2 DEF Application
<1>3. ASSUME NEW p \in Procs, NEW q \in Procs, Fork(p, q) PROVE TypeOK'
  <2>1. \A h \in Handles : Inherit(heap[p][h]) \in Device
    BY <1>t, <1>w, DeviceEdits
  <2>2. [h \in Handles |-> Inherit(heap[p][h])] \in [Handles -> Device]
    BY <2>1
  <2>3. heap' \in [Procs -> [Handles -> Device]]
    BY <1>3, <1>t, <2>2 DEF Fork
  <2>4. /\ dev' \in [Procs -> [Clients -> Handles \cup {NULL}]]
        /\ pc' \in [Procs -> [Clients -> Labels]]
    BY <1>3, <1>t DEF Fork
  <2>5. /\ saved' \in [Procs -> Handles \cup {NULL}]
        /\ mutex' \in [Procs -> Clients \cup {NULL}]
    BY <1>3, <1>0 DEF Fork, TypeOK
  <2>6. exiting' \subseteq alive' /\ alive' \subseteq born' /\ born' \subseteq Procs
    BY <1>3, <1>0 DEF Fork, TypeOK
  <2> QED
    BY <1>3, <1>0, <2>3, <2>4, <2>5, <2>6 DEF Fork, TypeOK
<1>4. ASSUME NEW p \in Procs, Exit(p) PROVE TypeOK'
  <2>1. heap' \in [Procs -> [Handles -> Device]]
    <3>1. [h \in Handles |-> Freed] \in [Handles -> Device]
      BY <1>t
    <3> QED
      BY <1>4, <1>t, <3>1 DEF Exit
  <2>2. /\ dev' \in [Procs -> [Clients -> Handles \cup {NULL}]]
        /\ pc' \in [Procs -> [Clients -> Labels]]
        /\ arg' \in [Procs -> [Clients -> Handles \cup {NULL}]]
    BY <1>4, <1>t DEF Exit
  <2>3. retries' \in [Procs -> [Clients -> 0..OpenRetries]]
    <3>1. [c \in Clients |-> 0] \in [Clients -> 0..OpenRetries]
      BY DevAssumption
    <3> QED
      BY <1>4, <1>t, <3>1 DEF Exit
  <2>4. /\ saved' \in [Procs -> Handles \cup {NULL}]
        /\ mutex' \in [Procs -> Clients \cup {NULL}]
        /\ exiting' \subseteq alive' /\ alive' \subseteq born'
    BY <1>4, <1>0 DEF Exit, TypeOK
  <2> QED
    BY <1>4, <1>0, <2>1, <2>2, <2>3, <2>4 DEF Exit, TypeOK
<1>5. CASE UNCHANGED vars
  BY <1>5, <1>0 DEF vars, TypeOK
<1>6. ASSUME NEW p \in Procs, CloseAll(p) PROVE TypeOK'
  <2>1. heap' \in [Procs -> [Handles -> Device]]
    <3>1. saved[p] # NULL => saved[p] \in Handles
      BY <1>0 DEF TypeOK
    <3> QED
      BY <1>6, <1>t, <1>heap, <3>1 DEF CloseAll
  <2>2. saved' \in [Procs -> Handles \cup {NULL}] /\ exiting' \subseteq alive
    BY <1>6, <1>0 DEF CloseAll, TypeOK
  <2> QED
    BY <1>6, <1>0, <2>1, <2>2 DEF CloseAll, TypeOK
<1> QED
  BY <1>1, <1>2, <1>3, <1>4, <1>5, <1>6 DEF Next

-----------------------------------------------------------------------------
\* g is f but for the value v of client c of process p.
Is(f, g, p, c, v) ==
  \A q \in Procs, d \in Clients : g[q][d] = IF q = p /\ d = c THEN v ELSE f[q][d]

\* A step of client c of process p that takes it to l and gives its dev and
\* arg the values x and y.
Moves(p, c, l, x, y) ==
  /\ Is(pc, pc', p, c, l) /\ Is(dev, dev', p, c, x) /\ Is(arg, arg', p, c, y)
  /\ alive' = alive /\ Runs(p)

\* What Goto and Set do, pointwise.
LEMMA MovesIs ==
  ASSUME TypeOK, TypeOK', NEW p \in Procs, NEW c \in Clients, NEW l,
         Goto(p, c, l), alive' = alive, Runs(p),
         NEW x, NEW y,
         dev' = Set(dev, p, c, x) \/ (dev' = dev /\ x = dev[p][c]),
         arg' = Set(arg, p, c, y) \/ (arg' = arg /\ y = arg[p][c])
  PROVE  Moves(p, c, l, x, y)
<1>1. ASSUME NEW f, NEW S, f \in [Procs -> [Clients -> S]], NEW v
      PROVE  Is(f, Set(f, p, c, v), p, c, v)
  BY <1>1 DEF Is, Set
<1>2. Is(pc, pc', p, c, l)
  BY <1>1 DEF Goto, TypeOK
<1>3. Is(dev, dev', p, c, x)
  <2>1. CASE dev' = Set(dev, p, c, x)
    BY <1>1, <2>1 DEF TypeOK
  <2>2. CASE dev' = dev /\ x = dev[p][c]
    BY <2>2 DEF Is
  <2> QED
    BY <2>1, <2>2
<1>4. Is(arg, arg', p, c, y)
  <2>1. CASE arg' = Set(arg, p, c, y)
    BY <1>1, <2>1 DEF TypeOK
  <2>2. CASE arg' = arg /\ y = arg[p][c]
    BY <2>2 DEF Is
  <2> QED
    BY <2>1, <2>2
<1> QED
  BY <1>2, <1>3, <1>4 DEF Moves
\* What each action does to the memory of a process: only the handle it names
\* changes.
HeapKeeps(p, h) ==
  \A q \in Procs, i \in Handles : (q # p \/ i # h) =>
    heap'[q][i] = heap[q][i]

\* Set on the memory changes the one handle.
LEMMA SetKeeps ==
  ASSUME TypeOK, NEW p \in Procs, NEW h \in Handles, NEW d,
         heap' = Set(heap, p, h, d)
  PROVE  HeapKeeps(p, h) /\ heap'[p][h] = d
  BY DEF HeapKeeps, Set, TypeOK

-----------------------------------------------------------------------------
\* A move keeps LocalsInv if it sets the pointers its new place has.
LEMMA LocalsMove ==
  ASSUME LocalsInv, NEW p \in alive, NEW c \in Clients, NEW l, NEW x, NEW y,
         Moves(p, c, l, x, y),
         x # NULL <=> l \in {"opened", "using"},
         y # NULL <=> l \in Calling
  PROVE  LocalsInv'
  BY DEF LocalsInv, Moves, Is

\* A move keeps MutexInv if it takes the mutex where a call begins to work on a
\* handle and gives it back where that ends.
LEMMA MutexMove ==
  ASSUME TypeOK, MutexInv, NEW p \in Procs, NEW c \in Clients, NEW l, NEW x, NEW y,
         Moves(p, c, l, x, y),
         Sharing(p) => \/ mutex' = mutex /\ (pc[p][c] \in Calling <=> l \in Calling)
                       \/ mutex' = [mutex EXCEPT ![p] = c] /\ mutex[p] = NULL /\ l \in Calling
                       \/ /\ mutex' = [mutex EXCEPT ![p] = NULL]
                          /\ pc[p][c] \in Calling /\ l \notin Calling,
         ~Sharing(p) => mutex' = mutex /\ saved' = saved /\ l # "close",
         \A q \in Procs : q # p => saved'[q] = saved[q]
  PROVE  MutexInv'
<1> USE DevAssumption
<1> SUFFICES ASSUME NEW q \in Procs
             PROVE  /\ Sharing(q) => \A d \in Clients : mutex'[q] = d <=> pc'[q][d] \in Calling
                    /\ ~Sharing(q) => /\ mutex'[q] = NULL /\ saved'[q] = NULL
                                      /\ \A d \in Clients : pc'[q][d] # "close"
  BY DEF MutexInv, Sharing
<1>0. \A d \in Clients : pc'[q][d] = IF q = p /\ d = c THEN l ELSE pc[q][d]
  BY DEF Moves, Is
<1>1. CASE q # p
  <2>1. mutex'[q] = mutex[q] /\ (~Sharing(q) => saved'[q] = saved[q])
    BY <1>1 DEF TypeOK
  <2> QED
    BY <1>0, <1>1, <2>1 DEF MutexInv
<1>2. CASE q = p /\ Sharing(p)
  <2>0. mutex[p] \in Clients \cup {NULL} /\ DOMAIN mutex = Procs
    BY DEF TypeOK
  <2>a. \A d \in Clients : mutex[p] = d <=> pc[p][d] \in Calling
    BY <1>2 DEF MutexInv
  <2>1. CASE mutex' = mutex /\ (pc[p][c] \in Calling <=> l \in Calling)
    BY <1>0, <1>2, <2>1, <2>a
  <2>2. CASE mutex' = [mutex EXCEPT ![p] = c] /\ mutex[p] = NULL /\ l \in Calling
    BY <1>0, <1>2, <2>0, <2>2, <2>a
  <2>3. CASE mutex' = [mutex EXCEPT ![p] = NULL] /\ pc[p][c] \in Calling /\ l \notin Calling
    BY <1>0, <1>2, <2>0, <2>3, <2>a
  <2> QED
    BY <1>2, <2>1, <2>2, <2>3
<1>3. CASE q = p /\ ~Sharing(p)
  BY <1>0, <1>3 DEF MutexInv
<1> QED
  BY <1>1, <1>2, <1>3

\* A move keeps OpeningInv if it shows no handle that another client opens, and
\* the handle it opens, if any, is known to nobody.
LEMMA OpeningMove ==
  ASSUME OpeningInv, NEW p \in Procs, NEW c \in Clients, NEW l, NEW x, NEW y,
         Moves(p, c, l, x, y),
         \A q \in Procs : q # p => saved'[q] = saved[q],
         Sharing(p) => \/ saved' = saved /\ x \in {NULL, dev[p][c]}
                       \/ \A d \in Clients : d # c => pc[p][d] \notin {"begin", "publish"},
         Sharing(p) /\ l \in {"begin", "publish"} =>
                      /\ y # saved'[p] /\ y # x
                      /\ \A d \in Clients : d # c => dev[p][d] # y,
         \A q \in Procs, d \in Clients :
           pc[q][d] \in {"begin", "publish"} => arg[q][d] # NULL
  PROVE  OpeningInv'
<1> SUFFICES ASSUME NEW q \in Procs, Sharing(q), NEW d \in Clients,
                    pc'[q][d] \in {"begin", "publish"}, NEW e \in Clients
             PROVE  arg'[q][d] # saved'[q] /\ dev'[q][e] # arg'[q][d]
  BY DEF OpeningInv, Sharing
<1> USE DEF OpeningInv, Moves, Is
<1>1. CASE q # p
  BY <1>1
<1>2. CASE q = p /\ d = c
  BY <1>2
<1>3. CASE q = p /\ d # c
  BY <1>3
<1> QED
  BY <1>1, <1>2, <1>3

\* A move keeps OwnerInv if its pointers are its own or nobody's.
LEMMA OwnerMove ==
  ASSUME OwnerInv, NEW p \in Procs, NEW c \in Clients, NEW l, NEW x, NEW y,
         Moves(p, c, l, x, y),
         ~Sharing(p) => \A d \in Clients : d # c =>
                       /\ x # NULL => x # dev[p][d] /\ x # arg[p][d]
                       /\ y # NULL => y # dev[p][d] /\ y # arg[p][d]
  PROVE  OwnerInv'
<1> SUFFICES ASSUME NEW q \in Procs, ~Sharing(q), NEW d \in Clients, NEW e \in Clients, d # e
             PROVE  /\ dev'[q][d] # NULL => dev'[q][d] # dev'[q][e] /\ dev'[q][d] # arg'[q][e]
                    /\ arg'[q][d] # NULL => arg'[q][d] # arg'[q][e]
  BY DEF OwnerInv, Sharing
<1> USE DEF OwnerInv, Moves, Is
<1>1. CASE q # p
  BY <1>1
<1>2. CASE q = p /\ d = c
  BY <1>2
<1>3. CASE q = p /\ d # c /\ e = c
  BY <1>3
<1>4. CASE q = p /\ d # c /\ e # c
  BY <1>4
<1> QED
  BY <1>1, <1>2, <1>3, <1>4
\* Every action keeps the places, the mutex and the handles apart.
LEMMA PlaceStep ==
  IInv /\ TypeOK' /\ [Next]_vars => LocalsInv' /\ MutexInv' /\ OpeningInv' /\ OwnerInv'
<1> SUFFICES ASSUME IInv, TypeOK', [Next]_vars
             PROVE  LocalsInv' /\ MutexInv' /\ OpeningInv' /\ OwnerInv'
  OBVIOUS
<1>0. /\ TypeOK /\ LocalsInv /\ MutexInv /\ OpeningInv /\ OwnerInv /\ NoDangling
      /\ saved \in [Procs -> Handles \cup {NULL}]
      /\ dev \in [Procs -> [Clients -> Handles \cup {NULL}]]
      /\ arg \in [Procs -> [Clients -> Handles \cup {NULL}]]
      /\ NULL \notin Handles /\ NULL \notin Clients
      /\ alive \subseteq Procs
  BY DevAssumption DEF IInv, TypeOK
<1>a. ASSUME NEW p \in Procs, NEW c \in Clients, pc[p][c] # "idle" PROVE p \in alive
  BY <1>a, <1>0 DEF LocalsInv
<1>b. \A q \in Procs, d \in Clients :
        /\ pc[q][d] \in Calling => arg[q][d] # NULL
        /\ pc[q][d] \in {"begin", "publish"} => arg[q][d] # NULL
  BY <1>0 DEF LocalsInv, Calling
<1>c. /\ OwnerInv
      /\ \A p \in Procs, c, d \in Clients :
           ~Sharing(p) /\ d # c =>
                    /\ dev[p][c] # NULL => dev[p][c] # dev[p][d] /\ dev[p][c] # arg[p][d]
                    /\ arg[p][c] # NULL => arg[p][c] # dev[p][d] /\ arg[p][c] # arg[p][d]
  BY <1>0 DEF OwnerInv
<1>1. ASSUME NEW p \in Procs, NEW c \in Clients, Runs(p), OpenChecked(p, c)
      PROVE  LocalsInv' /\ MutexInv' /\ OpeningInv' /\ OwnerInv'
  <2>2. Moves(p, c, "open", dev[p][c], arg[p][c]) /\ mutex' = mutex /\ saved' = saved
    BY <1>1, <1>0, MovesIs DEF OpenChecked
  <2>3. pc[p][c] = "idle" /\ dev[p][c] = NULL /\ p \in alive
    BY <1>1, <1>a DEF OpenChecked
  <2>4. LocalsInv'
    <3>1. (dev[p][c] # NULL <=> "open" \in {"opened", "using"}) /\ (arg[p][c] # NULL <=> "open" \in Calling)
      BY <1>0, <2>3 DEF LocalsInv, Calling
    <3> QED
      BY <1>0, <2>2, <2>3, <3>1, LocalsMove
  <2>5. MutexInv'
    BY <1>0, <2>2, <2>3, MutexMove DEF Calling, Locked, Unlocked
  <2>6. OpeningInv'
    BY <1>0, <1>b, <2>2, <2>3, OpeningMove DEF MutexInv, Calling
  <2>7. OwnerInv'
    BY <1>c, <2>2, <2>3, OwnerMove
  <2> QED
    BY <2>4, <2>5, <2>6, <2>7
<1>2. ASSUME NEW p \in Procs, NEW c \in Clients, Runs(p), OpenReuse(p, c)
      PROVE  LocalsInv' /\ MutexInv' /\ OpeningInv' /\ OwnerInv'
  <2>2. Moves(p, c, "opened", saved[p], arg[p][c]) /\ mutex' = mutex /\ saved' = saved
    BY <1>2, <1>0, MovesIs DEF OpenReuse
  <2>3. pc[p][c] = "open" /\ Sharing(p) /\ mutex[p] = NULL /\ saved[p] # NULL /\ p \in alive
    BY <1>2, <1>a DEF OpenReuse, Reusable
  <2>4. LocalsInv'
    <3>1. (saved[p] # NULL <=> "opened" \in {"opened", "using"}) /\ (arg[p][c] # NULL <=> "opened" \in Calling)
      BY <1>0, <2>3 DEF LocalsInv, Calling
    <3> QED
      BY <1>0, <2>2, <2>3, <3>1, LocalsMove
  <2>5. MutexInv'
    BY <1>0, <2>2, <2>3, MutexMove DEF Calling, Locked, Unlocked
  <2>6. OpeningInv'
    BY <1>0, <1>b, <2>2, <2>3, OpeningMove DEF MutexInv, Calling
  <2>7. OwnerInv'
    BY <1>c, <2>2, <2>3, OwnerMove
  <2> QED
    BY <2>4, <2>5, <2>6, <2>7
<1>3. ASSUME NEW p \in Procs, NEW c \in Clients, Runs(p), OpenAlloc(p, c)
      PROVE  LocalsInv' /\ MutexInv' /\ OpeningInv' /\ OwnerInv'
  <2>1. PICK h \in Handles : ~heap[p][h].alloc /\ arg' = Set(arg, p, c, h)
    BY <1>3 DEF OpenAlloc
  <2>2. Moves(p, c, "begin", dev[p][c], h) /\ mutex' = Locked(p, c) /\ saved' = saved
    BY <1>3, <2>1, MovesIs, <1>0 DEF OpenAlloc
  <2>3. pc[p][c] = "open" /\ (Sharing(p) => mutex[p] = NULL) /\ p \in alive
    BY <1>3, <1>a DEF OpenAlloc
  <2>4. LocalsInv'
    <3>1. (dev[p][c] # NULL <=> "begin" \in {"opened", "using"}) /\ (h # NULL <=> "begin" \in Calling)
      BY <1>0, <2>3 DEF LocalsInv, Calling
    <3> QED
      BY <1>0, <2>2, <2>3, <3>1, LocalsMove
  <2>5. MutexInv'
    BY <1>0, <2>2, <2>3, MutexMove DEF Calling, Locked, Unlocked
  <2>6. OpeningInv'
    <3>1. h # saved[p] /\ \A d \in Clients : dev[p][d] # h
      BY <1>0, <1>3, <2>1 DEF NoDangling, Runs
    <3>2. Sharing(p) => \A d \in Clients : pc[p][d] \notin {"begin", "publish"}
      BY <1>0, <2>3 DEF MutexInv, Calling
    <3> QED
      BY <1>0, <1>b, <2>2, <3>1, <3>2, OpeningMove
  <2>7. OwnerInv'
    <3>1. \A d \in Clients : dev[p][d] # h /\ arg[p][d] # h
      BY <1>0, <1>3, <2>1 DEF NoDangling, Runs
    <3> QED
      BY <1>0, <2>2, <3>1, OwnerMove DEF OwnerInv
  <2> QED
    BY <2>4, <2>5, <2>6, <2>7
<1>4. ASSUME NEW p \in Procs, NEW c \in Clients, Runs(p), OpenNoMemory(p, c)
      PROVE  LocalsInv' /\ MutexInv' /\ OpeningInv' /\ OwnerInv'
  <2>2. Moves(p, c, "idle", dev[p][c], arg[p][c]) /\ mutex' = mutex /\ saved' = saved
    BY <1>4, <1>0, MovesIs DEF OpenNoMemory
  <2>3. pc[p][c] = "open" /\ p \in alive
    BY <1>4, <1>a DEF OpenNoMemory
  <2>4. LocalsInv'
    <3>1. (dev[p][c] # NULL <=> "idle" \in {"opened", "using"}) /\ (arg[p][c] # NULL <=> "idle" \in Calling)
      BY <1>0, <2>3 DEF LocalsInv, Calling
    <3> QED
      BY <1>0, <2>2, <2>3, <3>1, LocalsMove
  <2>5. MutexInv'
    BY <1>0, <2>2, <2>3, MutexMove DEF Calling, Locked, Unlocked
  <2>6. OpeningInv'
    BY <1>0, <1>b, <2>2, <2>3, OpeningMove DEF MutexInv, Calling
  <2>7. OwnerInv'
    BY <1>c, <2>2, <2>3, OwnerMove
  <2> QED
    BY <2>4, <2>5, <2>6, <2>7
<1>5. ASSUME NEW p \in Procs, NEW c \in Clients, Runs(p), BeginOk(p, c)
      PROVE  LocalsInv' /\ MutexInv' /\ OpeningInv' /\ OwnerInv'
  <2>2. Moves(p, c, "publish", dev[p][c], arg[p][c]) /\ mutex' = mutex /\ saved' = saved
    BY <1>5, <1>0, MovesIs DEF BeginOk
  <2>3. pc[p][c] = "begin" /\ p \in alive
    BY <1>5, <1>a DEF BeginOk
  <2>4. LocalsInv'
    <3>1. (dev[p][c] # NULL <=> "publish" \in {"opened", "using"}) /\ (arg[p][c] # NULL <=> "publish" \in Calling)
      BY <1>0, <2>3 DEF LocalsInv, Calling
    <3> QED
      BY <1>0, <2>2, <2>3, <3>1, LocalsMove
  <2>5. MutexInv'
    BY <1>0, <2>2, <2>3, MutexMove DEF Calling, Locked, Unlocked
  <2>6. OpeningInv'
    <3>1. Sharing(p) => \A d \in Clients : d # c => pc[p][d] \notin {"begin", "publish"}
      BY <1>0, <2>3 DEF MutexInv, Calling
    <3>2. Sharing(p) => arg[p][c] # saved[p] /\ \A d \in Clients : dev[p][d] # arg[p][c]
      BY <1>0, <2>3 DEF OpeningInv
    <3> QED
      BY <1>0, <1>b, <2>2, <3>1, <3>2, OpeningMove
  <2>7. OwnerInv'
    <3>1. ~Sharing(p) => \A d \in Clients : d # c =>
                       /\ dev[p][c] # NULL => dev[p][c] # dev[p][d] /\ dev[p][c] # arg[p][d]
                       /\ arg[p][c] # NULL => arg[p][c] # dev[p][d] /\ arg[p][c] # arg[p][d]
      BY <1>0 DEF OwnerInv
    <3> QED
      BY <1>0, <2>2, <3>1, OwnerMove
  <2> QED
    BY <2>4, <2>5, <2>6, <2>7
<1>6. ASSUME NEW p \in Procs, NEW c \in Clients, Runs(p), BeginRetried(p, c)
      PROVE  LocalsInv' /\ MutexInv' /\ OpeningInv' /\ OwnerInv'
  BY <1>6, <1>0 DEF BeginRetried, LocalsInv, MutexInv, OpeningInv, OwnerInv
<1>7. ASSUME NEW p \in Procs, NEW c \in Clients, Runs(p), BeginFailed(p, c)
      PROVE  LocalsInv' /\ MutexInv' /\ OpeningInv' /\ OwnerInv'
  <2>1. dev[p][c] = NULL
    BY <1>7, <1>0 DEF BeginFailed, LocalsInv
  <2>2. Moves(p, c, "idle", NULL, NULL) /\ mutex' = Unlocked(p) /\ saved' = saved
    BY <1>7, <1>0, <2>1, MovesIs DEF BeginFailed
  <2>3. pc[p][c] = "begin" /\ p \in alive
    BY <1>7, <1>a DEF BeginFailed
  <2>4. LocalsInv'
    <3>1. (NULL # NULL <=> "idle" \in {"opened", "using"}) /\ (NULL # NULL <=> "idle" \in Calling)
      BY <1>0, <2>3 DEF LocalsInv, Calling
    <3> QED
      BY <1>0, <2>2, <2>3, <3>1, LocalsMove
  <2>5. MutexInv'
    BY <1>0, <2>2, <2>3, MutexMove DEF Calling, Locked, Unlocked
  <2>6. OpeningInv'
    BY <1>0, <1>b, <2>2, <2>3, OpeningMove DEF MutexInv, Calling
  <2>7. OwnerInv'
    BY <1>c, <2>2, <2>3, OwnerMove
  <2> QED
    BY <2>4, <2>5, <2>6, <2>7
<1>8. ASSUME NEW p \in Procs, NEW c \in Clients, Runs(p), OpenPublish(p, c)
      PROVE  LocalsInv' /\ MutexInv' /\ OpeningInv' /\ OwnerInv'
  <2>2. Moves(p, c, "opened", arg[p][c], NULL) /\ mutex' = Unlocked(p) /\ (saved' = IF Sharing(p) THEN [saved EXCEPT ![p] = arg[p][c]] ELSE saved)
    BY <1>8, <1>0, MovesIs DEF OpenPublish
  <2>3. pc[p][c] = "publish" /\ p \in alive
    BY <1>8, <1>a DEF OpenPublish
  <2>4. LocalsInv'
    <3>1. (arg[p][c] # NULL <=> "opened" \in {"opened", "using"}) /\ (NULL # NULL <=> "opened" \in Calling)
      BY <1>0, <2>3 DEF LocalsInv, Calling
    <3> QED
      BY <1>0, <2>2, <2>3, <3>1, LocalsMove
  <2>5. MutexInv'
    BY <1>0, <2>2, <2>3, MutexMove DEF Calling, Locked, Unlocked
  <2>6. OpeningInv'
    <3>1. Sharing(p) => \A d \in Clients : d # c => pc[p][d] \notin {"begin", "publish"}
      BY <1>0, <2>3 DEF MutexInv, Calling
    <3>2. \A q \in Procs : q # p => saved'[q] = saved[q]
      BY <1>0, <2>2
    <3> QED
      BY <1>0, <1>b, <2>2, <3>1, <3>2, OpeningMove
  <2>7. OwnerInv'
    BY <1>c, <2>2, <2>3, OwnerMove
  <2> QED
    BY <2>4, <2>5, <2>6, <2>7
<1>9. ASSUME NEW p \in Procs, NEW c \in Clients, Runs(p), InitDone(p, c)
      PROVE  LocalsInv' /\ MutexInv' /\ OpeningInv' /\ OwnerInv'
  <2>2. Moves(p, c, "using", dev[p][c], arg[p][c]) /\ mutex' = mutex /\ saved' = saved
    BY <1>9, <1>0, MovesIs DEF InitDone
  <2>3. pc[p][c] = "opened" /\ p \in alive
    BY <1>9, <1>a DEF InitDone
  <2>4. LocalsInv'
    <3>1. (dev[p][c] # NULL <=> "using" \in {"opened", "using"}) /\ (arg[p][c] # NULL <=> "using" \in Calling)
      BY <1>0, <2>3 DEF LocalsInv, Calling
    <3> QED
      BY <1>0, <2>2, <2>3, <3>1, LocalsMove
  <2>5. MutexInv'
    BY <1>0, <2>2, <2>3, MutexMove DEF Calling, Locked, Unlocked
  <2>6. OpeningInv'
    BY <1>0, <1>b, <2>2, <2>3, OpeningMove DEF MutexInv, Calling
  <2>7. OwnerInv'
    BY <1>c, <2>2, <2>3, OwnerMove
  <2> QED
    BY <2>4, <2>5, <2>6, <2>7
<1>10. ASSUME NEW p \in Procs, NEW c \in Clients, Runs(p), InitFailed(p, c)
      PROVE  LocalsInv' /\ MutexInv' /\ OpeningInv' /\ OwnerInv'
  <2>2. Moves(p, c, "idle", NULL, arg[p][c]) /\ mutex' = mutex /\ saved' = saved
    BY <1>10, <1>0, MovesIs DEF InitFailed
  <2>3. pc[p][c] = "opened" /\ p \in alive
    BY <1>10, <1>a DEF InitFailed
  <2>4. LocalsInv'
    <3>1. (NULL # NULL <=> "idle" \in {"opened", "using"}) /\ (arg[p][c] # NULL <=> "idle" \in Calling)
      BY <1>0, <2>3 DEF LocalsInv, Calling
    <3> QED
      BY <1>0, <2>2, <2>3, <3>1, LocalsMove
  <2>5. MutexInv'
    BY <1>0, <2>2, <2>3, MutexMove DEF Calling, Locked, Unlocked
  <2>6. OpeningInv'
    BY <1>0, <1>b, <2>2, <2>3, OpeningMove DEF MutexInv, Calling
  <2>7. OwnerInv'
    BY <1>c, <2>2, <2>3, OwnerMove
  <2> QED
    BY <2>4, <2>5, <2>6, <2>7
<1>11. ASSUME NEW p \in Procs, NEW c \in Clients, Runs(p), CloseUnshared(p, c)
      PROVE  LocalsInv' /\ MutexInv' /\ OpeningInv' /\ OwnerInv'
  <2>2. Moves(p, c, "idle", NULL, arg[p][c]) /\ mutex' = mutex /\ saved' = saved
    BY <1>11, <1>0, MovesIs DEF CloseUnshared
  <2>3. pc[p][c] = "using" /\ ~Sharing(p) /\ p \in alive
    BY <1>11, <1>a DEF CloseUnshared
  <2>4. LocalsInv'
    <3>1. (NULL # NULL <=> "idle" \in {"opened", "using"}) /\ (arg[p][c] # NULL <=> "idle" \in Calling)
      BY <1>0, <2>3 DEF LocalsInv, Calling
    <3> QED
      BY <1>0, <2>2, <2>3, <3>1, LocalsMove
  <2>5. MutexInv'
    BY <1>0, <2>2, <2>3, MutexMove DEF Calling, Locked, Unlocked
  <2>6. OpeningInv'
    BY <1>0, <1>b, <2>2, <2>3, OpeningMove DEF MutexInv, Calling
  <2>7. OwnerInv'
    BY <1>c, <2>2, <2>3, OwnerMove
  <2> QED
    BY <2>4, <2>5, <2>6, <2>7
<1>12. ASSUME NEW p \in Procs, NEW c \in Clients, Runs(p), CloseLock(p, c)
      PROVE  LocalsInv' /\ MutexInv' /\ OpeningInv' /\ OwnerInv'
  <2>2. Moves(p, c, "close", NULL, dev[p][c]) /\ mutex' = [mutex EXCEPT ![p] = c] /\ saved' = saved
    BY <1>12, <1>0, MovesIs DEF CloseLock
  <2>3. pc[p][c] = "using" /\ Sharing(p) /\ mutex[p] = NULL /\ p \in alive
    BY <1>12, <1>a DEF CloseLock
  <2>4. LocalsInv'
    <3>1. (NULL # NULL <=> "close" \in {"opened", "using"}) /\ (dev[p][c] # NULL <=> "close" \in Calling)
      BY <1>0, <2>3 DEF LocalsInv, Calling
    <3> QED
      BY <1>0, <2>2, <2>3, <3>1, LocalsMove
  <2>5. MutexInv'
    BY <1>0, <2>2, <2>3, MutexMove DEF Calling, Locked, Unlocked
  <2>6. OpeningInv'
    BY <1>0, <1>b, <2>2, <2>3, OpeningMove DEF MutexInv, Calling
  <2>7. OwnerInv'
    BY <1>c, <2>2, <2>3, OwnerMove
  <2> QED
    BY <2>4, <2>5, <2>6, <2>7
<1>13. ASSUME NEW p \in Procs, NEW c \in Clients, Runs(p), CloseFree(p, c)
      PROVE  LocalsInv' /\ MutexInv' /\ OpeningInv' /\ OwnerInv'
  <2>2. Moves(p, c, "idle", dev[p][c], NULL) /\ mutex' = [mutex EXCEPT ![p] = NULL] /\ (saved' = IF LowOnCredits THEN [saved EXCEPT ![p] = NULL] ELSE saved)
    BY <1>13, <1>0, MovesIs DEF CloseFree
  <2>3. pc[p][c] = "close" /\ p \in alive
    BY <1>13, <1>a DEF CloseFree
  <2>4. LocalsInv'
    <3>1. (dev[p][c] # NULL <=> "idle" \in {"opened", "using"}) /\ (NULL # NULL <=> "idle" \in Calling)
      BY <1>0, <2>3 DEF LocalsInv, Calling
    <3> QED
      BY <1>0, <2>2, <2>3, <3>1, LocalsMove
  <2>5. MutexInv'
    <3>1. Sharing(p)
      BY <1>0, <2>3 DEF MutexInv
    <3> QED
      BY <1>0, <2>2, <2>3, <3>1, MutexMove DEF Calling
  <2>6. OpeningInv'
    BY <1>0, <1>b, <2>2, <2>3, OpeningMove DEF MutexInv, Calling
  <2>7. OwnerInv'
    BY <1>c, <2>2, <2>3, OwnerMove
  <2> QED
    BY <2>4, <2>5, <2>6, <2>7
<1>14. ASSUME NEW p \in Procs, NEW c \in Clients, Runs(p), CloseKeep(p, c)
      PROVE  LocalsInv' /\ MutexInv' /\ OpeningInv' /\ OwnerInv'
  <2>2. Moves(p, c, "idle", dev[p][c], NULL) /\ mutex' = [mutex EXCEPT ![p] = NULL] /\ saved' = saved
    BY <1>14, <1>0, MovesIs DEF CloseKeep
  <2>3. pc[p][c] = "close" /\ p \in alive
    BY <1>14, <1>a DEF CloseKeep
  <2>4. LocalsInv'
    <3>1. (dev[p][c] # NULL <=> "idle" \in {"opened", "using"}) /\ (NULL # NULL <=> "idle" \in Calling)
      BY <1>0, <2>3 DEF LocalsInv, Calling
    <3> QED
      BY <1>0, <2>2, <2>3, <3>1, LocalsMove
  <2>5. MutexInv'
    <3>1. Sharing(p)
      BY <1>0, <2>3 DEF MutexInv
    <3> QED
      BY <1>0, <2>2, <2>3, <3>1, MutexMove DEF Calling
  <2>6. OpeningInv'
    BY <1>0, <1>b, <2>2, <2>3, OpeningMove DEF MutexInv, Calling
  <2>7. OwnerInv'
    BY <1>c, <2>2, <2>3, OwnerMove
  <2> QED
    BY <2>4, <2>5, <2>6, <2>7
<1>20. ASSUME NEW p \in Procs, NEW q \in Procs, Fork(p, q)
       PROVE  LocalsInv' /\ MutexInv' /\ OpeningInv' /\ OwnerInv'
  <2>1. /\ saved' = [saved EXCEPT ![q] = saved[p]] /\ mutex' = [mutex EXCEPT ![q] = NULL]
        /\ dev' = [dev EXCEPT ![q] = dev[p]] /\ pc' = [pc EXCEPT ![q] = pc[p]]
        /\ arg' = arg /\ alive' = alive \cup {q}
        /\ \A c \in Clients : pc[p][c] \in {"idle", "using"}
        /\ p \in alive /\ q \notin alive
        /\ Sharing(p) <=> Sharing(q)
    BY <1>20 DEF Fork, Quiescent, Sharing
  <2>2. \A c \in Clients : arg[p][c] = NULL /\ arg[q][c] = NULL
    <3>1. \A c \in Clients : pc[p][c] \notin Calling
      BY <2>1 DEF Calling
    <3>2. \A c \in Clients : pc[q][c] \notin Calling
      BY <1>0, <2>1 DEF LocalsInv, Calling
    <3> QED
      BY <1>0, <3>1, <3>2 DEF LocalsInv
  <2>3. LocalsInv'
    BY <1>0, <2>1, <2>2 DEF LocalsInv, Calling, TypeOK
  <2>4. MutexInv'
    <3>1. \A c \in Clients : pc[p][c] \notin Calling
      BY <2>1 DEF Calling
    <3>2. saved[p] \in Handles \cup {NULL} /\ mutex[q] \in Clients \cup {NULL}
      BY <1>0 DEF TypeOK
    <3>3. mutex \in [Procs -> Clients \cup {NULL}] /\ DOMAIN pc = Procs
      BY <1>0 DEF TypeOK
    <3> SUFFICES ASSUME NEW r \in Procs
                 PROVE  /\ Sharing(r) => \A c \in Clients : mutex'[r] = c <=> pc'[r][c] \in Calling
                        /\ ~Sharing(r) => /\ mutex'[r] = NULL /\ saved'[r] = NULL
                                          /\ \A c \in Clients : pc'[r][c] # "close"
      BY DEF MutexInv, Sharing
    <3>4. CASE r = q
      <4>1. mutex'[r] = NULL /\ saved'[r] = saved[p] /\ pc'[r] = pc[p]
        BY <1>0, <2>1, <3>3, <3>4
      <4> QED
        BY <1>0, <2>1, <3>1, <4>1 DEF MutexInv
    <3>5. CASE r # q
      <4>1. mutex'[r] = mutex[r] /\ saved'[r] = saved[r] /\ pc'[r] = pc[r]
        BY <1>0, <2>1, <3>3, <3>5
      <4> QED
        BY <1>0, <4>1 DEF MutexInv
    <3> QED
      BY <3>4, <3>5
  <2>5. OpeningInv'
    BY <1>0, <2>1, <2>2 DEF OpeningInv, Calling, TypeOK, Sharing
  <2>6. OwnerInv'
    BY <1>0, <2>1, <2>2 DEF OwnerInv, Calling, TypeOK, Sharing
  <2> QED
    BY <2>3, <2>4, <2>5, <2>6
<1>21. ASSUME NEW p \in Procs, Exit(p)
       PROVE  LocalsInv' /\ MutexInv' /\ OpeningInv' /\ OwnerInv'
  <2>1. LocalsInv'
    BY <1>0, <1>21 DEF Exit, LocalsInv, Calling, TypeOK
  <2>2. MutexInv'
    BY <1>0, <1>21 DEF Exit, MutexInv, Calling, TypeOK, Sharing
  <2>3. OpeningInv'
    BY <1>0, <1>21 DEF Exit, OpeningInv, Calling, TypeOK, Sharing
  <2>4. OwnerInv'
    BY <1>0, <1>21 DEF Exit, OwnerInv, Calling, TypeOK, Sharing
  <2> QED
    BY <2>1, <2>2, <2>3, <2>4
<1>22. CASE UNCHANGED vars
  BY <1>22, <1>0 DEF vars, LocalsInv, MutexInv, OpeningInv, OwnerInv
<1>23. ASSUME NEW p \in Procs, CloseAll(p)
       PROVE  LocalsInv' /\ MutexInv' /\ OpeningInv' /\ OwnerInv'
  <2>1. /\ \A q \in Procs : saved'[q] \in {saved[q], NULL}
        /\ UNCHANGED <<alive, mutex, dev, pc, arg>>
    BY <1>23, <1>0 DEF CloseAll
  <2>2. LocalsInv' /\ OwnerInv'
    BY <1>0, <2>1 DEF LocalsInv, OwnerInv, Sharing
  <2>3. MutexInv'
    BY <1>0, <2>1 DEF MutexInv, Sharing
  <2>4. OpeningInv'
    BY <1>0, <1>b, <2>1 DEF OpeningInv, Sharing
  <2> QED
    BY <2>2, <2>3, <2>4
<1> QED
  BY <1>23, <1>1, <1>2, <1>3, <1>4, <1>5, <1>6, <1>7, <1>8, <1>9, <1>10, <1>11, <1>12, <1>13, <1>14, <1>20, <1>21, <1>22 DEF Next, Library, Application
\* A move leaves no dangling pointer if at most h loses its struct, and then no
\* other client points to it.
LEMMA PointersMove ==
  ASSUME TypeOK, NoDangling, NEW p \in Procs, NEW c \in Clients, NEW l, NEW x, NEW y,
         Moves(p, c, l, x, y), NEW h,
         \A q \in Procs, i \in Handles :
           (q # p \/ i # h) /\ heap[q][i].alloc => heap'[q][i].alloc,
         \A q \in Procs : q # p => saved'[q] = saved[q],
         saved'[p] # NULL => heap'[p][saved'[p]].alloc,
         x # NULL => heap'[p][x].alloc,
         y # NULL => heap'[p][y].alloc,
         h \in Handles => \/ heap'[p][h].alloc
                         \/ \A d \in Clients : d # c => dev[p][d] # h /\ arg[p][d] # h
  PROVE  NoDangling'
<1>0. /\ saved \in [Procs -> Handles \cup {NULL}]
      /\ dev \in [Procs -> [Clients -> Handles \cup {NULL}]]
      /\ arg \in [Procs -> [Clients -> Handles \cup {NULL}]]
  BY DEF TypeOK
<1>e. exiting' = exiting /\ p \notin exiting
  BY DEF Moves, Runs
<1>1. \A q \in Procs \ exiting : saved'[q] # NULL => heap'[q][saved'[q]].alloc
  BY <1>0 DEF NoDangling
<1>2. \A q \in Procs \ exiting, d \in Clients :
        /\ dev'[q][d] # NULL => heap'[q][dev'[q][d]].alloc
        /\ arg'[q][d] # NULL => heap'[q][arg'[q][d]].alloc
  <2> TAKE q \in Procs \ exiting, d \in Clients
  <2>1. CASE q = p /\ d = c
    BY <2>1 DEF Moves, Is
  <2>2. CASE ~(q = p /\ d = c)
    <3>1. dev'[q][d] = dev[q][d] /\ arg'[q][d] = arg[q][d]
      BY <2>2 DEF Moves, Is
    <3>2. /\ dev[q][d] \in Handles \cup {NULL} /\ arg[q][d] \in Handles \cup {NULL}
          /\ dev[q][d] # NULL => heap[q][dev[q][d]].alloc
          /\ arg[q][d] # NULL => heap[q][arg[q][d]].alloc
      BY <1>0 DEF NoDangling
    <3> QED
      BY <2>2, <3>1, <3>2
  <2> QED
    BY <2>1, <2>2
<1> QED
  BY <1>e, <1>1, <1>2 DEF NoDangling

\* A move that leaves the memory alone.
LEMMA PointersStay ==
  ASSUME TypeOK, NoDangling, NEW p \in Procs, NEW c \in Clients, NEW l, NEW x, NEW y,
         Moves(p, c, l, x, y), heap' = heap, saved' = saved,
         x \in {NULL, dev[p][c]}, y \in {NULL, arg[p][c]}
  PROVE  NoDangling'
<1>0. p \notin exiting
  BY DEF Moves, Runs
<1>1. x # NULL => heap'[p][x].alloc
  BY <1>0 DEF NoDangling
<1>2. y # NULL => heap'[p][y].alloc
  BY <1>0 DEF NoDangling
<1>3. saved'[p] # NULL => heap'[p][saved'[p]].alloc
  BY <1>0 DEF NoDangling
<1> QED
  BY <1>1, <1>2, <1>3, PointersMove, DevAssumption

\* Streams that leave a handle are no longer its users.
LEMMA CountKept ==
  ASSUME TypeOK, TypeOK', OpenCntCoversUsers,
         \A p \in Procs \ exiting', h \in Handles :
           /\ p \notin exiting \/ Users(p, h)' = {}
           /\ Users(p, h)' \subseteq Users(p, h)
           /\ heap'[p][h].open_cnt >= heap[p][h].open_cnt \/ Users(p, h)' = {}
  PROVE  OpenCntCoversUsers'
<1> SUFFICES ASSUME NEW p \in Procs \ exiting', Sharing(p), NEW h \in Handles
             PROVE  heap'[p][h].open_cnt >= Cardinality(Users(p, h)')
  BY DEF OpenCntCoversUsers, Sharing
<1>1. p \notin exiting => heap[p][h].open_cnt >= Cardinality(Users(p, h))
  BY DEF OpenCntCoversUsers
<1>2. heap'[p][h].open_cnt \in Nat /\ heap[p][h].open_cnt \in Nat
  BY DEF TypeOK, Device
<1>3. Cardinality(Users(p, h)') <= Cardinality(Users(p, h))
      /\ Cardinality(Users(p, h)') \in Nat
  BY UsersFinite, FS_Subset, FS_CardinalityType
<1>4. Cardinality(Users(p, h)) \in Nat
  BY UsersFinite
<1>5. CASE Users(p, h)' = {}
  BY <1>2, <1>5, FS_EmptySet
<1>6. CASE heap'[p][h].open_cnt >= heap[p][h].open_cnt
  BY <1>1, <1>2, <1>3, <1>4, <1>6, <1>5
<1> QED
  BY <1>5, <1>6

\* A move that makes no new user counts no one it did not count before.
LEMMA CountMove ==
  ASSUME TypeOK, TypeOK', OpenCntCoversUsers,
         NEW p \in Procs, NEW c \in Clients, NEW l, NEW x, NEW y, Moves(p, c, l, x, y),
         x \in {NULL, dev[p][c]}, NEW h,
         \A q \in Procs, i \in Handles :
           (q # p \/ i # h) => heap'[q][i].open_cnt = heap[q][i].open_cnt,
         h \in Handles => \/ heap'[p][h].open_cnt = heap[p][h].open_cnt
                         \/ \A d \in Clients : d # c => dev[p][d] # h,
         h \in Handles => x # h
  PROVE  OpenCntCoversUsers'
<1>e. exiting' = exiting
  BY DEF Moves, Runs
<1> SUFFICES ASSUME NEW q \in Procs \ exiting, NEW i \in Handles
             PROVE  /\ Users(q, i)' \subseteq Users(q, i)
                    /\ heap'[q][i].open_cnt >= heap[q][i].open_cnt \/ Users(q, i)' = {}
  BY <1>e, CountKept
<1>1. Users(q, i)' \subseteq Users(q, i)
  <2>1. \A d \in Clients : dev'[q][d] = i => dev[q][d] = i
    BY DevAssumption DEF Moves, Is
  <2> QED
    BY <2>1 DEF Users
<1>2. heap[q][i].open_cnt \in Nat
  BY DEF TypeOK, Device
<1>3. CASE heap'[q][i].open_cnt = heap[q][i].open_cnt
  BY <1>1, <1>2, <1>3
<1>4. CASE heap'[q][i].open_cnt # heap[q][i].open_cnt
  <2>1. q = p /\ i = h /\ h \in Handles
    BY <1>4
  <2>2. \A d \in Clients : dev'[q][d] # i
    BY <1>4, <2>1 DEF Moves, Is
  <2> QED
    BY <1>1, <2>2 DEF Users
<1> QED
  BY <1>3, <1>4

\* A handle with no user left according to open_cnt has none.
LEMMA UnusedHasNoUsers ==
  ASSUME TypeOK, OpenCntCoversUsers, NEW p \in Procs \ exiting, Sharing(p), NEW h \in Handles,
         heap[p][h].open_cnt = 0
  PROVE  \A d \in Clients : dev[p][d] # h
<1>1. 0 >= Cardinality(Users(p, h)) /\ Cardinality(Users(p, h)) \in Nat
  BY UsersFinite DEF OpenCntCoversUsers
<1>2. Cardinality(Users(p, h)) = 0
  BY <1>1
<1>3. Users(p, h) = {}
  BY <1>2, UsersFinite, FS_EmptySet
<1> QED
  BY <1>3 DEF Users
\* A client that works on a handle has one, and its stream has none.
LEMMA ArgIsHandle ==
  ASSUME TypeOK, LocalsInv, NoDangling, NEW p \in Procs, NEW c \in Clients,
         pc[p][c] \in Calling
  PROVE  /\ arg[p][c] \in Handles /\ (p \notin exiting => heap[p][arg[p][c]].alloc)
         /\ heap[p][arg[p][c]] \in Device /\ dev[p][c] = NULL
<1>1. arg[p][c] # NULL
  BY DEF LocalsInv
<1>2. arg[p][c] \in Handles
  BY <1>1 DEF TypeOK
<1>3. p \notin exiting => heap[p][arg[p][c]].alloc
  BY <1>1 DEF NoDangling
<1>4. heap[p][arg[p][c]] \in Device
  BY <1>2 DEF TypeOK
<1>5. dev[p][c] = NULL
  BY DEF LocalsInv, Calling
<1> QED
  BY <1>2, <1>3, <1>4, <1>5

\* An open stream has a handle, and its client works on none.
LEMMA DevIsHandle ==
  ASSUME TypeOK, LocalsInv, NoDangling, NEW p \in Procs, NEW c \in Clients,
         pc[p][c] \in {"opened", "using"}
  PROVE  /\ dev[p][c] \in Handles /\ (p \notin exiting => heap[p][dev[p][c]].alloc)
         /\ heap[p][dev[p][c]] \in Device /\ arg[p][c] = NULL
<1>1. dev[p][c] # NULL
  BY DEF LocalsInv
<1>2. dev[p][c] \in Handles
  BY <1>1 DEF TypeOK
<1>3. p \notin exiting => heap[p][dev[p][c]].alloc
  BY <1>1 DEF NoDangling
<1>4. heap[p][dev[p][c]] \in Device
  BY <1>2 DEF TypeOK
<1>5. arg[p][c] = NULL
  BY DEF LocalsInv, Calling
<1> QED
  BY <1>2, <1>3, <1>4, <1>5

\* What the library's assignments leave of a struct nx_dev_t.
LEMMA EditsKeep ==
  ASSUME NEW d \in Device, NEW p, NEW w
  PROVE  /\ (AddUser(d).alloc <=> d.alloc) /\ AddUser(d).open_cnt = d.open_cnt + 1
         /\ (FirstUse(p, d).alloc <=> d.alloc) /\ FirstUse(p, d).open_cnt = 1
         /\ ([d EXCEPT !.win = w].alloc <=> d.alloc)
         /\ [d EXCEPT !.win = w].open_cnt = d.open_cnt
         /\ ([d EXCEPT !.open_cnt = @ - 1].alloc <=> d.alloc)
         /\ [d EXCEPT !.open_cnt = @ - 1].open_cnt = d.open_cnt - 1
         /\ (Inherit(d).alloc <=> d.alloc) /\ Inherit(d).open_cnt = d.open_cnt
         /\ (Leak(d).alloc <=> d.alloc) /\ Leak(d).open_cnt = d.open_cnt
         /\ ~Freed.alloc /\ Freed.open_cnt = 0
<1>1. DOMAIN d = {"alloc", "open_cnt", "use_cnt", "creator_pid", "win", "inherited", "leaked"}
  BY DEF Device
<1> QED
  BY <1>1 DEF AddUser, FirstUse, Inherit, Leak, Freed

\* Every action leaves each pointer to a struct and counts every user.
LEMMA MemoryStep ==
  IInv /\ TypeOK' /\ [Next]_vars => NoDangling' /\ OpenCntCoversUsers'
<1> SUFFICES ASSUME IInv, TypeOK', [Next]_vars PROVE NoDangling' /\ OpenCntCoversUsers'
  OBVIOUS
<1>0. /\ TypeOK /\ LocalsInv /\ MutexInv /\ OpeningInv /\ OwnerInv
      /\ NoDangling /\ OpenCntCoversUsers
      /\ heap \in [Procs -> [Handles -> Device]]
      /\ saved \in [Procs -> Handles \cup {NULL}]
      /\ dev \in [Procs -> [Clients -> Handles \cup {NULL}]]
      /\ arg \in [Procs -> [Clients -> Handles \cup {NULL}]]
      /\ NULL \notin Handles /\ NULL \notin Clients
  BY DevAssumption DEF IInv, TypeOK
<1>h. \A q \in Procs, i \in Handles : heap[q][i].open_cnt \in Nat
  BY <1>0 DEF Device
\* Steps that leave the memory alone.
<1>1. ASSUME NEW p \in Procs, NEW c \in Clients, Runs(p), OpenChecked(p, c) PROVE NoDangling' /\ OpenCntCoversUsers'
  <2>1. Moves(p, c, "open", dev[p][c], arg[p][c]) /\ heap' = heap /\ saved' = saved
    BY <1>1, <1>0, MovesIs DEF OpenChecked
  <2>2. NoDangling'
    BY <1>0, <2>1, PointersStay
  <2>3. OpenCntCoversUsers'
    BY <1>0, <2>1, CountMove
  <2> QED
    BY <2>2, <2>3
<1>2. ASSUME NEW p \in Procs, NEW c \in Clients, Runs(p), OpenNoMemory(p, c) PROVE NoDangling' /\ OpenCntCoversUsers'
  <2>1. Moves(p, c, "idle", dev[p][c], arg[p][c]) /\ heap' = heap /\ saved' = saved
    BY <1>2, <1>0, MovesIs DEF OpenNoMemory
  <2>2. NoDangling'
    BY <1>0, <2>1, PointersStay
  <2>3. OpenCntCoversUsers'
    BY <1>0, <2>1, CountMove
  <2> QED
    BY <2>2, <2>3
<1>3. ASSUME NEW p \in Procs, NEW c \in Clients, Runs(p), InitDone(p, c) PROVE NoDangling' /\ OpenCntCoversUsers'
  <2>1. Moves(p, c, "using", dev[p][c], arg[p][c]) /\ heap' = heap /\ saved' = saved
    BY <1>3, <1>0, MovesIs DEF InitDone
  <2>2. NoDangling'
    BY <1>0, <2>1, PointersStay
  <2>3. OpenCntCoversUsers'
    BY <1>0, <2>1, CountMove
  <2> QED
    BY <2>2, <2>3
<1>4. ASSUME NEW p \in Procs, NEW c \in Clients, Runs(p), InitFailed(p, c) PROVE NoDangling' /\ OpenCntCoversUsers'
  <2> DEFINE h == dev[p][c]
  <2>1. /\ Moves(p, c, "idle", NULL, arg[p][c]) /\ saved' = saved /\ pc[p][c] = "opened"
        /\ heap' = Set(heap, p, h, Leak(heap[p][h]))
    BY <1>4, <1>0, MovesIs DEF InitFailed
  <2>4. h \in Handles /\ heap[p][h].alloc /\ heap[p][h] \in Device /\ arg[p][c] = NULL
    BY <1>4, <1>0, <2>1, DevIsHandle DEF Runs
  <2> HIDE DEF h
  <2>5. HeapKeeps(p, h) /\ heap'[p][h] = Leak(heap[p][h])
    BY <1>0, <2>1, <2>4, SetKeeps
  <2>6. heap'[p][h].alloc /\ heap'[p][h].open_cnt = heap[p][h].open_cnt
    BY <2>4, <2>5, EditsKeep
  <2>7. \A q \in Procs, i \in Handles :
          /\ heap[q][i].alloc => heap'[q][i].alloc
          /\ heap'[q][i].open_cnt = heap[q][i].open_cnt
    BY <2>4, <2>5, <2>6 DEF HeapKeeps
  <2>2. NoDangling'
    <3>1. saved'[p] # NULL => heap'[p][saved'[p]].alloc
      BY <1>0, <1>4, <2>1, <2>7 DEF NoDangling, Runs
    <3> QED
      BY <1>0, <2>1, <2>4, <2>7, <3>1, PointersMove
  <2>3. OpenCntCoversUsers'
    <3>1. \A q \in Procs, i \in Handles :
            (q # p \/ i # NULL) => heap'[q][i].open_cnt = heap[q][i].open_cnt
      BY <2>7
    <3> QED
      BY <1>0, <2>1, <3>1, CountMove
  <2> QED
    BY <2>2, <2>3
<1>5. ASSUME NEW p \in Procs, NEW c \in Clients, Runs(p), CloseKeep(p, c) PROVE NoDangling' /\ OpenCntCoversUsers'
  <2>1. Moves(p, c, "idle", dev[p][c], NULL) /\ heap' = heap /\ saved' = saved
    BY <1>5, <1>0, MovesIs DEF CloseKeep
  <2>2. NoDangling'
    BY <1>0, <2>1, PointersStay
  <2>3. OpenCntCoversUsers'
    BY <1>0, <2>1, CountMove
  <2> QED
    BY <2>2, <2>3
<1>6. ASSUME NEW p \in Procs, NEW c \in Clients, Runs(p), BeginRetried(p, c) PROVE NoDangling' /\ OpenCntCoversUsers'
  <2>1. heap' = heap /\ saved' = saved /\ dev' = dev /\ arg' = arg
    BY <1>6 DEF BeginRetried
  <2>2. NoDangling'
    BY <1>6, <1>0, <2>1 DEF NoDangling, Runs
  <2>3. OpenCntCoversUsers'
    BY <1>0, <1>6, <2>1 DEF OpenCntCoversUsers, Users, Runs
  <2> QED
    BY <2>2, <2>3
\* Steps that work on one handle.
<1>7. ASSUME NEW p \in Procs, NEW c \in Clients, Runs(p), OpenReuse(p, c) PROVE NoDangling' /\ OpenCntCoversUsers'
  <2> DEFINE h == saved[p]
  <2>1. /\ Moves(p, c, "opened", h, arg[p][c]) /\ saved' = saved
        /\ heap' = Set(heap, p, h, AddUser(heap[p][h]))
        /\ h \in Handles /\ pc[p][c] = "open"
    BY <1>7, <1>0, MovesIs DEF OpenReuse, Reusable
  <2>2. /\ heap[p][h].alloc
        /\ arg[p][c] = NULL /\ dev[p][c] = NULL
    BY <1>7, <1>0, <2>1 DEF NoDangling, LocalsInv, Calling, Runs
  <2>5. heap[p][h] \in Device
    BY <1>0, <2>1
  <2>3. HeapKeeps(p, h) /\ heap'[p][h] = AddUser(heap[p][h])
    BY <1>0, <2>1, SetKeeps
  <2>4. heap'[p][h].alloc /\ heap'[p][h].open_cnt = heap[p][h].open_cnt + 1
    BY <2>2, <2>3, <2>5 DEF AddUser, Device
  <2> HIDE DEF h
  <2>8. NoDangling'
    <3>1. \A q \in Procs, i \in Handles : heap[q][i].alloc => heap'[q][i].alloc
      BY <2>3, <2>4 DEF HeapKeeps
    <3>2. saved'[p] # NULL => heap'[p][saved'[p]].alloc
      BY <1>7, <1>0, <2>1, <3>1 DEF NoDangling, Runs
    <3> QED
      BY <1>0, <2>1, <2>2, <2>4, <3>1, <3>2, PointersMove
  <2>9. OpenCntCoversUsers'
    <3> SUFFICES ASSUME NEW q \in Procs \ exiting, Sharing(q), NEW i \in Handles
                 PROVE  heap'[q][i].open_cnt >= Cardinality(Users(q, i)')
      BY <1>7 DEF OpenCntCoversUsers, Sharing, Runs
    <3>1. heap[q][i].open_cnt >= Cardinality(Users(q, i)) /\ Cardinality(Users(q, i)) \in Nat
      BY <1>0, UsersFinite DEF OpenCntCoversUsers
    <3>2. CASE q = p /\ i = h
      <4>1. Users(q, i)' = Users(q, i) \cup {c}
        BY <2>1, <2>2, <3>2 DEF Users, Moves, Is
      <4>2. Cardinality(Users(q, i) \cup {c}) =
              IF c \in Users(q, i) THEN Cardinality(Users(q, i)) ELSE Cardinality(Users(q, i)) + 1
        BY UsersFinite, FS_AddElement
      <4>3. Cardinality(Users(q, i)') <= Cardinality(Users(q, i)) + 1
            /\ Cardinality(Users(q, i)') \in Nat
        BY <3>1, <4>1, <4>2
      <4> QED
        BY <1>h, <2>4, <3>1, <3>2, <4>3
    <3>3. CASE ~(q = p /\ i = h)
      <4>1. Users(q, i)' = Users(q, i)
        BY <1>0, <2>1, <2>2, <3>3 DEF Users, Moves, Is
      <4>2. heap'[q][i].open_cnt = heap[q][i].open_cnt
        BY <2>3, <3>3 DEF HeapKeeps
      <4> QED
        BY <3>1, <4>1, <4>2
    <3> QED
      BY <3>2, <3>3
  <2> QED
    BY <2>8, <2>9
<1>8. ASSUME NEW p \in Procs, NEW c \in Clients, Runs(p), OpenAlloc(p, c) PROVE NoDangling' /\ OpenCntCoversUsers'
  <2>1. PICK h \in Handles : /\ ~heap[p][h].alloc
                           /\ heap' = Set(heap, p, h, Fresh)
                           /\ arg' = Set(arg, p, c, h)
    BY <1>8 DEF OpenAlloc
  <2>2. Moves(p, c, "begin", dev[p][c], h) /\ saved' = saved /\ pc[p][c] = "open"
    BY <1>8, <1>0, <2>1, MovesIs DEF OpenAlloc
  <2>3. HeapKeeps(p, h) /\ heap'[p][h].alloc
    <3>1. HeapKeeps(p, h) /\ heap'[p][h] = Fresh
      BY <1>0, <2>1, SetKeeps
    <3> QED
      BY <3>1 DEF Fresh, Freed
  <2>4. dev[p][c] = NULL /\ saved[p] # h /\ \A d \in Clients : dev[p][d] # h
    BY <1>8, <1>0, <2>1, <2>2 DEF NoDangling, LocalsInv, Runs
  <2>8. NoDangling'
    <3>1. \A q \in Procs, i \in Handles : heap[q][i].alloc => heap'[q][i].alloc
      BY <2>1, <2>3 DEF HeapKeeps
    <3>2. saved'[p] # NULL => heap'[p][saved'[p]].alloc
      BY <1>8, <1>0, <2>2, <3>1 DEF NoDangling, Runs
    <3> QED
      BY <1>0, <2>2, <2>3, <2>4, <3>1, <3>2, PointersMove
  <2>9. OpenCntCoversUsers'
    <3>1. \A q \in Procs, i \in Handles :
            (q # p \/ i # h) => heap'[q][i].open_cnt = heap[q][i].open_cnt
      BY <2>3 DEF HeapKeeps
    <3>2. dev[p][c] # h /\ \A d \in Clients : d # c => dev[p][d] # h
      BY <2>4
    <3> QED
      BY <1>0, <2>2, <3>1, <3>2, CountMove
  <2> QED
    BY <2>8, <2>9
<1>9. ASSUME NEW p \in Procs, NEW c \in Clients, Runs(p), BeginOk(p, c) PROVE NoDangling' /\ OpenCntCoversUsers'
  <2> DEFINE h == arg[p][c]
             w == CHOOSE v \in Windows \ {0} : v \notin OpenWindows
  <2>1. /\ Moves(p, c, "publish", dev[p][c], h) /\ saved' = saved /\ pc[p][c] = "begin"
    BY <1>9, <1>0, MovesIs DEF BeginOk
  <2>2. heap' = Set(heap, p, h, [heap[p][h] EXCEPT !.win = w])
    BY <1>9 DEF BeginOk
  <2> HIDE DEF w
  <2>3. h \in Handles /\ heap[p][h].alloc /\ heap[p][h] \in Device /\ dev[p][c] = NULL
    BY <1>9, <1>0, <2>1, ArgIsHandle DEF Calling, Runs
  <2> HIDE DEF h
  <2>4. HeapKeeps(p, h) /\ heap'[p][h] = [heap[p][h] EXCEPT !.win = w]
    BY <1>0, <2>2, <2>3, SetKeeps
  <2>5. heap'[p][h].alloc /\ heap'[p][h].open_cnt = heap[p][h].open_cnt
    BY <2>3, <2>4, EditsKeep
  <2>6. \A q \in Procs, i \in Handles :
          /\ heap[q][i].alloc => heap'[q][i].alloc
          /\ heap'[q][i].open_cnt = heap[q][i].open_cnt
    BY <2>3, <2>4, <2>5 DEF HeapKeeps
  <2>8. NoDangling'
    <3>1. saved'[p] # NULL => heap'[p][saved'[p]].alloc
      BY <1>9, <1>0, <2>1, <2>6 DEF NoDangling, Runs
    <3> QED
      BY <1>0, <2>1, <2>3, <2>6, <3>1, PointersMove
  <2>9. OpenCntCoversUsers'
    BY <1>0, <2>1, <2>6, CountMove
  <2> QED
    BY <2>8, <2>9
<1>10. ASSUME NEW p \in Procs, NEW c \in Clients, Runs(p), BeginFailed(p, c) PROVE NoDangling' /\ OpenCntCoversUsers'
  <2> DEFINE h == arg[p][c]
  <2>0. dev[p][c] = NULL
    BY <1>10, <1>0 DEF BeginFailed, LocalsInv
  <2>1. /\ Moves(p, c, "idle", NULL, NULL) /\ saved' = saved /\ pc[p][c] = "begin"
        /\ heap' = Set(heap, p, h, Freed)
    BY <1>10, <1>0, <2>0, MovesIs DEF BeginFailed
  <2>3. h \in Handles /\ dev[p][c] = NULL
    BY <1>10, <1>0, <2>1, ArgIsHandle DEF Calling, Runs
  <2>4. HeapKeeps(p, h)
    BY <1>0, <2>1, <2>3, SetKeeps
  <2>5. h # saved[p] /\ \A d \in Clients : d # c => dev[p][d] # h /\ arg[p][d] # h
    <3>1. CASE Sharing(p)
      <4>1. \A d \in Clients : d # c => arg[p][d] = NULL
        BY <1>0, <2>1, <3>1 DEF MutexInv, LocalsInv, Calling
      <4> QED
        BY <1>0, <2>1, <2>3, <3>1, <4>1 DEF OpeningInv
    <3>2. CASE ~Sharing(p)
      BY <1>0, <2>1, <2>3, <3>2 DEF OwnerInv, MutexInv
    <3> QED
      BY <3>1, <3>2
  <2> HIDE DEF h
  <2>8. NoDangling'
    <3>1. saved'[p] # NULL => heap'[p][saved'[p]].alloc
      BY <1>10, <1>0, <2>1, <2>3, <2>4, <2>5 DEF HeapKeeps, NoDangling, Runs
    <3>2. \A q \in Procs, i \in Handles :
           (q # p \/ i # h) /\ heap[q][i].alloc => heap'[q][i].alloc
      BY <2>4 DEF HeapKeeps
    <3> QED
      BY <1>0, <2>1, <2>5, <3>1, <3>2, PointersMove
  <2>9. OpenCntCoversUsers'
    <3>1. \A q \in Procs, i \in Handles :
            (q # p \/ i # h) => heap'[q][i].open_cnt = heap[q][i].open_cnt
      BY <2>4 DEF HeapKeeps
    <3>2. NULL # h /\ \A d \in Clients : d # c => dev[p][d] # h
      BY <1>0, <2>3, <2>5
    <3> QED
      BY <1>0, <2>1, <3>1, <3>2, CountMove
  <2> QED
    BY <2>8, <2>9
<1>11. ASSUME NEW p \in Procs, NEW c \in Clients, Runs(p), CloseUnshared(p, c) PROVE NoDangling' /\ OpenCntCoversUsers'
  <2> DEFINE h == dev[p][c]
  <2>1. /\ Moves(p, c, "idle", NULL, arg[p][c]) /\ saved' = saved /\ pc[p][c] = "using"
        /\ heap' = Set(heap, p, h, Freed) /\ ~Sharing(p)
    BY <1>11, <1>0, MovesIs DEF CloseUnshared
  <2>3. h \in Handles /\ arg[p][c] = NULL /\ saved[p] = NULL
    <3>1. dev[p][c] # NULL /\ arg[p][c] = NULL
      BY <1>0, <2>1 DEF LocalsInv, Calling
    <3>2. saved[p] = NULL
      BY <1>0, <2>1 DEF MutexInv
    <3>3. dev[p][c] \in Handles \cup {NULL}
      BY <1>0 DEF TypeOK
    <3> QED
      BY <3>1, <3>2, <3>3
  <2>4. HeapKeeps(p, h)
    BY <1>0, <2>1, <2>3, SetKeeps
  <2>5. \A d \in Clients : d # c => dev[p][d] # h /\ arg[p][d] # h
    <3>1. ~Sharing(p) /\ dev[p][c] # NULL
      BY <2>1, <2>3, DevAssumption
    <3> QED
      BY <1>0, <3>1 DEF OwnerInv
  <2> HIDE DEF h
  <2>8. NoDangling'
    <3>1. \A q \in Procs, i \in Handles :
           (q # p \/ i # h) /\ heap[q][i].alloc => heap'[q][i].alloc
      BY <2>4 DEF HeapKeeps
    <3> QED
      BY <1>0, <2>1, <2>3, <2>5, <3>1, PointersMove
  <2>9. OpenCntCoversUsers'
    <3> SUFFICES ASSUME NEW q \in Procs \ exiting, Sharing(q), NEW i \in Handles
                 PROVE  heap'[q][i].open_cnt >= Cardinality(Users(q, i)')
      BY <1>11 DEF OpenCntCoversUsers, Sharing, Runs
    <3>1. q # p
      BY <2>1
    <3>2. Users(q, i)' = Users(q, i) /\ heap'[q][i] = heap[q][i]
      BY <2>1, <2>4, <3>1 DEF Users, Moves, Is, HeapKeeps
    <3> QED
      BY <1>0, <3>2 DEF OpenCntCoversUsers
  <2> QED
    BY <2>8, <2>9
<1>12. ASSUME NEW p \in Procs, NEW c \in Clients, Runs(p), CloseLock(p, c) PROVE NoDangling' /\ OpenCntCoversUsers'
  <2> DEFINE h == dev[p][c]
  <2>1. /\ Moves(p, c, "close", NULL, h) /\ saved' = saved /\ pc[p][c] = "using"
        /\ heap' = Set(heap, p, h, [heap[p][h] EXCEPT !.open_cnt = @ - 1])
    BY <1>12, <1>0, MovesIs DEF CloseLock
  <2>3. h \in Handles /\ heap[p][h].alloc /\ heap[p][h] \in Device
    BY <1>12, <1>0, <2>1, DevIsHandle DEF Runs
  <2>6. c \in Users(p, h) /\ \A d \in Clients : dev'[p][d] = h <=> d # c /\ dev[p][d] = h
    BY <2>1, <2>3, <1>0 DEF Users, Moves, Is
  <2> HIDE DEF h
  <2>4. HeapKeeps(p, h) /\ heap'[p][h] = [heap[p][h] EXCEPT !.open_cnt = @ - 1]
    BY <1>0, <2>1, <2>3, SetKeeps
  <2>5. heap'[p][h].alloc /\ heap'[p][h].open_cnt = heap[p][h].open_cnt - 1
    BY <2>3, <2>4, EditsKeep
  <2>8. NoDangling'
    <3>1. \A q \in Procs, i \in Handles : heap[q][i].alloc => heap'[q][i].alloc
      BY <2>3, <2>4, <2>5 DEF HeapKeeps
    <3>2. \A q \in Procs, i \in Handles :
           (q # p \/ i # h) /\ heap[q][i].alloc => heap'[q][i].alloc
      BY <3>1
    <3>4. saved'[p] # NULL => heap'[p][saved'[p]].alloc
      BY <1>12, <1>0, <2>1, <3>1 DEF NoDangling, Runs
    <3>3. \A q \in Procs : q # p => saved'[q] = saved[q]
      BY <2>1
    <3>5. /\ h # NULL => heap'[p][h].alloc
          /\ h \in Handles => \/ heap'[p][h].alloc
                             \/ \A d \in Clients : d # c => dev[p][d] # h /\ arg[p][d] # h
      BY <2>5
    <3>6. TypeOK /\ NoDangling /\ Moves(p, c, "close", NULL, h)
      BY <1>0, <2>1
    <3> QED
      BY <3>2, <3>3, <3>4, <3>5, <3>6, PointersMove
  <2>9. OpenCntCoversUsers'
    <3> SUFFICES ASSUME NEW q \in Procs \ exiting, Sharing(q), NEW i \in Handles
                 PROVE  heap'[q][i].open_cnt >= Cardinality(Users(q, i)')
      BY <1>12 DEF OpenCntCoversUsers, Sharing, Runs
    <3>1. heap[q][i].open_cnt >= Cardinality(Users(q, i)) /\ Cardinality(Users(q, i)) \in Nat
      BY <1>0, UsersFinite DEF OpenCntCoversUsers
    <3>2. CASE q = p /\ i = h
      <4>1. Users(q, i)' = Users(q, i) \ {c} /\ c \in Users(q, i)
        BY <2>6, <3>2 DEF Users
      <4>2. Cardinality(Users(q, i)') = Cardinality(Users(q, i)) - 1
        BY <4>1, UsersFinite, FS_RemoveElement
      <4> QED
        BY <1>h, <2>5, <3>1, <3>2, <4>2
    <3>3. CASE ~(q = p /\ i = h)
      <4>1. Users(q, i)' = Users(q, i)
        <5>1. CASE q = p
          <6>1. \A d \in Clients : dev'[q][d] = i <=> dev[q][d] = i
            BY <1>0, <2>1, <2>3, <3>3, <5>1 DEF Moves, Is, h
          <6> QED
            BY <6>1 DEF Users
        <5>2. CASE q # p
          BY <2>1, <5>2 DEF Users, Moves, Is
        <5> QED
          BY <5>1, <5>2
      <4>2. heap'[q][i].open_cnt = heap[q][i].open_cnt
        BY <2>4, <3>3 DEF HeapKeeps
      <4> QED
        BY <3>1, <4>1, <4>2
    <3> QED
      BY <3>2, <3>3
  <2> QED
    BY <2>8, <2>9
<1>13. ASSUME NEW p \in Procs, NEW c \in Clients, Runs(p), CloseFree(p, c) PROVE NoDangling' /\ OpenCntCoversUsers'
  <2> DEFINE h == arg[p][c]
  <2>1. /\ Moves(p, c, "idle", dev[p][c], NULL) /\ pc[p][c] = "close"
        /\ saved' = IF LowOnCredits THEN [saved EXCEPT ![p] = NULL] ELSE saved
        /\ heap' = Set(heap, p, h, Freed)
        /\ heap[p][h].open_cnt = 0 /\ (LowOnCredits \/ h # saved[p])
    BY <1>13, <1>0, MovesIs DEF CloseFree, NoUserLeft, FreeUnused
  <2>2. Sharing(p) /\ h \in Handles /\ dev[p][c] = NULL
    BY <1>0, <2>1 DEF LocalsInv, MutexInv, Calling
  <2>3. HeapKeeps(p, h)
    BY <1>0, <2>1, <2>2, SetKeeps
  <2>4. \A d \in Clients : dev[p][d] # h
    BY <1>13, <1>0, <2>1, <2>2, UnusedHasNoUsers DEF Runs
  <2>5. \A d \in Clients : d # c => arg[p][d] = NULL
    BY <1>0, <2>1, <2>2 DEF MutexInv, LocalsInv, Calling
  <2>6. /\ saved'[p] # h /\ saved'[p] \in {NULL, saved[p]}
        /\ \A q \in Procs : q # p => saved'[q] = saved[q]
    BY <1>0, <2>1, <2>2
  <2> HIDE DEF h
  <2>8. NoDangling'
    <3>1. saved'[p] # NULL => heap'[p][saved'[p]].alloc
      BY <1>13, <1>0, <2>2, <2>3, <2>6 DEF HeapKeeps, NoDangling, Runs
    <3>2. \A q \in Procs, i \in Handles :
           (q # p \/ i # h) /\ heap[q][i].alloc => heap'[q][i].alloc
      BY <2>3 DEF HeapKeeps
    <3> QED
      BY <1>0, <2>1, <2>2, <2>4, <2>5, <2>6, <3>1, <3>2, PointersMove
  <2>9. OpenCntCoversUsers'
    <3>1. \A q \in Procs, i \in Handles :
            (q # p \/ i # h) => heap'[q][i].open_cnt = heap[q][i].open_cnt
      BY <2>3 DEF HeapKeeps
    <3>2. dev[p][c] # h
      BY <2>4
    <3> QED
      BY <1>0, <2>1, <2>2, <2>4, <3>1, <3>2, CountMove
  <2> QED
    BY <2>8, <2>9
<1>14. ASSUME NEW p \in Procs, NEW c \in Clients, Runs(p), OpenPublish(p, c) PROVE NoDangling' /\ OpenCntCoversUsers'
  <2> DEFINE new == arg[p][c]
  <2>1. Moves(p, c, "opened", new, NULL) /\ pc[p][c] = "publish"
    BY <1>14, <1>0, MovesIs DEF OpenPublish
  <2>2. /\ new \in Handles /\ dev[p][c] = NULL /\ heap[p][new].alloc
        /\ heap[p][new] \in Device
    BY <1>14, <1>0, <2>1, ArgIsHandle DEF Calling, Runs
  <2>3. CASE ~Sharing(p)
    <3>1. heap' = heap /\ saved' = saved
      BY <1>14, <2>3 DEF OpenPublish
    <3>2. NoDangling'
      BY <1>14, <1>0, <2>1, <2>2, <3>1, PointersMove DEF NoDangling, Runs
    <3>3. OpenCntCoversUsers'
      <4> SUFFICES ASSUME NEW q \in Procs \ exiting, Sharing(q), NEW i \in Handles
                   PROVE  heap'[q][i].open_cnt >= Cardinality(Users(q, i)')
        BY <1>14 DEF OpenCntCoversUsers, Sharing, Runs
      <4>1. q # p
        BY <2>3
      <4>2. Users(q, i)' = Users(q, i)
        BY <2>1, <4>1 DEF Users, Moves, Is
      <4> QED
        BY <1>0, <3>1, <4>2 DEF OpenCntCoversUsers
    <3> QED
      BY <3>2, <3>3
  <2>4. CASE Sharing(p)
    <3>1. saved' = [saved EXCEPT ![p] = new]
      BY <1>14, <2>4 DEF OpenPublish
    <3>2. \A q \in Procs, i \in Handles :
            heap'[q][i] = IF q # p THEN heap[q][i]
                          ELSE IF i = new THEN FirstUse(p, heap[p][i])
                          ELSE IF i = saved[p] /\ UnusedSaved(p) THEN Freed
                          ELSE heap[p][i]
      BY <1>14, <1>0, <2>4 DEF OpenPublish
    <3>3. heap'[p][new].alloc /\ heap'[p][new].open_cnt = 1
      BY <2>2, <3>2, EditsKeep
    <3>4. /\ new # saved[p] /\ \A d \in Clients : dev[p][d] # new
          /\ \A d \in Clients : d # c => arg[p][d] = NULL
      <4>1. new # saved[p] /\ \A d \in Clients : dev[p][d] # new
        BY <1>0, <2>1, <2>4 DEF OpeningInv
      <4>2. \A d \in Clients : d # c => arg[p][d] = NULL
        BY <1>0, <2>1, <2>4 DEF MutexInv, LocalsInv, Calling
      <4> QED
        BY <4>1, <4>2
    <3>5. UnusedSaved(p) => \A d \in Clients : dev[p][d] # saved[p]
      BY <1>14, <1>0, <2>4, UnusedHasNoUsers DEF UnusedSaved, Runs
    <3>6. NoDangling'
      <4>1. \A q \in Procs, i \in Handles :
              (q # p \/ i # saved[p]) /\ heap[q][i].alloc => heap'[q][i].alloc
        BY <3>2, <3>3
      <4>2. saved'[p] = new /\ \A q \in Procs : q # p => saved'[q] = saved[q]
        BY <1>0, <3>1
      <4>3. saved[p] \in Handles => \/ heap'[p][saved[p]].alloc
              \/ \A d \in Clients : d # c => dev[p][d] # saved[p] /\ arg[p][d] # saved[p]
        <5>1. CASE saved[p] \in Handles /\ UnusedSaved(p)
          BY <1>0, <3>4, <3>5, <5>1
        <5>2. CASE saved[p] \in Handles /\ ~UnusedSaved(p)
          BY <1>14, <1>0, <3>2, <3>4, <5>2 DEF NoDangling, Runs
        <5> QED
          BY <5>1, <5>2
      <4> HIDE DEF new
      <4> QED
        <5>1. saved'[p] # NULL => heap'[p][saved'[p]].alloc
          BY <3>3, <4>2
        <5>2. \A q \in Procs : q # p => saved'[q] = saved[q]
          BY <4>2
        <5>3. new # NULL => heap'[p][new].alloc
          BY <3>3
        <5>4. TypeOK /\ NoDangling /\ Moves(p, c, "opened", new, NULL)
          BY <1>0, <2>1
        <5> DEFINE old == saved[p]
        <5>5. /\ \A q \in Procs, i \in Handles :
                   (q # p \/ i # old) /\ heap[q][i].alloc => heap'[q][i].alloc
              /\ old \in Handles => \/ heap'[p][old].alloc
                   \/ \A d \in Clients : d # c => dev[p][d] # old /\ arg[p][d] # old
          BY <4>1, <4>3
        <5> HIDE DEF old
        <5> QED
          BY <5>1, <5>2, <5>3, <5>4, <5>5, PointersMove
    <3>7. OpenCntCoversUsers'
      <4> SUFFICES ASSUME NEW q \in Procs \ exiting, Sharing(q), NEW i \in Handles
                   PROVE  heap'[q][i].open_cnt >= Cardinality(Users(q, i)')
        BY <1>14 DEF OpenCntCoversUsers, Sharing, Runs
      <4>0. heap[q][i].open_cnt >= Cardinality(Users(q, i)) /\ Cardinality(Users(q, i)) \in Nat
        BY <1>0, <2>4, UsersFinite DEF OpenCntCoversUsers
      <4>1. CASE q = p /\ i = new
        <5>1. Users(q, i)' = {c}
          BY <2>1, <3>4, <4>1 DEF Users, Moves, Is
        <5>2. Cardinality(Users(q, i)') = 1
          BY <5>1, FS_Singleton
        <5> QED
          BY <3>3, <4>1, <5>2
      <4>2. CASE ~(q = p /\ i = new)
        <5>1. Users(q, i)' = Users(q, i)
          BY <1>0, <2>1, <2>2, <4>2 DEF Users, Moves, Is
        <5>2. CASE q = p /\ i = saved[p] /\ UnusedSaved(p)
          <6>1. Users(q, i)' = {}
            BY <3>5, <5>1, <5>2 DEF Users
          <6>2. heap'[q][i].open_cnt = 0
            BY <3>2, <3>4, <5>2 DEF Freed
          <6> QED
            BY <6>1, <6>2, FS_EmptySet
        <5>3. CASE ~(q = p /\ i = saved[p] /\ UnusedSaved(p))
          <6>1. heap'[q][i] = heap[q][i]
            BY <3>2, <4>2, <5>3
          <6> QED
            BY <4>0, <5>1, <6>1
        <5> QED
          BY <5>2, <5>3
      <4> QED
        BY <4>1, <4>2
    <3> QED
      BY <3>6, <3>7
  <2>8. NoDangling'
    BY <2>3, <2>4
  <2>9. OpenCntCoversUsers'
    BY <2>3, <2>4
  <2> QED
    BY <2>8, <2>9
\* Steps of processes.
<1>20. ASSUME NEW p \in Procs, NEW q \in Procs, Fork(p, q) PROVE NoDangling' /\ OpenCntCoversUsers'
  <2>1. /\ saved' = [saved EXCEPT ![q] = saved[p]] /\ dev' = [dev EXCEPT ![q] = dev[p]]
        /\ heap' = [heap EXCEPT ![q] = [h \in Handles |-> Inherit(heap[p][h])]]
        /\ arg' = arg /\ q \notin alive /\ exiting' = exiting /\ p \notin exiting
    BY <1>20 DEF Fork
  <2>2. \A r \in Procs, h \in Handles :
          /\ heap'[r][h].alloc <=> heap[IF r = q THEN p ELSE r][h].alloc
          /\ heap'[r][h].open_cnt = heap[IF r = q THEN p ELSE r][h].open_cnt
    <3> TAKE r \in Procs, h \in Handles
    <3>1. heap[p][h] \in Device /\ heap[r][h] \in Device
      BY <1>0
    <3>2. CASE r = q
      <4>1. heap'[r][h] = Inherit(heap[p][h])
        BY <1>0, <2>1, <3>2
      <4> QED
        BY <3>1, <3>2, <4>1, EditsKeep
    <3>3. CASE r # q
      <4>1. heap'[r][h] = heap[r][h]
        BY <1>0, <2>1, <3>3
      <4> QED
        BY <3>3, <4>1
    <3> QED
      BY <3>2, <3>3
  <2>3. \A c \in Clients : arg[q][c] = NULL
    BY <1>0, <2>1 DEF LocalsInv, Calling
  <2>4. \A r \in Procs : /\ saved'[r] = IF r = q THEN saved[p] ELSE saved[r]
                         /\ dev'[r] = IF r = q THEN dev[p] ELSE dev[r]
    BY <1>0, <2>1
  <2>5. NoDangling'
    <3> DEFINE s(r) == IF r = q THEN p ELSE r
    <3>1. \A r \in Procs \ exiting : saved'[r] # NULL => heap'[r][saved'[r]].alloc
      <4> TAKE r \in Procs \ exiting
      <4>1. saved'[r] = saved[s(r)] /\ s(r) \in Procs \ exiting
        BY <2>1, <2>4
      <4> HIDE DEF s
      <4>2. saved[s(r)] # NULL => saved[s(r)] \in Handles /\ heap[s(r)][saved[s(r)]].alloc
        BY <1>0, <4>1 DEF NoDangling
      <4> QED
        BY <2>2, <4>1, <4>2 DEF s
    <3>2. \A r \in Procs \ exiting, c \in Clients : dev'[r][c] # NULL => heap'[r][dev'[r][c]].alloc
      <4> TAKE r \in Procs \ exiting, c \in Clients
      <4>1. dev'[r] = dev[s(r)] /\ s(r) \in Procs \ exiting
        BY <2>1, <2>4
      <4> HIDE DEF s
      <4>2. dev[s(r)][c] # NULL => dev[s(r)][c] \in Handles /\ heap[s(r)][dev[s(r)][c]].alloc
        BY <1>0, <4>1 DEF NoDangling
      <4> QED
        BY <2>2, <4>1, <4>2 DEF s
    <3>3. \A r \in Procs \ exiting, c \in Clients : arg'[r][c] # NULL => heap'[r][arg'[r][c]].alloc
      BY <1>0, <2>1, <2>2, <2>3 DEF NoDangling
    <3> QED
      BY <2>1, <3>1, <3>2, <3>3 DEF NoDangling
  <2>6. OpenCntCoversUsers'
    <3> SUFFICES ASSUME NEW r \in Procs \ exiting, Sharing(r), NEW i \in Handles
                 PROVE  heap'[r][i].open_cnt >= Cardinality(Users(r, i)')
      BY <1>20 DEF OpenCntCoversUsers, Sharing, Runs, Fork
    <3> DEFINE s == IF r = q THEN p ELSE r
    <3>1. Users(r, i)' = Users(s, i)
      BY <2>4 DEF Users
    <3>2. heap'[r][i].open_cnt = heap[s][i].open_cnt
      BY <2>2
    <3>3. s \in Procs \ exiting /\ Sharing(s)
      BY <1>20 DEF Fork, Sharing
    <3> QED
      BY <1>0, <3>1, <3>2, <3>3 DEF OpenCntCoversUsers
  <2> QED
    BY <2>5, <2>6
<1>21. ASSUME NEW p \in Procs, Exit(p) PROVE NoDangling' /\ OpenCntCoversUsers'
  <2>1. /\ heap' = [heap EXCEPT ![p] = [h \in Handles |-> Freed]]
        /\ saved' = [saved EXCEPT ![p] = NULL]
        /\ dev' = [dev EXCEPT ![p] = [c \in Clients |-> NULL]]
        /\ arg' = [arg EXCEPT ![p] = [c \in Clients |-> NULL]]
        /\ exiting' = exiting \ {p}
    BY <1>21 DEF Exit
  <2>2. \A q \in Procs : /\ saved'[q] = IF q = p THEN NULL ELSE saved[q]
                         /\ q # p => heap'[q] = heap[q]
    BY <1>0, <2>1
  <2>3. \A q \in Procs, c \in Clients :
          /\ dev'[q][c] = IF q = p THEN NULL ELSE dev[q][c]
          /\ arg'[q][c] = IF q = p THEN NULL ELSE arg[q][c]
    BY <1>0, <2>1
  <2>4. NoDangling'
    BY <1>0, <2>1, <2>2, <2>3 DEF NoDangling
  <2>5. OpenCntCoversUsers'
    <3> SUFFICES ASSUME NEW q \in Procs \ exiting', NEW i \in Handles
                 PROVE  /\ q \notin exiting \/ Users(q, i)' = {}
                        /\ Users(q, i)' \subseteq Users(q, i)
                        /\ heap'[q][i].open_cnt >= heap[q][i].open_cnt \/ Users(q, i)' = {}
      BY <1>0, CountKept
    <3>1. Users(q, i)' = IF q = p THEN {} ELSE Users(q, i)
      BY <1>0, <2>3 DEF Users
    <3> QED
      BY <1>h, <2>1, <2>2, <3>1
  <2> QED
    BY <2>4, <2>5
<1>22. CASE UNCHANGED vars
  BY <1>22, <1>0 DEF vars, NoDangling, OpenCntCoversUsers, Users
<1>23. ASSUME NEW p \in Procs, CloseAll(p) PROVE NoDangling' /\ OpenCntCoversUsers'
  <2>1. exiting' = exiting \cup {p} /\ UNCHANGED <<dev, arg>>
    BY <1>23 DEF CloseAll
  <2>2. \A q \in Procs \ exiting' : heap'[q] = heap[q] /\ saved'[q] = saved[q]
    BY <1>23, <1>0, <2>1 DEF CloseAll, Set
  <2>3. NoDangling'
    BY <1>0, <2>1, <2>2 DEF NoDangling
  <2>4. OpenCntCoversUsers'
    BY <1>0, <2>1, <2>2 DEF OpenCntCoversUsers, Users, Sharing
  <2> QED
    BY <2>3, <2>4
<1> QED
  BY <1>23, <1>1, <1>2, <1>3, <1>4, <1>5, <1>6, <1>7, <1>8, <1>9, <1>10, <1>11, <1>12, <1>13, <1>14, <1>20, <1>21, <1>22 DEF Next, Library, Application

-----------------------------------------------------------------------------
\* In every state of the library the locals, the mutex and the counts of all
\* handles agree.
THEOREM InductiveInvariant == Spec => []IInv
<1>1. Init => IInv
  BY InitIInv
<1>2. IInv /\ [Next]_vars => IInv'
  BY TypeStep, PlaceStep, MemoryStep DEF IInv
<1> QED
  BY <1>1, <1>2, PTL DEF Spec
\* The theorems that follow from it.

\* The state of the handles is always well formed.
THEOREM TypeCorrect == Spec => []TypeOK
<1>1. IInv => TypeOK
  BY DEF IInv
<1> QED
  BY <1>1, InductiveInvariant, PTL

\* No stream, call or saved_nx_devp ever points to a freed handle.
THEOREM HandlesValid == Spec => []NoDangling
<1>1. IInv => NoDangling
  BY DEF IInv
<1> QED
  BY <1>1, InductiveInvariant, PTL

\* open_cnt never falls below the number of streams that hold the handle.
THEOREM UsersCounted == Spec => []OpenCntCoversUsers
<1>1. IInv => OpenCntCoversUsers
  BY DEF IInv
<1> QED
  BY <1>1, InductiveInvariant, PTL

\* The saved handle of a process changes only while its mutex is held, but for the
\* destructor's change when the process exits.
THEOREM SavedGuarded == Spec => SavedUnderMutexUntilExit
<1>1. IInv /\ [Next]_vars =>
        [\A p \in alive \cap alive' :
           saved'[p] # saved[p] => mutex[p] # NULL \/ p \in exiting']_vars
  <2> SUFFICES ASSUME IInv, Next, NEW p \in alive, p \in alive', saved'[p] # saved[p],
                      p \notin exiting'
               PROVE  mutex[p] # NULL
    BY DEF vars
  <2>0. /\ MutexInv /\ saved \in [Procs -> Handles \cup {NULL}] /\ alive \subseteq Procs
        /\ NULL \notin Clients
    BY DevAssumption DEF IInv, TypeOK
  <2>1. ASSUME NEW q \in Procs, NEW c \in Clients, Library(q, c) PROVE mutex[p] # NULL
    <3>1. CASE OpenPublish(q, c)
      <4>1. Sharing(q) /\ saved' = [saved EXCEPT ![q] = arg[q][c]] /\ pc[q][c] = "publish"
        BY <3>1 DEF OpenPublish
      <4>2. q = p
        BY <2>0, <4>1
      <4> QED
        BY <2>0, <4>1, <4>2 DEF MutexInv, Calling
    <3>2. CASE CloseFree(q, c)
      <4>1. saved' = [saved EXCEPT ![q] = NULL] /\ pc[q][c] = "close"
        BY <3>2 DEF CloseFree
      <4>2. q = p
        BY <2>0, <4>1
      <4> QED
        BY <2>0, <4>1, <4>2 DEF MutexInv, Calling
    <3>3. CASE ~OpenPublish(q, c) /\ ~CloseFree(q, c)
      <4>1. saved' = saved
        BY <2>1, <3>3 DEF Library, OpenReuse, OpenAlloc, OpenNoMemory, BeginOk, BeginRetried,
           BeginFailed, InitDone, InitFailed, CloseKeep
      <4> QED
        BY <4>1
    <3> QED
      BY <3>1, <3>2, <3>3
  <2>2. ASSUME NEW q \in Procs, NEW c \in Clients, Application(q, c) PROVE mutex[p] # NULL
    BY <2>2 DEF Application, OpenChecked, CloseUnshared, CloseLock
  <2>3. ASSUME NEW q \in Procs, NEW r \in Procs, Fork(q, r) PROVE mutex[p] # NULL
    <3>1. r \notin alive /\ saved' = [saved EXCEPT ![r] = saved[q]]
      BY <2>3 DEF Fork
    <3> QED
      BY <2>0, <3>1
  <2>4. ASSUME NEW q \in Procs, Exit(q) PROVE mutex[p] # NULL
    <3>1. alive' = alive \ {q} /\ saved' = [saved EXCEPT ![q] = NULL]
      BY <2>4 DEF Exit
    <3> QED
      BY <2>0, <3>1
  <2>5. ASSUME NEW q \in Procs, CloseAll(q) PROVE mutex[p] # NULL
    <3>1. exiting' = exiting \cup {q} /\ (saved' = [saved EXCEPT ![q] = NULL] \/ saved' = saved)
      BY <2>5 DEF CloseAll
    <3> QED
      BY <2>0, <3>1
  <2> QED
    BY <2>1, <2>2, <2>3, <2>4, <2>5 DEF Next
<1> QED
  BY <1>1, InductiveInvariant, PTL DEF Spec, SavedUnderMutexUntilExit

-----------------------------------------------------------------------------
\* A handle made by a process was not inherited by it: its maker's id is one
\* that has been used, so never that of a child yet to be forked.
InheritInv ==
  /\ \A p \in Procs, h \in Handles :
       /\ heap[p][h].creator_pid \in born \cup {NULL}
       /\ heap[p][h].creator_pid = p => ~heap[p][h].inherited
  /\ \A p \in Procs, c \in Clients :
       pc[p][c] \in {"begin", "publish"} => ~heap[p][arg[p][c]].inherited
  /\ NotInherited

\* What a client's step does to a struct, as far as inheritance goes.
Keeps(p, d, e) ==
  /\ e.inherited => d.inherited
  /\ \/ e.creator_pid = d.creator_pid
     \/ e.creator_pid = NULL
     \/ e.creator_pid = p /\ ~e.inherited

\* Every assignment of the library keeps that.
LEMMA EditsInherit ==
  ASSUME NEW d \in Device, NEW p \in Procs, NEW w
  PROVE  /\ Keeps(p, d, d) /\ Keeps(p, d, Freed) /\ Keeps(p, d, Fresh)
         /\ Keeps(p, d, AddUser(d)) /\ Keeps(p, d, [d EXCEPT !.win = w])
         /\ Keeps(p, d, [d EXCEPT !.open_cnt = @ - 1]) /\ Keeps(p, d, Leak(d))
         /\ ~d.inherited => Keeps(p, d, FirstUse(p, d))
         /\ ~Fresh.inherited
<1>1. DOMAIN d = {"alloc", "open_cnt", "use_cnt", "creator_pid", "win", "inherited", "leaked"}
  BY DEF Device
<1> QED
  BY <1>1 DEF AddUser, FirstUse, Fresh, Freed, Leak, Keeps

\* A client's step keeps InheritInv if the handle it comes to open is no
\* inherited one.
LEMMA InheritMove ==
  ASSUME InheritInv, IInv, born' = born, NEW p \in Procs, NEW c \in Clients,
         p \in alive, NEW l, NEW x, NEW y, Moves(p, c, l, x, y),
         \A q \in Procs, h \in Handles :
           IF q = p THEN Keeps(p, heap[q][h], heap'[q][h]) ELSE heap'[q][h] = heap[q][h],
         l \in {"begin", "publish"} => ~heap'[p][y].inherited,
         l = "opened" => ~heap'[p][x].inherited
  PROVE  InheritInv'
<1>0. /\ alive \subseteq born
      /\ TypeOK /\ LocalsInv /\ NoDangling
  BY DEF IInv, TypeOK
<1>1. \A q \in Procs, h \in Handles :
        /\ heap'[q][h].creator_pid \in born \cup {NULL}
        /\ heap'[q][h].creator_pid = q => ~heap'[q][h].inherited
        /\ heap'[q][h].inherited => heap[q][h].inherited
  BY <1>0, DevAssumption DEF InheritInv, Keeps
<1>2. ASSUME NEW q \in Procs, NEW d \in Clients, pc'[q][d] \in {"begin", "publish"}
      PROVE  ~heap'[q][arg'[q][d]].inherited
  <2>1. CASE q = p /\ d = c
    BY <1>2, <2>1 DEF Moves, Is
  <2>2. CASE ~(q = p /\ d = c)
    <3>1. pc[q][d] \in {"begin", "publish"} /\ arg'[q][d] = arg[q][d]
      BY <1>2, <2>2 DEF Moves, Is
    <3>2. arg[q][d] \in Handles
      BY <1>0, <3>1, ArgIsHandle DEF Calling
    <3> QED
      BY <1>1, <3>1, <3>2 DEF InheritInv
  <2> QED
    BY <2>1, <2>2
<1>3. ASSUME NEW q \in Procs, NEW d \in Clients, pc'[q][d] = "opened"
      PROVE  ~heap'[q][dev'[q][d]].inherited
  <2>1. CASE q = p /\ d = c
    BY <1>3, <2>1 DEF Moves, Is
  <2>2. CASE ~(q = p /\ d = c)
    <3>1. pc[q][d] = "opened" /\ dev'[q][d] = dev[q][d]
      BY <1>3, <2>2 DEF Moves, Is
    <3>2. dev[q][d] \in Handles
      BY <1>0, <3>1, DevIsHandle
    <3> QED
      BY <1>1, <3>1, <3>2 DEF InheritInv, NotInherited
  <2> QED
    BY <2>1, <2>2
<1> QED
  BY <1>1, <1>2, <1>3 DEF InheritInv, NotInherited
\* Writing one struct of a process, or none.
LEMMA SetInherit ==
  ASSUME TypeOK, NEW p \in Procs, NEW h \in Handles, NEW d,
         heap' = heap \/ (heap' = Set(heap, p, h, d) /\ Keeps(p, heap[p][h], d))
  PROVE  \A q \in Procs, i \in Handles :
           IF q = p THEN Keeps(p, heap[q][i], heap'[q][i]) ELSE heap'[q][i] = heap[q][i]
<1>1. CASE heap' = heap
  BY <1>1 DEF Keeps
<1>2. CASE heap' = Set(heap, p, h, d) /\ Keeps(p, heap[p][h], d)
  <2>1. HeapKeeps(p, h) /\ heap'[p][h] = d
    BY <1>2, SetKeeps
  <2> QED
    BY <1>2, <2>1 DEF HeapKeeps, Keeps
<1> QED
  BY <1>1, <1>2

\* With fresh process ids, every action keeps InheritInv: fork gives a child the
\* id of nobody who made a handle.
LEMMA InheritStep ==
  ~RecyclePids /\ IInv /\ TypeOK' /\ InheritInv /\ [Next]_vars => InheritInv'
<1> SUFFICES ASSUME ~RecyclePids, IInv, TypeOK', InheritInv, [Next]_vars PROVE InheritInv'
  OBVIOUS
<1>0. /\ TypeOK /\ LocalsInv /\ NoDangling /\ NULL \notin Handles /\ NULL \notin Procs
      /\ heap \in [Procs -> [Handles -> Device]]
      /\ saved \in [Procs -> Handles \cup {NULL}]
      /\ alive \subseteq born
  BY DevAssumption DEF IInv, TypeOK
<1>a. ASSUME NEW p \in Procs, NEW c \in Clients, pc[p][c] # "idle" PROVE p \in alive
  BY <1>a, <1>0 DEF LocalsInv
<1>1. ASSUME NEW p \in Procs, NEW c \in Clients, Runs(p), OpenChecked(p, c) PROVE InheritInv'
  <2>1. Moves(p, c, "open", dev[p][c], arg[p][c]) /\ heap' = heap /\ born' = born
    BY <1>1, <1>0, MovesIs DEF OpenChecked
  <2>2. p \in alive
    BY <1>1, <1>a DEF OpenChecked
  <2>3. \A q \in Procs, i \in Handles :
          IF q = p THEN Keeps(p, heap[q][i], heap'[q][i]) ELSE heap'[q][i] = heap[q][i]
    BY <2>1 DEF Keeps
  <2> QED
    BY <2>1, <2>2, <2>3, InheritMove
<1>2. ASSUME NEW p \in Procs, NEW c \in Clients, Runs(p), OpenNoMemory(p, c) PROVE InheritInv'
  <2>1. Moves(p, c, "idle", dev[p][c], arg[p][c]) /\ heap' = heap /\ born' = born
    BY <1>2, <1>0, MovesIs DEF OpenNoMemory
  <2>2. p \in alive
    BY <1>2, <1>a DEF OpenNoMemory
  <2>3. \A q \in Procs, i \in Handles :
          IF q = p THEN Keeps(p, heap[q][i], heap'[q][i]) ELSE heap'[q][i] = heap[q][i]
    BY <2>1 DEF Keeps
  <2> QED
    BY <2>1, <2>2, <2>3, InheritMove
<1>3. ASSUME NEW p \in Procs, NEW c \in Clients, Runs(p), InitDone(p, c) PROVE InheritInv'
  <2>1. Moves(p, c, "using", dev[p][c], arg[p][c]) /\ heap' = heap /\ born' = born
    BY <1>3, <1>0, MovesIs DEF InitDone
  <2>2. p \in alive
    BY <1>3, <1>a DEF InitDone
  <2>3. \A q \in Procs, i \in Handles :
          IF q = p THEN Keeps(p, heap[q][i], heap'[q][i]) ELSE heap'[q][i] = heap[q][i]
    BY <2>1 DEF Keeps
  <2> QED
    BY <2>1, <2>2, <2>3, InheritMove
<1>4. ASSUME NEW p \in Procs, NEW c \in Clients, Runs(p), InitFailed(p, c) PROVE InheritInv'
  <2> DEFINE h == dev[p][c]
  <2>1. /\ Moves(p, c, "idle", NULL, arg[p][c]) /\ born' = born /\ pc[p][c] = "opened"
        /\ heap' = Set(heap, p, h, Leak(heap[p][h]))
    BY <1>4, <1>0, MovesIs DEF InitFailed
  <2>2. p \in alive
    BY <2>1, <1>a
  <2>3. h \in Handles /\ heap[p][h] \in Device
    BY <1>0, <2>1, DevIsHandle
  <2> HIDE DEF h
  <2>4. Keeps(p, heap[p][h], Leak(heap[p][h]))
    BY <2>3, EditsInherit
  <2>5. \A q \in Procs, i \in Handles :
          IF q = p THEN Keeps(p, heap[q][i], heap'[q][i]) ELSE heap'[q][i] = heap[q][i]
    BY <1>0, <2>1, <2>3, <2>4, SetInherit
  <2> QED
    BY <2>1, <2>2, <2>5, InheritMove
<1>5. ASSUME NEW p \in Procs, NEW c \in Clients, Runs(p), CloseKeep(p, c) PROVE InheritInv'
  <2>1. Moves(p, c, "idle", dev[p][c], NULL) /\ heap' = heap /\ born' = born
    BY <1>5, <1>0, MovesIs DEF CloseKeep
  <2>2. p \in alive
    BY <1>5, <1>a DEF CloseKeep
  <2>3. \A q \in Procs, i \in Handles :
          IF q = p THEN Keeps(p, heap[q][i], heap'[q][i]) ELSE heap'[q][i] = heap[q][i]
    BY <2>1 DEF Keeps
  <2> QED
    BY <2>1, <2>2, <2>3, InheritMove
<1>6. ASSUME NEW p \in Procs, NEW c \in Clients, Runs(p), BeginRetried(p, c) PROVE InheritInv'
  <2>1. heap' = heap /\ pc' = pc /\ arg' = arg /\ dev' = dev /\ born' = born
    BY <1>6 DEF BeginRetried
  <2> QED
    BY <2>1 DEF InheritInv, NotInherited
<1>7. ASSUME NEW p \in Procs, NEW c \in Clients, Runs(p), OpenReuse(p, c) PROVE InheritInv'
  <2> DEFINE h == saved[p]
  <2>1. /\ Moves(p, c, "opened", h, arg[p][c]) /\ born' = born
        /\ heap' = Set(heap, p, h, AddUser(heap[p][h]))
        /\ h \in Handles /\ heap[p][h].creator_pid = p
    BY <1>7, <1>0, MovesIs DEF OpenReuse, Reusable, MadeBy
  <2>2. p \in alive
    BY <1>7, <1>a DEF OpenReuse
  <2> HIDE DEF h
  <2>3. heap[p][h] \in Device
    BY <1>0, <2>1
  <2>4. Keeps(p, heap[p][h], AddUser(heap[p][h]))
    BY <2>3, EditsInherit
  <2>5. \A q \in Procs, i \in Handles :
          IF q = p THEN Keeps(p, heap[q][i], heap'[q][i]) ELSE heap'[q][i] = heap[q][i]
    BY <1>0, <2>1, <2>4, SetInherit
  <2>6. ~heap'[p][h].inherited
    BY <2>1, <2>5 DEF InheritInv, Keeps
  <2> QED
    BY <2>1, <2>2, <2>5, <2>6, InheritMove
<1>8. ASSUME NEW p \in Procs, NEW c \in Clients, Runs(p), OpenAlloc(p, c) PROVE InheritInv'
  <2>1. PICK h \in Handles : heap' = Set(heap, p, h, Fresh) /\ arg' = Set(arg, p, c, h)
    BY <1>8 DEF OpenAlloc
  <2>2. Moves(p, c, "begin", dev[p][c], h) /\ born' = born
    BY <1>8, <1>0, <2>1, MovesIs DEF OpenAlloc
  <2>3. p \in alive
    BY <1>8, <1>a DEF OpenAlloc
  <2>4. heap[p][h] \in Device
    BY <1>0
  <2>5. Keeps(p, heap[p][h], Fresh) /\ ~Fresh.inherited
    BY <2>4, EditsInherit
  <2>6. \A q \in Procs, i \in Handles :
          IF q = p THEN Keeps(p, heap[q][i], heap'[q][i]) ELSE heap'[q][i] = heap[q][i]
    BY <1>0, <2>1, <2>5, SetInherit
  <2>7. ~heap'[p][h].inherited
    BY <1>0, <2>1, <2>5, SetKeeps
  <2> QED
    BY <2>2, <2>3, <2>6, <2>7, InheritMove
<1>9. ASSUME NEW p \in Procs, NEW c \in Clients, Runs(p), BeginOk(p, c) PROVE InheritInv'
  <2> DEFINE h == arg[p][c]
             w == CHOOSE v \in Windows \ {0} : v \notin OpenWindows
  <2>1. Moves(p, c, "publish", dev[p][c], h) /\ born' = born /\ pc[p][c] = "begin"
    BY <1>9, <1>0, MovesIs DEF BeginOk
  <2>7. heap' = Set(heap, p, h, [heap[p][h] EXCEPT !.win = w])
    BY <1>9 DEF BeginOk
  <2> HIDE DEF w
  <2>2. p \in alive
    BY <2>1, <1>a
  <2>3. h \in Handles /\ heap[p][h] \in Device /\ ~heap[p][h].inherited
    BY <1>0, <2>1, ArgIsHandle DEF Calling, InheritInv
  <2> HIDE DEF h
  <2>4. Keeps(p, heap[p][h], [heap[p][h] EXCEPT !.win = w])
    BY <2>3, EditsInherit
  <2>5. \A q \in Procs, i \in Handles :
          IF q = p THEN Keeps(p, heap[q][i], heap'[q][i]) ELSE heap'[q][i] = heap[q][i]
    BY <1>0, <2>3, <2>4, <2>7, SetInherit
  <2>6. ~heap'[p][h].inherited
    BY <2>3, <2>5 DEF Keeps
  <2> QED
    BY <2>1, <2>2, <2>5, <2>6, InheritMove
<1>10. ASSUME NEW p \in Procs, NEW c \in Clients, Runs(p), BeginFailed(p, c) PROVE InheritInv'
  <2> DEFINE h == arg[p][c]
  <2>0. dev[p][c] = NULL
    BY <1>10, <1>0 DEF BeginFailed, LocalsInv
  <2>1. /\ Moves(p, c, "idle", NULL, NULL) /\ born' = born /\ pc[p][c] = "begin"
        /\ heap' = Set(heap, p, h, Freed)
    BY <1>10, <1>0, <2>0, MovesIs DEF BeginFailed
  <2>2. p \in alive
    BY <2>1, <1>a
  <2>3. h \in Handles /\ heap[p][h] \in Device
    BY <1>0, <2>1, ArgIsHandle DEF Calling
  <2> HIDE DEF h
  <2>4. Keeps(p, heap[p][h], Freed)
    BY <2>3, EditsInherit
  <2>5. \A q \in Procs, i \in Handles :
          IF q = p THEN Keeps(p, heap[q][i], heap'[q][i]) ELSE heap'[q][i] = heap[q][i]
    BY <1>0, <2>1, <2>3, <2>4, SetInherit
  <2> QED
    BY <2>1, <2>2, <2>5, InheritMove
<1>11. ASSUME NEW p \in Procs, NEW c \in Clients, Runs(p), CloseUnshared(p, c) PROVE InheritInv'
  <2> DEFINE h == dev[p][c]
  <2>1. /\ Moves(p, c, "idle", NULL, arg[p][c]) /\ born' = born /\ pc[p][c] = "using"
        /\ heap' = Set(heap, p, h, Freed)
    BY <1>11, <1>0, MovesIs DEF CloseUnshared
  <2>2. p \in alive
    BY <2>1, <1>a
  <2>3. h \in Handles /\ heap[p][h] \in Device
    BY <1>0, <2>1, DevIsHandle
  <2> HIDE DEF h
  <2>4. Keeps(p, heap[p][h], Freed)
    BY <2>3, EditsInherit
  <2>5. \A q \in Procs, i \in Handles :
          IF q = p THEN Keeps(p, heap[q][i], heap'[q][i]) ELSE heap'[q][i] = heap[q][i]
    BY <1>0, <2>1, <2>3, <2>4, SetInherit
  <2> QED
    BY <2>1, <2>2, <2>5, InheritMove
<1>12. ASSUME NEW p \in Procs, NEW c \in Clients, Runs(p), CloseLock(p, c) PROVE InheritInv'
  <2> DEFINE h == dev[p][c]
  <2>1. /\ Moves(p, c, "close", NULL, h) /\ born' = born /\ pc[p][c] = "using"
        /\ heap' = Set(heap, p, h, [heap[p][h] EXCEPT !.open_cnt = @ - 1])
    BY <1>12, <1>0, MovesIs DEF CloseLock
  <2>2. p \in alive
    BY <2>1, <1>a
  <2>3. h \in Handles /\ heap[p][h] \in Device
    BY <1>0, <2>1, DevIsHandle
  <2> HIDE DEF h
  <2>4. Keeps(p, heap[p][h], [heap[p][h] EXCEPT !.open_cnt = @ - 1])
    BY <2>3, EditsInherit
  <2>5. \A q \in Procs, i \in Handles :
          IF q = p THEN Keeps(p, heap[q][i], heap'[q][i]) ELSE heap'[q][i] = heap[q][i]
    BY <1>0, <2>1, <2>3, <2>4, SetInherit
  <2> QED
    BY <2>1, <2>2, <2>5, InheritMove
<1>13. ASSUME NEW p \in Procs, NEW c \in Clients, Runs(p), CloseFree(p, c) PROVE InheritInv'
  <2> DEFINE h == arg[p][c]
  <2>1. /\ Moves(p, c, "idle", dev[p][c], NULL) /\ born' = born /\ pc[p][c] = "close"
        /\ heap' = Set(heap, p, h, Freed)
    BY <1>13, <1>0, MovesIs DEF CloseFree
  <2>2. p \in alive
    BY <2>1, <1>a
  <2>3. h \in Handles /\ heap[p][h] \in Device
    BY <1>0, <2>1, ArgIsHandle DEF Calling
  <2> HIDE DEF h
  <2>4. Keeps(p, heap[p][h], Freed)
    BY <2>3, EditsInherit
  <2>5. \A q \in Procs, i \in Handles :
          IF q = p THEN Keeps(p, heap[q][i], heap'[q][i]) ELSE heap'[q][i] = heap[q][i]
    BY <1>0, <2>1, <2>3, <2>4, SetInherit
  <2> QED
    BY <2>1, <2>2, <2>5, InheritMove
<1>14. ASSUME NEW p \in Procs, NEW c \in Clients, Runs(p), OpenPublish(p, c) PROVE InheritInv'
  <2> DEFINE new == arg[p][c]
  <2>1. Moves(p, c, "opened", new, NULL) /\ born' = born /\ pc[p][c] = "publish"
    BY <1>14, <1>0, MovesIs DEF OpenPublish
  <2>2. p \in alive
    BY <2>1, <1>a
  <2>3. new \in Handles /\ ~heap[p][new].inherited
    BY <1>0, <2>1, ArgIsHandle DEF Calling, InheritInv
  <2>4. \A q \in Procs, i \in Handles :
          IF q = p THEN Keeps(p, heap[q][i], heap'[q][i]) ELSE heap'[q][i] = heap[q][i]
    <3>1. CASE Sharing(p)
      <4>1. \A q \in Procs, i \in Handles :
              heap'[q][i] = IF q # p THEN heap[q][i]
                            ELSE IF i = new THEN FirstUse(p, heap[p][i])
                            ELSE IF i = saved[p] /\ UnusedSaved(p) THEN Freed
                            ELSE heap[p][i]
        BY <1>14, <1>0, <3>1 DEF OpenPublish
      <4> TAKE q \in Procs, i \in Handles
      <4>2. heap[p][i] \in Device
        BY <1>0
      <4>3. CASE q = p
        BY <2>3, <4>1, <4>2, <4>3, EditsInherit
      <4>4. CASE q # p
        BY <4>1, <4>4
      <4> QED
        BY <4>3, <4>4
    <3>2. CASE ~Sharing(p)
      <4>1. heap' = heap
        BY <1>14, <3>2 DEF OpenPublish
      <4> QED
        BY <4>1 DEF Keeps
    <3> QED
      BY <3>1, <3>2
  <2>5. ~heap'[p][new].inherited
    BY <2>3, <2>4 DEF Keeps
  <2> QED
    BY <2>1, <2>2, <2>4, <2>5, InheritMove
<1>20. ASSUME NEW p \in Procs, NEW q \in Procs, Fork(p, q) PROVE InheritInv'
  <2>1. /\ dev' = [dev EXCEPT ![q] = dev[p]] /\ pc' = [pc EXCEPT ![q] = pc[p]]
        /\ heap' = [heap EXCEPT ![q] = [h \in Handles |-> Inherit(heap[p][h])]]
        /\ arg' = arg /\ q \notin born /\ born' = born \cup {q}
        /\ \A c \in Clients : pc[p][c] \in {"idle", "using"}
    BY <1>20 DEF Fork, Quiescent
  <2>2. \A r \in Procs, h \in Handles :
          /\ heap'[r][h].creator_pid = heap[IF r = q THEN p ELSE r][h].creator_pid
          /\ r # q => heap'[r][h] = heap[r][h]
    <3> TAKE r \in Procs, h \in Handles
    <3>1. DOMAIN heap[p][h] = {"alloc", "open_cnt", "use_cnt", "creator_pid", "win", "inherited", "leaked"}
      <4>1. heap[p][h] \in Device
        BY <1>0
      <4> QED
        BY <4>1 DEF Device
    <3>2. CASE r = q
      <4>1. heap'[r][h] = Inherit(heap[p][h])
        BY <1>0, <2>1, <3>2
      <4> QED
        BY <3>1, <3>2, <4>1 DEF Inherit
    <3>3. CASE r # q
      BY <1>0, <2>1, <3>3
    <3> QED
      BY <3>2, <3>3
  <2>3. \A r \in Procs, h \in Handles :
          /\ heap'[r][h].creator_pid \in born' \cup {NULL}
          /\ heap'[r][h].creator_pid = r => ~heap'[r][h].inherited
    <3> TAKE r \in Procs, h \in Handles
    <3>1. CASE r = q
      <4>1. heap'[r][h].creator_pid \in born \cup {NULL}
        BY <2>2, <3>1 DEF InheritInv
      <4> QED
        BY <1>0, <2>1, <3>1, <4>1
    <3>2. CASE r # q
      BY <2>1, <2>2, <3>2 DEF InheritInv
    <3> QED
      BY <3>1, <3>2
  <2>4. \A r \in Procs, c \in Clients :
          pc'[r][c] \in {"begin", "publish", "opened"} =>
            /\ r # q /\ pc[r][c] = pc'[r][c] /\ dev'[r] = dev[r]
    BY <1>0, <2>1 DEF TypeOK
  <2>5. \A r \in Procs, c \in Clients :
          pc'[r][c] \in {"begin", "publish"} => ~heap'[r][arg'[r][c]].inherited
    <3> TAKE r \in Procs, c \in Clients
    <3> HAVE pc'[r][c] \in {"begin", "publish"}
    <3>1. r # q /\ pc[r][c] \in {"begin", "publish"}
      BY <2>4
    <3>2. arg[r][c] \in Handles
      BY <1>0, <3>1, ArgIsHandle DEF Calling
    <3> QED
      BY <2>1, <2>2, <3>1, <3>2 DEF InheritInv
  <2>6. NotInherited'
    <3> SUFFICES ASSUME NEW r \in Procs, NEW c \in Clients, pc'[r][c] = "opened"
                 PROVE  ~heap'[r][dev'[r][c]].inherited
      BY DEF NotInherited
    <3>1. r # q /\ pc[r][c] = "opened" /\ dev'[r] = dev[r]
      BY <2>4
    <3>2. dev[r][c] \in Handles
      BY <1>0, <3>1, DevIsHandle
    <3> QED
      BY <2>2, <3>1, <3>2 DEF InheritInv, NotInherited
  <2> QED
    BY <2>3, <2>5, <2>6 DEF InheritInv
<1>21. ASSUME NEW p \in Procs, Exit(p) PROVE InheritInv'
  <2>1. /\ heap' = [heap EXCEPT ![p] = [h \in Handles |-> Freed]]
        /\ dev' = [dev EXCEPT ![p] = [c \in Clients |-> NULL]]
        /\ pc' = [pc EXCEPT ![p] = [c \in Clients |-> "idle"]]
        /\ arg' = [arg EXCEPT ![p] = [c \in Clients |-> NULL]]
        /\ born' = born
    BY <1>21 DEF Exit
  <2>2. \A q \in Procs, h \in Handles :
          heap'[q][h] = IF q = p THEN Freed ELSE heap[q][h]
    BY <1>0, <2>1
  <2>3. \A q \in Procs, c \in Clients :
          pc'[q][c] # "idle" =>
            q # p /\ pc'[q] = pc[q] /\ dev'[q] = dev[q] /\ arg'[q] = arg[q]
    BY <1>0, <2>1 DEF TypeOK
  <2>4. \A q \in Procs, h \in Handles :
          /\ heap'[q][h].creator_pid \in born' \cup {NULL}
          /\ heap'[q][h].creator_pid = q => ~heap'[q][h].inherited
    BY <2>1, <2>2 DEF InheritInv, Freed
  <2>5. \A q \in Procs, c \in Clients :
          pc'[q][c] \in {"begin", "publish"} => ~heap'[q][arg'[q][c]].inherited
    <3> TAKE q \in Procs, c \in Clients
    <3> HAVE pc'[q][c] \in {"begin", "publish"}
    <3>1. q # p /\ pc[q][c] \in {"begin", "publish"} /\ arg'[q] = arg[q]
      BY <2>3
    <3>2. arg[q][c] \in Handles
      BY <1>0, <3>1, ArgIsHandle DEF Calling
    <3> QED
      BY <2>2, <3>1, <3>2 DEF InheritInv
  <2>6. NotInherited'
    <3> SUFFICES ASSUME NEW q \in Procs, NEW c \in Clients, pc'[q][c] = "opened"
                 PROVE  ~heap'[q][dev'[q][c]].inherited
      BY DEF NotInherited
    <3>1. q # p /\ pc[q][c] = "opened" /\ dev'[q] = dev[q]
      BY <2>3
    <3>2. dev[q][c] \in Handles
      BY <1>0, <3>1, DevIsHandle
    <3> QED
      BY <2>2, <3>1, <3>2 DEF InheritInv, NotInherited
  <2> QED
    BY <2>4, <2>5, <2>6 DEF InheritInv
<1>22. CASE UNCHANGED vars
  BY <1>22 DEF vars, InheritInv, NotInherited
<1>23. ASSUME NEW p \in Procs, CloseAll(p) PROVE InheritInv'
  <2>1. UNCHANGED <<born, dev, pc, arg>>
    BY <1>23 DEF CloseAll
  <2>2. \A q \in Procs, h \in Handles : heap'[q][h] \in {heap[q][h], Freed}
    <3>1. saved[p] # NULL => saved[p] \in Handles
      BY <1>0
    <3>2. CASE heap' = heap
      BY <3>2
    <3>3. CASE saved[p] # NULL /\ heap' = Set(heap, p, saved[p], Freed)
      BY <1>0, <3>1, <3>3, SetKeeps DEF HeapKeeps
    <3> QED
      BY <1>23, <3>2, <3>3 DEF CloseAll
  <2>3. \A q \in Procs, h \in Handles :
          /\ heap'[q][h].creator_pid \in born' \cup {NULL}
          /\ heap'[q][h].creator_pid = q => ~heap'[q][h].inherited
          /\ heap'[q][h].inherited => heap[q][h].inherited
    BY <1>0, <2>1, <2>2 DEF InheritInv, Freed
  <2>4. \A q \in Procs, c \in Clients :
          /\ pc[q][c] \in {"begin", "publish"} => arg[q][c] \in Handles
          /\ pc[q][c] = "opened" => dev[q][c] \in Handles
    BY <1>0, ArgIsHandle, DevIsHandle DEF Calling
  <2> QED
    BY <2>1, <2>3, <2>4 DEF InheritInv, NotInherited
<1> QED
  BY <1>23, <1>1, <1>2, <1>3, <1>4, <1>5, <1>6, <1>7, <1>8, <1>9, <1>10, <1>11, <1>12, <1>13, <1>14, <1>20, <1>21, <1>22 DEF Next, Library, Application

\* Unless the kernel gives a process the id of a dead one, nx_open never hands
\* out a window that the process inherited when it was forked.
THEOREM ForkSafe == ASSUME ~RecyclePids PROVE Spec => []NotInherited
<1>1. Init => InheritInv
  BY DEF Init, InheritInv, NotInherited, Freed
<1>2. IInv /\ InheritInv /\ [Next]_vars => (IInv /\ InheritInv)'
  BY TypeStep, PlaceStep, MemoryStep, InheritStep DEF IInv
<1>3. IInv /\ InheritInv => NotInherited
  BY DEF InheritInv
<1> QED
  BY <1>1, <1>2, <1>3, InitIInv, PTL DEF Spec

-----------------------------------------------------------------------------
\* Where credits are never low, a handle is the saved one, or has a user, or is
\* in the hands of a call that will free it or make it one of these.
OrphanInv ==
  \A p \in Procs, h \in Handles :
    Sharing(p) /\ heap[p][h].alloc =>
      h = saved[p] \/ heap[p][h].open_cnt > 0 \/ \E c \in Clients : arg[p][c] = h

\* A handle is as well accounted for after a move as before, if the move
\* neither gives it up nor changes what is saved.
LEMMA OrphanMove ==
  ASSUME OrphanInv, NEW p \in Procs, NEW c \in Clients, NEW l, NEW x, NEW y, Moves(p, c, l, x, y),
         \A q \in Procs \ {p} : saved'[q] = saved[q] /\ \A h \in Handles : heap'[q][h] = heap[q][h],
         Sharing(p) => \A h \in Handles : heap'[p][h].alloc =>
           \/ h = saved'[p] \/ heap'[p][h].open_cnt > 0 \/ h = y
           \/ /\ heap[p][h].alloc /\ heap'[p][h].open_cnt = heap[p][h].open_cnt
              /\ h = saved[p] => saved'[p] = saved[p]
              /\ h # arg[p][c]
  PROVE  OrphanInv'
<1> SUFFICES ASSUME NEW q \in Procs, NEW h \in Handles, Sharing(q), heap'[q][h].alloc
             PROVE  h = saved'[q] \/ heap'[q][h].open_cnt > 0 \/ \E d \in Clients : arg'[q][d] = h
  BY DEF OrphanInv, Sharing
<1>1. CASE q # p
  <2>1. saved'[q] = saved[q] /\ heap'[q][h] = heap[q][h]
    BY <1>1
  <2>2. \A d \in Clients : arg'[q][d] = arg[q][d]
    BY <1>1 DEF Moves, Is
  <2> QED
    BY <2>1, <2>2 DEF OrphanInv
<1>2. CASE q = p
  <2>1. /\ arg'[p][c] = y
        /\ \A d \in Clients : d # c => arg'[p][d] = arg[p][d]
    BY DEF Moves, Is
  <2>2. CASE h = saved'[p] \/ heap'[p][h].open_cnt > 0 \/ h = y
    BY <1>2, <2>1, <2>2
  <2>3. CASE /\ heap[p][h].alloc /\ heap'[p][h].open_cnt = heap[p][h].open_cnt
             /\ h = saved[p] => saved'[p] = saved[p]
             /\ h # arg[p][c]
    <3>1. h = saved[p] \/ heap[p][h].open_cnt > 0 \/ \E d \in Clients : arg[p][d] = h
      BY <1>2, <2>3 DEF OrphanInv
    <3>2. ASSUME NEW d \in Clients, arg[p][d] = h PROVE arg'[p][d] = h
      BY <2>1, <2>3, <3>2
    <3> QED
      BY <1>2, <2>3, <3>1, <3>2
  <2> QED
    BY <1>2, <2>2, <2>3
<1> QED
  BY <1>1, <1>2

\* Every action keeps OrphanInv as long as nx_close finds credits enough.
LEMMA OrphanStep ==
  ~PowerVM /\ IInv /\ TypeOK' /\ OrphanInv /\ [Next]_vars => OrphanInv'
<1> SUFFICES ASSUME ~PowerVM, IInv, TypeOK', OrphanInv, [Next]_vars PROVE OrphanInv'
  OBVIOUS
<1>0. /\ TypeOK /\ LocalsInv /\ NoDangling /\ NULL \notin Handles
      /\ heap \in [Procs -> [Handles -> Device]]
      /\ saved \in [Procs -> Handles \cup {NULL}]
      /\ \A p \in Procs, h \in Handles : heap[p][h].open_cnt \in Nat
  BY DevAssumption DEF IInv, TypeOK, Device
<1>n. ASSUME NEW p \in Procs, NEW c \in Clients, pc[p][c] \notin Calling PROVE arg[p][c] = NULL
  BY <1>n, <1>0 DEF LocalsInv
\* Calls that do not touch the memory.
<1>1. ASSUME NEW p \in Procs, NEW c \in Clients, Runs(p),
             OpenChecked(p, c) \/ OpenNoMemory(p, c) \/ InitDone(p, c)
      PROVE  OrphanInv'
  BY <1>1 DEF OpenChecked, OpenNoMemory, InitDone, OrphanInv
<1>14. ASSUME NEW p \in Procs, NEW c \in Clients, Runs(p), InitFailed(p, c) PROVE OrphanInv'
  <2> DEFINE h == dev[p][c]
  <2>1. /\ UNCHANGED <<saved, arg>> /\ pc[p][c] = "opened"
        /\ heap' = Set(heap, p, h, Leak(heap[p][h]))
    BY <1>14 DEF InitFailed
  <2>2. h \in Handles /\ heap[p][h] \in Device
    BY <1>0, <2>1, DevIsHandle
  <2> HIDE DEF h
  <2>3. HeapKeeps(p, h) /\ heap'[p][h] = Leak(heap[p][h])
    BY <1>0, <2>1, <2>2, SetKeeps
  <2>4. \A q \in Procs, i \in Handles :
          /\ heap'[q][i].alloc <=> heap[q][i].alloc
          /\ heap'[q][i].open_cnt = heap[q][i].open_cnt
    BY <2>2, <2>3, EditsKeep DEF HeapKeeps
  <2> QED
    BY <2>1, <2>4 DEF OrphanInv, Sharing
<1>2. ASSUME NEW p \in Procs, NEW c \in Clients, Runs(p), BeginRetried(p, c) PROVE OrphanInv'
  BY <1>2 DEF BeginRetried, OrphanInv
<1>3. ASSUME NEW p \in Procs, NEW c \in Clients, Runs(p), OpenReuse(p, c) PROVE OrphanInv'
  <2> DEFINE h == saved[p]
  <2>1. /\ Moves(p, c, "opened", h, arg[p][c]) /\ saved' = saved
        /\ heap' = Set(heap, p, h, AddUser(heap[p][h]))
        /\ h \in Handles /\ pc[p][c] = "open"
    BY <1>3, <1>0, MovesIs DEF OpenReuse, Reusable
  <2>2. arg[p][c] = NULL
    BY <1>n, <2>1 DEF Calling
  <2>3. HeapKeeps(p, h)
    BY <1>0, <2>1, SetKeeps
  <2> QED
    BY <1>0, <2>1, <2>2, <2>3, OrphanMove DEF HeapKeeps
<1>4. ASSUME NEW p \in Procs, NEW c \in Clients, Runs(p), OpenAlloc(p, c) PROVE OrphanInv'
  <2>1. PICK h \in Handles : heap' = Set(heap, p, h, Fresh) /\ arg' = Set(arg, p, c, h)
    BY <1>4 DEF OpenAlloc
  <2>2. Moves(p, c, "begin", dev[p][c], h) /\ saved' = saved /\ pc[p][c] = "open"
    BY <1>4, <1>0, <2>1, MovesIs DEF OpenAlloc
  <2>3. arg[p][c] = NULL
    BY <1>n, <2>2 DEF Calling
  <2>4. HeapKeeps(p, h)
    BY <1>0, <2>1, SetKeeps
  <2> QED
    BY <1>0, <2>2, <2>3, <2>4, OrphanMove DEF HeapKeeps
<1>5. ASSUME NEW p \in Procs, NEW c \in Clients, Runs(p), BeginOk(p, c) PROVE OrphanInv'
  <2> DEFINE h == arg[p][c]
             w == CHOOSE v \in Windows \ {0} : v \notin OpenWindows
  <2>1. Moves(p, c, "publish", dev[p][c], h) /\ saved' = saved /\ pc[p][c] = "begin"
    BY <1>5, <1>0, MovesIs DEF BeginOk
  <2>2. heap' = Set(heap, p, h, [heap[p][h] EXCEPT !.win = w])
    BY <1>5 DEF BeginOk
  <2> HIDE DEF w
  <2>3. h \in Handles
    BY <1>0, <2>1, ArgIsHandle DEF Calling
  <2>4. HeapKeeps(p, h)
    BY <1>0, <2>2, <2>3, SetKeeps
  <2> QED
    BY <1>0, <2>1, <2>3, <2>4, OrphanMove DEF HeapKeeps
<1>6. ASSUME NEW p \in Procs, NEW c \in Clients, Runs(p), BeginFailed(p, c) \/ CloseFree(p, c) PROVE OrphanInv'
  <2> DEFINE h == arg[p][c]
  <2>1. /\ Moves(p, c, "idle", dev[p][c], NULL) /\ pc[p][c] \in Calling
        /\ heap' = Set(heap, p, h, Freed)
    BY <1>6, <1>0, MovesIs DEF BeginFailed, CloseFree, Calling
  <2>2. saved' = saved
    BY <1>6 DEF BeginFailed, CloseFree, LowOnCredits
  <2>3. h \in Handles
    BY <1>0, <2>1, ArgIsHandle
  <2>4. HeapKeeps(p, h) /\ heap'[p][h] = Freed
    BY <1>0, <2>1, <2>3, SetKeeps
  <2>5. ~heap'[p][h].alloc
    BY <2>4 DEF Freed
  <2> QED
    BY <1>0, <2>1, <2>2, <2>3, <2>4, <2>5, OrphanMove DEF HeapKeeps
<1>7. ASSUME NEW p \in Procs, NEW c \in Clients, Runs(p), OpenPublish(p, c) PROVE OrphanInv'
  <2> DEFINE new == arg[p][c]
  <2>1. Moves(p, c, "opened", new, NULL) /\ pc[p][c] = "publish"
    BY <1>7, <1>0, MovesIs DEF OpenPublish
  <2>2. new \in Handles
    BY <1>0, <2>1, ArgIsHandle DEF Calling
  <2>3. CASE Sharing(p)
    <3>1. \A q \in Procs, i \in Handles :
            heap'[q][i] = IF q # p THEN heap[q][i]
                          ELSE IF i = new THEN FirstUse(p, heap[p][i])
                          ELSE IF i = saved[p] /\ UnusedSaved(p) THEN Freed
                          ELSE heap[p][i]
      BY <1>7, <1>0, <2>3 DEF OpenPublish
    <3>2. saved'[p] = new /\ \A q \in Procs \ {p} : saved'[q] = saved[q]
      BY <1>7, <1>0, <2>3 DEF OpenPublish
    <3>3. ASSUME NEW i \in Handles, heap'[p][i].alloc
          PROVE  \/ i = saved'[p] \/ heap'[p][i].open_cnt > 0
                 \/ /\ heap[p][i].alloc /\ heap'[p][i].open_cnt = heap[p][i].open_cnt
                    /\ i = saved[p] => saved'[p] = saved[p]
                    /\ i # new
      <4>1. CASE i = new
        BY <3>2, <4>1
      <4>2. CASE i # new /\ i = saved[p]
        <5>1. ~UnusedSaved(p)
          BY <3>1, <3>3, <4>2 DEF Freed
        <5>2. heap[p][i].open_cnt # 0
          BY <1>0, <4>2, <5>1 DEF UnusedSaved
        <5> QED
          BY <1>0, <3>1, <4>2, <5>1, <5>2
      <4>3. CASE i # new /\ i # saved[p]
        BY <3>1, <3>3, <4>3
      <4> QED
        BY <4>1, <4>2, <4>3
    <3> QED
      BY <2>1, <3>1, <3>2, <3>3, OrphanMove
  <2>4. CASE ~Sharing(p)
    <3>1. heap' = heap /\ saved' = saved
      BY <1>7, <2>4 DEF OpenPublish
    <3> QED
      BY <2>1, <2>4, <3>1, OrphanMove
  <2> QED
    BY <2>3, <2>4
<1>8. ASSUME NEW p \in Procs, NEW c \in Clients, Runs(p), CloseUnshared(p, c) PROVE OrphanInv'
  <2> DEFINE h == dev[p][c]
  <2>1. /\ Moves(p, c, "idle", NULL, arg[p][c]) /\ saved' = saved /\ pc[p][c] = "using"
        /\ heap' = Set(heap, p, h, Freed) /\ ~Sharing(p)
    BY <1>8, <1>0, MovesIs DEF CloseUnshared
  <2>2. h \in Handles
    BY <1>0, <2>1, DevIsHandle
  <2>3. HeapKeeps(p, h)
    BY <1>0, <2>1, <2>2, SetKeeps
  <2> QED
    BY <1>0, <2>1, <2>2, <2>3, OrphanMove DEF HeapKeeps
<1>9. ASSUME NEW p \in Procs, NEW c \in Clients, Runs(p), CloseLock(p, c) PROVE OrphanInv'
  <2> DEFINE h == dev[p][c]
  <2>1. /\ Moves(p, c, "close", NULL, h) /\ saved' = saved /\ pc[p][c] = "using"
        /\ heap' = Set(heap, p, h, [heap[p][h] EXCEPT !.open_cnt = @ - 1])
    BY <1>9, <1>0, MovesIs DEF CloseLock
  <2>2. h \in Handles /\ arg[p][c] = NULL
    BY <1>0, <2>1, DevIsHandle
  <2>3. HeapKeeps(p, h)
    BY <1>0, <2>1, <2>2, SetKeeps
  <2>4. \A q \in Procs, i \in Handles : q # p \/ i # h => heap'[q][i] = heap[q][i]
    BY <2>3 DEF HeapKeeps
  <2>5. Moves(p, c, "close", NULL, h) /\ saved' = saved
    BY <2>1
  <2> HIDE DEF h
  <2> QED
    BY <1>0, <2>2, <2>4, <2>5, OrphanMove
<1>10. ASSUME NEW p \in Procs, NEW c \in Clients, Runs(p), CloseKeep(p, c) PROVE OrphanInv'
  <2> DEFINE h == arg[p][c]
  <2>1. /\ Moves(p, c, "idle", dev[p][c], NULL) /\ heap' = heap /\ saved' = saved /\ pc[p][c] = "close"
    BY <1>10, <1>0, MovesIs DEF CloseKeep
  <2>2. h \in Handles
    BY <1>0, <2>1, ArgIsHandle DEF Calling
  <2>3. heap[p][h].open_cnt > 0 \/ h = saved[p]
    BY <1>10, <1>0, <2>2 DEF CloseKeep, NoUserLeft, FreeUnused
  <2> QED
    BY <1>0, <2>1, <2>2, <2>3, OrphanMove
<1>11. ASSUME NEW p \in Procs, NEW q \in Procs, Fork(p, q) PROVE OrphanInv'
  <2>1. /\ heap' = [heap EXCEPT ![q] = [h \in Handles |-> Inherit(heap[p][h])]]
        /\ saved' = [saved EXCEPT ![q] = saved[p]] /\ arg' = arg
        /\ Sharing(q) <=> Sharing(p)
        /\ \A c \in Clients : pc[p][c] \in {"idle", "using"}
    BY <1>11 DEF Fork, Quiescent, Sharing
  <2> SUFFICES ASSUME NEW r \in Procs, NEW h \in Handles, Sharing(r), heap'[r][h].alloc
               PROVE  h = saved'[r] \/ heap'[r][h].open_cnt > 0 \/ \E d \in Clients : arg'[r][d] = h
    BY DEF OrphanInv, Sharing
  <2>2. CASE r = q
    <3>1. heap'[q][h] = Inherit(heap[p][h]) /\ saved'[q] = saved[p]
      BY <1>0, <2>1
    <3>2. heap[p][h].alloc /\ heap'[q][h].open_cnt = heap[p][h].open_cnt
      <4>1. heap[p][h] \in Device
        BY <1>0
      <4> QED
        BY <2>2, <3>1, <4>1, EditsKeep
    <3>3. \A c \in Clients : arg[p][c] = NULL
      BY <1>n, <2>1 DEF Calling
    <3> QED
      BY <1>0, <2>1, <2>2, <3>1, <3>2, <3>3 DEF OrphanInv
  <2>3. CASE r # q
    <3>1. heap'[r][h] = heap[r][h] /\ saved'[r] = saved[r]
      BY <1>0, <2>1, <2>3
    <3> QED
      BY <2>1, <3>1 DEF OrphanInv
  <2> QED
    BY <2>2, <2>3
<1>12. ASSUME NEW p \in Procs, Exit(p) PROVE OrphanInv'
  <2>1. /\ heap' = [heap EXCEPT ![p] = [h \in Handles |-> Freed]]
        /\ saved' = [saved EXCEPT ![p] = NULL]
        /\ arg' = [arg EXCEPT ![p] = [c \in Clients |-> NULL]]
    BY <1>12 DEF Exit
  <2> SUFFICES ASSUME NEW r \in Procs, NEW h \in Handles, Sharing(r), heap'[r][h].alloc
               PROVE  h = saved'[r] \/ heap'[r][h].open_cnt > 0 \/ \E d \in Clients : arg'[r][d] = h
    BY DEF OrphanInv, Sharing
  <2>2. r # p
    BY <1>0, <2>1 DEF Freed
  <2>3. heap'[r][h] = heap[r][h] /\ saved'[r] = saved[r] /\ arg'[r] = arg[r]
    BY <1>0, <2>1, <2>2 DEF TypeOK
  <2> QED
    BY <2>3 DEF OrphanInv
<1>13. CASE UNCHANGED vars
  BY <1>13 DEF vars, OrphanInv
<1>15. ASSUME NEW p \in Procs, CloseAll(p) PROVE OrphanInv'
  <2>1. arg' = arg
    BY <1>15 DEF CloseAll
  <2>2. CASE UNCHANGED <<heap, saved>>
    BY <2>1, <2>2 DEF OrphanInv, Sharing
  <2>3. CASE /\ saved[p] # NULL /\ heap' = Set(heap, p, saved[p], Freed)
             /\ saved' = [saved EXCEPT ![p] = NULL]
    <3>1. saved[p] \in Handles
      BY <1>0, <2>3
    <3> DEFINE o == saved[p]
    <3>5. o \in Handles /\ heap' = Set(heap, p, o, Freed)
      BY <2>3, <3>1
    <3> HIDE DEF o
    <3>6. HeapKeeps(p, o) /\ heap'[p][o] = Freed
      BY <1>0, <3>5, SetKeeps
    <3>2. HeapKeeps(p, saved[p]) /\ ~heap'[p][saved[p]].alloc
      BY <3>6 DEF o, Freed
    <3>3. \A q \in Procs : q # p => saved'[q] = saved[q]
      BY <1>0, <2>3
    <3> SUFFICES ASSUME NEW r \in Procs, NEW h \in Handles, Sharing(r), heap'[r][h].alloc
                 PROVE  h = saved'[r] \/ heap'[r][h].open_cnt > 0 \/ \E d \in Clients : arg'[r][d] = h
      BY DEF OrphanInv, Sharing
    <3>4. heap'[r][h] = heap[r][h] /\ (h = saved[r] => saved'[r] = saved[r])
      BY <3>2, <3>3 DEF HeapKeeps
    <3> QED
      BY <2>1, <3>4 DEF OrphanInv
  <2> QED
    BY <1>15, <2>2, <2>3 DEF CloseAll
<1> QED
  BY <1>14, <1>15, <1>1, <1>2, <1>3, <1>4, <1>5, <1>6, <1>7, <1>8, <1>9, <1>10, <1>11, <1>12, <1>13
     DEF Next, Library, Application

\* No handle counts a user it does not have, unless a failed Init has left it one.
ExactInv ==
  \A p \in Procs, h \in Handles :
    Sharing(p) /\ ~heap[p][h].leaked => heap[p][h].open_cnt <= Cardinality(Users(p, h))

\* A move counts as many users as come and go with it.
LEMMA ExactMove ==
  ASSUME TypeOK, TypeOK', ExactInv,
         NEW p \in Procs, NEW c \in Clients, NEW l, NEW x, NEW y, Moves(p, c, l, x, y),
         \A q \in Procs, i \in Handles : q # p => heap'[q][i] = heap[q][i],
         Sharing(p) => \A i \in Handles : ~heap'[p][i].leaked =>
           \/ heap'[p][i].open_cnt = 0
           \/ heap'[p][i].open_cnt = 1 /\ x = i
           \/ /\ ~heap[p][i].leaked
              /\ \/ heap'[p][i].open_cnt = heap[p][i].open_cnt /\ (dev[p][c] = i => x = i)
                 \/ /\ heap'[p][i].open_cnt = heap[p][i].open_cnt + 1
                    /\ dev[p][c] # i /\ x = i
                 \/ /\ heap'[p][i].open_cnt = heap[p][i].open_cnt - 1
                    /\ dev[p][c] = i /\ x # i
  PROVE  ExactInv'
<1> SUFFICES ASSUME NEW q \in Procs, NEW i \in Handles, Sharing(q), ~heap'[q][i].leaked
             PROVE  heap'[q][i].open_cnt <= Cardinality(Users(q, i)')
  BY DEF ExactInv, Sharing
<1>0. /\ heap[q][i].open_cnt \in Nat /\ heap'[q][i].open_cnt \in Nat
      /\ ~heap[q][i].leaked => heap[q][i].open_cnt <= Cardinality(Users(q, i))
  BY DEF TypeOK, Device, ExactInv
<1>1. \A d \in Clients : dev'[q][d] = IF q = p /\ d = c THEN x ELSE dev[q][d]
  BY DEF Moves, Is
<1>2. IsFiniteSet(Users(q, i)) /\ Cardinality(Users(q, i)) \in Nat
  BY UsersFinite
<1>3. Users(q, i)' = {d \in Clients : dev'[q][d] = i}
  BY DEF Users
<1>4. IsFiniteSet(Users(q, i)') /\ Cardinality(Users(q, i)') \in Nat
  <2>1. Users(q, i)' \subseteq Clients
    BY <1>3
  <2> QED
    BY <2>1, FS_Subset, FS_CardinalityType, DevAssumption
<1>5. CASE q # p
  <2>1. Users(q, i)' = Users(q, i)
    BY <1>1, <1>5 DEF Users
  <2> QED
    BY <1>0, <1>5, <2>1
<1>6. CASE q = p /\ heap'[p][i].open_cnt = 0
  BY <1>4, <1>6
<1>7. CASE q = p /\ heap'[p][i].open_cnt = 1 /\ x = i
  <2>1. c \in Users(q, i)'
    BY <1>1, <1>3, <1>7
  <2>2. Cardinality(Users(q, i)') # 0
    BY <1>4, <2>1, FS_EmptySet
  <2> QED
    BY <1>4, <1>7, <2>2
<1>8. CASE /\ q = p /\ ~heap[p][i].leaked
           /\ heap'[p][i].open_cnt = heap[p][i].open_cnt /\ (dev[p][c] = i => x = i)
  <2>1. Users(q, i) \subseteq Users(q, i)'
    BY <1>1, <1>8 DEF Users
  <2>2. Cardinality(Users(q, i)) <= Cardinality(Users(q, i)')
    BY <1>4, <2>1, FS_Subset
  <2> QED
    BY <1>0, <1>2, <1>4, <1>8, <2>2
<1>9. CASE /\ q = p /\ ~heap[p][i].leaked
           /\ heap'[p][i].open_cnt = heap[p][i].open_cnt + 1 /\ dev[p][c] # i /\ x = i
  <2>1. Users(q, i)' = Users(q, i) \cup {c} /\ c \notin Users(q, i)
    BY <1>1, <1>9 DEF Users
  <2>2. Cardinality(Users(q, i)') = Cardinality(Users(q, i)) + 1
    BY <1>2, <2>1, FS_AddElement
  <2> QED
    BY <1>0, <1>2, <1>9, <2>2
<1>10. CASE /\ q = p /\ ~heap[p][i].leaked
            /\ heap'[p][i].open_cnt = heap[p][i].open_cnt - 1 /\ dev[p][c] = i /\ x # i
  <2>1. Users(q, i)' = Users(q, i) \ {c} /\ c \in Users(q, i)
    BY <1>1, <1>10 DEF Users
  <2> DEFINE U == Users(q, i)
             V == Users(q, i)'
  <2>2. V = U \ {c} /\ c \in U /\ IsFiniteSet(U)
    BY <1>2, <2>1
  <2>3. Cardinality(V) = Cardinality(U) - 1
    <3> HIDE DEF U, V
    <3> QED
      BY <2>2, FS_RemoveElement
  <2> QED
    BY <1>0, <1>2, <1>10, <2>3
<1> QED
  BY <1>5, <1>6, <1>7, <1>8, <1>9, <1>10

\* What the library's assignments make of the count and of the leak.
LEMMA EditsCount ==
  ASSUME NEW d \in Device, NEW p, NEW w
  PROVE  /\ AddUser(d).open_cnt = d.open_cnt + 1 /\ (AddUser(d).leaked <=> d.leaked)
         /\ FirstUse(p, d).open_cnt = 1
         /\ [d EXCEPT !.win = w].open_cnt = d.open_cnt
         /\ ([d EXCEPT !.win = w].leaked <=> d.leaked)
         /\ [d EXCEPT !.open_cnt = @ - 1].open_cnt = d.open_cnt - 1
         /\ ([d EXCEPT !.open_cnt = @ - 1].leaked <=> d.leaked)
         /\ Inherit(d).open_cnt = d.open_cnt /\ (Inherit(d).leaked <=> d.leaked)
         /\ Leak(d).leaked
         /\ Freed.open_cnt = 0 /\ Fresh.open_cnt = 0
<1>1. DOMAIN d = {"alloc", "open_cnt", "use_cnt", "creator_pid", "win", "inherited", "leaked"}
  BY DEF Device
<1> QED
  BY <1>1 DEF AddUser, FirstUse, Inherit, Leak, Fresh, Freed

\* Every action keeps the counts exact.
LEMMA ExactStep == IInv /\ TypeOK' /\ ExactInv /\ [Next]_vars => ExactInv'
<1> SUFFICES ASSUME IInv, TypeOK', ExactInv, [Next]_vars PROVE ExactInv'
  OBVIOUS
<1>0. /\ TypeOK /\ LocalsInv /\ NoDangling /\ NULL \notin Handles
      /\ heap \in [Procs -> [Handles -> Device]]
      /\ saved \in [Procs -> Handles \cup {NULL}]
  BY DevAssumption DEF IInv, TypeOK
<1>n. ASSUME NEW p \in Procs, NEW c \in Clients, pc[p][c] \notin {"opened", "using"}
      PROVE  dev[p][c] = NULL
  BY <1>n, <1>0 DEF LocalsInv
\* A step of a client that writes d into the struct of one handle.
<1>s. ASSUME NEW p \in Procs, NEW c \in Clients, NEW l, NEW x, NEW y, Moves(p, c, l, x, y),
             NEW h \in Handles, NEW d, heap' = Set(heap, p, h, d),
             \A i \in Handles : i # h => (dev[p][c] = i => x = i),
             ~d.leaked =>
               \/ d.open_cnt = 0
               \/ /\ ~heap[p][h].leaked
                  /\ \/ d.open_cnt = heap[p][h].open_cnt /\ (dev[p][c] = h => x = h)
                     \/ d.open_cnt = heap[p][h].open_cnt + 1 /\ dev[p][c] # h /\ x = h
                     \/ d.open_cnt = heap[p][h].open_cnt - 1 /\ dev[p][c] = h /\ x # h
      PROVE  ExactInv'
  <2>1. HeapKeeps(p, h) /\ heap'[p][h] = d
    BY <1>0, <1>s, SetKeeps
  <2>2. \A q \in Procs, i \in Handles : (q # p \/ i # h) => heap'[q][i] = heap[q][i]
    BY <2>1 DEF HeapKeeps
  <2> QED
    BY <1>0, <1>s, <2>1, <2>2, ExactMove
<1>1. ASSUME NEW p \in Procs, NEW c \in Clients,
             OpenChecked(p, c) \/ OpenNoMemory(p, c) \/ InitDone(p, c) \/ CloseKeep(p, c)
               \/ BeginRetried(p, c)
      PROVE  ExactInv'
  <2>1. UNCHANGED <<heap, dev>>
    BY <1>1 DEF OpenChecked, OpenNoMemory, InitDone, CloseKeep, BeginRetried
  <2> QED
    BY <2>1 DEF ExactInv, Users, Sharing
<1>2. ASSUME NEW p \in Procs, NEW c \in Clients, Runs(p), OpenReuse(p, c) PROVE ExactInv'
  <2> DEFINE h == saved[p]
             d == AddUser(heap[p][h])
  <2>1. /\ Moves(p, c, "opened", h, arg[p][c]) /\ heap' = Set(heap, p, h, d)
        /\ h \in Handles /\ pc[p][c] = "open"
    BY <1>2, <1>0, MovesIs DEF OpenReuse, Reusable
  <2>2. dev[p][c] = NULL
    BY <2>1, <1>n
  <2>3. heap[p][h] \in Device
    BY <2>1, <1>0
  <2> HIDE DEF h
  <2>4. d.open_cnt = heap[p][h].open_cnt + 1 /\ (d.leaked <=> heap[p][h].leaked)
    BY <2>3, EditsCount
  <2> HIDE DEF d
  <2> QED
    BY <1>0, <1>s, <2>1, <2>2, <2>4
<1>3. ASSUME NEW p \in Procs, NEW c \in Clients, Runs(p), OpenAlloc(p, c) PROVE ExactInv'
  <2>1. PICK h \in Handles : heap' = Set(heap, p, h, Fresh) /\ arg' = Set(arg, p, c, h)
    BY <1>3 DEF OpenAlloc
  <2>2. Moves(p, c, "begin", dev[p][c], h)
    BY <1>3, <1>0, <2>1, MovesIs DEF OpenAlloc
  <2>3. Fresh.open_cnt = 0
    BY DEF Fresh, Freed
  <2> QED
    BY <1>s, <2>1, <2>2, <2>3
<1>4. ASSUME NEW p \in Procs, NEW c \in Clients, Runs(p), BeginOk(p, c) PROVE ExactInv'
  <2> DEFINE h == arg[p][c]
             w == CHOOSE v \in Windows \ {0} : v \notin OpenWindows
             d == [heap[p][h] EXCEPT !.win = w]
  <2>1. Moves(p, c, "publish", dev[p][c], h) /\ pc[p][c] = "begin"
    BY <1>4, <1>0, MovesIs DEF BeginOk
  <2>2. heap' = Set(heap, p, h, d)
    BY <1>4 DEF BeginOk
  <2> HIDE DEF w
  <2>3. h \in Handles /\ heap[p][h] \in Device
    BY <1>0, <2>1, ArgIsHandle DEF Calling
  <2> HIDE DEF h
  <2>4. d.open_cnt = heap[p][h].open_cnt /\ (d.leaked <=> heap[p][h].leaked)
    BY <2>3, EditsCount
  <2> HIDE DEF d
  <2> QED
    BY <1>s, <2>1, <2>2, <2>3, <2>4
<1>5. ASSUME NEW p \in Procs, NEW c \in Clients, Runs(p), BeginFailed(p, c) \/ CloseFree(p, c)
      PROVE  ExactInv'
  <2> DEFINE h == arg[p][c]
  <2>1. /\ Moves(p, c, "idle", dev[p][c], NULL) /\ pc[p][c] \in Calling
        /\ heap' = Set(heap, p, h, Freed)
    BY <1>5, <1>0, MovesIs DEF BeginFailed, CloseFree, Calling
  <2>2. h \in Handles
    BY <1>0, <2>1, ArgIsHandle
  <2>3. Freed.open_cnt = 0
    BY DEF Freed
  <2> HIDE DEF h
  <2> QED
    BY <1>s, <2>1, <2>2, <2>3
<1>6. ASSUME NEW p \in Procs, NEW c \in Clients, Runs(p), InitFailed(p, c) PROVE ExactInv'
  <2> DEFINE h == dev[p][c]
             d == Leak(heap[p][h])
  <2>1. /\ Moves(p, c, "idle", NULL, arg[p][c]) /\ pc[p][c] = "opened"
        /\ heap' = Set(heap, p, h, d)
    BY <1>6, <1>0, MovesIs DEF InitFailed
  <2>2. h \in Handles /\ heap[p][h] \in Device
    BY <1>0, <2>1, DevIsHandle
  <2>3. \A i \in Handles : i # h => (dev[p][c] = i => NULL = i)
    OBVIOUS
  <2> HIDE DEF h
  <2>4. d.leaked
    BY <2>2, EditsCount
  <2> HIDE DEF d
  <2> QED
    BY <1>s, <2>1, <2>2, <2>3, <2>4
<1>7. ASSUME NEW p \in Procs, NEW c \in Clients, Runs(p), CloseLock(p, c) PROVE ExactInv'
  <2> DEFINE h == dev[p][c]
             d == [heap[p][h] EXCEPT !.open_cnt = @ - 1]
  <2>1. /\ Moves(p, c, "close", NULL, h) /\ pc[p][c] = "using" /\ heap' = Set(heap, p, h, d)
    BY <1>7, <1>0, MovesIs DEF CloseLock
  <2>2. h \in Handles /\ heap[p][h] \in Device
    BY <1>0, <2>1, DevIsHandle
  <2>3. \A i \in Handles : i # h => (dev[p][c] = i => NULL = i)
    OBVIOUS
  <2>4. dev[p][c] = h
    OBVIOUS
  <2> HIDE DEF h
  <2>5. d.open_cnt = heap[p][h].open_cnt - 1 /\ (d.leaked <=> heap[p][h].leaked)
    BY <2>2, EditsCount
  <2> HIDE DEF d
  <2> QED
    BY <1>0, <1>s, <2>1, <2>2, <2>3, <2>4, <2>5
<1>8. ASSUME NEW p \in Procs, NEW c \in Clients, Runs(p), CloseUnshared(p, c) PROVE ExactInv'
  <2> DEFINE h == dev[p][c]
  <2>1. /\ Moves(p, c, "idle", NULL, arg[p][c]) /\ pc[p][c] = "using"
        /\ heap' = Set(heap, p, h, Freed)
    BY <1>8, <1>0, MovesIs DEF CloseUnshared
  <2>2. h \in Handles
    BY <1>0, <2>1, DevIsHandle
  <2>3. \A i \in Handles : i # h => (dev[p][c] = i => NULL = i)
    OBVIOUS
  <2>4. Freed.open_cnt = 0
    BY DEF Freed
  <2> HIDE DEF h
  <2> QED
    BY <1>s, <2>1, <2>2, <2>3, <2>4
<1>9. ASSUME NEW p \in Procs, NEW c \in Clients, Runs(p), OpenPublish(p, c) PROVE ExactInv'
  <2> DEFINE new == arg[p][c]
  <2>1. Moves(p, c, "opened", new, NULL) /\ pc[p][c] = "publish"
    BY <1>9, <1>0, MovesIs DEF OpenPublish
  <2>2. dev[p][c] = NULL
    BY <2>1, <1>n
  <2>3. CASE Sharing(p)
    <3>1. \A q \in Procs, i \in Handles :
            heap'[q][i] = IF q # p THEN heap[q][i]
                          ELSE IF i = new THEN FirstUse(p, heap[p][i])
                          ELSE IF i = saved[p] /\ UnusedSaved(p) THEN Freed
                          ELSE heap[p][i]
      BY <1>9, <1>0, <2>3 DEF OpenPublish
    <3>2. \A i \in Handles : FirstUse(p, heap[p][i]).open_cnt = 1 /\ Freed.open_cnt = 0
      BY <1>0, EditsCount
    <3> HIDE DEF new
    <3>3. \A q \in Procs, i \in Handles : q # p => heap'[q][i] = heap[q][i]
      BY <3>1
    <3>4. \A i \in Handles :
            \/ heap'[p][i].open_cnt = 0
            \/ heap'[p][i].open_cnt = 1 /\ new = i
            \/ heap'[p][i] = heap[p][i]
      BY <3>1, <3>2
    <3>5. \A i \in Handles : dev[p][c] # i
      BY <1>0, <2>2
    <3> QED
      BY <1>0, <2>1, <3>3, <3>4, <3>5, ExactMove
  <2>4. CASE ~Sharing(p)
    <3>1. heap' = heap
      BY <1>9, <2>4 DEF OpenPublish
    <3> QED
      BY <1>0, <2>1, <2>4, <3>1, ExactMove
  <2> QED
    BY <2>3, <2>4
<1>20. ASSUME NEW p \in Procs, NEW q \in Procs, Fork(p, q) PROVE ExactInv'
  <2>1. /\ heap' = [heap EXCEPT ![q] = [h \in Handles |-> Inherit(heap[p][h])]]
        /\ dev' = [dev EXCEPT ![q] = dev[p]] /\ (Sharing(q) <=> Sharing(p))
    BY <1>20 DEF Fork, Sharing
  <2> SUFFICES ASSUME NEW r \in Procs, NEW h \in Handles, Sharing(r), ~heap'[r][h].leaked
               PROVE  heap'[r][h].open_cnt <= Cardinality(Users(r, h)')
    BY DEF ExactInv, Sharing
  <2> DEFINE s == IF r = q THEN p ELSE r
  <2>2. dev'[r] = dev[s] /\ s \in Procs /\ Sharing(s)
    BY <1>0, <2>1 DEF TypeOK
  <2>3. heap'[r][h] = IF r = q THEN Inherit(heap[s][h]) ELSE heap[s][h]
    BY <1>0, <2>1
  <2> HIDE DEF s
  <2>4. heap[s][h] \in Device
    BY <1>0, <2>2
  <2>5. heap'[r][h].open_cnt = heap[s][h].open_cnt /\ (heap'[r][h].leaked <=> heap[s][h].leaked)
    BY <2>3, <2>4, EditsCount
  <2>6. Users(r, h)' = Users(s, h)
    BY <2>2 DEF Users
  <2> QED
    BY <2>2, <2>5, <2>6 DEF ExactInv
\* The destructor and the end of a process leave the structs they do not free alone.
<1>21. ASSUME NEW p \in Procs, CloseAll(p) \/ Exit(p) PROVE ExactInv'
  <2> SUFFICES ASSUME NEW r \in Procs, NEW h \in Handles, Sharing(r), ~heap'[r][h].leaked
               PROVE  heap'[r][h].open_cnt <= Cardinality(Users(r, h)')
    BY DEF ExactInv, Sharing
  <2>1. heap'[r][h] = Freed \/ (heap'[r][h] = heap[r][h] /\ dev'[r] = dev[r])
    <3>1. CASE Exit(p)
      BY <1>0, <3>1 DEF Exit, TypeOK
    <3>2. CASE CloseAll(p)
      <4>1. dev' = dev
        BY <3>2 DEF CloseAll
      <4>2. CASE heap' = heap
        BY <4>1, <4>2
      <4>3. CASE saved[p] # NULL /\ heap' = Set(heap, p, saved[p], Freed)
        <5> DEFINE o == saved[p]
        <5>1. o \in Handles /\ heap' = Set(heap, p, o, Freed)
          BY <1>0, <4>3
        <5> HIDE DEF o
        <5>2. HeapKeeps(p, o) /\ heap'[p][o] = Freed
          BY <1>0, <5>1, SetKeeps
        <5> QED
          BY <4>1, <5>2 DEF HeapKeeps
      <4> QED
        BY <3>2, <4>2, <4>3 DEF CloseAll
    <3> QED
      BY <1>21, <3>1, <3>2
  <2>2. Cardinality(Users(r, h)') \in Nat
    <3>1. Users(r, h)' \in SUBSET Clients
      BY DEF Users
    <3> QED
      BY <3>1, FS_Subset, FS_CardinalityType, DevAssumption
  <2>3. CASE heap'[r][h] = Freed
    BY <2>2, <2>3 DEF Freed
  <2>4. CASE heap'[r][h] = heap[r][h] /\ dev'[r] = dev[r]
    <3>1. Users(r, h)' = Users(r, h)
      BY <2>4 DEF Users
    <3> QED
      BY <2>4, <3>1 DEF ExactInv
  <2> QED
    BY <2>1, <2>3, <2>4
<1>22. CASE UNCHANGED vars
  BY <1>22 DEF vars, ExactInv, Users, Sharing
<1> QED
  BY <1>1, <1>2, <1>3, <1>4, <1>5, <1>6, <1>7, <1>8, <1>9, <1>20, <1>21, <1>22
     DEF Next, Library, Application

\* Where nx_close never finds credits low, as on bare metal, no window is held
\* by a handle that no stream uses and nobody will find again, but for the handles
\* that failed Inits leave behind.
THEOREM NothingOrphaned == ASSUME ~PowerVM PROVE Spec => []NoIdleOrphan
<1>1. Init => OrphanInv /\ ExactInv
  <2> SUFFICES ASSUME Init PROVE OrphanInv /\ ExactInv
    OBVIOUS
  <2>1. \A p \in Procs, h \in Handles : heap[p][h] = Freed
    BY DEF Init
  <2>2. ExactInv
    BY <2>1, UsersFinite DEF ExactInv, Freed
  <2> QED
    BY <2>1, <2>2 DEF OrphanInv, Freed
<1>2. IInv /\ OrphanInv /\ ExactInv /\ [Next]_vars => (IInv /\ OrphanInv /\ ExactInv)'
  BY TypeStep, PlaceStep, MemoryStep, OrphanStep, ExactStep DEF IInv
<1>3. IInv /\ OrphanInv /\ ExactInv => NoIdleOrphan
  <2> SUFFICES ASSUME IInv, OrphanInv, ExactInv, NEW p \in alive, NEW h \in Handles,
                      Sharing(p), heap[p][h].alloc, mutex[p] = NULL, Users(p, h) = {},
                      ~heap[p][h].leaked
               PROVE  h = saved[p]
    BY DEF NoIdleOrphan
  <2>1. p \in Procs /\ NULL \notin Clients /\ NULL \notin Handles
    BY DevAssumption DEF IInv, TypeOK
  <2>2. \A c \in Clients : arg[p][c] = NULL
    BY <2>1 DEF IInv, LocalsInv, MutexInv
  <2>3. heap[p][h].open_cnt <= Cardinality(Users(p, h))
    BY <2>1 DEF ExactInv
  <2>4. Cardinality(Users(p, h)) = 0
    BY FS_EmptySet
  <2>5. heap[p][h].open_cnt \in Nat
    BY <2>1 DEF IInv, TypeOK, Device
  <2>6. heap[p][h].open_cnt = 0
    BY <2>3, <2>4, <2>5
  <2> QED
    BY <2>1, <2>2, <2>6 DEF OrphanInv
<1> QED
  BY <1>1, <1>2, <1>3, InitIInv, PTL DEF Spec
=============================================================================
