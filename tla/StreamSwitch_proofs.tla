------------------------ MODULE StreamSwitch_proofs ------------------------
(***************************************************************************)
(* For every set of streams, and whatever start-up has found: no assertion *)
(* on a map entry fails, no state is freed twice or left behind, and the   *)
(* data between two resets goes through one engine.                        *)
(***************************************************************************)
EXTENDS StreamSwitch, TLAPS

\* A stream with both states: the entry and the states point at each other.
BothInv(x) ==
  /\ sw[x].live
  /\ sme[x].in /\ sme[x].sw_state = SwPtr(x)
  /\ IF hw[x].live THEN sme[x].hw_state = HwPtr(x) /\ hw[x].sw_stream = SwPtr(x)
                   ELSE sme[x].hw_state = NULL
  /\ state[x] = SwPtr(x) \/ (state[x] = HwPtr(x) /\ hw[x].live)

\* A stream with one state, which can never be left.
OneInv(x) ==
  /\ ~sme[x].in
  /\ \/ /\ Mode(x) = GZIP_NX /\ hw[x].live /\ ~sw[x].live /\ state[x] = HwPtr(x)
        /\ hw[x].sw_stream = NULL /\ ~hw[x].switchable
     \/ Mode(x) = GZIP_SW /\ sw[x].live /\ ~hw[x].live /\ state[x] = SwPtr(x)

\* The engine that has seen data is the one that is loaded, and the NX is not
\* left any more, unless a reset has failed.
LoadedInv(x) ==
  x \notin mixed =>
    /\ by[x] = "sw" => state[x] = SwPtr(x)
    /\ by[x] = "hw" => state[x] = HwPtr(x) /\ ~hw[x].switchable

OpenInv(x) ==
  /\ Mode(x) = GZIP_AUTO => BothInv(x)
  /\ Mode(x) # GZIP_AUTO => OneInv(x)
  /\ LoadedInv(x)

ClosedInv(x) ==
  /\ ~sme[x].in /\ by[x] = NULL
  /\ x \notin lost => ~sw[x].live /\ ~hw[x].live

StreamInv(x) == (x \in open => OpenInv(x)) /\ (x \notin open => ClosedInv(x))

\* Before start-up is over and after the end there is no stream.
IInv ==
  /\ TypeOK /\ NeverAborts
  /\ pc # "loaded" => open = {} /\ lost = {}
  /\ \A x \in Streams : StreamInv(x)

-----------------------------------------------------------------------------
LEMMA Nulls ==
  /\ NULL # "sw" /\ NULL # "hw"
  /\ \A x \in Streams : NULL # SwPtr(x) /\ NULL # HwPtr(x)
BY SwitchAssumption DEF SwPtr, HwPtr

LEMMA Modes == GZIP_AUTO # GZIP_SW /\ GZIP_AUTO # GZIP_NX /\ GZIP_SW # GZIP_NX
BY DEF GZIP_AUTO, GZIP_SW, GZIP_NX

LEMMA Pointing ==
  ASSUME NEW x \in Streams
  PROVE  /\ Owner(SwPtr(x)) = x /\ Owner(HwPtr(x)) = x /\ SwPtr(x) # HwPtr(x)
         /\ SwPtr(x) \in Pointers /\ HwPtr(x) \in Pointers /\ NULL \in Pointers
         /\ state[x] = HwPtr(x) => has_nx_state(x)
         /\ state[x] = SwPtr(x) => ~has_nx_state(x)
BY DEF Owner, SwPtr, HwPtr, Pointers, has_nx_state

\* What a pointer of an open stream leads to.
LEMMA Loaded ==
  ASSUME IInv, NEW x \in Streams, x \in open
  PROVE  /\ Owner(state[x]) = x
         /\ has_nx_state(x) => state[x] = HwPtr(x) /\ hw[x].live
         /\ ~has_nx_state(x) => state[x] = SwPtr(x)
<1>1. OpenInv(x)
  BY DEF IInv, StreamInv
<1>2. state[x] = SwPtr(x) \/ (state[x] = HwPtr(x) /\ hw[x].live)
  BY <1>1 DEF OpenInv, BothInv, OneInv
<1> QED BY <1>2, Pointing

LEMMA Entries ==
  ASSUME IInv, NEW x \in Streams, x \in open, Mode(x) = GZIP_AUTO
  PROVE  /\ BothInv(x) /\ Owner(sme[x].sw_state) = x
         /\ sme[x].hw_state # NULL => hw[x].live /\ sme[x].hw_state = HwPtr(x) /\ Owner(sme[x].hw_state) = x
         /\ sme[x].hw_state = NULL => ~hw[x].live
         /\ Valid(x) \/ (~has_nx_state(x) /\ state[x] = sme[x].sw_state /\ MissesHw(x))
<1>1. BothInv(x)
  BY DEF IInv, StreamInv, OpenInv
<1>2. Owner(sme[x].sw_state) = x
  BY <1>1, Pointing DEF BothInv
<1>3. sme[x].hw_state # NULL => hw[x].live /\ sme[x].hw_state = HwPtr(x) /\ Owner(sme[x].hw_state) = x
  BY <1>1, Pointing DEF BothInv
<1>4. sme[x].hw_state = NULL => ~hw[x].live
  BY <1>1, Nulls DEF BothInv
<1>5. Valid(x) \/ (~has_nx_state(x) /\ state[x] = sme[x].sw_state /\ MissesHw(x))
  <2>1. CASE state[x] = HwPtr(x)
    <3>1. has_nx_state(x) /\ Owner(state[x]) = x /\ hw[x].live
      BY <2>1, <1>1, Pointing DEF BothInv
    <3> QED BY <3>1, <1>1, <2>1 DEF Valid, BothInv
  <2>2. CASE state[x] = SwPtr(x)
    <3>1. ~has_nx_state(x)
      BY <2>2, Pointing
    <3>2. sme[x].hw_state # NULL => state[x] = hw[Owner(sme[x].hw_state)].sw_stream
      BY <2>2, <1>1, <1>3 DEF BothInv
    <3> QED BY <3>1, <3>2, <1>1, <2>2 DEF Valid, BothInv, MissesHw
  <2>3. state[x] = SwPtr(x) \/ state[x] = HwPtr(x)
    BY <1>1 DEF BothInv
  <2> QED BY <2>1, <2>2, <2>3
<1> QED BY <1>1, <1>2, <1>3, <1>4, <1>5

-----------------------------------------------------------------------------
\* The sets of TypeOK.
SwStates == [live : BOOLEAN, fmt : Formats, dict : BOOLEAN]
HwStates == [live : BOOLEAN, fmt : Formats, dict : BOOLEAN,
             switchable : BOOLEAN, sw_stream : Pointers, use_nx : BOOLEAN]
MapEntries == [in : BOOLEAN, sw_state : Pointers, hw_state : Pointers, fmt : Formats]
Settings == [fmt : Formats, dict : BOOLEAN]

LEMMA Types ==
  ASSUME IInv
  PROVE  /\ state \in [Streams -> Pointers] /\ sw \in [Streams -> SwStates]
         /\ hw \in [Streams -> HwStates] /\ sme \in [Streams -> MapEntries]
         /\ want \in [Streams -> Settings] /\ by \in [Streams -> {"sw", "hw", NULL}]
BY DEF IInv, TypeOK, SwStates, HwStates, MapEntries, Settings

\* A step of one stream: nothing else moves.
Moves(x) ==
  /\ \E s \in Pointers : state' = [state EXCEPT ![x] = s]
  /\ \E s \in SwStates : sw' = [sw EXCEPT ![x] = s]
  /\ \E s \in HwStates : hw' = [hw EXCEPT ![x] = s]
  /\ \E s \in MapEntries : sme' = [sme EXCEPT ![x] = s]
  /\ \E s \in Settings : want' = [want EXCEPT ![x] = s]
  /\ \E s \in {"sw", "hw", NULL} : by' = [by EXCEPT ![x] = s]
  /\ open' \in {open, open \cup {x}, open \ {x}}
  /\ mixed' \in {mixed, mixed \cup {x}, mixed \ {x}}
  /\ lost' \in {lost, lost \cup {x}}
  /\ fault' = "none"

\* The engine of x may change only when its data ends.
KeepsEngine(x) == x \notin mixed /\ by[x] # NULL => by'[x] \in {by[x], NULL}

LEMMA Unmoved ==
  ASSUME IInv, NEW x \in Streams, Moves(x)
  PROVE  /\ TypeOK'
         /\ \A z \in Streams \ {x} :
              /\ state'[z] = state[z] /\ sw'[z] = sw[z] /\ hw'[z] = hw[z] /\ sme'[z] = sme[z]
              /\ by'[z] = by[z]
              /\ z \in open' <=> z \in open
              /\ z \in mixed' <=> z \in mixed
              /\ z \in lost' <=> z \in lost
<1>1. TypeOK
  BY DEF IInv
<1>2. state' \in [Streams -> Pointers] /\ \A z \in Streams \ {x} : state'[z] = state[z]
  BY Types DEF Moves
<1>3. /\ sw' \in [Streams -> SwStates]
      /\ \A z \in Streams \ {x} : sw'[z] = sw[z]
  BY Types DEF Moves
<1>4. /\ hw' \in [Streams -> HwStates]
      /\ \A z \in Streams \ {x} : hw'[z] = hw[z]
  BY Types DEF Moves
<1>5. /\ sme' \in [Streams -> MapEntries]
      /\ \A z \in Streams \ {x} : sme'[z] = sme[z]
  BY Types DEF Moves
<1>6. want' \in [Streams -> Settings]
  BY Types DEF Moves
<1>7. by' \in [Streams -> {"sw", "hw", NULL}] /\ \A z \in Streams \ {x} : by'[z] = by[z]
  BY Types DEF Moves
<1>8. /\ open' \subseteq Streams /\ lost' \subseteq Streams /\ mixed' \subseteq Streams
      /\ fault' \in {"none", "assertion", "null hw_state", "double free"}
      /\ \A z \in Streams \ {x} :
           (z \in open' <=> z \in open) /\ (z \in mixed' <=> z \in mixed) /\ (z \in lost' <=> z \in lost)
  BY <1>1 DEF Moves, TypeOK
<1>9. TypeOK'
  BY <1>2, <1>3, <1>4, <1>5, <1>6, <1>7, <1>8
     DEF TypeOK, SwStates, HwStates, MapEntries, Settings, Pointers
<1> QED BY <1>2, <1>3, <1>4, <1>5, <1>7, <1>8, <1>9

LEMMA Together ==
  ASSUME IInv, NEW x \in Streams, Moves(x), UNCHANGED startupVars, pc = "loaded", StreamInv(x)',
         KeepsEngine(x)
  PROVE  IInv' /\ \A z \in Streams : KeepsEngine(z)
<1>1. TypeOK' /\ NeverAborts' /\ pc' = "loaded"
  BY Unmoved DEF Moves, NeverAborts, startupVars
<1>2. ASSUME NEW z \in Streams, z # x
      PROVE  StreamInv(z)' /\ KeepsEngine(z)
  <2>1. /\ state'[z] = state[z] /\ sw'[z] = sw[z] /\ hw'[z] = hw[z] /\ sme'[z] = sme[z]
        /\ by'[z] = by[z]
        /\ z \in open' <=> z \in open
        /\ z \in mixed' <=> z \in mixed
        /\ z \in lost' <=> z \in lost
    BY Unmoved, <1>2
  <2>2. Mode(z)' = Mode(z) /\ nx_config' = nx_config
    BY DEF Mode, startupVars
  <2>3. StreamInv(z)
    BY DEF IInv
  <2>4. KeepsEngine(z)
    BY <2>1 DEF KeepsEngine
  <2>5. OpenInv(z)' <=> OpenInv(z)
    BY <2>1, <2>2 DEF OpenInv, BothInv, OneInv, LoadedInv
  <2>6. ClosedInv(z)' <=> ClosedInv(z)
    BY <2>1 DEF ClosedInv
  <2> QED BY <2>1, <2>3, <2>4, <2>5, <2>6 DEF StreamInv
<1>3. \A z \in Streams : StreamInv(z)' /\ KeepsEngine(z)
  BY <1>2
<1> QED BY <1>1, <1>3 DEF IInv

-----------------------------------------------------------------------------
\* One function at a time, on a stream x.
LEMMA Stays ==
  ASSUME IInv, NEW x \in Streams
  PROVE  /\ UNCHANGED state => \E s \in Pointers : state' = [state EXCEPT ![x] = s]
         /\ UNCHANGED sw => \E s \in SwStates : sw' = [sw EXCEPT ![x] = s]
         /\ UNCHANGED hw => \E s \in HwStates : hw' = [hw EXCEPT ![x] = s]
         /\ UNCHANGED sme => \E s \in MapEntries : sme' = [sme EXCEPT ![x] = s]
         /\ UNCHANGED want => \E s \in Settings : want' = [want EXCEPT ![x] = s]
         /\ UNCHANGED by => \E s \in {"sw", "hw", NULL} : by' = [by EXCEPT ![x] = s]
<1>1. UNCHANGED state => state' = [state EXCEPT ![x] = state[x]] /\ state[x] \in Pointers
  BY Types
<1>2. UNCHANGED sw => sw' = [sw EXCEPT ![x] = sw[x]] /\ sw[x] \in SwStates
  BY Types
<1>3. UNCHANGED hw => hw' = [hw EXCEPT ![x] = hw[x]] /\ hw[x] \in HwStates
  BY Types
<1>4. UNCHANGED sme => sme' = [sme EXCEPT ![x] = sme[x]] /\ sme[x] \in MapEntries
  BY Types
<1>5. UNCHANGED want => want' = [want EXCEPT ![x] = want[x]] /\ want[x] \in Settings
  BY Types
<1>6. UNCHANGED by => by' = [by EXCEPT ![x] = by[x]] /\ by[x] \in {"sw", "hw", NULL}
  BY Types
<1> QED BY <1>1, <1>2, <1>3, <1>4, <1>5, <1>6

LEMMA Fresh ==
  ASSUME NEW x \in Streams, NEW f \in Formats, NEW s \in Pointers, NEW u \in BOOLEAN
  PROVE  /\ NewSw(f) \in SwStates /\ NoSw \in SwStates
         /\ NewHw(f, s, u) \in HwStates /\ NoHw \in HwStates
         /\ [NewHw(f, s, u) EXCEPT !.switchable = FALSE] \in HwStates
         /\ Entry(x, f, s) \in MapEntries /\ NoEntry \in MapEntries
         /\ Wants(f) \in Settings /\ Wants("zlib") \in Settings
BY Pointing DEF NewSw, NoSw, NewHw, NoHw, Entry, NoEntry, Wants, SwStates, HwStates, MapEntries,
                Settings, Formats, Pointers

Done(x) == Moves(x) /\ StreamInv(x)' /\ KeepsEngine(x)

LEMMA InitStreamDone ==
  ASSUME IInv, fault = "none", NEW x \in Streams, NEW f \in Formats, InitStream(x, f),
         UNCHANGED startupVars
  PROVE  Done(x)
<1>1. /\ x \notin open \cup lost /\ ClosedInv(x) /\ ~hw[x].live /\ fault = "none"
      /\ Mode(x) = GZIP_AUTO /\ Mode(x)' = GZIP_AUTO /\ nx_config' = nx_config
  BY DEF IInv, StreamInv, ClosedInv, InitStream, NeverAborts, Mode, startupVars
<1>2. /\ sw' = [sw EXCEPT ![x] = NewSw(f)] /\ want' = [want EXCEPT ![x] = Wants(f)]
      /\ by' = [by EXCEPT ![x] = NULL] /\ fault' = "none" /\ mixed' = mixed
  BY <1>1 DEF InitStream
<1>3. sw'[x].live /\ by'[x] = NULL /\ KeepsEngine(x)
  BY <1>2, Types DEF NewSw, KeepsEngine
<1>4. LoadedInv(x)'
  BY <1>3, Nulls DEF LoadedInv
<1>5. ASSUME NEW u \in BOOLEAN, InitBoth(x, f, u)
      PROVE  Done(x)
  <2>1. /\ hw' = [hw EXCEPT ![x] = NewHw(f, SwPtr(x), u)]
        /\ sme' = [sme EXCEPT ![x] = Entry(x, f, HwPtr(x))]
        /\ state' = [state EXCEPT ![x] = HwPtr(x)]
        /\ open' = open \cup {x} /\ lost' = lost
    BY <1>5 DEF InitBoth
  <2>2. Moves(x)
    BY <1>2, <2>1, Fresh, Pointing DEF Moves
  <2>3. hw'[x] = NewHw(f, SwPtr(x), u) /\ sme'[x] = Entry(x, f, HwPtr(x)) /\ state'[x] = HwPtr(x)
    BY <2>1, Types
  <2>4. BothInv(x)'
    BY <1>3, <2>3 DEF BothInv, NewHw, Entry, SwPtr, HwPtr
  <2> QED BY <1>1, <1>3, <1>4, <2>1, <2>2, <2>4 DEF Done, StreamInv, OpenInv
<1>6. ASSUME InitFallback(x, f)
      PROVE  Done(x)
  <2>1. /\ hw' = hw /\ sme' = [sme EXCEPT ![x] = Entry(x, f, NULL)]
        /\ state' = [state EXCEPT ![x] = SwPtr(x)]
        /\ open' = open \cup {x} /\ lost' = lost
    BY <1>6 DEF InitFallback
  <2>2. Moves(x)
    BY <1>2, <2>1, Fresh, Pointing, Stays DEF Moves
  <2>3. hw'[x] = hw[x] /\ sme'[x] = Entry(x, f, NULL) /\ state'[x] = SwPtr(x)
    BY <2>1, Types
  <2>4. BothInv(x)'
    BY <1>1, <1>3, <2>1, <2>3 DEF BothInv, Entry, SwPtr
  <2> QED BY <1>1, <1>3, <1>4, <2>1, <2>2, <2>4 DEF Done, StreamInv, OpenInv
<1>7. ASSUME UNCHANGED sme, open' = open, lost' = lost \cup {x},
             \E s \in HwStates : hw' = [hw EXCEPT ![x] = s],
             \E s \in Pointers : state' = [state EXCEPT ![x] = s]
      PROVE  Done(x)
  <2>1. Moves(x)
    BY <1>2, <1>7, Fresh, Stays DEF Moves
  <2>2. ClosedInv(x)'
    BY <1>1, <1>3, <1>7 DEF ClosedInv
  <2> QED BY <1>1, <1>3, <1>7, <2>1, <2>2 DEF Done, StreamInv
<1>8. ASSUME NEW u \in BOOLEAN, InitMapFull(x, f, u)
      PROVE  Done(x)
  BY <1>7, <1>8, Fresh, Pointing, Stays DEF InitMapFull
<1>9. ASSUME InitNoEntry(x)
      PROVE  Done(x)
  BY <1>7, <1>9, Pointing, Stays DEF InitNoEntry
<1> QED BY <1>5, <1>6, <1>8, <1>9 DEF InitStream

LEMMA InitOneDone ==
  ASSUME IInv, fault = "none", NEW x \in Streams, NEW f \in Formats, InitOne(x, f),
         UNCHANGED startupVars
  PROVE  Done(x)
<1>1. /\ x \notin open \cup lost /\ ClosedInv(x) /\ ~hw[x].live /\ ~sw[x].live /\ ~sme[x].in
      /\ fault' = "none" /\ Mode(x)' = Mode(x) /\ sme' = sme /\ open' = open \cup {x} /\ UNCHANGED <<mixed, lost>>
      /\ want' = [want EXCEPT ![x] = Wants(f)] /\ by' = [by EXCEPT ![x] = NULL]
  BY DEF IInv, StreamInv, ClosedInv, InitOne, NeverAborts, Mode, startupVars
<1>2. by'[x] = NULL /\ KeepsEngine(x) /\ LoadedInv(x)'
  BY <1>1, Types, Nulls DEF KeepsEngine, LoadedInv
<1>3. ASSUME NEW u \in BOOLEAN, Mode(x) = GZIP_NX,
             hw' = [hw EXCEPT ![x] = [NewHw(f, NULL, u) EXCEPT !.switchable = FALSE]],
             state' = [state EXCEPT ![x] = HwPtr(x)], UNCHANGED sw
      PROVE  Done(x)
  <2>1. Moves(x)
    BY <1>1, <1>3, Fresh, Pointing, Stays DEF Moves
  <2>2. /\ hw'[x] = [NewHw(f, NULL, u) EXCEPT !.switchable = FALSE]
        /\ state'[x] = HwPtr(x)
    BY <1>3, Types
  <2>3. hw'[x].live /\ hw'[x].sw_stream = NULL /\ ~hw'[x].switchable
    BY <2>2 DEF NewHw
  <2>4. OneInv(x)'
    BY <1>1, <1>3, <2>2, <2>3 DEF OneInv, HwPtr, GZIP_NX
  <2> QED BY <1>1, <1>2, <1>3, <2>1, <2>4, Modes DEF Done, StreamInv, OpenInv, GZIP_AUTO, GZIP_NX
<1>4. ASSUME Mode(x) = GZIP_SW, sw' = [sw EXCEPT ![x] = NewSw(f)],
             state' = [state EXCEPT ![x] = SwPtr(x)], UNCHANGED hw
      PROVE  Done(x)
  <2>1. Moves(x)
    BY <1>1, <1>4, Fresh, Pointing, Stays DEF Moves
  <2>2. sw'[x].live /\ state'[x] = SwPtr(x)
    BY <1>4, Types DEF NewSw
  <2>3. OneInv(x)'
    BY <1>1, <1>4, <2>2 DEF OneInv, SwPtr, GZIP_SW
  <2> QED BY <1>1, <1>2, <1>4, <2>1, <2>3, Modes DEF Done, StreamInv, OpenInv, GZIP_AUTO, GZIP_SW
<1> QED BY <1>3, <1>4 DEF InitOne

LEMMA InitFailsDone ==
  ASSUME IInv, fault = "none", NEW x \in Streams, InitFails(x), UNCHANGED startupVars
  PROVE  Done(x)
<1>1. Moves(x)
  BY Stays, Pointing DEF InitFails, Moves, IInv, NeverAborts
<1>2. ClosedInv(x) /\ x \notin open' /\ by' = by /\ sme' = sme /\ hw' = hw /\ sw' = sw /\ lost' = lost
  BY DEF InitFails, IInv, StreamInv
<1> QED BY <1>1, <1>2 DEF Done, StreamInv, ClosedInv, KeepsEngine

\* What leaves the NX has seen no data yet, and has both states.
LEMMA Leaves ==
  ASSUME IInv, NEW x \in Streams, x \in open, has_nx_state(x), hw[x].switchable, Mode(x) # GZIP_NX,
         SwitchToSw(x), UNCHANGED startupVars
  PROVE  /\ Mode(x) = GZIP_AUTO /\ (x \in mixed \/ by[x] = NULL) /\ hw[x].sw_stream = SwPtr(x)
         /\ \E s \in Pointers : state' = [state EXCEPT ![x] = s]
         /\ \E s \in HwStates : hw' = [hw EXCEPT ![x] = s]
         /\ sw'[x].live /\ sme' = sme => BothInv(x)'
         /\ state'[x] = SwPtr(x)
<1>1. state[x] = HwPtr(x) /\ hw[x].live /\ Owner(state[x]) = x /\ OpenInv(x)
  BY Loaded DEF IInv, StreamInv
<1>2. Mode(x) = GZIP_AUTO /\ BothInv(x) /\ nx_config' = nx_config
  BY <1>1 DEF OpenInv, OneInv, startupVars
<1>3. x \in mixed \/ (by[x] # "sw" /\ by[x] # "hw")
  BY <1>1, Pointing DEF OpenInv, LoadedInv
<1>4. x \in mixed \/ by[x] = NULL
  BY <1>3, Types
<1>5. hw[x].sw_stream = SwPtr(x) /\ hw[x] \in HwStates
  BY <1>1, <1>2, Types DEF BothInv
<1>6. [hw[x] EXCEPT !.switchable = FALSE] \in HwStates
  BY <1>5 DEF HwStates
<1>7. /\ state' = [state EXCEPT ![x] = SwPtr(x)]
      /\ hw' = [hw EXCEPT ![x] = [hw[x] EXCEPT !.switchable = FALSE]]
  BY <1>1, <1>5 DEF SwitchToSw
<1>8. state'[x] = SwPtr(x) /\ hw'[x] = [hw[x] EXCEPT !.switchable = FALSE]
  BY <1>7, Types
<1>9. hw'[x].live = hw[x].live /\ hw'[x].sw_stream = hw[x].sw_stream
  BY <1>8, <1>5 DEF HwStates
<1>10. sw'[x].live /\ sme' = sme => BothInv(x)'
  BY <1>2, <1>8, <1>9 DEF BothInv, SwPtr, HwPtr
<1> QED BY <1>2, <1>4, <1>5, <1>6, <1>7, <1>8, <1>10, Pointing

LEMMA ProcessSwDone ==
  ASSUME IInv, fault = "none", NEW x \in Streams, ProcessSw(x), UNCHANGED startupVars
  PROVE  Done(x)
<1>1. /\ x \in open /\ state[x] = SwPtr(x) /\ OpenInv(x)
      /\ by' = [by EXCEPT ![x] = "sw"] /\ fault' = "none"
      /\ UNCHANGED <<state, sw, hw, sme, open, want, mixed, lost, nx_config>> /\ Mode(x)' = Mode(x)
  BY Loaded DEF ProcessSw, IInv, StreamInv, NeverAborts, startupVars, Mode
<1>2. Moves(x)
  BY <1>1, Stays DEF Moves
<1>3. by'[x] = "sw" /\ (x \in mixed \/ by[x] # "hw") /\ by[x] \in {"sw", "hw", NULL}
  BY <1>1, Types, Pointing DEF OpenInv, LoadedInv
<1>4. OpenInv(x)'
  BY <1>1, <1>3 DEF OpenInv, BothInv, OneInv, LoadedInv, SwPtr, HwPtr
<1> QED BY <1>1, <1>2, <1>3, <1>4 DEF Done, StreamInv, KeepsEngine

LEMMA ProcessSwitchDone ==
  ASSUME IInv, fault = "none", NEW x \in Streams, NEW small \in BOOLEAN, ProcessSwitch(x, small),
         UNCHANGED startupVars
  PROVE  Done(x)
<1>1. /\ x \in open /\ has_nx_state(x) /\ hw[x].switchable /\ Mode(x) # GZIP_NX /\ SwitchToSw(x)
      /\ by' = [by EXCEPT ![x] = "sw"] /\ fault' = "none"
      /\ UNCHANGED <<sw, sme, open, want, mixed, lost>> /\ Mode(x)' = Mode(x)
  BY Loaded DEF ProcessSwitch, UseNx, IInv, NeverAborts, startupVars, Mode
<1>2. Moves(x)
  BY <1>1, Leaves, Stays DEF Moves
<1>3. by'[x] = "sw" /\ (x \in mixed \/ by[x] = NULL)
  BY <1>1, Types, Leaves
<1>4. sw[x].live
  BY <1>1, Leaves, Entries DEF BothInv
<1>5. OpenInv(x)'
  BY <1>1, <1>3, <1>4, Leaves DEF OpenInv, LoadedInv, SwPtr, GZIP_AUTO
<1> QED BY <1>1, <1>2, <1>3, <1>5 DEF Done, StreamInv, KeepsEngine

\* A step of the NX that leaves what its state points to.
LEMMA HwStays ==
  ASSUME IInv, NEW x \in Streams, x \in open, UNCHANGED <<state, sw, sme, open>>,
         UNCHANGED startupVars, NEW h \in HwStates, hw' = [hw EXCEPT ![x] = h],
         h.live = hw[x].live, h.sw_stream = hw[x].sw_stream,
         h.switchable => hw[x].switchable \/ (Mode(x) = GZIP_AUTO /\ by'[x] = NULL),
         x \in mixed /\ x \notin mixed' => by'[x] = NULL,
         by'[x] = by[x] \/ by'[x] = NULL \/ (by'[x] = "hw" /\ state[x] = HwPtr(x) /\ ~h.switchable)
  PROVE  StreamInv(x)'
<1>1. OpenInv(x) /\ Mode(x)' = Mode(x) /\ nx_config' = nx_config /\ hw'[x] = h
  BY Types DEF IInv, StreamInv, startupVars, Mode
<1>2. Mode(x) = GZIP_AUTO => BothInv(x)'
  BY <1>1 DEF OpenInv, BothInv, SwPtr, HwPtr
<1>3. Mode(x) # GZIP_AUTO => OneInv(x)'
  BY <1>1 DEF OpenInv, OneInv, SwPtr, HwPtr, GZIP_NX, GZIP_SW
<1>4. LoadedInv(x)'
  <2>1. CASE by'[x] = NULL
    BY <2>1, Nulls DEF LoadedInv
  <2>2. CASE by'[x] = by[x] /\ by[x] # NULL
    BY <2>2, <1>1 DEF OpenInv, LoadedInv, SwPtr, HwPtr
  <2>3. CASE by'[x] = "hw" /\ state[x] = HwPtr(x) /\ ~h.switchable
    BY <2>3, <1>1 DEF LoadedInv, SwPtr, HwPtr
  <2> QED BY <2>1, <2>2, <2>3
<1> QED BY <1>1, <1>2, <1>3, <1>4 DEF StreamInv, OpenInv, GZIP_AUTO

LEMMA ProcessHwDone ==
  ASSUME IInv, fault = "none", NEW x \in Streams, NEW small \in BOOLEAN, ProcessHw(x, small),
         UNCHANGED startupVars
  PROVE  Done(x)
<1> DEFINE h == [hw[x] EXCEPT !.switchable = FALSE]
<1>1. /\ x \in open /\ state[x] = HwPtr(x) /\ OpenInv(x)
      /\ hw' = [hw EXCEPT ![x] = h] /\ by' = [by EXCEPT ![x] = "hw"] /\ fault' = "none"
      /\ UNCHANGED <<state, sw, sme, open, want, mixed, lost>>
  BY Loaded DEF ProcessHw, NotSwitchable, IInv, StreamInv, NeverAborts
<1>2. hw[x] \in HwStates
  BY Types
<1>3. h \in HwStates /\ h.live = hw[x].live /\ h.sw_stream = hw[x].sw_stream /\ h.switchable = FALSE
  BY <1>2 DEF HwStates
<1>4. by'[x] = "hw" /\ (x \in mixed \/ by[x] # "sw") /\ by[x] \in {"sw", "hw", NULL}
  BY <1>1, Types, Pointing DEF OpenInv, LoadedInv
<1> HIDE DEF h
<1>5. Moves(x)
  BY <1>1, <1>3, Stays DEF Moves
<1>6. StreamInv(x)'
  BY <1>1, <1>3, <1>4, HwStays
<1> QED BY <1>4, <1>5, <1>6 DEF Done, KeepsEngine

LEMMA SetDictionarySwDone ==
  ASSUME IInv, fault = "none", NEW x \in Streams, SetDictionarySw(x), UNCHANGED startupVars
  PROVE  Done(x)
<1>1. /\ x \in open /\ OpenInv(x) /\ fault' = "none" /\ UNCHANGED <<sme, open, by, mixed, lost, nx_config>>
      /\ want' = [want EXCEPT ![x] = [want[x] EXCEPT !.dict = TRUE]] /\ Mode(x)' = Mode(x)
  BY DEF SetDictionarySw, IInv, StreamInv, NeverAborts, startupVars, Mode
<1>2. sw[x] \in SwStates /\ want[x] \in Settings
  BY Types
<1>3. /\ [sw[x] EXCEPT !.dict = TRUE] \in SwStates /\ [want[x] EXCEPT !.dict = TRUE] \in Settings
      /\ [sw[x] EXCEPT !.dict = TRUE].live = sw[x].live
  BY <1>2 DEF SwStates, Settings
<1>4. CASE has_nx_state(x)
  <2>1. hw[x].switchable /\ Mode(x) # GZIP_NX /\ SwitchToSw(x)
    BY <1>1, <1>4, Loaded DEF SetDictionarySw, DictionarySwitches, UseNx
  <2>2. /\ Mode(x) = GZIP_AUTO /\ (x \in mixed \/ by[x] = NULL) /\ Owner(hw[x].sw_stream) = x /\ sw[x].live
    BY <1>1, <1>4, <2>1, Leaves, Pointing, Entries DEF BothInv
  <2>3. sw' = [sw EXCEPT ![x] = [sw[x] EXCEPT !.dict = TRUE]]
    BY <1>1, <1>4, <2>2, Loaded DEF SetDictionarySw
  <2>4. sw'[x].live
    BY <2>2, <2>3, <1>3, Types
  <2>5. Moves(x)
    BY <1>1, <1>3, <1>4, <2>1, <2>3, Leaves, Stays DEF Moves
  <2>6. OpenInv(x)'
    BY <1>1, <1>4, <2>1, <2>2, <2>4, Leaves, Nulls DEF OpenInv, LoadedInv, GZIP_AUTO
  <2> QED BY <1>1, <2>5, <2>6 DEF Done, StreamInv, KeepsEngine
<1>5. CASE ~has_nx_state(x)
  <2>1. /\ UNCHANGED <<hw, state>> /\ state[x] = SwPtr(x)
        /\ sw' = [sw EXCEPT ![x] = [sw[x] EXCEPT !.dict = TRUE]]
    BY <1>1, <1>5, Loaded DEF SetDictionarySw
  <2>2. sw'[x].live = sw[x].live
    BY <2>1, <1>3, Types
  <2>3. Moves(x)
    BY <1>1, <1>3, <2>1, Stays DEF Moves
  <2>4. OpenInv(x)'
    BY <1>1, <2>1, <2>2 DEF OpenInv, BothInv, OneInv, LoadedInv, SwPtr, HwPtr, GZIP_AUTO, GZIP_NX, GZIP_SW
  <2> QED BY <1>1, <2>3, <2>4 DEF Done, StreamInv, KeepsEngine
<1> QED BY <1>4, <1>5

LEMMA SetDictionaryHwDone ==
  ASSUME IInv, fault = "none", NEW x \in Streams, SetDictionaryHw(x), UNCHANGED startupVars
  PROVE  Done(x)
<1> DEFINE h == [hw[x] EXCEPT !.dict = TRUE]
<1>1. /\ x \in open /\ hw' = [hw EXCEPT ![x] = h] /\ fault' = "none"
      /\ want' = [want EXCEPT ![x] = [want[x] EXCEPT !.dict = TRUE]]
      /\ UNCHANGED <<state, sw, sme, open, by, mixed, lost>>
  BY Loaded DEF SetDictionaryHw, IInv, NeverAborts
<1>2. hw[x] \in HwStates /\ want[x] \in Settings
  BY Types
<1>3. /\ h \in HwStates /\ h.live = hw[x].live /\ h.sw_stream = hw[x].sw_stream
      /\ h.switchable = hw[x].switchable /\ [want[x] EXCEPT !.dict = TRUE] \in Settings
  BY <1>2 DEF HwStates, Settings
<1> HIDE DEF h
<1>4. Moves(x)
  BY <1>1, <1>3, Stays DEF Moves
<1>5. StreamInv(x)'
  BY <1>1, <1>3, HwStays
<1> QED BY <1>1, <1>4, <1>5 DEF Done, KeepsEngine

LEMMA ResetHwKeeps ==
  ASSUME NEW x \in Streams, NEW f \in Formats, NEW h \in HwStates
  PROVE  /\ ResetHw(x, h, f) \in HwStates
         /\ ResetHw(x, h, f).live = h.live /\ ResetHw(x, h, f).sw_stream = h.sw_stream
         /\ ResetHw(x, h, f).switchable => h.switchable \/ Mode(x) = GZIP_AUTO
<1> DEFINE on == h.switchable \/ Mode(x) = GZIP_AUTO
           dict == x \in Inflaters /\ h.dict
<1>1. on \in BOOLEAN /\ dict \in BOOLEAN
  OBVIOUS
<1>2. ResetHw(x, h, f) = [h EXCEPT !.fmt = f, !.switchable = on, !.dict = dict]
  BY DEF ResetHw
<1> HIDE DEF dict
<1>3. ResetHw(x, h, f).switchable = on
  <2> HIDE DEF on
  <2> QED BY <1>2 DEF HwStates
<1>4. /\ ResetHw(x, h, f) \in HwStates
      /\ ResetHw(x, h, f).live = h.live /\ ResetHw(x, h, f).sw_stream = h.sw_stream
  <2> HIDE DEF on
  <2> QED BY <1>1, <1>2 DEF HwStates
<1> QED BY <1>3, <1>4

LEMMA ResetDone ==
  ASSUME IInv, fault = "none", NEW x \in Streams, NEW f \in Formats, Valid(x), Reset(x, f),
         UNCHANGED startupVars
  PROVE  Done(x)
<1>1. /\ x \in open /\ Mode(x) = GZIP_AUTO /\ Mode(x)' = GZIP_AUTO /\ nx_config' = nx_config
      /\ fault = "none"
  BY DEF Reset, IInv, NeverAborts, startupVars, Mode
<1>2. /\ BothInv(x) /\ Owner(sme[x].sw_state) = x
      /\ sme[x].sw_state = SwPtr(x)
  BY <1>1, Entries DEF BothInv
<1>3. /\ sw' = [sw EXCEPT ![x] = NewSw(f)] /\ want' = [want EXCEPT ![x] = Wants(f)]
      /\ by' = [by EXCEPT ![x] = NULL] /\ open' = open /\ mixed' = mixed \ {x} /\ lost' = lost /\ fault' = "none"
      /\ ResetBoth(x, f) \/ (\E u \in BOOLEAN : ResetRetries(x, f, u)) \/ ResetSwOnly(x)
  BY <1>1, <1>2 DEF Reset
<1>4. sw'[x].live /\ by'[x] = NULL /\ KeepsEngine(x) /\ LoadedInv(x)'
  BY <1>3, Types, Nulls DEF NewSw, KeepsEngine, LoadedInv
<1>5. CASE ResetBoth(x, f)
  <2> DEFINE h == ResetHw(x, hw[x], f)
  <2>1. hw[x].live /\ sme[x].hw_state = HwPtr(x) /\ Owner(sme[x].hw_state) = x
    BY <1>1, <1>5, Entries DEF ResetBoth
  <2>2. hw' = [hw EXCEPT ![x] = h] /\ state' = [state EXCEPT ![x] = HwPtr(x)] /\ sme' = sme
    BY <1>5, <2>1 DEF ResetBoth
  <2>3. h \in HwStates /\ h.live = hw[x].live /\ h.sw_stream = hw[x].sw_stream
    BY ResetHwKeeps, Types
  <2> HIDE DEF h
  <2>4. Moves(x)
    BY <1>3, <2>2, <2>3, Fresh, Stays, Pointing DEF Moves
  <2>5. hw'[x] = h /\ state'[x] = HwPtr(x)
    BY <2>2, Types
  <2>6. BothInv(x)'
    BY <1>1, <1>2, <1>4, <2>1, <2>2, <2>3, <2>5 DEF BothInv, SwPtr, HwPtr
  <2> QED BY <1>1, <1>3, <1>4, <2>4, <2>6 DEF Done, StreamInv, OpenInv
<1>6. ASSUME NEW u \in BOOLEAN, ResetRetries(x, f, u)
      PROVE  Done(x)
  <2>1. PICK fmt \in {sme[x].fmt, f} : hw' = [hw EXCEPT ![x] = NewHw(fmt, SwPtr(x), u)]
    BY <1>2, <1>6 DEF ResetRetries
  <2>2. sme[x] \in MapEntries /\ fmt \in Formats
    BY Types DEF MapEntries
  <2>3. [sme[x] EXCEPT !.hw_state = HwPtr(x)] \in MapEntries
    BY <2>2, Pointing DEF MapEntries
  <2>4. /\ sme' = [sme EXCEPT ![x] = [sme[x] EXCEPT !.hw_state = HwPtr(x)]]
        /\ state' = [state EXCEPT ![x] = HwPtr(x)]
    BY <1>6 DEF ResetRetries
  <2>5. Moves(x)
    BY <1>3, <2>1, <2>2, <2>3, <2>4, Fresh, Pointing DEF Moves
  <2>6. /\ hw'[x] = NewHw(fmt, SwPtr(x), u) /\ state'[x] = HwPtr(x)
        /\ sme'[x] = [sme[x] EXCEPT !.hw_state = HwPtr(x)]
    BY <2>1, <2>4, Types
  <2>7. /\ sme'[x].in = sme[x].in /\ sme'[x].sw_state = sme[x].sw_state
        /\ sme'[x].hw_state = HwPtr(x)
        /\ hw'[x].live /\ hw'[x].sw_stream = SwPtr(x)
    BY <2>2, <2>6 DEF MapEntries, NewHw
  <2>8. BothInv(x)'
    BY <1>2, <1>4, <2>6, <2>7 DEF BothInv, SwPtr, HwPtr
  <2> QED BY <1>1, <1>3, <1>4, <2>5, <2>8 DEF Done, StreamInv, OpenInv
<1>7. CASE ResetSwOnly(x)
  <2>1. state' = [state EXCEPT ![x] = SwPtr(x)] /\ UNCHANGED <<hw, sme>>
    BY <1>2, <1>7 DEF ResetSwOnly
  <2>2. Moves(x)
    BY <1>3, <2>1, Fresh, Stays, Pointing DEF Moves
  <2>3. state'[x] = SwPtr(x)
    BY <2>1, Types
  <2>4. BothInv(x)'
    BY <1>1, <1>2, <1>4, <2>1, <2>3 DEF BothInv, SwPtr, HwPtr
  <2> QED BY <1>1, <1>3, <1>4, <2>2, <2>4 DEF Done, StreamInv, OpenInv
<1> QED BY <1>3, <1>5, <1>6, <1>7

LEMMA ResetOneDone ==
  ASSUME IInv, fault = "none", NEW x \in Streams, NEW f \in Formats, ResetOne(x, f),
         UNCHANGED startupVars
  PROVE  Done(x)
<1>1. /\ x \in open /\ Mode(x) # GZIP_AUTO /\ OpenInv(x) /\ fault' = "none" /\ Mode(x)' = Mode(x)
      /\ nx_config' = nx_config
      /\ want' = [want EXCEPT ![x] = Wants(f)] /\ by' = [by EXCEPT ![x] = NULL]
      /\ UNCHANGED <<state, sme, open, mixed, lost>>
  BY DEF ResetOne, IInv, StreamInv, NeverAborts, startupVars, Mode
<1>2. by'[x] = NULL /\ KeepsEngine(x)
  BY <1>1, Types DEF KeepsEngine
<1>3. CASE has_nx_state(x)
  <2> DEFINE h == ResetHw(x, hw[x], f)
  <2>1. hw' = [hw EXCEPT ![x] = h] /\ sw' = sw
    BY <1>1, <1>3, Loaded DEF ResetOne
  <2>2. /\ h \in HwStates /\ h.live = hw[x].live /\ h.sw_stream = hw[x].sw_stream
        /\ h.switchable => hw[x].switchable
    BY <1>1, ResetHwKeeps, Types
  <2> HIDE DEF h
  <2>3. Moves(x)
    BY <1>1, <2>1, <2>2, Fresh, Stays DEF Moves
  <2>4. StreamInv(x)'
    BY <1>1, <1>2, <2>1, <2>2, HwStays
  <2> QED BY <1>2, <2>3, <2>4 DEF Done
<1>4. CASE ~has_nx_state(x)
  <2>1. sw' = [sw EXCEPT ![x] = NewSw(f)] /\ hw' = hw /\ state[x] = SwPtr(x)
    BY <1>1, <1>4, Loaded DEF ResetOne
  <2>2. Moves(x)
    BY <1>1, <2>1, Fresh, Stays DEF Moves
  <2>3. sw'[x].live /\ OneInv(x) /\ Mode(x) = GZIP_SW
    BY <1>1, <2>1, Types, Pointing DEF NewSw, OpenInv, OneInv
  <2>4. OneInv(x)'
    BY <1>1, <2>1, <2>3, Pointing DEF OneInv, SwPtr, HwPtr, GZIP_SW, GZIP_NX
  <2>5. LoadedInv(x)'
    BY <1>2, Nulls DEF LoadedInv
  <2> QED BY <1>1, <1>2, <2>2, <2>4, <2>5 DEF Done, StreamInv, OpenInv, GZIP_AUTO
<1> QED BY <1>3, <1>4

LEMMA ResetKeepDone ==
  ASSUME IInv, fault = "none", NEW x \in Streams, ResetKeep(x), UNCHANGED startupVars
  PROVE  Done(x)
<1>1. /\ x \in open /\ OpenInv(x) /\ fault' = "none" /\ Mode(x)' = Mode(x)
      /\ mixed' = (IF by'[x] = NULL THEN mixed \ {x} ELSE mixed)
      /\ UNCHANGED <<state, sw, sme, open, lost>>
  BY DEF ResetKeep, IInv, StreamInv, NeverAborts, startupVars, Mode
<1>2. \/ by' = by
      \/ by' = [by EXCEPT ![x] = NULL]
  BY DEF ResetKeep
<1>3. /\ by'[x] \in {by[x], NULL}
      /\ \E s \in {"sw", "hw", NULL} : by' = [by EXCEPT ![x] = s]
  <2>1. CASE by' = by
    BY <2>1, Stays
  <2>2. CASE by' = [by EXCEPT ![x] = NULL]
    BY <2>2, Types
  <2> QED BY <1>2, <2>1, <2>2
<1>4. hw[x] \in HwStates /\ want[x] \in Settings
  BY Types
<1>5. [want[x] EXCEPT !.dict = FALSE] \in Settings
  BY <1>4 DEF Settings
<1>6. \E s \in Settings : want' = [want EXCEPT ![x] = s]
  BY <1>5, Stays DEF ResetKeep
<1>7. PICK h \in {hw[x], [hw[x] EXCEPT !.dict = FALSE]} : hw' = [hw EXCEPT ![x] = h]
  <2>1. hw' = hw \/ hw' = [hw EXCEPT ![x] = [hw[x] EXCEPT !.dict = FALSE]]
    BY <1>1, Loaded DEF ResetKeep
  <2>2. hw = [hw EXCEPT ![x] = hw[x]]
    BY Types
  <2> QED BY <2>1, <2>2
<1>8. /\ h \in HwStates /\ h.live = hw[x].live /\ h.sw_stream = hw[x].sw_stream
      /\ h.switchable = hw[x].switchable
  BY <1>4 DEF HwStates
<1>9. Moves(x)
  BY <1>1, <1>3, <1>6, <1>7, <1>8, Stays DEF Moves
<1>10. StreamInv(x)'
  BY <1>1, <1>3, <1>7, <1>8, HwStays
<1> QED BY <1>3, <1>9, <1>10 DEF Done, KeepsEngine

LEMMA EndDone ==
  ASSUME IInv, fault = "none", NEW x \in Streams, Valid(x), End(x), UNCHANGED startupVars
  PROVE  Done(x)
<1>1. x \in open /\ Mode(x) = GZIP_AUTO
  BY DEF End
<1>2. BothInv(x) /\ Owner(sme[x].sw_state) = x
  BY <1>1, Entries
<1>3. /\ sw' = [sw EXCEPT ![x] = NoSw] /\ state' = [state EXCEPT ![x] = sme[x].hw_state]
      /\ sme' = [sme EXCEPT ![x] = NoEntry] /\ open' = open \ {x}
      /\ by' = [by EXCEPT ![x] = NULL] /\ want' = [want EXCEPT ![x] = Wants("zlib")]
      /\ mixed' = mixed \ {x} /\ lost' = lost /\ fault' = "none"
      /\ sme[x].hw_state \in Pointers
  BY <1>2, Types DEF End, SwStreamCleared, MapEntries
<1>4. sme[x].hw_state = NULL => hw' = hw /\ ~hw[x].live
  BY <1>1, <1>2, Entries DEF End
<1>5. sme[x].hw_state # NULL => hw' = [hw EXCEPT ![x] = NoHw]
  BY <1>1, <1>2, Entries DEF End
<1>6. NoSw \in SwStates /\ NoHw \in HwStates /\ NoEntry \in MapEntries /\ Wants("zlib") \in Settings
  BY Fresh DEF Formats, Pointers
<1>7. \E s \in HwStates : hw' = [hw EXCEPT ![x] = s]
  BY <1>4, <1>5, <1>6, Stays
<1>8. Moves(x)
  BY <1>3, <1>6, <1>7, Pointing DEF Moves
<1>9. sw'[x] = NoSw /\ sme'[x] = NoEntry /\ by'[x] = NULL
  BY <1>3, Types
<1>10. ~hw'[x].live
  <2>1. sme[x].hw_state # NULL => hw'[x] = NoHw
    BY <1>5, Types
  <2> QED BY <1>4, <2>1 DEF NoHw
<1>11. ClosedInv(x)'
  BY <1>9, <1>10 DEF ClosedInv, NoSw, NoEntry
<1> QED BY <1>3, <1>8, <1>9, <1>11 DEF Done, StreamInv, KeepsEngine

LEMMA EndOneDone ==
  ASSUME IInv, fault = "none", NEW x \in Streams, EndOne(x), UNCHANGED startupVars
  PROVE  Done(x)
<1>1. x \in open /\ Mode(x) # GZIP_AUTO /\ Owner(state[x]) = x
  BY Loaded DEF EndOne
<1>2. OneInv(x)
  BY <1>1 DEF IInv, StreamInv, OpenInv
<1>3. /\ \E s \in Pointers : state' = [state EXCEPT ![x] = s]
      /\ open' = open \ {x} /\ UNCHANGED <<sme, mixed, lost>>
      /\ by' = [by EXCEPT ![x] = NULL] /\ want' = [want EXCEPT ![x] = Wants("zlib")]
  <2>1. state[x] \in Pointers /\ NULL \in Pointers
    BY Types, Pointing
  <2> QED BY <2>1 DEF EndOne
<1>4. NoSw \in SwStates /\ NoHw \in HwStates /\ Wants("zlib") \in Settings
  BY Fresh DEF Formats, Pointers
<1>5. sme'[x] = sme[x] /\ by'[x] = NULL
  BY <1>3, Types
<1>6. CASE has_nx_state(x)
  <2>1. hw[x].live /\ hw[x].sw_stream = NULL /\ ~sw[x].live
    BY <1>1, <1>2, <1>6, Loaded, Pointing DEF OneInv
  <2>2. hw' = [hw EXCEPT ![x] = NoHw] /\ sw' = sw /\ fault' = "none"
    BY <1>1, <1>6, <2>1 DEF EndOne
  <2>3. Moves(x)
    BY <1>3, <1>4, <2>2, Pointing, Stays DEF Moves
  <2>4. hw'[x] = NoHw
    BY <2>2, Types
  <2>5. ClosedInv(x)'
    BY <1>2, <1>5, <2>1, <2>2, <2>4 DEF ClosedInv, OneInv, NoHw
  <2> QED BY <1>3, <1>5, <2>3, <2>5 DEF Done, StreamInv, KeepsEngine
<1>7. CASE ~has_nx_state(x)
  <2>1. ~hw[x].live
    BY <1>1, <1>2, <1>7, Loaded, Pointing DEF OneInv
  <2>2. sw' = [sw EXCEPT ![x] = NoSw] /\ hw' = hw /\ fault' = "none"
    BY <1>1, <1>7 DEF EndOne
  <2>3. Moves(x)
    BY <1>3, <1>4, <2>2, Pointing, Stays DEF Moves
  <2>4. sw'[x] = NoSw
    BY <2>2, Types
  <2>5. ClosedInv(x)'
    BY <1>2, <1>5, <2>1, <2>2, <2>4 DEF ClosedInv, OneInv, NoSw
  <2> QED BY <1>3, <1>5, <2>3, <2>5 DEF Done, StreamInv, KeepsEngine
<1> QED BY <1>6, <1>7

\* A reset that fails leaves both states as they are but for zlib's data.
LEMMA ResetFailsDone ==
  ASSUME IInv, fault = "none", NEW x \in Streams, ResetFails(x), UNCHANGED startupVars
  PROVE  Done(x)
<1>1. /\ x \in open /\ Mode(x) = GZIP_AUTO /\ Mode(x)' = GZIP_AUTO /\ nx_config' = nx_config
      /\ OpenInv(x) /\ UNCHANGED <<hw, sme, open, want, by, lost>> /\ fault' = "none"
  BY DEF ResetFails, IInv, StreamInv, startupVars, Mode
<1>2. BothInv(x) /\ Owner(sme[x].sw_state) = x /\ sme[x].sw_state = SwPtr(x)
  BY <1>1, Entries DEF BothInv
<1>3. KeepsEngine(x) /\ by[x] \in {"sw", "hw", NULL}
  BY <1>1, Types DEF KeepsEngine
<1>4. CASE ResetFailsIn(x, "sw", sme[x].sw_state) /\ UNCHANGED sw
  <2>1. state' = [state EXCEPT ![x] = SwPtr(x)] /\ state'[x] = SwPtr(x)
    BY <1>2, <1>4, Types DEF ResetFailsIn
  <2>2. x \notin mixed' => x \notin mixed /\ by[x] # "hw"
    BY <1>4, Nulls DEF ResetFailsIn
  <2>3. Moves(x)
    BY <1>1, <1>4, <2>1, Stays, Pointing DEF Moves, ResetFailsIn
  <2>4. BothInv(x)'
    BY <1>1, <1>2, <1>4, <2>1 DEF BothInv, SwPtr, HwPtr
  <2>5. LoadedInv(x)'
    BY <1>1, <2>1, <2>2 DEF LoadedInv, SwPtr
  <2> QED BY <1>1, <1>3, <2>3, <2>4, <2>5 DEF Done, StreamInv, OpenInv
<1>5. ASSUME NEW f \in Formats, sw' = [sw EXCEPT ![x] = NewSw(f)],
             sme[x].hw_state # NULL, ResetFailsIn(x, "hw", sme[x].hw_state)
      PROVE  Done(x)
  <2>1. hw[x].live /\ sme[x].hw_state = HwPtr(x)
    BY <1>1, <1>5, Entries
  <2>2. state' = [state EXCEPT ![x] = HwPtr(x)] /\ state'[x] = HwPtr(x) /\ sw'[x].live
    BY <1>5, <2>1, Types DEF ResetFailsIn, NewSw
  <2>3. x \notin mixed' => x \notin mixed /\ by[x] # "sw"
    BY <1>5, Nulls DEF ResetFailsIn
  <2>4. Moves(x)
    BY <1>1, <1>5, <2>2, Stays, Fresh, Pointing DEF Moves, ResetFailsIn
  <2>5. BothInv(x)'
    BY <1>1, <1>2, <2>1, <2>2 DEF BothInv, SwPtr, HwPtr
  <2>6. LoadedInv(x)'
    BY <1>1, <2>2, <2>3 DEF LoadedInv, OpenInv, HwPtr
  <2> QED BY <1>1, <1>3, <2>4, <2>5, <2>6 DEF Done, StreamInv, OpenInv
<1> QED BY <1>2, <1>4, <1>5 DEF ResetFails

\* Nothing happens to the streams.
LEMMA StreamsStay ==
  ASSUME IInv, UNCHANGED <<state, sw, hw, sme, open, want, by, mixed, lost, pc, nx_config>>,
         NEW x \in Streams
  PROVE  StreamInv(x)'
<1>1. StreamInv(x) /\ Mode(x)' = Mode(x)
  BY DEF IInv, Mode
<1>2. OpenInv(x)' <=> OpenInv(x)
  BY <1>1 DEF OpenInv, BothInv, OneInv, LoadedInv
<1>3. ClosedInv(x)' <=> ClosedInv(x)
  BY DEF ClosedInv
<1> QED BY <1>1, <1>2, <1>3 DEF StreamInv

\* The process dies of a stream that should have an hw state.
LEMMA AbortKeeps ==
  ASSUME IInv, NEW x \in Streams, x \in open, Mode(x) = GZIP_AUTO, ~Valid(x), Abort(x),
         UNCHANGED startupVars
  PROVE  IInv' /\ \A z \in Streams : KeepsEngine(z)
<1>1. UNCHANGED <<state, sw, hw, sme, open, want, by, mixed, lost, pc, nx_config>>
  BY DEF Abort, startupVars
<1>2. ~has_nx_state(x) /\ state[x] = sme[x].sw_state /\ MissesHw(x)
  BY Entries
<1>3. fault' = "null hw_state" /\ MissesHw(x)'
  BY <1>1, <1>2 DEF Abort, MissesHw
<1>4. TypeOK'
  BY <1>1, <1>3 DEF IInv, TypeOK, Pointers
<1>5. NeverAborts'
  BY <1>1, <1>3 DEF NeverAborts
<1>6. \A z \in Streams : StreamInv(z)'
  BY <1>1, StreamsStay
<1>7. \A z \in Streams : KeepsEngine(z)
  BY <1>1 DEF KeepsEngine
<1> QED BY <1>1, <1>4, <1>5, <1>6, <1>7 DEF IInv

-----------------------------------------------------------------------------
\* No stream has been set up, or all of them went with the process.
NoStream ==
  /\ state = [x \in Streams |-> NULL] /\ sw = [x \in Streams |-> NoSw]
  /\ hw = [x \in Streams |-> NoHw] /\ sme = [x \in Streams |-> NoEntry]
  /\ open = {} /\ mixed = {} /\ lost = {} /\ fault = "none"
  /\ want = [x \in Streams |-> Wants("zlib")] /\ by = [x \in Streams |-> NULL]

LEMMA Empty == NoStream => IInv
<1> SUFFICES ASSUME NoStream
             PROVE  IInv
  OBVIOUS
<1>1. TypeOK
  BY DEF NoStream, TypeOK, NoSw, NoHw, NoEntry, Wants, Formats, Pointers
<1>2. \A x \in Streams : ClosedInv(x)
  BY DEF NoStream, ClosedInv, NoSw, NoHw, NoEntry
<1> QED BY <1>1, <1>2 DEF NoStream, IInv, StreamInv, NeverAborts

LEMMA InitKeeps == Init => IInv
BY Empty DEF Init, NoStream

\* What a call of the application does.
LEMMA CallDone ==
  ASSUME IInv, fault = "none", NEW x \in Streams, Call(x), UNCHANGED startupVars
  PROVE  Done(x) \/ (x \in open /\ Mode(x) = GZIP_AUTO /\ ~Valid(x) /\ Abort(x))
<1>1. CASE \E f \in Formats : InitStream(x, f) \/ InitOne(x, f) \/ ResetOne(x, f)
  BY <1>1, InitStreamDone, InitOneDone, ResetOneDone
<1>2. CASE \E f \in Formats : Reset(x, f)
  <2>1. CASE Valid(x)
    BY <1>2, <2>1, ResetDone
  <2>2. CASE ~Valid(x)
    BY <1>2, <2>2 DEF Reset
  <2> QED BY <2>1, <2>2
<1>3. CASE \E small \in BOOLEAN : ProcessSwitch(x, small) \/ ProcessHw(x, small)
  BY <1>3, ProcessSwitchDone, ProcessHwDone
<1>4. CASE InitFails(x) \/ ProcessSw(x) \/ SetDictionarySw(x) \/ SetDictionaryHw(x)
  BY <1>4, InitFailsDone, ProcessSwDone, SetDictionarySwDone, SetDictionaryHwDone
<1>5. CASE ResetKeep(x) \/ EndOne(x) \/ ResetFails(x)
  BY <1>5, ResetKeepDone, EndOneDone, ResetFailsDone
<1>6. CASE End(x)
  <2>1. CASE Valid(x)
    BY <1>6, <2>1, EndDone
  <2>2. CASE ~Valid(x)
    BY <1>6, <2>2 DEF End
  <2> QED BY <2>1, <2>2
<1> QED BY <1>1, <1>2, <1>3, <1>4, <1>5, <1>6 DEF Call

\* Start-up changes no stream: there is none yet.
LEMMA LoadKeeps ==
  ASSUME IInv, Load, UNCHANGED streamVars
  PROVE  IInv'
<1>1. pc # "loaded"
  BY DEF Load, ReadSettings, ChooseMode, EnumerateEngines, SetLimits, MakeMap, LoadZlib
<1>2. open = {} /\ lost = {} /\ open' = {} /\ lost' = {}
  BY <1>1 DEF IInv, streamVars
<1>3. TypeOK' /\ NeverAborts'
  BY <1>2 DEF IInv, TypeOK, NeverAborts, streamVars, Pointers
<1>4. ASSUME NEW x \in Streams
      PROVE  ClosedInv(x)'
  <2>1. ClosedInv(x)
    BY <1>2 DEF IInv, StreamInv
  <2> QED BY <2>1, <1>2 DEF ClosedInv, streamVars
<1> QED BY <1>2, <1>3, <1>4 DEF IInv, StreamInv

LEMMA StutterKeeps ==
  ASSUME IInv, UNCHANGED vars
  PROVE  IInv'
<1>1. UNCHANGED <<state, sw, hw, sme, open, fault, want, by, mixed, lost, pc, nx_config>>
  BY DEF vars, startupVars, streamVars
<1>2. TypeOK'
  BY <1>1 DEF IInv, TypeOK, Pointers
<1>3. NeverAborts'
  BY <1>1 DEF IInv, NeverAborts, MissesHw
<1>4. \A x \in Streams : StreamInv(x)'
  BY <1>1, StreamsStay
<1> QED BY <1>1, <1>2, <1>3, <1>4 DEF IInv

LEMMA NextKeeps ==
  ASSUME IInv, [Next]_vars
  PROVE  IInv' /\ \A x \in Streams : KeepsEngine(x)
<1>1. CASE Load /\ UNCHANGED streamVars
  BY <1>1, LoadKeeps DEF KeepsEngine, streamVars
<1>2. CASE pc = "loaded" /\ fault = "none" /\ (\E x \in Streams : Call(x)) /\ UNCHANGED startupVars
  BY <1>2, CallDone, Together, AbortKeeps DEF Done
<1>3. CASE Exit
  <2>1. NoStream'
    BY <1>3 DEF Exit, NoStream, NoSw, NoHw, NoEntry, Wants
  <2>2. IInv'
    BY <2>1, Empty, PTL
  <2>3. \A x \in Streams : by'[x] = NULL
    BY <1>3 DEF Exit
  <2> QED BY <2>2, <2>3 DEF KeepsEngine
<1>4. CASE UNCHANGED vars
  BY <1>4, StutterKeeps DEF KeepsEngine, vars, streamVars
<1> QED BY <1>1, <1>2, <1>3, <1>4 DEF Next

\* What holds in every state of every instance: the invariant above.
THEOREM InductiveInvariant == Spec => []IInv
BY InitKeeps, NextKeeps, PTL DEF Spec

\* The state of every z_stream is one of its own two, or none.
THEOREM TypeCorrect == Spec => []TypeOK
<1>1. IInv => TypeOK
  BY DEF IInv
<1> QED BY <1>1, InductiveInvariant, PTL

\* No assertion of validate_stream_map_entry fails in deflateReset, deflateEnd
\* or their inflate counterparts, and no state is freed twice; the process dies only of
\* a stream whose hw state is missing on a machine without credits.
THEOREM Aborts == Spec => []NeverAborts
<1>1. IInv => NeverAborts
  BY DEF IInv
<1> QED BY <1>1, InductiveInvariant, PTL

\* Both states of a stream live exactly as long as the stream does.
THEOREM Lives == Spec => []StatesLive
<1>1. IInv => StatesLive
  <2> SUFFICES ASSUME IInv, NEW x \in Streams
               PROVE  /\ x \in open /\ Mode(x) = GZIP_AUTO =>
                           /\ sw[x].live /\ sme[x].sw_state = SwPtr(x)
                           /\ sme[x].hw_state # NULL <=> hw[x].live
                           /\ state[x] \in {sme[x].sw_state, sme[x].hw_state}
                           /\ hw[x].live => hw[x].sw_stream = SwPtr(x)
                      /\ x \in open /\ Mode(x) # GZIP_AUTO =>
                           /\ ~sme[x].in
                           /\ hw[x].live <=> Mode(x) = GZIP_NX
                           /\ sw[x].live <=> Mode(x) = GZIP_SW
                           /\ state[x] = IF hw[x].live THEN HwPtr(x) ELSE SwPtr(x)
                      /\ x \notin open \cup lost => ~sw[x].live /\ ~hw[x].live
    BY DEF StatesLive
  <2>1. CASE x \in open /\ Mode(x) = GZIP_AUTO
    BY <2>1, Entries, Nulls DEF BothInv
  <2>2. CASE x \in open /\ Mode(x) # GZIP_AUTO
    BY <2>2, Modes DEF IInv, StreamInv, OpenInv, OneInv
  <2>3. CASE x \notin open
    BY <2>3 DEF IInv, StreamInv, ClosedInv
  <2> QED BY <2>1, <2>2, <2>3
<1> QED BY <1>1, InductiveInvariant, PTL

\* The data between two resets of a stream goes through one engine, unless one of them
\* failed and left the other engine's state loaded.
THEOREM Engines == Spec => OneEngine
<1>1. IInv /\ [Next]_vars =>
        [\A x \in Streams \ mixed : by[x] # NULL => by'[x] \in {by[x], NULL}]_vars
  BY NextKeeps DEF KeepsEngine
<1> QED BY <1>1, InductiveInvariant, PTL DEF Spec, OneEngine
=============================================================================
