---------------------------- MODULE StreamSwitch ----------------------------
(***************************************************************************)
(* The functions of zlib.h on a z_stream, in a process that has been set   *)
(* up as Startup says.  In GZIP_AUTO mode deflateInit2_, deflate,          *)
(* deflateReset, deflateEnd and their inflate counterparts give a z_stream *)
(* two states, libnxz's (hw) and zlib's (sw), keep both in stream_map, and *)
(* load one of them in strm->state.  A stream may change from hw to sw     *)
(* before its first data, and gets hw back when it is reset.  In GZIP_NX   *)
(* and GZIP_SW mode there is one state, and no entry in stream_map.        *)
(*                                                                         *)
(* A stream is used by one thread at a time, and zlib itself is external.  *)
(***************************************************************************)
EXTENDS Startup

CONSTANTS
  Streams,    \* addresses of z_streams
  Inflaters   \* those initialised with inflateInit2_, the others deflate

ASSUME SwitchAssumption ==
  /\ NULL \notin Streams \cup {"sw", "hw"} \cup ({"sw", "hw"} \X Streams)
  /\ Inflaters \subseteq Streams

VARIABLES
  state,   \* strm->state: a pointer to a state, or NULL
  sw,      \* sw[x]: the zlib state made for x
  hw,      \* hw[x]: the nx_stream made for x
  sme,     \* sme[x]: the entry of x in stream_map
  open,    \* the streams whose Init returned Z_OK and that have not ended
  fault,   \* the program died of this
  \* history
  want,    \* want[x]: what the application asked of x since it was (re)set
  by,      \* by[x]: the engine that has seen data of x since, or NULL
  mixed,   \* streams whose reset failed and left the other engine's state loaded
  lost     \* streams whose Init failed and leaked their states

streamVars == <<state, sw, hw, sme, open, fault, want, by, mixed, lost>>
vars == <<startupVars, streamVars>>

Formats == {"raw", "zlib"}   \* of windowBits; gzip has no dictionary

SwPtr(x) == <<"sw", x>>
HwPtr(x) == <<"hw", x>>
has_nx_state(x) == state[x] \in {HwPtr(y) : y \in Streams}
Owner(ptr) == ptr[2]

NoSw == [live |-> FALSE, fmt |-> "zlib", dict |-> FALSE]
NewSw(f) == [live |-> TRUE, fmt |-> f, dict |-> FALSE]

NoHw == [live |-> FALSE, fmt |-> "zlib", dict |-> FALSE,
         switchable |-> FALSE, sw_stream |-> NULL, use_nx |-> FALSE]
NewHw(f, s, u) == [live |-> TRUE, fmt |-> f, dict |-> FALSE,
                   switchable |-> TRUE, sw_stream |-> s, use_nx |-> u]

NoEntry == [in |-> FALSE, sw_state |-> NULL, hw_state |-> NULL, fmt |-> "zlib"]
EntryTooEarly(x, f, h) ==
  [in |-> TRUE, sw_state |-> SwPtr(x), hw_state |-> NULL, fmt |-> f]
Entry(x, f, h) == [in |-> TRUE, sw_state |-> SwPtr(x), hw_state |-> h, fmt |-> f]

Wants(f) == [fmt |-> f, dict |-> FALSE]

Mode(x) == IF x \in Inflaters THEN nx_config.mode.inflate ELSE nx_config.mode.deflate

\* zlib has the function that a call of the application on x is passed on to.
ZlibHas(x, deflates, inflates) ==
  IF x \in Inflaters THEN SwInflate(inflates) ELSE SwDeflate(deflates)

-----------------------------------------------------------------------------
Init ==
  /\ StartupInit
  /\ state = [x \in Streams |-> NULL]
  /\ sw = [x \in Streams |-> NoSw]
  /\ hw = [x \in Streams |-> NoHw]
  /\ sme = [x \in Streams |-> NoEntry]
  /\ open = {}
  /\ fault = "none"
  /\ want = [x \in Streams |-> Wants("zlib")]
  /\ by = [x \in Streams |-> NULL]
  /\ mixed = {} /\ lost = {}

\* deflateInit2_ and inflateInit2_.  zlib is initialised first; then the NX,
\* which finds from the average delay whether it should be used at all.
InitBoth(x, f, use_nx) ==
  /\ nx_dev_count > 0 /\ stream_map
  /\ hw' = [hw EXCEPT ![x] = NewHw(f, SwPtr(x), use_nx)]
  /\ sme' = [sme EXCEPT ![x] = Entry(x, f, HwPtr(x))]
  /\ state' = [state EXCEPT ![x] = HwPtr(x)]
  /\ open' = open \cup {x}
  /\ UNCHANGED lost

\* The NX answers Z_STREAM_ERROR and errno is EAGAIN: zlib is used.  On PowerVM that
\* is so without a VAS credit; but the NX sets no errno when it refuses what zlib takes
\* (a windowBits, a level), and an earlier call may have left EAGAIN there.
InitFallback(x, f) ==
  /\ stream_map
  /\ sme' = [sme EXCEPT ![x] = Entry(x, f, NULL)]
  /\ state' = [state EXCEPT ![x] = SwPtr(x)]
  /\ open' = open \cup {x}
  /\ UNCHANGED <<hw, lost>>

\* stream_map is not there or cannot grow: Z_MEM_ERROR, and the states are left
\* behind.
InitMapFull(x, f, use_nx) ==
  /\ \/ /\ nx_dev_count > 0
        /\ hw' = [hw EXCEPT ![x] = NewHw(f, SwPtr(x), use_nx)]
        /\ state' = [state EXCEPT ![x] = HwPtr(x)]
     \/ /\ state' = [state EXCEPT ![x] = SwPtr(x)]
        /\ UNCHANGED hw
  /\ lost' = lost \cup {x}
  /\ UNCHANGED <<sme, open>>

\* No memory for the entry: Z_MEM_ERROR, and zlib's state is left behind.
InitNoEntry(x) ==
  /\ state' = [state EXCEPT ![x] = NULL]
  /\ lost' = lost \cup {x}
  /\ UNCHANGED <<hw, sme, open>>

InitStream(x, f) ==
  /\ x \notin open \cup lost
  /\ Mode(x) = GZIP_AUTO
  /\ ZlibHas(x, "deflateInit2_", "inflateInit2_")
  /\ sw' = [sw EXCEPT ![x] = NewSw(f)]
  /\ want' = [want EXCEPT ![x] = Wants(f)]
  /\ by' = [by EXCEPT ![x] = NULL]
  /\ \/ \E u \in BOOLEAN : InitBoth(x, f, u) \/ InitMapFull(x, f, u)
     \/ InitFallback(x, f)
     \/ InitNoEntry(x)
  /\ UNCHANGED <<fault, mixed>>

\* GZIP_NX and GZIP_SW: one state, without an entry in stream_map.
InitOne(x, f) ==
  /\ x \notin open \cup lost
  /\ \/ /\ Mode(x) = GZIP_NX /\ nx_dev_count > 0
        /\ \E u \in BOOLEAN :
             hw' = [hw EXCEPT ![x] = [NewHw(f, NULL, u) EXCEPT !.switchable = FALSE]]
        /\ state' = [state EXCEPT ![x] = HwPtr(x)]
        /\ UNCHANGED sw
     \/ /\ Mode(x) = GZIP_SW /\ ZlibHas(x, "deflateInit2_", "inflateInit2_")
        /\ sw' = [sw EXCEPT ![x] = NewSw(f)]
        /\ state' = [state EXCEPT ![x] = SwPtr(x)]
        /\ UNCHANGED hw
  /\ open' = open \cup {x}
  /\ want' = [want EXCEPT ![x] = Wants(f)]
  /\ by' = [by EXCEPT ![x] = NULL]
  /\ UNCHANGED <<sme, fault, mixed, lost>>

\* Any other failure of the NX: zlib's state is released, and Init fails.
InitFails(x) ==
  /\ x \notin open \cup lost
  /\ state' = [state EXCEPT ![x] = NULL]
  /\ UNCHANGED <<sw, hw, sme, open, fault, want, by, mixed, lost>>

-----------------------------------------------------------------------------
\* The assertions of validate_stream_map_entry.
Valid(x) ==
  /\ sme[x].in
  /\ IF has_nx_state(x)
       THEN /\ hw[Owner(state[x])].sw_stream = sme[x].sw_state
            /\ state[x] = sme[x].hw_state
       ELSE /\ state[x] = sme[x].sw_state
            /\ \/ nx_config.virtualization = "POWERVM"
               \/ ( /\ sme[x].hw_state # NULL
                    /\ state[x] = hw[Owner(sme[x].hw_state)].sw_stream )

\* Without an hw state, only PowerVM is spared the look at its sw_stream.
MissesHw(x) ==
  sme[x].in /\ sme[x].hw_state = NULL /\ nx_config.virtualization # "POWERVM"

Abort(x) ==
  /\ fault' = IF ~has_nx_state(x) /\ state[x] = sme[x].sw_state /\ MissesHw(x)
              THEN "null hw_state" ELSE "assertion"
  /\ UNCHANGED <<state, sw, hw, sme, open, want, by, mixed, lost>>

-----------------------------------------------------------------------------
\* deflate and inflate.  The choice is made at the first call: the NX is left
\* when it is slow, or when all the input is there and it is small.
UseNx(x, s, small) == Mode(x) = GZIP_NX \/ (Mode(x) = GZIP_AUTO /\ s.use_nx /\ ~small)

SwitchableKept(s) == s
NotSwitchable(s) == [s EXCEPT !.switchable = FALSE]

\* nx_switch_to_sw
SwitchToSw(x) ==
  LET o == Owner(state[x]) IN
  /\ hw' = [hw EXCEPT ![o] = [@ EXCEPT !.switchable = FALSE]]
  /\ state' = [state EXCEPT ![x] = hw[o].sw_stream]

ProcessSw(x) ==
  /\ x \in open
  /\ ~has_nx_state(x)
  /\ ZlibHas(x, "deflate", "inflate")
  /\ by' = [by EXCEPT ![x] = "sw"]
  /\ UNCHANGED <<state, sw, hw, sme, open, fault, want, mixed, lost>>

ProcessSwitch(x, small) ==
  /\ x \in open
  /\ has_nx_state(x)
  /\ hw[Owner(state[x])].switchable
  /\ ~UseNx(x, hw[Owner(state[x])], small)
  /\ SwitchToSw(x)
  /\ by' = [by EXCEPT ![x] = "sw"]
  /\ UNCHANGED <<sw, sme, open, fault, want, mixed, lost>>

ProcessHw(x, small) ==
  LET o == Owner(state[x]) IN
  /\ x \in open
  /\ has_nx_state(x)
  /\ hw[o].switchable => UseNx(x, hw[o], small)
  /\ hw' = [hw EXCEPT ![o] = NotSwitchable(@)]
  /\ by' = [by EXCEPT ![x] = "hw"]
  /\ UNCHANGED <<state, sw, sme, open, fault, want, mixed, lost>>

-----------------------------------------------------------------------------
\* deflateSetDictionary: raw streams take a dictionary between blocks, zlib
\* streams before any data.  inflateSetDictionary: raw streams take one at any
\* time, zlib streams when inflate has asked for it.
TakesDictionary(x, f) ==
  IF x \in Inflaters THEN f = "raw" \/ by[x] # NULL
                     ELSE f = "raw" \/ by[x] = NULL

\* nx_deflateSetDictionary may leave the NX, nx_inflateSetDictionary never does.
DictionarySwitches(x) ==
  /\ x \notin Inflaters
  /\ has_nx_state(x)
  /\ hw[Owner(state[x])].switchable
  /\ ~UseNx(x, hw[Owner(state[x])], FALSE)

SetDictionarySw(x) ==
  LET o == Owner(IF has_nx_state(x) THEN hw[Owner(state[x])].sw_stream ELSE state[x]) IN
  /\ x \in open
  /\ IF has_nx_state(x) THEN DictionarySwitches(x) /\ SwitchToSw(x)
                        ELSE UNCHANGED <<hw, state>>
  /\ TakesDictionary(x, sw[o].fmt)
  /\ sw' = [sw EXCEPT ![o] = [@ EXCEPT !.dict = TRUE]]
  /\ want' = [want EXCEPT ![x] = [@ EXCEPT !.dict = TRUE]]
  /\ UNCHANGED <<sme, open, fault, by, mixed, lost>>

SetDictionaryHw(x) ==
  LET o == Owner(state[x]) IN
  /\ x \in open
  /\ has_nx_state(x)
  /\ ~DictionarySwitches(x)
  /\ TakesDictionary(x, hw[o].fmt)
  /\ hw' = [hw EXCEPT ![o] = [@ EXCEPT !.dict = TRUE]]
  /\ want' = [want EXCEPT ![x] = [@ EXCEPT !.dict = TRUE]]
  /\ UNCHANGED <<state, sw, sme, open, fault, by, mixed, lost>>

-----------------------------------------------------------------------------
\* nx_deflateReset forgets the dictionary, nx_inflateReset does not.
ResetHw(x, h, f) == [h EXCEPT !.fmt = f, !.switchable = @ \/ Mode(x) = GZIP_AUTO,
                              !.dict = x \in Inflaters /\ @]

\* inflateReset2 asks for a format, the other resets keep it.
FormatAfter(x, f) == f = want[x].fmt \/ x \in Inflaters
ZlibResets(x, f) ==
  ZlibHas(x, "deflateReset", "inflateReset2")
  \/ (x \in Inflaters /\ f = want[x].fmt /\ SwInflate("inflateReset"))

\* Both states are reset, and the hw state is loaded again.
ResetBoth(x, f) ==
  LET h == sme[x].hw_state IN
  /\ h # NULL
  /\ hw' = [hw EXCEPT ![Owner(h)] = ResetHw(x, @, f)]
  /\ state' = [state EXCEPT ![x] = h]
  /\ UNCHANGED sme

\* There is no hw state: try again to make one, as Init would have.  When zlib
\* calls back inflateReset from its own inflateReset2, the new state is there
\* before the format is set.
ResetRetries(x, f, use_nx) ==
  /\ sme[x].hw_state = NULL
  /\ \E fmt \in {sme[x].fmt, f} :
       hw' = [hw EXCEPT ![x] = NewHw(fmt, sme[x].sw_state, use_nx)]
  /\ sme' = [sme EXCEPT ![x] = [@ EXCEPT !.hw_state = HwPtr(x)]]
  /\ state' = [state EXCEPT ![x] = HwPtr(x)]

ResetSwOnly(x) ==
  /\ sme[x].hw_state = NULL
  /\ state' = [state EXCEPT ![x] = sme[x].sw_state]
  /\ UNCHANGED <<hw, sme>>

Reset(x, f) ==
  /\ x \in open
  /\ Mode(x) = GZIP_AUTO
  /\ sme[x].in
  /\ FormatAfter(x, f)
  /\ IF Valid(x)
       THEN /\ ZlibResets(x, f)
            /\ sw' = [sw EXCEPT ![Owner(sme[x].sw_state)] = NewSw(f)]
            /\ \/ ResetBoth(x, f)
               \/ \E u \in BOOLEAN : ResetRetries(x, f, u)
               \/ ResetSwOnly(x)
            /\ want' = [want EXCEPT ![x] = Wants(f)]
            /\ by' = [by EXCEPT ![x] = NULL]
            /\ mixed' = mixed \ {x}
            /\ UNCHANGED <<open, fault, lost>>
       ELSE Abort(x)

\* A state has been loaded when its reset fails, and stays so: zlib's when it refuses the
\* windowBits of inflateReset2 or lacks the function, the hw state when zlib takes a
\* windowBits (16 and 32) that the NX refuses.
ResetFailsIn(x, engine, ptr) ==
  /\ state' = [state EXCEPT ![x] = ptr]
  /\ mixed' = IF by[x] \in {NULL, engine} THEN mixed ELSE mixed \cup {x}

ResetFails(x) ==
  /\ x \in open
  /\ Mode(x) = GZIP_AUTO
  /\ Valid(x)
  /\ \/ /\ x \in Inflaters \/ ~SwDeflate("deflateReset")
        /\ ResetFailsIn(x, "sw", sme[x].sw_state)
        /\ UNCHANGED sw
     \/ /\ x \in Inflaters /\ SwInflate("inflateReset2")
        /\ sme[x].hw_state # NULL
        /\ ResetFailsIn(x, "hw", sme[x].hw_state)
        /\ \E f \in Formats : sw' = [sw EXCEPT ![Owner(sme[x].sw_state)] = NewSw(f)]
  /\ UNCHANGED <<hw, sme, open, fault, want, by, lost>>

\* In the other modes, the one state there is.
ResetOne(x, f) ==
  /\ x \in open
  /\ Mode(x) # GZIP_AUTO
  /\ FormatAfter(x, f)
  /\ IF has_nx_state(x)
       THEN /\ hw' = [hw EXCEPT ![Owner(state[x])] = ResetHw(x, @, f)]
            /\ UNCHANGED sw
       ELSE /\ ZlibResets(x, f)
            /\ sw' = [sw EXCEPT ![Owner(state[x])] = NewSw(f)]
            /\ UNCHANGED hw
  /\ want' = [want EXCEPT ![x] = Wants(f)]
  /\ by' = [by EXCEPT ![x] = NULL]
  /\ UNCHANGED <<state, sme, open, fault, mixed, lost>>

\* deflateResetKeep and inflateResetKeep reset the loaded state only, and
\* nx_inflateResetKeep no more than its counters.
ResetKeep(x) ==
  /\ x \in open
  /\ has_nx_state(x) \/ ZlibHas(x, "deflateResetKeep", "inflateResetKeep")
  /\ IF x \in Inflaters
       THEN /\ by' = IF has_nx_state(x) THEN by ELSE [by EXCEPT ![x] = NULL]
            /\ UNCHANGED <<hw, want>>
       ELSE /\ hw' = IF has_nx_state(x)
                     THEN [hw EXCEPT ![Owner(state[x])] = [@ EXCEPT !.dict = FALSE]]
                     ELSE hw
            /\ want' = [want EXCEPT ![x] = [@ EXCEPT !.dict = FALSE]]
            /\ by' = [by EXCEPT ![x] = NULL]
  /\ mixed' = IF by'[x] = NULL THEN mixed \ {x} ELSE mixed
  /\ UNCHANGED <<state, sw, sme, open, fault, lost>>

-----------------------------------------------------------------------------
\* deflateEnd and inflateEnd: the entry leaves the map, both states are freed.
\* The hw state must not free the sw state again.  strm->state goes on pointing to it.
SwStreamKept(s) == s.sw_stream
SwStreamCleared(s) == NULL

End(x) ==
  LET s == sme[x].sw_state
      h == sme[x].hw_state
      again == IF h = NULL THEN NULL ELSE SwStreamCleared(hw[Owner(h)])
  IN
  /\ x \in open
  /\ Mode(x) = GZIP_AUTO
  /\ IF Valid(x)
       THEN /\ sw' = [sw EXCEPT ![Owner(s)] = NoSw]
            /\ hw' = IF h = NULL THEN hw ELSE [hw EXCEPT ![Owner(h)] = NoHw]
            /\ fault' = IF again # NULL THEN "double free" ELSE "none"
            /\ state' = [state EXCEPT ![x] = h]
            /\ sme' = [sme EXCEPT ![x] = NoEntry]
            /\ open' = open \ {x}
            /\ by' = [by EXCEPT ![x] = NULL]
            /\ want' = [want EXCEPT ![x] = Wants("zlib")]
            /\ mixed' = mixed \ {x}
            /\ UNCHANGED lost
       ELSE Abort(x)

\* A state without an entry; the NX has no state of zlib's to free.
EndOne(x) ==
  LET o == Owner(state[x]) IN
  /\ x \in open
  /\ Mode(x) # GZIP_AUTO
  /\ IF has_nx_state(x) THEN hw' = [hw EXCEPT ![o] = NoHw] /\ UNCHANGED sw
                        ELSE sw' = [sw EXCEPT ![o] = NoSw] /\ UNCHANGED hw
  /\ fault' = IF has_nx_state(x) /\ hw[o].sw_stream # NULL THEN "double free" ELSE "none"
  /\ state' = [state EXCEPT ![x] = IF has_nx_state(x) THEN @ ELSE NULL]
  /\ open' = open \ {x}
  /\ by' = [by EXCEPT ![x] = NULL]
  /\ want' = [want EXCEPT ![x] = Wants("zlib")]
  /\ UNCHANGED <<sme, mixed, lost>>

-----------------------------------------------------------------------------
Call(x) ==
  \/ \E f \in Formats : InitStream(x, f) \/ InitOne(x, f) \/ Reset(x, f) \/ ResetOne(x, f)
  \/ InitFails(x)
  \/ ResetFails(x)
  \/ ProcessSw(x)
  \/ \E small \in BOOLEAN : ProcessSwitch(x, small) \/ ProcessHw(x, small)
  \/ SetDictionarySw(x) \/ SetDictionaryHw(x)
  \/ ResetKeep(x)
  \/ End(x)
  \/ EndOne(x)

\* The process ends, whatever its streams are at.
Exit ==
  /\ Unload
  /\ state' = [x \in Streams |-> NULL] /\ sw' = [x \in Streams |-> NoSw]
  /\ hw' = [x \in Streams |-> NoHw] /\ sme' = [x \in Streams |-> NoEntry]
  /\ open' = {} /\ lost' = {} /\ mixed' = {} /\ fault' = "none"
  /\ want' = [x \in Streams |-> Wants("zlib")] /\ by' = [x \in Streams |-> NULL]

Next ==
  \/ Load /\ UNCHANGED streamVars
  \/ /\ pc = "loaded" /\ fault = "none"
     /\ \E x \in Streams : Call(x)
     /\ UNCHANGED startupVars
  \/ Exit

Spec == Init /\ [][Next]_vars

-----------------------------------------------------------------------------
Pointers == {SwPtr(x) : x \in Streams} \cup {HwPtr(x) : x \in Streams} \cup {NULL}

TypeOK ==
  /\ state \in [Streams -> Pointers]
  /\ sw \in [Streams -> [live : BOOLEAN, fmt : Formats, dict : BOOLEAN]]
  /\ hw \in [Streams -> [live : BOOLEAN, fmt : Formats, dict : BOOLEAN,
                         switchable : BOOLEAN, sw_stream : Pointers, use_nx : BOOLEAN]]
  /\ sme \in [Streams -> [in : BOOLEAN, sw_state : Pointers, hw_state : Pointers,
                          fmt : Formats]]
  /\ open \subseteq Streams
  /\ fault \in {"none", "assertion", "null hw_state", "double free"}
  /\ want \in [Streams -> [fmt : Formats, dict : BOOLEAN]]
  /\ by \in [Streams -> {"sw", "hw", NULL}]
  /\ mixed \subseteq Streams /\ lost \subseteq Streams

\* No assertion of validate_stream_map_entry fails, and no state is freed twice.  The
\* process dies only of a stream that has no hw state on a machine without credits, as
\* Init leaves one when it finds an errno that is not its own.
NeverAborts ==
  fault = "none" \/ (fault = "null hw_state" /\ \E x \in open : MissesHw(x))

\* "On PowerVM, there's a chance the NX state was not initialized due to a lack of
\* credits, so it may be NULL": the code counts on it that there is no other.
\* It does not hold.
HwMissesOnPowerVMOnly == \A x \in open : ~MissesHw(x)

\* All the data between two resets goes through one engine: the output of one
\* cannot be continued by the other.  Only a reset that fails may change the engine.
OneEngine ==
  [][\A x \in Streams \ mixed : by[x] # NULL => by'[x] \in {by[x], NULL}]_vars

\* A stream's states live exactly as long as the stream: what strm->state and
\* the map entry point to is there, and nothing is left when the stream ends.
StatesLive ==
  \A x \in Streams :
    /\ x \in open /\ Mode(x) = GZIP_AUTO =>
         /\ sw[x].live /\ sme[x].sw_state = SwPtr(x)
         /\ sme[x].hw_state # NULL <=> hw[x].live
         /\ state[x] \in {sme[x].sw_state, sme[x].hw_state}
         /\ hw[x].live => hw[x].sw_stream = SwPtr(x)
    /\ x \in open /\ Mode(x) # GZIP_AUTO =>
         /\ ~sme[x].in
         /\ hw[x].live <=> Mode(x) = GZIP_NX
         /\ sw[x].live <=> Mode(x) = GZIP_SW
         /\ state[x] = IF hw[x].live THEN HwPtr(x) ELSE SwPtr(x)
    /\ x \notin open \cup lost => ~sw[x].live /\ ~hw[x].live

\* The engines are those the environment and the file ask for, and the limits
\* are what the file's description says: the engine that sees a stream's data
\* is the one that comp_mode, dec_mode or nx_selector names for its direction.
ServedAsDocumented ==
  /\ LimitsAsDocumented
  /\ \A x \in open :
       LET asked == DocumentedMode(IF x \in Inflaters THEN "inflate" ELSE "deflate")
       IN /\ by[x] = "sw" => asked \in {GZIP_AUTO, GZIP_SW}
          /\ by[x] = "hw" => asked \in {GZIP_AUTO, GZIP_NX} /\ nx_dev_count > 0

\* The engine that sees the data has the format and the dictionary the
\* application gave the stream: "for raw inflate, this function can be called
\* at any time to set the dictionary".
\* It does not hold: the README reports it.
SettingsReachEngine ==
  \A x \in open :
    /\ by[x] = "sw" => sw[x].fmt = want[x].fmt /\ (want[x].dict => sw[x].dict)
    /\ by[x] = "hw" => hw[x].fmt = want[x].fmt /\ (want[x].dict => hw[x].dict)

=============================================================================
