------------------------------ MODULE Startup ------------------------------
(***************************************************************************)
(* What the library does when it is loaded, before the application's first *)
(* call: _nx_hwinit and nx_hw_init read the environment and the            *)
(* configuration file, choose the engines, look for accelerators, set the  *)
(* limits, make stream_map and bind the system's zlib.                     *)
(*                                                                         *)
(* A text of the environment or the file is a number and its suffix; a     *)
(* line of the file is a key and a value, either of which may be blank.    *)
(* The settings of the log are left out.                                   *)
(***************************************************************************)
EXTENDS Integers, Sequences, SequencesExt

CONSTANTS
  Setups,      \* what the process may find: see SetupType
  Texts,       \* of the environment and of the file
  UINT64_MAX,  \* no text's number reaches it
  UINT32_MAX,
  MaxItems,    \* MAX_CONFIG_ITEM
  NULL

\* getenv takes these, or else nx_get_cfg; and nx_get_cfg alone the others.
Variables == {"nx_selector", "comp_mode", "dec_mode", "def_buf_size", "strategy",
              "dht_config", "mlock_csb", "timeout_pgfaults"}
FileOnly == {"soft_copy_threshold", "cache_threshold", "delay_threshold",
             "decompress_delay", "compress_delay", "max_vas_reuse_count"}
Keys == Variables \cup FileOnly

Line == [key : Keys \cup {NULL}, val : Texts \cup {NULL}]

\* The machine: /proc/device-tree, where each vas entry is readable or not;
\* lparcfg; the device; the limit in sysfs; the functions of the zlib found.
SetupType(s) ==
  /\ s.env \in [Variables -> Texts \cup {NULL}]
  /\ s.file = NULL \/ \A k \in DOMAIN s.file : s.file[k] \in Line
  /\ s.tree = NULL \/ \A k \in DOMAIN s.tree : s.tree[k] \in {"vas", "bad vas", "ibm,powervm"}
  /\ s.lparcfg \in BOOLEAN /\ s.nx_gzip_dev \in BOOLEAN
  /\ s.req_max_processed_len \in Nat \cup {NULL}
  /\ s.page \in Nat \ {0}
  /\ s.zlib = NULL \/ "deflateInit2_" \in s.zlib

ASSUME StartupAssumption ==
  /\ \A s \in Setups : SetupType(s)
  /\ \A t \in Texts : t.num \in Nat /\ t.unit \in {"", "KiB", "MiB", "GiB", "junk"}
  /\ MaxItems \in Nat /\ {UINT32_MAX, UINT64_MAX} \subseteq Nat
  /\ UINT64_MAX % (UINT32_MAX + 1) = UINT32_MAX

VARIABLES
  setup,           \* of this process
  pc,              \* how far the constructor has come
  setting,         \* the text in effect for each key, or NULL
  nx_config,
  nx_dev_count,
  stream_map,      \* it has been allocated
  symbols          \* the functions of zlib that were found

startupVars == <<setup, pc, setting, nx_config, nx_dev_count, stream_map, symbols>>

GZIP_AUTO == 0
GZIP_SW == 1
GZIP_NX == 2

KiB == 1024
MiB == 1024 * KiB

-----------------------------------------------------------------------------
\* str_to_num: a number with a suffix that is not known is UINT64_MAX.
Factor == [KiB |-> KiB, MiB |-> MiB, GiB |-> 1024 * MiB]
str_to_num(t) ==
  CASE t.unit = ""     -> t.num
    [] t.unit = "junk" -> UINT64_MAX
    [] OTHER           -> t.num * Factor[t.unit]

Lesser(a, b) == IF a < b THEN a ELSE b
Greater(a, b) == IF a < b THEN b ELSE a
Byte(n) == n % 256
AsUint32(n) == n % (UINT32_MAX + 1)
AsInt(n) ==
  IF AsUint32(n) <= UINT32_MAX \div 2 THEN AsUint32(n) ELSE AsUint32(n) - UINT32_MAX - 1

\* set_cfg: a key that is there gets the new value, blank or not; a new one is
\* added while there is room.
set_cfg(table, line) ==
  LET old == {k \in DOMAIN table : table[k].key = line.key}
  IN IF line.key = NULL THEN table
     ELSE IF old # {} THEN [k \in DOMAIN table |-> IF k \in old THEN line ELSE table[k]]
     ELSE IF Len(table) < MaxItems THEN Append(table, line) ELSE table

nx_read_cfg(lines) == FoldLeft(set_cfg, <<>>, lines)

nx_get_cfg(key, table) ==
  LET found == {k \in DOMAIN table : table[k].key = key}
  IN IF found = {} THEN NULL ELSE table[CHOOSE k \in found : TRUE].val

FromFile(key) ==
  IF setup.file = NULL THEN NULL ELSE nx_get_cfg(key, nx_read_cfg(setup.file))

\* (mutant) the file overrides the environment
FileFirst(key) ==
  IF key \in FileOnly \/ FromFile(key) # NULL THEN FromFile(key) ELSE setup.env[key]
InEffect(key) ==
  IF key \in Variables /\ setup.env[key] # NULL THEN setup.env[key] ELSE FromFile(key)

-----------------------------------------------------------------------------
\* nx_query_job_limits, asked before virtualization is known.
nx_query_job_limits(virtualization) ==
  IF setup.req_max_processed_len # NULL THEN setup.req_max_processed_len
  ELSE IF virtualization = "BAREMETAL" THEN 64 * MiB ELSE MiB

Defaults ==
  [page_sz |-> Lesser(setup.page, 64 * KiB), virtualization |-> "BAREMETAL",
   mode |-> [deflate |-> GZIP_AUTO, inflate |-> GZIP_AUTO],
   max_vas_reuse_count |-> 10000, per_job_len |-> nx_query_job_limits("BAREMETAL"),
   strm_def_bufsz |-> MiB, soft_copy_threshold |-> 1024, cache_threshold |-> 8 * KiB,
   decompress_delay |-> 17000000, compress_delay |-> 100000000,
   timeout_pgfaults |-> 300, mlock_nx_crb_csb |-> 0, dht |-> 0,
   strategy_override |-> 1, timeout_paste_success |-> 0]

Untouched ==
  [Defaults EXCEPT !.page_sz = 0, !.per_job_len = 0, !.max_vas_reuse_count = 0]

StartupInit ==
  /\ setup \in Setups
  /\ pc = "settings"
  /\ setting = [k \in Keys |-> NULL]
  /\ nx_config = Untouched
  /\ nx_dev_count = 0
  /\ stream_map = FALSE
  /\ symbols = {}

\* The file is optional: without it, or with nothing in it, only the
\* environment counts.
ReadSettings ==
  /\ pc = "settings"
  /\ pc' = "mode"
  /\ nx_config' = Defaults
  /\ setting' = [k \in Keys |-> InEffect(k)]
  /\ UNCHANGED <<setup, nx_dev_count, stream_map, symbols>>

\* nx_selector decides for both directions, 3 being GZIP_MIX; without it
\* comp_mode and dec_mode decide for one each.
OwnMode(key) ==
  IF setting[key] = NULL \/ Byte(str_to_num(setting[key])) >= 3
    THEN GZIP_AUTO ELSE Byte(str_to_num(setting[key]))

SelectedMode ==
  LET s == Byte(str_to_num(setting["nx_selector"]))
  IN IF setting["nx_selector"] = NULL
       THEN [deflate |-> OwnMode("comp_mode"), inflate |-> OwnMode("dec_mode")]
     ELSE IF s < 3 THEN [deflate |-> s, inflate |-> s]
     ELSE IF s = 3 THEN [deflate |-> GZIP_NX, inflate |-> GZIP_SW]
     ELSE nx_config.mode

ChooseMode ==
  /\ pc = "mode"
  /\ pc' = "engines"
  /\ nx_config' = [nx_config EXCEPT !.mode = SelectedMode]
  /\ UNCHANGED <<setup, setting, nx_dev_count, stream_map, symbols>>

\* nx_enumerate_engines
Found(virtualization, count) ==
  /\ nx_config' = [nx_config EXCEPT !.virtualization = virtualization]
  /\ nx_dev_count' = count

FoundWithoutTree ==
  /\ setup.tree = NULL
  /\ IF setup.lparcfg THEN Found("POWERVM", 1)
     ELSE Found("BAREMETAL", IF setup.nx_gzip_dev THEN 1 ELSE 0)

FoundInTree ==
  /\ setup.tree # NULL
  /\ IF \E k \in DOMAIN setup.tree : setup.tree[k] = "ibm,powervm"
       THEN Found("POWERVM", 1)
       ELSE Found("BAREMETAL", Len(SelectSeq(setup.tree, LAMBDA e : e = "vas")))

EnumerateEngines ==
  /\ pc = "engines"
  /\ FoundWithoutTree \/ FoundInTree
  /\ pc' = IF nx_dev_count' = 0 THEN "zlib" ELSE "limits"
  /\ UNCHANGED <<setup, setting, stream_map, symbols>>

-----------------------------------------------------------------------------
\* The number set for a key, or what is there by default; in 64 bits, and in the 32 of
\* the field it is stored in, which drops the higher ones.
Set(key, default) == IF setting[key] = NULL THEN default ELSE str_to_num(setting[key])
Set32(key, default) == IF setting[key] = NULL THEN default ELSE AsUint32(str_to_num(setting[key]))
SetInt(key, default) == IF setting[key] = NULL THEN default ELSE AsInt(str_to_num(setting[key]))

BufferSize(sz) == Greater(Lesser(sz, 8 * MiB), nx_config.page_sz)
Strategy(n) == IF n \in {0, 1} THEN n ELSE 0
Delay(key, default) ==
  IF setting["delay_threshold"] # NULL THEN str_to_num(setting["delay_threshold"])
                                       ELSE Set(key, default)

\* uint64_t, for the numbers a text can name and for UINT64_MAX
Tripled(d) == IF d = UINT64_MAX THEN UINT64_MAX - 2 ELSE 3 * d
PerPlatform(d) == IF nx_config.virtualization = "BAREMETAL" THEN Tripled(d) ELSE d

SetLimits ==
  LET c == nx_config IN
  /\ pc = "limits"
  /\ pc' = "map"
  /\ nx_config' = [c EXCEPT
       !.mlock_nx_crb_csb = SetInt("mlock_csb", @),
       !.strm_def_bufsz = IF setting["def_buf_size"] = NULL THEN @
                          ELSE BufferSize(Set("def_buf_size", @)),
       !.strategy_override = Strategy(SetInt("strategy", @)),
       !.dht = SetInt("dht_config", @),
       !.timeout_pgfaults = SetInt("timeout_pgfaults", @),
       !.soft_copy_threshold = Set32("soft_copy_threshold", @),
       !.cache_threshold = IF setting["cache_threshold"] = NULL THEN @
                           ELSE Lesser(Set32("cache_threshold", @), c.page_sz),
       !.max_vas_reuse_count = Set32("max_vas_reuse_count", @),
       !.decompress_delay = PerPlatform(Delay("decompress_delay", @)),
       !.compress_delay = PerPlatform(Delay("compress_delay", @)),
       !.timeout_paste_success = IF c.virtualization = "POWERVM" THEN 300 ELSE 60]
  /\ UNCHANGED <<setup, setting, nx_dev_count, stream_map, symbols>>

\* nx_map_init may find no memory.
MakeMap ==
  /\ pc = "map"
  /\ pc' = "zlib"
  /\ stream_map' \in BOOLEAN
  /\ UNCHANGED <<setup, setting, nx_config, nx_dev_count, symbols>>

\* sw_zlib_init looks for these; inflateSyncPoint and compressBound are never
\* looked for.
Registered ==
  {"deflateInit2_", "deflate", "deflateSetDictionary", "deflateReset", "deflateResetKeep",
   "deflateEnd", "inflateInit2_", "inflate", "inflateSetDictionary", "inflateReset",
   "inflateReset2", "inflateResetKeep", "inflateEnd"}

\* The wrappers of sw_zlib.c: Z_STREAM_ERROR when the function was not found.
SwDeflate(f) == f \in symbols
SwInflate(f) == f \in symbols

LoadZlib ==
  /\ pc = "zlib"
  /\ pc' = "loaded"
  /\ IF setup.zlib = NULL
       THEN /\ nx_config' = [nx_config EXCEPT !.mode = [deflate |-> GZIP_NX, inflate |-> GZIP_NX]]
            /\ UNCHANGED symbols
       ELSE /\ symbols' = Registered \cap setup.zlib
            /\ UNCHANGED nx_config
  /\ UNCHANGED <<setup, setting, nx_dev_count, stream_map>>

\* _nx_hwdone
Unload ==
  /\ pc = "loaded"
  /\ pc' = "unloaded"
  /\ stream_map' = FALSE
  /\ symbols' = {}
  /\ UNCHANGED <<setup, setting, nx_config, nx_dev_count>>

Load ==
  \/ ReadSettings \/ ChooseMode \/ EnumerateEngines \/ SetLimits \/ MakeMap \/ LoadZlib

-----------------------------------------------------------------------------
\* What test/nx-zlib.conf says of each key, "environment settings override
\* config file", and the last of several lines counts.
Stated(key) ==
  LET lines == IF setup.file = NULL THEN <<>>
               ELSE SelectSeq(setup.file, LAMBDA l : l.key = key)
  IN IF key \in Variables /\ setup.env[key] # NULL THEN setup.env[key]
     ELSE IF lines = <<>> THEN NULL ELSE lines[Len(lines)].val

Meant(t) == t # NULL /\ t.unit # "junk"

\* "same as nx_selector (0,1,2) for compression. Is ignored if nx_selector is
\* also set", 3 is "Use nx to compress and zlib to decompress", the default is
\* 0, and without zlib there is only the NX.
DocumentedMode(direction) ==
  LET own == Stated(IF direction = "deflate" THEN "comp_mode" ELSE "dec_mode")
      both == Stated("nx_selector")
  IN IF setup.zlib = NULL THEN GZIP_NX
     ELSE IF Meant(both) /\ both.num = 3
       THEN IF direction = "deflate" THEN GZIP_NX ELSE GZIP_SW
     ELSE IF both # NULL
       THEN IF Meant(both) /\ both.num < 3 THEN both.num ELSE GZIP_AUTO
     ELSE IF Meant(own) /\ own.num < 3 THEN own.num ELSE GZIP_AUTO

DocumentedDefault ==
  [def_buf_size |-> MiB, strategy |-> 1, dht_config |-> 0, mlock_csb |-> 0,
   timeout_pgfaults |-> 300, soft_copy_threshold |-> 1024, cache_threshold |-> 8192,
   max_vas_reuse_count |-> 10000, compress_delay |-> 100000000,
   decompress_delay |-> 17000000, delay_threshold |-> 0]

\* "deflate buffer size: 64KiB to 8MiB", nx-zlib.conf, and "permit 64KB to 8MB" in the code.
\* It does not hold where pages are smaller: the code takes the page size for the 64 KiB.
BufferSizeAsDocumented ==
  pc = "loaded" /\ nx_dev_count > 0 => nx_config.strm_def_bufsz \in 64 * KiB..8 * MiB

\* With an accelerator, each limit is what the file says it is: the number
\* given or its default, in its bounds and if it fits the field; delay_threshold hides the
\* two others, and "on baremetal this value is multiplied by 3".  A buffer is smaller than the
\* file allows only where pages are, and no smaller than these.
LimitsAsDocumented ==
  LET number(key) == IF Stated(key) = NULL THEN DocumentedDefault[key]
                     ELSE Stated(key).num * (IF Stated(key).unit \in DOMAIN Factor
                                             THEN Factor[Stated(key).unit] ELSE 1)
      given(key) == Stated(key) = NULL \/ Meant(Stated(key))
      fits(key, max) == given(key) /\ number(key) <= max
      within(n, key, low, high) == /\ n \in low..high
                                   /\ given(key) /\ number(key) \in low..high => n = number(key)
      delay(key) == IF Stated("delay_threshold") = NULL THEN key ELSE "delay_threshold"
      times == IF setup.tree # NULL /\ "ibm,powervm" \in ToSet(setup.tree) THEN 1
               ELSE IF setup.tree = NULL /\ setup.lparcfg THEN 1 ELSE 3
      c == nx_config
  IN pc = "loaded" /\ nx_dev_count > 0 =>
       /\ \/ within(c.strm_def_bufsz, "def_buf_size", 64 * KiB, 8 * MiB)
          \/ fits("def_buf_size", 64 * KiB - 1) /\ c.strm_def_bufsz = Greater(number("def_buf_size"), c.page_sz)
       /\ within(c.cache_threshold, "cache_threshold", 0,
                 IF Stated("cache_threshold") = NULL THEN number("cache_threshold") ELSE c.page_sz)
       /\ within(c.strategy_override, "strategy", 0, 1)
       /\ fits("max_vas_reuse_count", UINT32_MAX) => c.max_vas_reuse_count = number("max_vas_reuse_count")
       /\ fits("soft_copy_threshold", UINT32_MAX) => c.soft_copy_threshold = number("soft_copy_threshold")
       /\ fits("timeout_pgfaults", UINT32_MAX \div 2) => c.timeout_pgfaults = number("timeout_pgfaults")
       /\ given(delay("compress_delay")) =>
            c.compress_delay = times * number(delay("compress_delay"))
       /\ given(delay("decompress_delay")) =>
            c.decompress_delay = times * number(delay("decompress_delay"))
=============================================================================
