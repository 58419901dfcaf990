---------------------------- MODULE MCNxProcess ----------------------------
(* Model checking of NxProcess: one stream that deflates and one that        *)
(* inflates, in processes that differ in one or two things from those of a   *)
(* PowerVM with nothing set; and copies of up to four jobs, in one process   *)
(* whose jobs are short.                                                     *)
EXTENDS NxProcess

CONSTANTS d, i

Plain(n) == [num |-> n, unit |-> ""]
In(n, unit) == [num |-> n, unit |-> unit]
MCTexts == {Plain(n) : n \in {0, 1, 2, 3, 600, 9000}}
             \cup {In(9, "MiB"), In(2, "KiB"), In(1, "GiB"), In(0, "junk")}

EnvironmentKeys == {"nx_selector", "comp_mode", "dec_mode", "def_buf_size", "strategy",
                    "dht_config", "mlock_csb", "timeout_pgfaults"}
NoEnv == [k \in EnvironmentKeys |-> NULL]
Env(k, t) == [NoEnv EXCEPT ![k] = t]
L(k, t) == [key |-> k, val |-> t]

Whole == {"deflateInit2_", "deflate", "deflateSetDictionary", "deflateReset",
          "deflateResetKeep", "deflateEnd", "inflateInit2_", "inflate",
          "inflateSetDictionary", "inflateReset", "inflateReset2", "inflateResetKeep",
          "inflateEnd", "inflateSyncPoint"}

Usual == [env |-> NoEnv, file |-> NULL, tree |-> <<"ibm,powervm">>, lparcfg |-> TRUE,
          nx_gzip_dev |-> TRUE, req_max_processed_len |-> NULL, page |-> 65536, zlib |-> Whole]

Machines ==
  {Usual} \cup
  {[Usual EXCEPT !.tree = t] : t \in {<<"vas", "bad vas", "vas">>, <<"bad vas">>}}
  \cup {[Usual EXCEPT !.tree = NULL, !.lparcfg = FALSE, !.nx_gzip_dev = v] : v \in BOOLEAN}
  \cup {[Usual EXCEPT !.tree = NULL, !.nx_gzip_dev = FALSE]}
  \cup {[Usual EXCEPT !.zlib = z] : z \in {NULL, Whole \ {"deflateReset", "deflateResetKeep"}}}

\* The engines asked for in the environment, in the file, and in both.
Sw == Plain(1)
Selections ==
  {[env |-> Env("nx_selector", t), file |-> <<L("nx_selector", Sw)>>] :
     t \in {Plain(1), Plain(2), Plain(3), In(0, "junk")}}
  \cup {[env |-> NoEnv, file |-> <<L("nx_selector", Plain(2)), L("nx_selector", t)>>] :
        t \in {Plain(0), Plain(1), Plain(2), Plain(3)}}
  \cup {[env |-> [NoEnv EXCEPT !["comp_mode"] = t, !["dec_mode"] = u],
         file |-> <<L("comp_mode", Sw), L(NULL, Sw), L("dec_mode", Plain(2))>>] : t, u \in {NULL, Plain(1), Plain(2)}}
  \cup {[env |-> [NoEnv EXCEPT !["comp_mode"] = t, !["dec_mode"] = Plain(3)], file |-> NULL] : t \in {Plain(1), Plain(2)}}
  \cup {[env |-> Env("comp_mode", Plain(3)), file |-> <<L("dec_mode", Plain(2)), L("comp_mode", NULL)>>]}

  \cup {[env |-> Env("comp_mode", Plain(2)), file |-> <<L("dec_mode", Plain(2)), L("nx_selector", Sw)>>]}

\* Any limit, in a process that uses zlib; no delay is so long that three times
\* as much is beyond TLC's integers.
Delays == {"delay_threshold", "compress_delay", "decompress_delay"}
Limits ==
  {[env |-> Env("nx_selector", Sw), file |-> <<L(k, t)>>] :
     k \in Keys \ (Delays \cup {"nx_selector"}), t \in Texts}
  \cup {[env |-> Env("nx_selector", Sw), file |-> <<L(k, t)>>] : k \in Delays, t \in Texts \ {In(1, "GiB")}}
  \cup {[env |-> [Env("nx_selector", Sw) EXCEPT ![k] = t], file |-> <<L(k, Plain(1))>>] :
        k \in {"def_buf_size", "strategy", "timeout_pgfaults"}, t \in Texts}
  \cup {[env |-> Env("nx_selector", Sw), file |-> <<L("delay_threshold", t), L(k, Plain(9000))>>] :
        k \in {"compress_delay", "decompress_delay"}, t \in {NULL, Plain(600)}}

With(m, s) == [m EXCEPT !.env = s.env, !.file = s.file]
MCSetups ==
  Machines \cup {With(Usual, s) : s \in Selections}
  \cup {With([Usual EXCEPT !.req_max_processed_len = 3],
              [env |-> Env("nx_selector", Sw), file |-> <<L("soft_copy_threshold", Plain(2))>>])}
  \cup {With([Usual EXCEPT !.tree = <<"vas", "ibm,powervm">>], [env |-> Env("nx_selector", Plain(2)), file |-> NULL])}
  \cup {With(m, s) : m \in {Usual, [Usual EXCEPT !.tree = <<"vas">>, !.page = 4096]}, s \in Limits}

A == {0, 3, 4, 6}
B == {0, 1, 2, 3, 4, 5, 6, 7}
LongOne == [k \in 1..34 |-> IF k % 3 = 0 THEN B ELSE A]
MCSources == UNION {[1..n -> {A, B}] : n \in 0..3} \cup {<<A, B, B, A, {}, A, B>>, LongOne}
MCCrcSeeds == {{}, {0, 7, 19, 31}}
MCAdlerSeeds == {[a |-> 1, b |-> 0], [a |-> 65520, b |-> 65519]}
=============================================================================
