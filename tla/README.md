# libnxz in TLA+

libnxz (this repository) is a zlib-compatible library that compresses and
decompresses with the NX GZIP accelerator of POWER processors. Programs link it
in place of zlib. This directory holds TLA+ models of the parts of the library
where state is shared, jobs can fail, or a call can be split at any byte; TLC
configurations that check the models on small instances; and theorems, checked
by TLAPS, that hold for every value of the constants.

File names without a directory are in `src/lib`. Line numbers are those of the
commit the models were written from.

## The system

    application                      zlib API: deflate, inflate, crc32
        |
    gz files, compress, uncompress   nx_gzlib.c, nx_compress.c, nx_uncompr.c
        |
    two engines per stream           nx_deflate.c 2236-, nx_inflate.c 1945-, nx_map.c
        |            \
    deflate / inflate  zlib          nx_deflate.c, nx_inflate.c  |  sw_zlib.c (dlopen)
        |     \
        |      DHT cache             nx_dht.c, nx_dhtgen.c, nx_dht_builtin.c
        |
    device handles                   nx_zlib.c: nx_open, nx_close
        |
    VAS window, job submission       gzip_vas.c, nx_zlib.c: nx_submit_job
        |
    accelerator, hypervisor, kernel  (external)

Before all this, the constructor reads the settings and looks for the
accelerator (nx_zlib.c 773-1355, nx_utils.c, sw_zlib.c). Beside it
stand checksums and a copy that uses the accelerator (nx_crc.c, crc32_ppc.c,
nx_adler32.c, nx_zlib.c 1398-). `src/samples/gunzip_nx.c` drives the
accelerator without the library.

| Component | State it keeps | Operations | Shared with | What makes it correct |
|---|---|---|---|---|
| VAS window and job submission | `paste_addr`, `generation`, `rwlock` of the handle; ticks and `window_generation` of a call; the CSB | `nx_submit_job`, `nxu_run_job`, `nx_wait_for_csb` | every thread whose streams use the handle; the hypervisor, which suspends windows; other users of the credits | nobody pastes into an unmapped window; one window open; a call returns while its handle keeps its window; success means the job is done |
| Device handles | `saved_nx_devp` and its mutex; `open_cnt`, `use_cnt`, `creator_pid` | `nx_open`, `nx_close`, `nx_close_all`; fork, exit | all streams of the process, other processes through credits | no dangling handle; the last user frees; a child does not use its parent's window; all under the mutex |
| Start-up and configuration | `nx_config`, `nx_gzip_mode`, `nx_dev_count`, credits, `stream_map` | `_nx_hwinit`, `nx_hw_init` (constructor): environment, file, device tree, zlib | everything, before use | each setting has the value its description gives it; no accelerator means no NX |
| zlib binding | function pointers | `sw_zlib_init`, forwarding | - | what is called was found |
| Stream map | open-addressing table, `rwlock` | get, put with growth, remove | all threads | behaves as a map; no overwritten entry; scans stay in the table |
| Two engines per stream | `strm->state`, the `sw`/`hw` states and the map entry, `switchable` | Init, deflate/inflate, SetDictionary, Reset, End and Copy, in three modes | the map; zlib | one engine per stream between resets; states neither freed twice nor left; settings reach the engine |
| Deflate stream | `status`, `fifo_in` with the history, `fifo_out`, `tebc`, `need_stored_block`, checksums | `nx_deflate` and what it calls, Reset, SetDictionary, Copy | a device handle, a DHT cache | the bytes written are a stream that decodes to the input; flushes deliver; `Z_FINISH` ends; each job gets the next input and the right history, whatever the cache threshold |
| Inflate stream | header state machine, `fifo_in`, `fifo_out` with the window, suspended job state | `nx_inflate`, Reset, Reset2, SetDictionary, Copy | a device handle | output is the input's decoding however it is cut; jobs resume at the right bit; errors are true |
| DHT cache | up to 128 cached tables and 35 built-in ones, clock hand, last-used index and its budget | `dht_begin`, `dht_lookup`, `dht_copy` | one stream | keys unique; recently used entries survive; a table is not reused for too long |
| DHT generation | none | `dhtgen`; `nx_dht_decomp.c` reads a table | - | lengths form the best complete prefix code under the limit; the table is what a reader reads; it fits the command block |
| gz files | stream, descriptor, a global `is_deflate` | `gzopen`, `gzread`, `gzwrite`, `gzclose` | - (the global: all files) | bytes written are bytes read; no call hangs |
| compress, uncompress | one stream | `compress2`, `uncompress2` | zlib as a fallback | `Z_OK` means whole, the rest of the answers are true |
| Checksums | none | `crc32`, `adler32`, combine | - | agree with their definition for every alignment and cut |
| Copy loop | none | `nx_copy` | a device handle | all copied; sums continue over jobs |
| Average delay | shared memory of all processes | every job | all threads, no lock | - |
| gunzip_nx | two rings, scatter-gather lists, the job's state | `decompress_file` | - | what is written is the plain data; sound files end |

### What is hard in it

- *Concurrency*: threads paste through one handle while one of them replaces the
  window; `nx_open`/`nx_close` race for the saved handle; the map reads its size
  before it takes its lock.
- *Environment*: windows are suspended by the hypervisor and credits vanish;
  processes fork and die; the accelerator completes late; settings come from
  two places that overrule each other.
- *Partial results*: the accelerator cuts a job where it likes, in the middle of
  a byte, a block grows instead of shrinking, output overflows into `fifo_out` at any
  byte, and a byte may lack bits until a later call. Headers and trailers arrive
  one byte at a time.
- *Failure in the middle*: `calloc` fails while the map grows, an Init fails with
  half the states made, no credit is left for a new window, a job faults or has no
  room and is retried smaller, a write to the file is short.
- *Protocols over calls*: reset, reuse, dictionary, flush, finish again and again.
- *Timeouts and retries*: three backoffs, a paste timeout and a CSB timeout.

`PROJECT.json` ("hazards") lists each place with the properties meant for it.

## The modules

| Module | Models | Composed with |
|---|---|---|
| `SharedWindow` | abstract: at most one open window per handle, given up only by a thread that tried it | implemented by `NxRunJob` |
| `NxRunJob`, `NxRunJob_proofs` | `nx_submit_job`, `nxu_run_job` for one handle and many threads | instantiates `SharedWindow` |
| `NxDevice`, `NxDevice_proofs` | `nx_open`, `nx_close`, fork and exit of several processes | - |
| `StreamMap` | abstract: a map whose operations take effect at once, but may miss while a growth fails | implemented by `NxMap` |
| `NxMap`, `NxMap_proofs` | `nx_map.c` with its array, lock and reads outside the lock | instantiates `StreamMap` |
| `Startup` | constructor and destructor: settings, engines, limits, map, zlib's functions | - |
| `StreamSwitch`, `StreamSwitch_proofs` | the states of a stream in the three modes | extends `Startup`; uses what `StreamMap` promises to a stream's own thread: an entry is found once put |
| `Checksums` | CRC-32 and Adler-32 by every path of the code, and their combination | - |
| `NxCopy` | `nx_copy`, `crc32`, `adler32` as an application calls them | extends `Startup` and `Checksums` |
| `NxProcess` | one process: start-up, then streams or copies | composes `StreamSwitch` and `NxCopy` |
| `DeflateStream` | the output side of `nx_deflate`: header, blocks, flushes, stored blocks, `fifo_out`, trailer | - |
| `DeflateUsers` | an application, `nx_compress2`, `__gzwrite` and `__gzclose` | extends `DeflateStream` |
| `DeflateWindow`, `DeflateWindow_proofs` | the input side of `nx_deflate`: `fifo_in`, history, dictionaries, source lists | - |
| `DhtCache`, `DhtCache_proofs` | `nx_dht.c`: the tables of one stream, and the jobs of `nx_deflate` that use them | - |
| `DhtGen`, `DhtGen_proofs` | `nx_dhtgen.c`: the trees, the lengths, the bits of a table | - |
| `DhtDecomp` | `nx_dht_decomp.c`, the reader of a table | extends `DhtGen`: writes, then reads |
| `InflateHeader` | the header states of `nx_inflate` | - |
| `InflateStream`, `InflateStream_proofs` | the rest of `nx_inflate` | extends `InflateHeader` |
| `InflateUsers` | an application, `nx_uncompress2` and `__gzread` | extends `InflateStream` |
| `DdeList` | scatter-gather lists: building, reading, touching pages | - |
| `GunzipFile` | `decompress_file` of `samples/gunzip_nx.c` | extends `DdeList` |
| `MC*` | constants for TLC | |

In every module that models a stream, bytes are known by the part they play or by
their place in the stream, never by their value: this is what a property about lost,
doubled, misplaced or stale bytes has to tell apart.

### NxRunJob

One VAS window is a number; `window[w]` says whether the hypervisor and the
kernel have it as active, suspended or closed, `paste_addr` is the window the
handle points to (0 for NULL), and `generation` is `nx_devp->generation`. A
thread's `pc` follows the loop of `nxu_run_job`: `rdlock` (290), `paste` (294-309:
the paste happens under the read lock), `csb` (`nx_wait_for_csb`), `failed`
(the suspension test and the wait, 337-354 and 403-414), `wrlock` and `reopen`
(354-400). The write lock is held from `wrlock` to the end of `reopen`, and the
reopen may back off several times. Time is in units of `freq>>5`. The suspension
test reads credits without the lock, as the code does, so its result is taken at
one moment and used at another. `ReopenOk` sets the clock of the call back, as line 399 does.
Windows are names: the generation of the code is a number which is only compared, so a name nobody remembers stands
for a new one, and the handle opens as many windows as it likes. `NxComplete` lets the accelerator finish a job at
any time, also after the caller gave up on it. `Hypervisor` suspends and resumes
windows and changes the number of credits; `OtherUsers` takes and returns credits.

Not modelled: the descriptor and `mmap` errors (a window opens or does not),
the CRB and CPB.

### NxDevice

Each process has its own heap of `nx_dev_t` (fields `open_cnt`, `use_cnt`,
`creator_pid` and the window), `saved_nx_devp`, and mutex; `dev[p][c]` is the
`nxdevp` of a client's stream. The check of the credits (521) and the steps
under the mutex are separate actions, the retries of `nx_function_begin` (578-591)
another. Fork copies heap, handle and descriptors (the windows become
`inherited` in the child); it happens while no client of the process is inside
the library (POSIX leaves the child of a multithreaded process nothing else to
do than async-signal-safe calls). `CloseAll` is a thread that calls `exit` while the others are anywhere: the destructor frees
the saved handle without the mutex, whatever its count (681-693). From then on the process is `exiting`, and what its other threads
do with the freed handle is undefined and not followed. `Exit` is the end of the process, after that or by a kill at any step, and
closes its windows. `open_cnt` and `use_cnt` are never reset but by freeing.
`max_vas_reuse_count` is a setting of each process; 0 turns sharing off.

`InitFailed` is the failure of `nx_deflateInit2_` or `nx_inflateInit2_` after
`nx_open`: the handle keeps its count and is `leaked` (history), which `NoIdleOrphan` excepts.

### StreamMap and NxMap

`NxMap` keeps the array as a function from slots to entries, and one thread per
key: a stream is used by one thread at a time (as in zlib), so the thread of a
key is identified with the key. `get_index` runs before the lock is taken. A put
that grows sets `size` and `array` first and then calls `calloc`; if that fails
both are restored: `array` is NULL and `size` doubled for as long as `calloc`
runs, and who reads them without the lock at that time gets a wrong start.
`disturbed` remembers the keys whose operation ran at such a time. A scan that begins there behind the end of
the array (see below) is taken to find nothing in the memory it reads. Old arrays
are never freed and `nb_entries` counts rehashed entries twice, as in the code.

`StreamMap` promises the strongest thing that is true: each operation is atomic
somewhere between call and return, except that a disturbed one may miss its key.

### Startup, StreamSwitch, Checksums, NxCopy and NxProcess

`Startup` is the constructor in the order of the code: read each setting from the
environment or else the file (`ReadSettings`), choose the mode per direction
(`ChooseMode`), count the engines in the device tree (`EnumerateEngines`), clamp the
limits (`SetLimits`), make the map, load zlib. A setting is a number with a suffix,
converted as `str_to_num` does and cut to the width of the field it is stored in (2^32 is `UINT32_MAX + 1`, 2^30 in the instance, as
TLC's integers end at 2^31). What a
process may find is a record of `Setups`: environment, file, device tree, the
device, the limit in sysfs, the page size, the functions of zlib.

In `StreamSwitch`, `sw[x]` and `hw[x]` are the states zlib and libnxz made for stream
`x`, `sme[x]` its entry in the map, `state[x]` is `strm->state`. A pointer to a state is a
pair, so `has_nx_state` is a test of its first part, as the code tests a magic number.
Whether `use_nx_deflate` and `use_nx_inflate` choose the NX depends on `use_nx` (set from
the average delay when the NX state is made, either value is possible) and on whether
this is a `Z_FINISH` call with little input (`small`). `by[x]` is a
history variable: the engine that has seen data since the last reset; `want[x]` is what
the application asked for. `fault` records the assertion of `validate_stream_map_entry`
(nx_zlib.h:427), double frees and null pointers. A call of a function zlib lacks answers
`Z_STREAM_ERROR`. Whether an Init whose NX half fails goes on with zlib alone depends on `errno` only, as in the code, and so may
happen on any machine (`InitFallback`, `InitMapFull`). A reset that fails has already loaded one of the states (`ResetFails`): `mixed` are the
streams left with another engine than the one that has their data. Copies are not modelled (see below).

`Checksums` writes a word as the set of its one bits, so the tables, both word
orders, the alignment loops and the combination by squared matrices are those of the
code; `__crc32_vpmsum` is taken to be the CRC of whole blocks of 16 bytes. The eight tables
(`Table0` to `Table3`, and swapped) were compared once with `inc_nx/crc32.h` and the constants, entry by entry.
`NxCopy` cuts a copy into jobs of `per_job_len` and combines their sums; a job may fail.
`NxProcess` runs start-up once and then either streams or copies, so that a copy has the
limits start-up gave it.

### DeflateStream and DeflateUsers

A call of `nx_deflate` is a sequence of steps along its labels: `s1` (copy
`fifo_out`), `s2` (cache small input, or compress, or store), `stored` (the loop
1756-1797), `switch` (1867-1896). A byte of output is a record that says which
part of the stream it is; a few stand for many (a header and a trailer have two
bytes, a flush block two, a Huffman block `t` for `n` bytes of input, with
`1 <= t <= n` since the accelerator reports anything larger as
`ERR_NX_TPBC_GT_SPBC`). The last byte of a block may be `open`: it lacks
bits (`tebc > 0`) and nothing may follow it until a flush block has filled it.
`Read` is the reference: a reader of such bytes that fails on anything out of
place. The NX may take any part of the input offered (at most `strm_def_bufsz` of `next_in`, and as much room at `next_out`: `BufSize`), stop there (the
`ERR_NX_OK` and partial-completion cases alike), expand, or fail.

Left out: the arithmetic of `fifo_in` (it is `DeflateWindow`'s), the DHT (it is
`DhtCache`'s), level 0 (nx_deflate.c:655 turns it into 6), `Z_FULL_FLUSH`
(treated by the code as `Z_SYNC_FLUSH`) and `Z_BLOCK` (as `Z_NO_FLUSH`), jobs that make
no progress, and the counter that ends a call after 65535 of those. The
application keeps to zlib.h: after `Z_FINISH` it asks for `Z_FINISH` and brings no
more input, and after `Z_STREAM_ERROR` it resets.

`spoiled` is a history variable. It is set when one of three defects of the code,
listed below, damages the stream (a header that exactly fills the first buffer, a block
after a withheld byte, a stored block whose header does not fit); the properties speak of
all other streams. `AlwaysDecodable` is the same without the exception, and fails.

`DeflateUsers` adds who calls: an application that calls as it likes; `nx_compress2`, which
gives pieces of input and room; `__gzwrite` and `__gzclose`, which write what they get to a
file where a write may fail or be short (`lost`). The global `is_deflate` is
written whenever any other file is opened (`OpenOther`).

### DeflateWindow

`fifo_in` is an array of places: what is before `cur_in` is history, from `cur_in` on it is
cached input. `Submit` builds the source list as `nx_setup_ddl_in` does: the history in whole
quad words if the input fits beside it, then `fifo_in`, then `next_in`. A job may take any
number of bytes (`JobDone`, which is `nx_compress_block_update_offsets`: it shifts or fills the
buffer), expand (`JobBig`, what follows is stored), be given again with less (`JobLess`), fail,
or find no memory. `SetDictionary` copies a dictionary behind the history, a longer one than the window
in its place; a page fault may stop the copy of a long one when `fifo_in` has already been overwritten
(`torn`). Places stand for bytes: 0 is one of another stream or of a failed copy.

The application gives at most `MaxRow` dictionaries in a row: with more the buffer is
overrun (see below).

`Threshold` is any the configuration takes: up to a page, which is half of `fifo_in`. `SmallThreshold` are those that leave room for
the longest history in that half, as the default does. With others `CacheInput` moves bytes from in front of `fifo_in` (`Byte`), the free room,
an unsigned number, may wrap (`TakenAt`), and nothing may be taken; see below.

### DhtCache

One stream's `dht_tab_t` with the fields of the code. The symbol counts of a block
are opaque values; `KeyOf` gives the two top symbols that `dht_sort` finds in them,
and a generated table is identified with the counts it was made from, since
`dhtgen` is a function of them. `Left` says what generation leaves in the command
block (zero counts are raised to one, so the key may change). `fc`, `spbc`, `counts`,
`dht` are the fields of the command block that one lookup writes and a later one
reads. A lookup is one action up to the clock sweep (the caller's thread alone
uses the table), and the sweep one action per slot, so that its end can be asked
for. `pc = "aborted"` is the assertion of line 530.

`since` (source coded with the table since it was chosen) and `accessed0` (slots in
use when the sweep began) are history variables. `Copy` goes on with the copy of the
stream and leaves the original idle; `tab` tells the two allocations apart.
`SetDictionary` is allowed between any two blocks, as for raw streams; a zlib
stream has it only at the start. `Reset` goes on for streams that keep no history
(levels up to 4; for the others see the findings). The key of zero counts is that of
the first built-in table, as in `nx_dht_builtin.c`.

Left out: `dht_gen_req` and `dht_invalidate_req`, which nothing requests; the locks of
entries, which are void without `DHT_ATOMICS`; the `accessed` flag of built-in tables,
which nothing reads.

### DhtGen and DhtDecomp

A step is one iteration of a loop: `Fill` the zero counts, flatten the counts to the limit
and sort them (`LengthLimit`), join two nodes (`Merge`), walk a tree (`WalkDone`, which starts
over with a smaller limit if the tree is too deep), write the header (`Header`), code one length
(`EncodeLength`, the run-length state machine with its six places where a run ends). Bits are appended
as the code does, least significant first. `DhtDecomp` reads
them back with the canonical codes of RFC 1951. The sizes of the alphabets, the
depth and the limits of repeats are constants, so small alphabets hit all of them.

### InflateHeader, InflateStream and InflateUsers

A compressed stream is a record of `Members`: its header fields, and for each item of
the deflate data the bit and the output byte where it ends. `InflateHeader` walks the states of
`inf_state` byte by byte, as the code does when the input comes in pieces, including
checksum, extra field, name, dictionary id and `gzhead`. `InflateStream` is `nx_inflate_`: copy
`fifo_out` to the caller, cache small input, build the source from history, `fifo_in` and
`next_in` (the bits of the first byte already used are `in_subc`), estimate the target, submit,
handle faults and lack of space by halving, account, keep the window in `fifo_out`, compare
the trailer. The accelerator is external: it stops where source or target end, says how many bits of
the last byte it left, and may fault or fail.

`CarefulHcrc` excludes applications that hit the defect of the header checksum listed
below; everything else in the header is reached. `Trailing` bytes, members that are corrupt, cut short, or
ask for a dictionary are all given to each user. `Spoiled`, `BothRanOut`, `FullBeforeEnd` and `Trailing` name
the exceptions of the properties; each is a defect listed below or a failure of the accelerator.

### DdeList and GunzipFile

`DdeList` is the list of buffers a job reads or writes: how `nx_append_dde` turns a single
direct entry into a list of several, the addresses the accelerator then visits, the pages touched
before a job. `GunzipFile` has memory as numbers, two rings in it, and the loop of
`decompress_file`: `read`, `write`, `decomp`, `submit`, `finish`. The history of a job lies in the
output ring in one piece or two, with the rounding to quad words; the estimate of the source
comes from the ratio of the job before. The accelerator may fault (the job is given once more as it is, then with half of
the source, `RetryMax` times in all), lack space, end with an error or with `ERR_NX_OK` (`odd`).

Output goes through stdio: up to `StdioSz` bytes of it reach the file only at `fclose` (`Close`), whose failure the program does not
notice. `lost` is what did not reach it; `WritesPlain` says that what is in the file is right, and that with an exit status of zero nothing
but that is missing. A header's name is one item, short or longer than `gzfname[1024]` (the rest of such a run is undefined and not
followed); the six bytes it ignores may end in the end of the file, which goes unnoticed.

`GunzipAssumption` is what the buffer sizes of the program satisfy, and what `Decompresses`
needs: the estimate gives the first job at least a byte (`3 * TargetMax >= 4 * Ratio`) and never so
much that the trailer could be missing in `fifo_in`; two bytes of input always fit the
target; a halved job keeps the history and as much again.

## The runs

| Run | Instance | What it shows |
|---|---|---|
| `run_job` | 2 threads, one credit, timeout of 3 units, PowerVM, any number of windows one after the other | `PasteAddressMapped`; refinement of `SharedWindow`, so no window leaks and none is closed by a thread that did not try it; `ReturnsWithWindow`: a call returns as long as the handle keeps its window |
| `run_job_timeout` | same, timeout 2 | finding: a call may never return, timeout or not (`AlwaysReturns` fails) |
| `device` | PowerVM, 2 credits, 3 clients, 3 handles, a process that shares handles (each once more) or one that does not | `NoDangling`, and `CallsReturn`: opens and closes come back, retries for credits included |
| `device_bare` | bare metal, 3 processes of 2 clients, one of which does not share | `OpenCntCoversUsers`, `NotInherited` over fork and exit; `NoIdleOrphan`: a handle without streams is the saved one or was leaked by an Init |
| `nx_map` | 3 keys, 2 of them colliding, table of 2 slots growing to 8 or failing to | refinement of `StreamMap`, the reads outside the lock included |
| `process` | 353 ways to start up; a deflating and an inflating stream; copies of up to 4 jobs | `ServedAsDocumented`: limits and engines are the documented ones, but for the exceptions below; `NeverAborts`, `StatesLive`, `OneEngine` in every mode; `SumsRight`: checksums agree with their definition for each alignment, byte order, cut and combination, also through `nx_copy` |
| `deflate_users` | 3 units of input, rooms of 0 to 3 bytes, raw, zlib and gzip; destinations of 0 to 12 bytes; a file | `Decodable`, `EndIsEnd`, `FlushDelivers`, `CompressRight`, `GzFileWhole`, `FinishEnds` |
| `deflate_window` | buffer of 12 bytes, window of 4, history or none, dictionaries of 3 and 6 bytes | `JobsContinue`: every job gets the next input after the right history; `FullHistory`: none is lost (with a small threshold) |
| `dht_cache` | 3 slots, 2 built-in tables, 5 kinds of counts with 4 keys to cache, a budget of 2 jobs | `UniqueKeys`, `LastUsedIntact`, `VictimUnused`, and `LookupReturns`: the sweep ends |
| `dht_gen` | steep and gapped counts over up to 7 symbols, depth 4, repeats cut short | `CodesBest`: a complete code, no longer than any other under the limit; `ReadBack`; `BitsBounded`; `Finishes` |
| `inflate_users` | 11 streams, window of 4, rooms of 0, 1, 3, destinations of 0 to 8, calls, `uncompress2`, `gzread` | `JobsResume`, `OutputRight`, `NoFalseError`, `EndIsEnd`, `UncompressRight`, `GzreadRight`, `Completes` |
| `gunzip_file` | all files of up to 5 items of 4 kinds, one of 9 items, their prefixes and corruptions; rings of 7 and 14 bytes | `JobsResume`, `WritesPlain`, `Decompresses` |

Deadlock is checked in the runs of `NxRunJob`, `NxMap` and `GunzipFile`. The others say
`CHECK_DEADLOCK FALSE`: processes may all exit, a faulted stream, an
application out of input, a failed assertion or a finished generator stops.

`AlwaysDecodable`, `HistoryBeforeCurrent`, `AssertionHolds`, `ZeroOnlyIfJobDone`,
`SettingsReachEngine`, `IncompleteDetected` and `BufErrorMeansNoRoom` state what comments, samples or zlib.h say
and the code does not do. They are in no run, to keep to one failing run; adding one to the cfg of its
module shows the counterexample. So do these configurations, which are in no run either:

| `tlc -config` | Module | Fails |
|---|---|---|
| `NxRunJobLivelock.cfg` | `MCNxRunJob` | `ReturnsThoughReplaced`: the one way in which `AlwaysReturns` fails |
| `NxRunJobSpin.cfg` | `MCNxRunJob` | `ReturnsThoughGivenUp`: the other |
| `NxDeviceExit.cfg` | `MCNxDevice` | `SavedUnderMutex`: the destructor |
| `NxProcessErrno.cfg` | `MCNxProcess` | `HwMissesOnPowerVMOnly`: a stale errno |
| `NxProcessBufferSize.cfg` | `MCNxProcess` | `BufferSizeAsDocumented`: pages of 4 KiB |
| `DeflateWindowCorrupt.cfg` | `MCDeflateWindow` | `JobsContinue` with a large threshold |
| `DeflateWindowStall.cfg` | `MCDeflateWindow` | `SmallInputTaken` with a large threshold |

Each module has a type invariant `TypeOK`. It is proved for `NxRunJob`, `NxDevice`, `NxMap`,
`DeflateWindow`, `DhtCache`, `StreamSwitch` and `InflateStream`, and for the others TLC checks it when it is added to the cfg; it was found
to hold in the instances of all runs.

### Why the bounds are enough

- `NxRunJob`: two threads give every pair of reader, writer and waiter; three names of windows are one more than
  two threads can remember, so there is always a new one and a thread can hold a stale generation; with one credit, for which
  others compete, a reopen fails or succeeds, and the test of the credits (342) always finds few; three units reach each of the backoffs 1
  and 2, a wait that lands on the timeout and one that passes it. The safety
  properties hold for all values by proof.
- `NxDevice`: three handles allow an old, a saved and a new one; reuse at most
  once makes the saved handle be replaced at the second open; with two credits and
  three clients the credits run out while one is asked for. Three processes are a parent, a child
  and one that competes. The safety properties hold for all values by proof.
- `NxMap`: with `MAP_INIT_SIZE` 2 a growth comes with the second put, and
  another later; two equal hashes make a chain, the third key lands in it; beyond
  eight slots `calloc` fails. The refinement holds for all values by proof.
- `NxProcess`: the set-ups differ in one or two settings from an ordinary
  PowerVM process, since a setting meets at most one other (a mode the two of the other source, a
  delay the threshold); each text kind (small, large, with each suffix, not a number) is
  given to each setting. Streams do not interact but through the allocator, so one of each
  kind covers both interfaces. Sums: 34 bytes are twice the 16 of a vector block and more than
  the `NMAX` of the instance (16), with a rest; addresses 0, 1, 3, 14 leave each alignment loop with
  no, one and several bytes. `UINT64_MAX` is the largest integer of TLC, `MaxItems` and
  `MaxJobLen` bound the lines of the file and the jobs of a copy.
- `DeflateUsers`: headers, trailers and flush blocks have two bytes, so with up
  to three bytes of room they are cut at each place or fit. Three units of
  input allow something cached, a partial job and a rest. `Threshold = 1` has both
  cached and direct input. Destinations of 4, 7 and 12 bytes end in a header, in a
  block, and after the trailer. `BufSize = 2` is less than a job of 3 and than some rooms.
- `DeflateWindow`: the code shifts the buffer when it is more than half full (6 of 12), which
  11 places pass twice; dictionaries of 3 and 6 bytes are shorter and longer than the
  window of 4; quad words of two bytes make the rounding of the history visible; a threshold of 2 beside a
  history of 4 just fits the half, one of 6 (in the two failing configurations) is the half. Both
  properties hold for all other values by proof, for thresholds that leave room for the history.
- `DhtCache`: four keys for three slots make the sweep start with every slot used, some
  used, or none; three slots tell the next slot from the last one; a budget of two
  jobs can be undercut, met and passed. `UniqueKeys`, `LastUsedIntact` and
  `VictimUnused` hold for all values by proof.
- `DhtGen`: counts of 1, 9, 27 make trees deeper than 4, so the limit is lowered once
  or more; repeats of 2-3, 2 and 3-4 run out within the lengths of seven
  symbols, so each end of a run is taken. `BitsBounded` holds for all values by proof.
- `InflateUsers`: bytes of two bits end jobs in the middle of a byte; members of 3 or 4
  items have one or two blocks, matches that reach behind the window, and one item that fills
  the target; rooms of 0, 1 and 3 with output of up to 11 use `fifo_out` with and without overflow.
  Destinations of 0 to 8 are shorter than, as long as, and longer than the output of 1 to 8 bytes; `Late` has output
  that fills one of exactly its size before the end of the last block. All six invariants hold for all values by proof.
- `GunzipFile`: rings of 7 and 14 bytes wrap after a few items; pages of 6 bytes put a list over several pages; `fclose` may
  lose up to `StdioSz = 3` bytes, less and more than a file has.

The counters bounded by a guard are credits
(`MaxCredits`), addresses (`Handles`), table size (`MaxSize`, where `calloc` fails),
input and room (`N`, `MaxOut`), places of a stream (`MaxPlace`), dictionaries in a row
(`MaxRow`), resets (`MaxResets`), faults of a call (`MaxFaults`). `wait_count` and `ticks_total` are
not: the first is kept modulo 3, as it is used, the second is limited by the timeout test.

### Fairness

- `run_job`, `run_job_timeout`: strong fairness of each thread's steps together: a thread that can
  run again and again runs, and one waiting for the `rwlock` gets it in the end
  (glibc's default lock does not promise this to writers; on hardware the readers
  pause between pastes). Nothing is assumed of callers, of the accelerator, or of
  other users of credits. As long as the window stays the same the timeouts of the code do; when it is
  replaced, or given up, they do not.
- `device`: strong fairness of the steps inside the library of each client: a thread gets
  the mutex in the end. Nothing makes an application open or close. A process that has begun to exit
  exits (weak fairness).
- `deflate_users`: weak fairness of the steps within a call and of the library's own
  loops, and of the application's next call with `Z_FINISH` and some room once it has asked for
  `Z_FINISH`; zlib.h tells it to go on until `Z_STREAM_END`.
- `dht_cache`, `dht_gen`: weak fairness of the loop that runs in the calling thread and
  waits for nobody.
- `inflate_users`: weak fairness of the steps within a call and of the library's loops.
  Of the application: strong fairness of calls that give input and room, and of giving the dictionary it
  is asked for, weak fairness of `inflateGetHeader`, which a careful one calls. Faults are
  bounded within a call, as the code gives up after some.
- `gunzip_file`: weak fairness of the program and the accelerator together; faults are
  bounded by `retry_max`.

## What is proved

All proofs are in `NxRunJob_proofs`, `NxDevice_proofs`, `NxMap_proofs`, `DeflateWindow_proofs`, `DhtCache_proofs`,
`DhtGen_proofs`, `StreamSwitch_proofs` and `InflateStream_proofs`; they use only the assumptions on constants stated in the
modules (`RJAssumption`, `DevAssumption`, `MapAssumption`, `WindowAssumption`, `DhtAssumption`, `RepeatAssumption`,
`CountsAssumption`, `SwitchAssumption`, `HeaderAssumption`, `InflateAssumption`, `UsersAssumption`), so any number of threads, clients, processes, windows, credits, streams,
slots and tables, any hash function, any sizes of buffers, jobs, dictionaries and input, any compressed stream, any
budget, alphabets and counts.

`NxRunJob_proofs`: the inductive invariant is `TypeOK` with

- `GenerationInv`: all windows are closed but the one of the handle's generation;
- `LockInv`: readers are the threads at the paste, the writer the thread at the
  reopen, and they exclude each other;
- `HandleInv`: the handle points to the last window or to none, and to a closed one
  only while a writer replaces it;
- `TriedInv`: a thread's `window_generation` names the window it pasted into.

None of the properties is inductive without them: that the address is mapped
needs the exclusion of readers and writer, and that a stale thread leaves the new
window alone needs generations and windows to correspond. From it follow
`TypeCorrect`, `PasteSafe`, `NoLeak`, `ClosesOwn`, and `Refinement`:
every step of `NxRunJob` is a step of `SharedWindow` or a stutter. That the handle points to the window of its generation, or to none,
is `HandleInv`; that a name is not used again as long as a thread remembers it is the guard of `NextGeneration`.

`NxDevice_proofs`: the inductive invariant adds to the type invariant

- `LocalsInv`, `MutexInv`: a client's place determines which of its pointers are set and
  who holds the mutex (with sharing), and that nothing is saved (without);
- `OpeningInv`: a handle being opened is known to its opener only;
- `OwnerInv`: an unshared handle has one owner;
- `NoDangling` and `OpenCntCoversUsers`, which depend on each other: a free is safe
  because the count covers the users, and the count stays meaningful because the
  pointers are. Both speak of processes that have not begun to exit: the destructor frees without a look at the count.

The proof has two halves: a client moving (`PlaceStep`) and memory changing
(`MemoryStep`); each action is one step of both. `max_vas_reuse_count` may differ from process to process,
and a child has that of its parent. Results: `TypeCorrect`,
`HandlesValid`, `UsersCounted`, `SavedGuarded`, and, from a second invariant about who
made a handle, `ForkSafe`, which assumes `~RecyclePids`. `NothingOrphaned` (`NoIdleOrphan`) assumes
`~PowerVM`, since with low credits the code does lose a handle (see below); its invariant `OrphanInv` says that a handle with count zero
is the saved one or one that a thread is just opening or closing, and `ExactInv` that the count is no more than the
streams that hold the handle, unless an Init has leaked it. `SavedGuarded` is `SavedUnderMutexUntilExit`: the destructor is the one
step that changes the saved handle without the mutex.

`NxMap_proofs`: the inductive invariant adds to the type invariant

- `LockInv`: who grows the table has the lock, `array` is NULL only while it restores, and sizes stay below the
  limit;
- `TableInv`: a key has at most one slot, and `nb_entries`, which counts rehashed entries twice, counts no
  slot too few: so there is always a free slot for `insert_entry` to stop at;
- `PutInv`: what is being put is not in the table yet;
- `ScanInv`: an index read before the lock is in the array, except that of a disturbed operation.

Every operation then has a lemma that says what it does to the map as a set of pairs: `insert_entry` adds one, growth
changes nothing, because `rehash_entries` inserts each entry once (induction over the slots of the old array, written with
the least element of a set of numbers, as the induction theorems of the library cannot be used). The order of slots, and so the
holes in a chain, does not matter to it: scans go round the whole array. `Implements` is the refinement of
`StreamMap`, `TypeCorrect` the types.

`DeflateWindow_proofs`: the inductive invariant adds to the type invariant

- `PlacesInv`: `cur_in` is in the first half of `fifo_in` but for the dictionaries given in a row, and cached
  input ends in the buffer;
- `TakenInv`: what was taken from the application is in the window or cached;
- `WindowInv`, for a `SmallThreshold`: cached input ends in the first half; `LengthsInv`: `history_len` is at most the level's, and
  as long as what came before allows (until a reset or a failed dictionary); `BytesInv`: the bytes before `cur_in` are the
  last of the stream in order, those from `cur_in` on the next ones;
- `JobInv`: what a job was given is still there when it ends.

`BytesInv` is what a job's properties need, and it survives a shift of the buffer only by `LengthsInv` and `PlacesInv`
together. `WindowAssumption` says of the sizes what the code and its configuration enforce: the threshold and the longest dictionary
are at most half the buffer, the longest history is whole quad words and shorter than a job. From it follow, for every threshold,
`TypeCorrect` and `NothingOutOfBounds` (no copy passes the end of `fifo_in`: even when the free room wraps, what is taken is no more
than the threshold). `JobsGoOn` (`JobsContinue`), `HistoryInFull` (`FullHistory`) and `SmallInputIsTaken` (`SmallInputTaken`) have
`SmallThreshold` as a hypothesis, since they are false without it (see below); 32 KiB of history and 8 KiB in a half of 64 KiB satisfy it.

`DhtCache_proofs`: the inductive invariant adds to the type invariant, `UniqueKeys` and
`LastUsedIntact`

- `SweepMisses`: while the sweep runs no table has the key about to be inserted; the
  counts are read again only when the slot is filled, after generation has
  changed them in the command block, so this ties the search to the insertion;
- `BudgetCovers`: `nbytes_accumulated`, together with the last job once its bytes are
  in the command block, covers what the table has coded. It fails after a stored
  block, and need not hold then: the next lookup gives the table up;
- `FilledInOrder`: before all slots are used, the used ones are those before the hand.

Type correctness needs `LastUsedIntact` (only a valid slot may be marked as
accessed). Results: `TypeCorrect`, `KeysAreUnique`, `LastIsIntact`, `ReuseIsBounded` and
`FillsBeforeEvicting`. The other half of `VictimUnused`, second chance, rests on

- `SweepInv`: from where the sweep began to where the hand is, it has passed accessed
  slots only and taken their bits, and when the hand has come round once, that is every
  slot. So what it overwrites was not in use, or everything was.

The result is `EvictsUnused`. That the sweep ends (`LookupReturns`) stays with TLC.

`DhtGen_proofs`: a generated table never outgrows the buffer of the command
block. Line 632 of nx_dht.c and nxu.h rely on 288 bytes being enough, and no assertion checks it. The
argument is amortised: a run of equal lengths that waits in the coder has not been written yet, and
what it costs when it is written is at most 7 bits for each of its lengths. The invariant
`GInv` is

- `SizesInv`: alphabets, the number of lengths, the state of the coder and its count;
- `TreesInv`: the depths of both trees are between 0 and `MaxDepth` once made;
- `CostInv`: bits written so far are at most the header's 71 and 7 for each length taken, the waiting
  run not counted.

`BitsBounded` follows (`TableFits`); with 286 and 30 symbols, 71 + 7 * 316 = 2283 bits, which fit 286 bytes.

`StreamSwitch_proofs`: any number of streams, deflating or inflating, whatever start-up has found (only that
no stream is used before the library is loaded is taken from `Startup`; the proof does not say which engines there are). The
inductive invariant adds to the type invariant, for each stream,

- `BothInv` (mode `GZIP_AUTO`): the entry and the states point at each other and the loaded state is one of
  them: this makes the assertions of `validate_stream_map_entry` true, which look at one side or the other depending on what
  is loaded. Nothing is said of when the NX state is missing;
- `OneInv` (the other modes): no entry, the one state of the mode, which cannot be left;
- `LoadedInv`: the engine that has seen data is the loaded one, and an NX state that has is no longer
  `switchable`. Without it `OneEngine` does not follow: it is a reset that makes a state switchable again, and it
  forgets the data at the same time. It excepts the `mixed` streams, those whose reset has failed half-way;
- `ClosedInv`: no entry and, unless its Init failed and leaked, no state.

A step of one stream leaves the others' parts alone (`Together`); each action has a lemma that says what it does to
its stream. Results: `TypeCorrect`, `Aborts` (`NeverAborts`: a process dies of a missing NX state only on a machine without credits, where a stale
`errno` has left it), `Lives` (`StatesLive`) and `Engines` (`OneEngine`: the engine changes in mid-stream only by a reset that fails).

`InflateStream_proofs`: the inductive invariant adds to the type invariant and `OutputRight`

- `HeaderInv`: in each state of the header machine, how many bytes of the header were taken, which the code
  does not count: they follow from the state, `inf_held` and `length`. So the data begins at the right byte however
  the header was cut;
- `FreshInv`: before `inflate` nothing is cached, decoded or in `fifo_out`;
- `CachedInv`: the bytes in `fifo_in` are those before `next_in`;
- `HistoryInv`: what was decoded lies around `cur_out` in `fifo_out`, the last window of it before and what was
  not given yet behind, also after a copy to the start and after output that went to the caller and back
  into the window (`Appended`, `Spanning`);
- `FeedInv`: the last item ends in the byte before the next source byte, `in_subc` bits before its end. This is
  what makes a job resume at the right bit;
- `DictInv`: a dictionary, which makes the code forget `in_subc`, never comes while a byte is half used. It is
  the subtle part: a raw stream whose first job ends within its first byte could be given a dictionary,
  but a call in which that happened goes on or fails (`StillAtFirstByte`), since the first byte holds no output (`ItemsOf`);
- `JobInv`, `EndInv`: the size of source and target of the job under way; of the trailer what was taken, and what
  of it waits in `fifo_in`.

`TypeOK` itself has content here: that output which overflows the caller's buffer fits in `fifo_out` needs that a job
produces no more than its target, and that the target was limited by what is free behind `cur_out`, which is in the first
half of the buffer (`LenOut >= 4 * Window`). Results, for an application and for `nx_uncompress2` and `__gzread`
alike: `TypeCorrect`, `JobsResumed` (`JobsResume`), `OutputIsRight` (`OutputRight`) and `EndsAtEnd` (`EndIsEnd`).
`InflateAssumption` says of the streams only what the format does: items have bits and end in order (`ItemsOf`), and the
first byte has no room for more than the header of a block. `HeaderAssumption`: a name that is there has its
terminating zero, only zlib has dictionary ids, and the field that is corrupt is one of the header. `NULL` is no buffer.

What the library answers needs more, a second inductive invariant beside the first (`AnswersInv`):

- `TestedInv`, `NameInv`, `SumsInv`: a field of the header whose state is past was right, so an error state means a
  bad stream or another format; a name is left with its last byte; the header checksum covers the bytes taken so far;
- `CrcInv`, `TrailerInv`, `BodyInv`: the checksum is that of the output decoded so far, what was taken of the
  trailer is the trailer in order, and a corrupt body is never decoded to the end;
- `StartInv`, `CacheRoom`: what the call began with, and that what is put into `fifo_in` finds room;
- `ReturnInv`, `OpenInv`: about every return why it is justified. `Z_BUF_ERROR` needs that there was no room and nothing was
  put out, `Z_OK` that something was taken, or room or input used up.

`ErrorsAreTrue` (`NoFalseError`) follows, and from both invariants what the library's own users make of the answers. Theirs
(`UsersRight`) says for each place of the loop of `nx_uncompress2` or `__gzread` how the counters add up while a call works
(`Uncompressing`: given, left and delivered make the goal; `Gzreading`: delivered and room make `len`, and each call but the
one at the end of the file has input and room) and what the code means once it is back (`Uncompressed`,
`GzreadOver`); and `Detected`, that the format found is the stream's and nothing sets a dictionary. The steps in between are `CallKeeps`
(a call leaves the sum of delivered and room alone), `EndIsWhole` (`Z_STREAM_END` at the true end means a whole and good
stream), `EndsHow` (the other `Z_STREAM_END` needs nothing left on either side) and `BlamedRightly`. Results: `UncompressIsRight`
(`UncompressRight`) and `GzreadIsRight` (`GzreadRight`).

These three theorems have two hypotheses. `CarefulHcrc`: an application avoids the defect of the gzip header checksum
listed below, and `nx_uncompress2` and `__gzread`, which set no `gzhead`, are given no stream with one. `HeadersFit`:
`cache_threshold` is at least what the accelerator takes as one piece. The longest is the header of a dynamic block,
about 300 bytes; the threshold is 8 KB unless the configuration sets it (nx_zlib.c:1297), and a smaller one is a defect listed below.
The instance of `inflate_users` satisfies both; TLC evaluates `HeadersFit` there.

TLC alone checks: `ReturnsWithWindow`, `CallsReturn`, `FinishEnds`, `LookupReturns`, `Finishes`,
`Completes`, `Decompresses` (liveness under fairness cannot be proved with this prover, nor can ENABLED);
`CodesBest` and `ReadBack`, and what `Checksums` computes (induction over data is out of the
prover's reach); and everything about `Startup` (`ServedAsDocumented` is about particular settings and numbers),
`DeflateStream`, the answers of its users (`CompressRight`, `GzFileWhole`) and `GunzipFile`. For `DeflateStream` the
reader `Read` is a fold over the output, so `Decodable` would need induction over data.

## What the code does otherwise

Found while modelling. With a run that shows it (`run_job_timeout`; TLC stops at one of the two, each has a configuration of its own):

- *A window is replaced for ever* (gzip_vas.c:399, `ReturnsThoughReplaced`). A new window sets `ticks_total` of the call back to
  zero. While `used > total - 1`, which the last credit in use is enough for, and pastes are refused, the call takes its window
  for suspended after 31 ms, closes it, opens the next and starts counting anew.
- *A call without window spins* (gzip_vas.c:356, `ReturnsThoughGivenUp`). Once a handle's
  window has been given up, a later call never sets `window_generation`, so
  the generations differ for ever; it loops without counting ticks.

Without a run of their own (the definition of the model that is violated or kept away from it is named
where there is one).

Job submission and handles:

- gzip_vas.c:270: after the CSB timeout `nx_wait_for_csb` returns while the accelerator
  still owns the command block; the block is submitted again, and the late completion
  of the old job is taken for the new one's (`ZeroOnlyIfJobDone` of `NxRunJob` fails with
  two polls of the CSB). nx_zlib.c:464 says "0 if successful".
- nx_zlib.c:665: closing an old handle while credits are low sets `saved_nx_devp` to
  NULL; if the saved handle was idle it is never freed (`NoIdleOrphan` fails with
  `PowerVM = TRUE` and four credits).
- nx_deflate.c:638, 679 and their like in nx_inflate.c: an Init that fails
  after `nx_open` does not close (`OpenCntCoversUsers` with `=` for `>=` fails): the handle, and its window, are never freed
  (`leaked`, the exception of `NoIdleOrphan`).
- nx_zlib.c:521: the credits are checked, and the window opened later; nothing is
  reserved.
- nx_zlib.c:533: a process that forks while another of its threads holds
  `saved_nx_devp_mutex` leaves it locked in the child.
- nx_zlib.c:537: with `RecyclePids = TRUE` `NotInherited` fails: a child whose pid
  was its ancestor's takes the inherited handle for its own.
- nx_zlib.c:687: `nx_close_all`, which the destructor calls, frees and forgets the saved handle without the mutex and whatever its
  count (`SavedUnderMutex`). The comment at 109 says "In all cases, access to the variables controlling the saved handle are
  protected by a mutex to ensure mutual exclusion between threads", the destructor among the cases.
- nx_map.c:187: a lookup concurrent with a failed growth may miss its key; the
  abstract `StreamMap` therefore allows it (`MMiss`).
- nx_map.c:133, 218: such a lookup may have taken its start index from the doubled size, behind the end of the array, and reads
  there. The model has a miss; if a copy of the key lies there (an old array is never freed), the lookup returns its state and
  a removal clears that memory.

Start-up:

- nx_zlib.c:1116: `per_job_len` is set before `nx_enumerate_engines` (1220) finds out the
  platform. `virtualization` is still zero, which is BAREMETAL, so a PowerVM kernel without the
  limit in sysfs gets 64 MiB. doc/Addendum-NX-GZIP-for-PowerVM.txt:158: "PowerVM also enforces
  hard limits on nx-gzip data lengths, 1MB".
- nx_zlib.c:1260: the lower bound of `def_buf_size` is the page size; with pages of 4 KiB less than 64 KiB is accepted
  (`BufferSizeAsDocumented`, the first exception of `LimitsAsDocumented`). test/nx-zlib.conf:12 says "deflate buffer size: 64KiB to 8MiB",
  the comment at 1255 "permit 64KB to 8MB".
- nx_zlib.c:1262-1320: a number of 2^32 or more for a field of 32 bits is cut without a word; 4 GiB is 0.
- nx_zlib.c:1265: an invalid strategy "use default value" becomes 0; the default is 1 (1129).
- The default `cache_threshold` is not kept under the page size, one from the file is.
- `nx_selector` of the file overrules `NX_GZIP_COMP_MODE` of the environment; the comment at 1142 orders
  them otherwise.
- nx_zlib.c:1104: the comment derives 3000 for `max_vas_reuse_count`; the constant is 10000.
- sw_zlib.c never looks up `inflateSyncPoint` and `compressBound`, so their wrappers always answer
  `Z_STREAM_ERROR` in software mode.
- Without an accelerator `nx_hw_init` returns at 1226: what follows is not read, `stream_map` stays NULL, and in
  `GZIP_AUTO` mode `deflateInit` fails although zlib is there.

Two engines per stream and copies:

- nx_deflate.c:2291, nx_inflate.c:2027: any `Z_STREAM_ERROR` with `errno` `EAGAIN` is taken for "lack of credits on POWERVM", but
  arguments that are refused (nx_deflate.c:609-629, 677-679) set no `errno`: after an earlier `EAGAIN` a stream on bare metal goes on
  without an NX state, and validate_stream_map_entry (nx_zlib.h:438) reads through the null pointer. nx_zlib.h:436 counts on
  PowerVM as the only case (`HwMissesOnPowerVMOnly`, the exception of `NeverAborts`).
- nx_inflate.c:2177-2180, 2073-2076, nx_deflate.c:2341-2344: a reset loads zlib's state before it calls zlib, and returns when
  that fails; the stream then goes on in the other engine, in mid-stream. `inflateReset2` with a windowBits zlib takes and the NX refuses
  (16, 32) leaves the NX state loaded in the same way (`mixed`, the exception of `OneEngine`).
- `deflateEnd` and `inflateEnd` leave `strm->state` as it is, pointing to what was freed.
- nx_inflate.c:287, nx_deflate.c:1646: a dictionary given before the switch to zlib does not reach
  zlib; nx_inflate.c:2198, `inflateReset2`: a missing NX state is made with
  the old windowBits (`SettingsReachEngine`).
- nx_deflate.c:2167: `nx_deflateCopy` shares `nxdevp` without counting it, as does `nx_inflateCopy`: the
  handle dangles when one of the two ends.
- nx_deflate.c:2576 and nx_inflate.c: a copy has no entry in the map, so its
  End fails the assertion at nx_zlib.h:427 in `GZIP_AUTO` mode.
- nx_deflate.c:2192: `nx_deflateCopy` copies `nxcmdp`, `ddl_in` and `ddl_out`, which are only
  set by Init and Reset and go on pointing into the original `nx_stream`: the copy submits
  the original's command block, and uses freed memory once the original has ended.
- nx_deflate.c:2189: the pointers of the copy are cleared before the `memcpy` that
  sets them again, so when `fifo_out` cannot be allocated the error path (2221-2230) frees
  the original's `fifo_in`; `nx_inflateCopy` does the like with the dictionary.
- nx_zlib.c:1437: a copy that faults is given again only if `ticks_total` is *past* the timeout, which it is not
  at first, so the first page fault fails the copy (`CopyFails`, `SetDictionaryFails`).

Deflate:

- nx_deflate.c:1792: `avail_out` is read once before the loop over stored blocks; a second stored
  block that begins with five bytes of room or fewer has its header rewritten past the caller's
  buffer while the copy in `fifo_out` keeps length zero (`AlwaysDecodable`).
- nx_deflate.c:162: when a gzip header exactly fills the first buffer,
  `set_bfinal` sets the bit of a byte behind it, and the block is not final
  (`EndIsEnd` without `~spoiled`). The comment at 1121 says "When z_finish is
  called, the last compressed block's bfinal bit is set".
- nx_deflate.c:1768: with `Z_PARTIAL_FLUSH` the loop over stored blocks goes on while
  a withheld byte waits in `fifo_out`; the next block is written before it.
- nx_deflate.c:1693: input after the trailer is accepted (only `NX_BFINAL_ST` is
  tested).
- nx_deflate.c:491-534: Reset clears `cur_in` and not `history_len`, so the assertion
  at 843 fails at the next block of a stream that had history (`HistoryBeforeCurrent`). The comment at
  824 says "the history (s->history_len bytes in fifo_in before s->cur_in)".
- nx_deflate.c:2086-2098: `deflateSetDictionary` moves `cur_in` without bound: three dictionaries of 32 KB in a
  row run past `fifo_in` (`MaxRow`). One that fails half-way has already overwritten the history (`torn`).
- nx_zlib.c:1297: a `cache_threshold` up to the page size is accepted; with pages of 64 KiB that is half of `fifo_in`. Once it and the
  history do not fit the half together, `cache_input` takes nothing and returns `Z_OK`, call after call (nx_deflate.c:799,
  `SmallInputTaken`); or it moves `max_history_len` bytes where there are fewer, from in front of `fifo_in` (794), and sets `cur_in` behind
  them, so that the next jobs have garbage for history, and a later shift (1020-1028) drops cached input (`JobsContinue`).
  The comment at 826 says "the history (s->history_len bytes in fifo_in before s->cur_in)"; test/nx-zlib.conf:34 names no upper bound.
- A failed allocation in `nx_compress_block_update_offsets` is ignored: the job is not accounted for, and its input
  compressed again (`JobNoMemory`).
- nx_dht.c:530: "this might be an error producing a dht with no lzcounts", and
  `assert(0)`. It happens: with a dictionary, input under 256 bytes (nx_deflate.c:1801)
  is coded with the fixed table and without counts; the next larger piece asks for
  `dht_search_req`, the last used table is still set, and the process aborts
  (`AssertionHolds` of `DhtCache`: default table, fixed block, search).
- nx_dhtgen.c: the library fills every count, so the codes 17 and 18 never occur in its tables.
  nx_dht_decomp.c, which the library does not link, leaves `ll_bl_count[0]` uninitialised.

Inflate:

- nx_inflate.c:1128: a call that offers nothing and finds nothing cached answers `Z_STREAM_END` in the middle of
  a stream. Through it `nx_uncompress2` with `*destLen` 0 takes a truncated source for whole, although
  nx_uncompr.c:38 has its byte "for detection of incomplete stream when *destLen == 0"
  (`IncompleteDetected`), and a source cut short that just fills `dest` is answered with `Z_OK` (`BothRanOut`).
- nx_inflate.c:1138: when `avail_out` is filled by the last byte of output before the end of the last block
  was decoded (the length of the source of a job is an estimate, 1232-1260), the next call, without room, answers
  `Z_BUF_ERROR`. So `nx_uncompress2` refuses a whole and good stream whose output exactly fits `dest`. samples/nxlite.c:716
  says "uncompress returns Z_OK if success" and "Z_BUF_ERROR if there was not enough room in the output buffer"
  (`BufErrorMeansNoRoom` fails with the stream `Late` and a destination of 1; `FullBeforeEnd` is the exception of `UncompressRight`).
- nx_zlib.c:1297: a `cache_threshold` below the length of a dynamic block's header (about 300 bytes) is accepted; when
  such a header comes in small pieces, `fifo_in` is full, nothing can be decoded or cached, and the call answers
  `Z_BUF_ERROR` with input and room (`NoFalseError` without `HeadersFit`).
- nx_inflate.c:592-613: the checksum of a gzip header is compared with one that covers its own bytes if these come
  in two calls, is written through `gzhead` even when that is NULL, and `hcrc16` is not
  reset (`CarefulHcrc`).
- A dictionary is used for the first job only (about 1699): a match of a later job that reaches into it is wrong or
  refused (`fault = "garbled"`).
- nx_inflate.c:1143-1152: halving the source for want of space may go on until the count of loops ends the call with
  `Z_STREAM_ERROR`, "there is a bug in this code" (`fault = "loops"`).
- Page faults for too long, and timeouts of jobs, become `Z_DATA_ERROR` on good data; a wrong trailer
  becomes `Z_STREAM_ERROR`.
- Bytes behind the stream are cached in `fifo_in` and dropped by a reset; `nx_uncompress2` counts
  them in `*sourceLen`.
- The cases at 709-728 break out of the switch and start over; nothing sets their states.

gz files, compress and uncompress:

- nx_gzlib.c:236-260: `__gzread` never returns when bytes follow the stream: `inflate` takes none of them and answers
  `Z_STREAM_END` (`Trailing`). An error of `read` becomes the length of the input. After an error
  0 is returned although bytes were delivered.
- `is_deflate` is global: `__gzclose` of a file after another was opened for reading does not finish it. Short
  writes are ignored, those of `__gzclose` hidden; and it tries for ever when jobs fail for ever.
- In `GZIP_AUTO` mode `compress2` and `uncompress2` fall back to zlib after `nx_compress2` has overwritten
  `*destLen`.
- `uncompress2` of one byte of data with `*destLen` 0 answers `Z_OK`.

gunzip_nx:

- Line 417: a comment in the header is neither refused nor skipped.
- A file cut short ends in the assertion of the source's length, or loops for ever at the end of the file.
- `ERR_NX_OK` leaves `is_final` unset (`odd`).
- Line 1176: the result of the `fclose` that writes the last of the output is ignored: the program says it has done well though
  its output is not all there (`lost`).
- Lines 265, 438: a name of 1024 bytes and more in a sound header is written past `gzfname`.
- Line 425: the six ignored bytes are compared with `EOF` as unsigned chars, so a file that ends in them is not noticed there.
- `nx_append_dde` of samples takes empty buffers with an address; its `nx_touch_pages_dde` touches too few
  pages of the last buffer (`total - buf_sz`); the copy in the library is right.

## Plan

Done: every component of the table above but the average delay. The modules with proofs are `NxRunJob`,
`NxDevice`, `NxMap`, `DeflateWindow`, `DhtCache`, `DhtGen`, `StreamSwitch` and `InflateStream`.

Next, in this order:

1. Copies of streams: two streams that share a command block and a handle, on top of `StreamSwitch`. Most
   properties would fail, as listed above; worth doing with the corrections.
2. Proofs: `JobsResume` of `GunzipFile`; then the stream of `DeflateStream`, once its reader is a function
   on prefixes instead of a fold.
3. The average delay: the moving average of all processes without a lock.

## Not modelled, and why

- Copies of streams (see the plan), `inflateSyncPoint`, `deflateParams`, `deflateTune`, `deflatePending`,
  `deflatePrime`, `deflateBound`, the fields of `deflateSetHeader`: forwarded, answered at once,
  or without state.
- The choice between NX and zlib in `compress2` and `uncompress2`: see above for what it does wrong.
- `nx_avg_delay`, statistics, the log: numbers of clock times, output.
- crc32_power.c and its constants: vector code, taken to compute the CRC of blocks of 16 bytes. The tables
  of nx_dht_builtin.c are data.
- The variant of `gunzip_nx` with `NX_MMAP`, which is not built by default; nxlite.c, nx_gzip.c and the other samples,
  tests and tools: programs that use the library or the device; read for what they expect of it.
- The headers inc_nx/nxu.h and its like: layouts of the command block.
- The accelerator, the kernel, the hypervisor, zlib: external; their outcomes are nondeterministic choices.
