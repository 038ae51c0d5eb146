# TLA+ models of the Kurma latency harnesses

This directory holds TLA+ specifications of the Python measurement scripts of
the Kurma repository (`src/python`), checked with TLC. The scripts measure
how long it takes for a change made at one site to become visible at another
site. They fall into three groups:

* **WAN write visibility.** `wan-test.py` is the producer: it writes files
  `000000 .. N-1` into a shared directory (NFS or Kurma). `wan-test-remote.py`
  is the detector: at the other site it polls the same directory until each
  file has its full size, takes its md5sum and prints a timestamp.
  `wan-test-remote-new.py` is a second version of the detector. The two
  processes share nothing but the replicated directory.
* **S3 delete visibility.** `makeobj.py` fills a bucket. `deleteWrite.py`
  deletes `testobj1..10` one every five seconds and logs the time of each
  delete. `verRead.py` reads each key in a loop until a read raises, and logs
  the time of that failure. All of these are in `AWS_latency/`.
* **Analysis.** `getstimediff.py` pairs the two logs line by line into
  millisecond samples (`diffdata`). `quartiles.py` appends
  `DATASIZE, p0, p25, p50, p75, max` of the samples to the ledger `cstick.dat`.

## Inventory

| part | source | state | operations | interacts with |
|---|---|---|---|---|
| WAN producer | `wan-test.py` `bench`, `_r` | loop index, file being written, printed lines | touch/dd (create, write chunks), md5sum, print, crash on a failing subprocess | the detector, only through the directory |
| WAN detector | `wan-test-remote.py` `bench`, `bytes` | loop index, printed lines | stat poll until the size equals `bytes()`, md5sum, print, crash on an OSError other than ENOENT | the producer, only through the directory |
| WAN detector, listdir variant | `wan-test-remote-new.py` | same as the detector | waits for the name in `listdir()`, then for a size of exactly 1048576; md5sum of the bare name; prints the name, not the digest | same |
| Replicated directory | not in this repository | per-site existence and content of each file | creation and chunks reach the other site later, chunks in any order | both WAN scripts |
| Object population | `makeobj.py` | the bucket | PUT `testobj1..30`, set ACL | the S3 readers |
| Deleter | `deleteWrite.py` | index, sleep deadline, `deltimes` log | delete, timestamp, sleep 5 s, purge the bucket | the reader, only through the bucket |
| Delete reader | `verRead.py` | index, `readtimes` log | GET until it raises (bare except), timestamp | the deleter, only through the bucket |
| Correlator | `getstimediff.py` | `diffdata` | strptime every line, pair lines `0..29`, `abs(timedelta.microseconds/1000)` | reads both logs; its output feeds the aggregator |
| Aggregator | `quartiles.py` | ledger `cstick.dat` | `np.percentile` at 0/25/50/75, plus max, appended | reads `diffdata` |
| Read-after-write readers | `readTest.py`, `readTest_ws.py`, `writeTest.py` | index, shared retry budget | GET until success, timestamp | makeobj's writes |
| Overwrite visibility | `verWrite.py`, `verRead_old.py` | the key's content | write q1, then q2; print each read | each other, through the bucket |
| AWS helper library | `KurmaAWSTestLib.py` | `user_profiles`, `has_incore_params` | `fetchArgs` option parsing, connections | every S3 script |
| NFS tests | `prototest/fstest.py` | mount state of `/mnt`, the files | mount/umount, create, rename, remove and persistence checks | the Kurma NFS server |
| RPC probes, statistics, log parsers | `testkurma.py`, `listdir.py`, `pe-file-stats.py`, `eatslogs.py` | none beyond locals | straight-line I/O | none |

**What is hard.** The producer and the detector, and the deleter and the
reader, are independent processes. They agree only through storage that
reorders and delays what it ships. The hazards are:

* a file whose last chunk arrived before an earlier one already has its final
  size (a torn read);
* the time printed by each side is read at a point that differs from the one
  the spec defines;
* the poll loops have no timeout;
* a crashed analysis step leaves the files of an earlier run in place, and
  the next step reads them (`diffdata`). TESTDIR of the WAN benchmark is
  never emptied either, and old files already have the full size;
* a bare `except` treats every error as the deletion;
* the analysis uses conversions that lose information: `str(datetime)`
  without the fraction on an exact second, and `timedelta.microseconds`
  without the seconds;
* fixed loop bounds (`range(0, 30)` over 10-line logs);
* a retry budget shared by all keys (`readTest.py`);
* the correlator reads the logs from paths the harness does not write to,
  so logs not moved by hand are an earlier run's;
* the delete experiment's final purge empties the bucket, so a rerun without
  `makeobj.py` logs every key as deleted at once;
* a test suite whose tests leave `/mnt` mounted when they fail (`fstest.py`);
* an accepted command line that leaves the keys unset (`fetchArgs`).

Every hazard is listed at its line in `PROJECT.json`.

## Modules

| module | models | state ↔ code |
|---|---|---|
| `WanHarness` | the three WAN scripts and the replication | `detector` (chosen in Init) says which detector script runs: `wan-test-remote.py` (`DetectorPoll`, `DetectorLog`) or `wan-test-remote-new.py` (`NewDetectorPoll`, `NewDetectorLog`). `incwd` says whether that script was started in TESTDIR, which decides whether its md5sum of a bare name works. `FixedChunks` is its literal 1048576. The producer is `ppc` (its position), `pi` (`i`), `pchunk` (dd's next write) and `plog` (stdout). The detector is `dpc`, `di` and `dlog`. Each site's copy of a file is its chunks, `ldata` and `rdata`. A file's size is the end of its highest chunk, and its md5sum is the set. `lcreated` says that this run's touch or dd has opened the file at the producer's site. `rcreated` says that this open, and dd's O_TRUNC, has reached the detector's site. `Leftover` says that TESTDIR still holds full-size files of an earlier run: `touch` keeps their data, and dd truncates them. `empty` is `--empty`, given alike to both scripts. |
| `WanVisibility` | the abstract promise of a visibility harness | `written` is the set of indices whose change (a file written, an object deleted) took effect. `seen` is the sequence of reported indices. A report names the next index, and only one already written. |
| `MCWanHarness` | the refinement `WanHarness` ⇒ `WanVisibility` | `written ← {f : WriteReturned(f)}`, `seen ← the idx column of dlog` |
| `S3DeleteHarness` | `deleteWrite.py`, `verRead.py` and the bucket | `stored` is the set of keys a GET still returns. `delpc`/`deli`/`wake`/`dellog` are the deleter. `rdpc`/`rj`/`rlog` are the reader. Timestamps are microseconds, `now*TickUs + j` with `j ∈ Jitter`. |
| `LatencyStats` | the conversions and reductions | `Parses` (the str/strptime round trip), `TimedeltaMicroseconds`, `DiffMs` (getstimediff.py line 30), `Percentile100` (np.percentile ×100), `QuartileRow` (processQuart) |
| `DeletePipeline` | the harness, then the correlator, then the aggregator, and the refinement `S3DeleteHarness` ⇒ `WanVisibility` | `cpc`, `diffexists` and `diffdata` belong to getstimediff.py; Init lets `diffdata` hold `PrevDiff`, left by an earlier run. `RunSamples` is what getstimediff.py computes from this run's logs. `qpc` and `ledger` belong to quartiles.py. `DelVis` maps deleted keys `1..N` to `written` and the lines of `readtimes` to `seen`. |
| `S3ReadAfterWrite` | `makeobj.py`, `readTest.py`, `readTest_ws.py` | `put` is the set of keys whose PUT returned. `visible` is the set a GET returns. `mpc`/`mi` are makeobj. `tpc`/`ti`/`tj`/`tlog` are readTest's `i`, `j` and "Read" lines. `spc`/`sj`/`si`/`slog` are the sweeps of readTest_ws. |
| `FsTest` | `fstest.py` | `mounted` is the line in /proc/mounts. `phase`/`ipc` are `initialize()` and then the tests. `t`/`s` are the current test and its step. `result` is what unittest reports for each test. `Tests` lists the eight methods, in the order unittest runs them, as steps of mount, umount and work. |
| `AwsArgs`, `MCAwsArgs` | `KurmaAWSTestLib.fetchArgs` and its callers | `GetOpt` is getopt's scan. `ApplyOpt` is one iteration of the option loop. `ScriptStart` is how a script ends up after `fetchArgs`. MC: every argv of up to 3 tokens, with and without `awsKeys.py`. |

A GET or `stat()` that does not leave a polling loop changes no state, so it
is not an action. Only the poll that exits the loop is an action. A
subprocess or boto call that raises and is not caught is a `...Crash` action,
or a failing outcome of the step. These are enabled by the constants `Faults`,
`DeleteFaults` and `ReadFaults`.

## Runs

| run | checks | result |
|---|---|---|
| `wan_safety` (`MCWanHarness`, `WanSafety.cfg`) | `TypeOK`; `ImplementsVisibility`: the detector's reports refine `WanVisibility` under crashes and any chunk order; `FilesDetected`: every file whose write returned is eventually reported unless the detector died, also when the producer died on a later file | pass |
| `wan_torn_read` | `DetectedContentComplete` | **violation**: the size check accepts a file with a hole |
| `wan_latency_sign` | `SampleNonNegative` | **violation**: on the dd path (`--empty` off), the producer prints `time.time()` after md5sum, and the detector's stamp can be earlier |
| `wan_hang_on_loss` | `DetectorTerminates`, under `FairSpec` with `Faults` | **violation**: dd fails halfway, and the detector polls the short file forever |
| `s3_safety` (`DeletePipeline`, `S3Safety.cfg`) | `PipelineTypeOK`; `DeletionsDetected`: every delete that took effect is eventually logged, also when the deleter dies later; `OneLedgerRow`: one ledger row over N samples unless a delete failed or a stamp did not parse. Failing deletes, exact-second stamps and a leftover `diffdata` are all possible. | pass |
| `s3_diff_microseconds` | `DiffIsElapsed` | **violation**: 1.000 s is reported as 0 ms |
| `s3_stale_summary` | `LedgerFromThisRun` | **violation**: a stamp on an exact second makes getstimediff.py die before it truncates `diffdata`, and quartiles.py appends a row of an earlier run's samples |
| `raw_safety` (`S3ReadAfterWrite`) | `TypeOK`, with lost responses and a lagging bucket | pass |
| `raw_shared_budget` (`RawSharedBudget.cfg`) | `ReaderPollsEveryKey`: readTest ends only after it read every key | **violation**: GETs of `testobj1` before makeobj's PUT use the whole budget `j < 10000`, and readTest stops with later keys never polled (spec 4.2 gives each item its own budget) |
| `fstest_safety` (`FsTest`) | `TypeOK`; `CleanBetweenTests`: a test starts mounted only after an earlier test ended early | pass |
| `fstest_cascade` | `TestsIndependent` | **violation**: one failing test makes the next one's `mount()` fail |
| `aws_args_profiles` (`MCAwsArgs`) | `AcceptedArgsHaveProfiles` | **violation**: `-a <key>` passes `fetchArgs`, then `user_profiles[0]` is `None[0]` |

Each violation is a finding in `PROJECT.json`. Each property of a passing run
has a mutant, a plausible bug in the mapped code, and TLC shows that the
property catches it.

Three more disagreements are stated as properties in the modules, but have
no run because the project keeps at most twelve:

* `ReaderTerminates` (S3DeleteHarness, `DeleteFaults = TRUE`): the same
  hang in verRead.py.
* `ImplementsDeleteVisibility` (or `DetectedAfterDelete`) with
  `ReadFaults = TRUE`: verRead.py's bare except logs any failed GET as the
  deletion.
* `ImplementsVisibility` (MCWanHarness, `Leftover = TRUE`): a detector
  started on a TESTDIR that still holds an earlier run's files polls and
  reports `000000` before the producer has written it. TLC finds this in 3
  steps.

They are listed as hazards.

**Bounds.**

* WAN safety: `N = 3` files of `NChunks = 3` chunks. That is enough for a
  file to be torn in two ways, for the detector to lag by more than one
  file, and for crashes at every step. `MaxTime = 1`, because the clock only
  matters for the printed stamps, which `wan_latency_sign` checks with
  `MaxTime = 2`. `FixedChunks = NChunks`: the producer is run with the
  default `--size 1M`, which is the size `wan-test-remote-new.py` expects.
  Both detectors, each started inside or outside TESTDIR, are checked
  (741,396 states, about 80 seconds with the liveness check).
  Every WAN run starts on an empty TESTDIR (`Leftover = FALSE`), so that
  its counterexample is about the property it checks. `EmptyModes` is the
  set of `--empty` values Init may pick: both, except in
  `wan_latency_sign`, which fixes the dd path whose md5sum the finding
  is about.
* S3 delete:
  * `N = 3` keys of `NObjects = 4`, so one key survives until the purge
    (`N = 2` in the violation runs, which need fewer steps).
  * `Sleep = 2` ticks and `TickUs = 500000`, so two stamps can be a whole
    second apart.
  * `Jitter ⊆ {0, 1}`: `0` produces an exact-second stamp, `1` one with a
    fraction.
  * `PairCount = N + 1` reproduces `range(0, 30)` over 10-line logs.
  * `PrevSample = 999`: `diffdata` may start as a one-line file of an
    earlier run.
* Read-after-write: `NKeys = 3` written, `NRead = 2` read, a budget of 4
  GETs, 2 sweeps. `raw_shared_budget` uses 2 keys and a budget of 3, the
  fewest GETs for one key to take them all.
* fstest: the eight real test methods, and every combination of failing
  steps.
* fetchArgs: every argv of up to 3 tokens, which holds every option with its
  value, and an option followed by another option.

**Fairness.**

* WAN:
  * weak fairness on the producer, the detector, and each creation and
    chunk propagation;
  * the scripts never block on each other, the detector re-polls every
    0.1 s, and the storage is assumed to ship every change eventually
    (spec 6).
* S3 delete:
  * weak fairness on the clock, the deleter, the reader's failing read and
    the two analysis scripts;
  * an eventually consistent bucket eventually answers 404 for a deleted
    key.
* Crashes are never fair; they are only possible.

`FilesDetected` is written as `<>[]` of a state predicate. A returned write
and a report both stay true once they hold, so this is the same as the
leads-to `WriteReturned(f) ~> reported(f)` for every file. TLC checks it in
a single tableau rather than one per file. `DeletionsDetected` is stated
directly as a leads-to per key.

Every script ends, so every cfg of a module with actions says
`CHECK_DEADLOCK FALSE`.

## Not modelled, and the plan

Planned for later sittings:

1. The rest of `KurmaAWSTestLib.py` (getConnection, cleanupUser), if a script
   comes to call it.

Not modelled, with the reason:

* `testkurma.py`, `listdir.py`: Thrift calls to a server that is not in this
  repository.
* `pe-file-stats.py`, `eatslogs.py`: sequential I/O with nothing to
  interleave.
* `verWrite.py` / `verRead_old.py`: a writer of two versions of `testobj`
  and a GET loop that prints what it reads. Over a store with stale reads,
  everything such a loop prints was written, by construction. The one
  property with content is that "Could not find" means the object is absent,
  and it fails through the same bare `except` that `S3DeleteHarness` models
  for `verRead.py`.
* `azure_write.py` and `writeTest.py`: sequential download-and-timestamp
  loops. Their only hazard, the timestamp format, is already modelled.
