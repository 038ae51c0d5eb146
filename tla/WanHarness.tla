----------------------------- MODULE WanHarness -----------------------------
(***************************************************************************)
(* The WAN write-visibility benchmark: the producer python/wan-test.py     *)
(* writes files 000000 .. N-1 into TESTDIR at one site, the detector       *)
(* python/wan-test-remote.py polls the same directory at the other site    *)
(* until each file has its full size, takes its md5sum and prints a        *)
(* timestamp; python/wan-test-remote-new.py is a second version of the    *)
(* detector, and either one may be the one run.  The two processes share  *)
(* nothing but the replicated directory, whose replication is modelled   *)
(* as the environment: a file's creation and each chunk written to it     *)
(* reach the remote site at any later time and the chunks in any order    *)
(* (NFS WRITE RPCs of wsize bytes are issued in parallel and applied in   *)
(* arrival order).                                                        *)
(*                                                                         *)
(* A file's content is abstracted to the set of chunks that hold its data; *)
(* its size is the end of the highest chunk (a file with a hole below its  *)
(* last chunk already has its final size), and its md5sum is that set.     *)
(***************************************************************************)
EXTENDS Naturals, Sequences, FiniteSets

CONSTANTS
    N,          \* gflags --iters: number of files
    NChunks,    \* chunks of one file (--size divided by the write unit)
    MaxTime,    \* bound on the clock read by time.time()
    Faults,     \* whether dd/md5sum/stat may fail with an error other than ENOENT
    FixedChunks,\* wan-test-remote-new.py's literal 1048576, in chunks
    Leftover,   \* TESTDIR still holds files 000000 .. N-1 of an earlier run
    EmptyModes  \* the values of --empty the scripts may be given

ASSUME N \in Nat \ {0} /\ NChunks \in Nat \ {0} /\ MaxTime \in Nat
ASSUME FixedChunks \in Nat \ {0}
ASSUME Faults \in BOOLEAN /\ Leftover \in BOOLEAN
ASSUME EmptyModes \subseteq BOOLEAN /\ EmptyModes # {}

Files  == 0 .. N - 1
Chunks == 1 .. NChunks

VARIABLES
    empty,      \* gflags --empty, given identically to both scripts
    detector,   \* the detector script run: "remote" or "remote_new"
    incwd,      \* the detector was started with TESTDIR as working directory
    now,        \* wall clock, in ticks
    lcreated,   \* this run's touch or dd has opened the file at the producer's site
    ldata,      \* chunks written at the producer's site
    rcreated,   \* that open (and its O_TRUNC) has reached the detector's site
    rdata,      \* chunks visible at the detector's site
    ppc,        \* producer's position in bench()
    pi,         \* producer's loop index i
    pchunk,     \* next chunk dd writes
    plog,       \* lines printed by the producer
    dpc,        \* detector's position in bench()
    di,         \* detector's loop index i
    dlog        \* lines printed by the detector

flags        == <<empty, detector, incwd>>
storeVars    == <<lcreated, ldata, rcreated, rdata>>
producerVars == <<ppc, pi, pchunk, plog>>
detectorVars == <<dpc, di, dlog>>
vars == <<flags, now, storeVars, producerVars, detectorVars>>

\* TESTDIR is never emptied: a file is visible at the detector's site if an
\* earlier run left it there, or once this run's create has reached it.
rexists(f) == Leftover \/ rcreated[f]

\* Size of a file whose data chunks are S, in chunks (sparse-file semantics).
Size(S) == IF S = {} THEN 0 ELSE CHOOSE c \in S : \A d \in S : d <= c

\* Mutant: the size expected in chunks is one too many (a unit mistaken in
\* bytes()), so a complete file never matches.
ExpectedSizeOffByOne == IF empty THEN 0 ELSE NChunks + 1

\* bytes() of wan-test-remote.py: the size the detector waits for.
ExpectedSize == IF empty THEN 0 ELSE NChunks

\* A printed line: the file, the md5sum taken of it, whether the line shows
\* that md5sum (wan-test-remote-new.py prints the file name instead), and
\* the time.
LogRecord == [idx : Files, digest : SUBSET Chunks, shown : BOOLEAN, t : 0 .. MaxTime]

TypeOK ==
    /\ empty \in BOOLEAN
    /\ detector \in {"remote", "remote_new"} /\ incwd \in BOOLEAN
    /\ now \in 0 .. MaxTime
    /\ lcreated \in [Files -> BOOLEAN] /\ rcreated \in [Files -> BOOLEAN]
    /\ ldata \in [Files -> SUBSET Chunks] /\ rdata \in [Files -> SUBSET Chunks]
    /\ ppc \in {"create", "write", "log", "done", "crashed"}
    /\ pi \in 0 .. N /\ pchunk \in Chunks
    /\ dpc \in {"poll", "digest", "done", "crashed"}
    /\ di \in 0 .. N
    /\ plog \in Seq(LogRecord) /\ dlog \in Seq(LogRecord)

Init ==
    /\ empty \in EmptyModes
    /\ detector \in {"remote", "remote_new"} /\ incwd \in BOOLEAN
    /\ now = 0
    /\ lcreated = [f \in Files |-> FALSE] /\ rcreated = [f \in Files |-> FALSE]
    \* a leftover file was written in full by the earlier run's dd
    /\ ldata = [f \in Files |-> IF Leftover THEN Chunks ELSE {}]
    /\ rdata = ldata
    /\ ppc = "create" /\ pi = 0 /\ pchunk = 1 /\ plog = <<>>
    /\ dpc = "poll" /\ di = 0 /\ dlog = <<>>

(***************************************************************************)
(* The clock.                                                              *)
(***************************************************************************)
Tick ==
    /\ now < MaxTime
    /\ now' = now + 1
    /\ UNCHANGED <<flags, storeVars, producerVars, detectorVars>>

(***************************************************************************)
(* Producer: python/wan-test.py bench().                                   *)
(***************************************************************************)

\* `touch` (--empty), which keeps the data of an existing file, or the
\* open(O_CREAT|O_TRUNC) that starts `dd`.
ProducerCreate ==
    /\ ppc = "create"
    /\ lcreated' = [lcreated EXCEPT ![pi] = TRUE]
    /\ ldata' = IF empty THEN ldata ELSE [ldata EXCEPT ![pi] = {}]
    /\ ppc' = IF empty THEN "log" ELSE "write"
    /\ pchunk' = 1
    /\ UNCHANGED <<flags, now, rcreated, rdata, pi, plog, detectorVars>>

\* Mutant: dd's last write is not recognised (count off by one).
ProducerWriteOverrun ==
    /\ ppc = "write"
    /\ ldata' = [ldata EXCEPT ![pi] = @ \cup {pchunk}]
    /\ IF pchunk > NChunks
         THEN ppc' = "log" /\ UNCHANGED pchunk
         ELSE pchunk' = pchunk + 1 /\ UNCHANGED ppc
    /\ UNCHANGED <<flags, now, lcreated, rcreated, rdata, pi, plog, detectorVars>>

\* One write(2) of `dd if=/dev/urandom bs=1<unit> count=<n>`; dd returns
\* after the last one.
ProducerWrite ==
    /\ ppc = "write"
    /\ ldata' = [ldata EXCEPT ![pi] = @ \cup {pchunk}]
    /\ IF pchunk = NChunks
         THEN ppc' = "log" /\ UNCHANGED pchunk
         ELSE pchunk' = pchunk + 1 /\ UNCHANGED ppc
    /\ UNCHANGED <<flags, now, lcreated, rcreated, rdata, pi, plog, detectorVars>>

\* md5sum of the local file, then print('%s\t%.2f' % (prefix, time.time())).
ProducerLog ==
    /\ ppc = "log"
    /\ plog' = Append(plog, [idx |-> pi, digest |-> ldata[pi], shown |-> TRUE,
                               t |-> now])
    /\ pi' = pi + 1
    /\ ppc' = IF pi + 1 = N THEN "done" ELSE "create"
    /\ UNCHANGED <<flags, now, storeVars, pchunk, detectorVars>>

\* _r() is subprocess.check_output: a failing dd, touch or md5sum raises
\* CalledProcessError, which nothing catches.
ProducerCrash ==
    /\ Faults
    /\ ppc \in {"create", "write", "log"}
    /\ ppc' = "crashed"
    /\ UNCHANGED <<flags, now, storeVars, pi, pchunk, plog, detectorVars>>

(***************************************************************************)
(* Replication of the shared directory between the two sites.              *)
(***************************************************************************)
\* The create, or the truncation of a leftover file by dd, reaches the
\* remote site before any chunk written after it.
PropagateCreate(f) ==
    /\ lcreated[f] /\ ~rcreated[f]
    /\ rcreated' = [rcreated EXCEPT ![f] = TRUE]
    /\ rdata' = IF empty THEN rdata ELSE [rdata EXCEPT ![f] = {}]
    /\ UNCHANGED <<flags, now, lcreated, ldata, producerVars, detectorVars>>

PropagateChunk(f, c) ==
    /\ rcreated[f]
    /\ c \in ldata[f] \ rdata[f]
    /\ rdata' = [rdata EXCEPT ![f] = @ \cup {c}]
    /\ UNCHANGED <<flags, now, lcreated, ldata, rcreated, producerVars, detectorVars>>

(***************************************************************************)
(* Detector: python/wan-test-remote.py bench().  A stat() that raises      *)
(* ENOENT, or that shows a size other than bytes(), is followed by         *)
(* time.sleep(0.1) and another stat(): it changes no state, so only the    *)
(* stat() that leaves the loop is an action.                               *)
(***************************************************************************)
\* Mutant: the loop leaves as soon as the file has any data.
DetectorPollAnySize ==
    /\ detector = "remote" /\ dpc = "poll"
    /\ rexists(di)
    /\ empty \/ Size(rdata[di]) > 0
    /\ dpc' = "digest"
    /\ UNCHANGED <<flags, now, storeVars, producerVars, di, dlog>>

DetectorPoll ==
    /\ detector = "remote" /\ dpc = "poll"
    /\ rexists(di)
    /\ empty \/ Size(rdata[di]) = ExpectedSize
    /\ dpc' = "digest"
    /\ UNCHANGED <<flags, now, storeVars, producerVars, di, dlog>>

\* md5sum of the remote file as it is now, then print with time.time().
DetectorLog ==
    /\ detector = "remote" /\ dpc = "digest"
    /\ dlog' = Append(dlog, [idx |-> di, digest |-> rdata[di], shown |-> TRUE,
                               t |-> now])
    /\ di' = di + 1
    /\ dpc' = IF di + 1 = N THEN "done" ELSE "poll"
    /\ UNCHANGED <<flags, now, storeVars, producerVars>>

(***************************************************************************)
(* Detector: python/wan-test-remote-new.py bench().  The file is looked up *)
(* with os.listdir(TESTDIR) and then stat(), and must be exactly 1048576   *)
(* bytes, whatever --size the producer was given.  md5sum is run on the    *)
(* bare name '%06d' % i, relative to the working directory, and the line   *)
(* printed holds the name and the time, not the digest.                    *)
(***************************************************************************)
NewDetectorPoll ==
    /\ detector = "remote_new" /\ dpc = "poll"
    /\ rexists(di)
    /\ empty \/ Size(rdata[di]) = FixedChunks
    /\ dpc' = "digest"
    /\ UNCHANGED <<flags, now, storeVars, producerVars, di, dlog>>

\* _r('md5sum ' + filename) finds the file only from TESTDIR; elsewhere it
\* exits non-zero and check_output raises CalledProcessError.
NewDetectorLog ==
    /\ detector = "remote_new" /\ dpc = "digest"
    /\ IF empty \/ incwd
         THEN /\ dlog' = Append(dlog, [idx |-> di, digest |-> rdata[di],
                                         shown |-> FALSE, t |-> now])
              /\ di' = di + 1
              /\ dpc' = IF di + 1 = N THEN "done" ELSE "poll"
         ELSE dpc' = "crashed" /\ UNCHANGED <<di, dlog>>
    /\ UNCHANGED <<flags, now, storeVars, producerVars>>

\* stat() or listdir() raising an OSError other than ENOENT is printed and
\* re-raised; a failing md5sum raises CalledProcessError.
DetectorCrash ==
    /\ Faults
    /\ dpc \in {"poll", "digest"}
    /\ dpc' = "crashed"
    /\ UNCHANGED <<flags, now, storeVars, producerVars, di, dlog>>

Producer == ProducerCreate \/ ProducerWrite \/ ProducerLog
Detector == DetectorPoll \/ DetectorLog \/ NewDetectorPoll \/ NewDetectorLog
Replication ==
    \/ \E f \in Files : PropagateCreate(f)
    \/ \E f \in Files, c \in Chunks : PropagateChunk(f, c)

Next ==
    \/ Tick
    \/ Producer \/ ProducerCrash
    \/ Replication
    \/ Detector \/ DetectorCrash

Spec == Init /\ [][Next]_vars

\* Both scripts run without blocking on each other, the detector polls every
\* 0.1 s, and the replication eventually ships every change.
FairSpec ==
    /\ Spec
    /\ WF_vars(Producer)
    /\ WF_vars(Detector)
    /\ \A f \in Files : WF_vars(PropagateCreate(f))
    /\ \A f \in Files, c \in Chunks : WF_vars(PropagateChunk(f, c))

-----------------------------------------------------------------------------
(***************************************************************************)
(* Properties                                                              *)
(***************************************************************************)

\* The producer's write of file f in this run has returned: touch finished,
\* or dd wrote its last chunk.
WriteReturned(f) == lcreated[f] /\ (empty \/ ldata[f] = Chunks)

\* The md5sum the detector prints for a file is that of the complete file
\* the producer wrote (spec 4.2: size alone does not show a complete write).
DetectedContentComplete ==
    \A k \in 1 .. Len(dlog) : empty \/ ~dlog[k].shown \/ dlog[k].digest = Chunks

\* Once both scripts have printed a line for file i, the detector's time is
\* not before the producer's: the measured latency is not negative.
SampleNonNegative ==
    \A k \in 1 .. Len(dlog), j \in 1 .. Len(plog) :
        dlog[k].idx = plog[j].idx => dlog[k].t >= plog[j].t

\* Every file whose write returned is eventually reported by the detector,
\* unless the detector died: replication ships every chunk, and the size
\* check then accepts the complete file, also when the producer died on a
\* later file.  A returned write and a report both stay true once true, so
\* this is the leads-to WriteReturned(f) ~> reported, for every f.
FilesDetected ==
    <>[](\A f \in Files : WriteReturned(f) => Len(dlog) > f \/ dpc = "crashed")

\* The detector eventually leaves its loop for every file, by reporting it
\* or by giving up (spec 4.2: a file that never appears must time out).
DetectorTerminates == <>(dpc \in {"done", "crashed"})

=============================================================================
