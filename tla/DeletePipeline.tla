--------------------------- MODULE DeletePipeline ---------------------------
(***************************************************************************)
(* The S3 delete-visibility measurement end to end: the harness of         *)
(* S3DeleteHarness, then getstimediff.py joining its two logs line by line *)
(* into the sample file diffdata, then quartiles.py appending one row to   *)
(* the ledger cstick.dat.  The two analysis scripts run once the harness   *)
(* scripts have exited.                                                    *)
(***************************************************************************)
EXTENDS S3DeleteHarness, LatencyStats

CONSTANTS
    PairCount,  \* getstimediff.py: range(0, 30)
    DataSize,   \* quartiles.py: DATASIZE
    PrevSample  \* a sample an earlier run of getstimediff.py wrote

ASSUME PairCount \in Nat \ {0} /\ DataSize \in Nat /\ PrevSample \in Nat

\* The diffdata an earlier run left in the working directory.
PrevDiff == <<PrevSample>>

VARIABLES
    cpc,        \* getstimediff.py: "idle", "done" or the error it died of
    diffexists, \* the file diffdata exists
    diffdata,   \* its lines, in milliseconds
    qpc,        \* quartiles.py: "idle", "done" or "failed"
    ledger      \* rows of cstick.dat

analysisVars == <<cpc, diffexists, diffdata, qpc, ledger>>
vars == <<harnessVars, analysisVars>>

PipelineTypeOK ==
    /\ TypeOK
    /\ cpc \in {"idle", "done", "parse_error", "index_error"}
    /\ diffexists \in BOOLEAN /\ diffdata \in Seq(Nat)
    /\ qpc \in {"idle", "done", "failed"}
    /\ ledger \in Seq([size : {DataSize}, q : [1 .. 4 -> Nat], max : Nat])

Init ==
    /\ HarnessInit
    /\ cpc = "idle"
    /\ diffexists \in BOOLEAN
    /\ diffdata = IF diffexists THEN PrevDiff ELSE <<>>
    /\ qpc = "idle" /\ ledger = <<>>

\* The samples getstimediff.py writes for this run's logs: DiffMs of line i
\* for i in range(0, PairCount), up to the shorter log.
RunSamples ==
    LET m == IF Len(rlog) < Len(dellog) THEN Len(rlog) ELSE Len(dellog)
        n == IF m < PairCount THEN m ELSE PairCount
    IN  [i \in 1 .. n |-> DiffMs(rlog[i], dellog[i])]

\* The logs of both harness scripts are complete.
HarnessExited == delpc \in {"done", "crashed"} /\ rdpc = "done"

\* getstimediff.py: strptime every line of both logs, open diffdata for
\* writing, then write DiffMs of line i for i in range(0, PairCount); the
\* first i beyond the shorter log raises IndexError after the lines before
\* it were written.
Correlate ==
    /\ cpc = "idle"
    /\ HarnessExited
    /\ IF \/ \E k \in 1 .. Len(rlog) : ~Parses(rlog[k])
          \/ \E k \in 1 .. Len(dellog) : ~Parses(dellog[k])
         THEN /\ cpc' = "parse_error"
              /\ UNCHANGED <<diffexists, diffdata>>
         ELSE /\ diffexists' = TRUE
              /\ diffdata' = RunSamples
              /\ cpc' = IF Len(RunSamples) < PairCount THEN "index_error" ELSE "done"
    /\ UNCHANGED <<harnessVars, qpc, ledger>>

\* quartiles.py: readList() opens diffdata (IOError if missing), then
\* np.percentile of an empty list raises before the ledger is opened;
\* otherwise one row is appended.
Summarize ==
    /\ qpc = "idle"
    /\ cpc # "idle"
    /\ IF diffexists /\ diffdata # <<>>
         THEN /\ ledger' = Append(ledger, QuartileRow(DataSize, diffdata))
              /\ qpc' = "done"
         ELSE /\ qpc' = "failed"
              /\ UNCHANGED ledger
    /\ UNCHANGED <<harnessVars, cpc, diffexists, diffdata>>

\* A step of the harness scripts, which leave the analysis files alone.
Harness(A) == A /\ UNCHANGED analysisVars

Next ==
    \/ Harness(HarnessNext)
    \/ Correlate
    \/ Summarize

Spec == Init /\ [][Next]_vars

\* Time passes, both harness scripts run to their end, the eventually
\* consistent bucket eventually answers 404 for a deleted key, and the
\* operator runs the two analysis scripts.
FairSpec ==
    /\ Spec
    /\ WF_vars(Harness(Tick))
    /\ WF_vars(Harness(Deleter))
    /\ WF_vars(Harness(ReaderMiss))
    /\ WF_vars(Correlate)
    /\ WF_vars(Summarize)

\* The deletions that took effect, and the keys verRead.py logged, as items
\* 0 .. N-1 of the abstract visibility benchmark.
DelVis == INSTANCE WanVisibility WITH
              written <- {k - 1 : k \in (1 .. N) \ stored},
              seen <- [m \in 1 .. Len(rlog) |-> m - 1]

-----------------------------------------------------------------------------
\* deleteWrite.py deletes testobj1 .. testobjN in order and verRead.py logs
\* a failing read for each in the same order, each only after the delete of
\* that key took effect in the bucket, however the two scripts interleave
\* and whichever delete request fails.
ImplementsDeleteVisibility == DelVis!Spec

\* Every delete that took effect is eventually logged by verRead.py, even
\* when deleteWrite.py dies afterwards: the deleted keys are a prefix of the
\* order in which verRead.py reads, and an eventually consistent bucket
\* ends up answering 404 for each of them.
DeletionsDetected ==
    \A k \in 1 .. N : (k \notin stored) ~> (Len(rlog) >= k)

\* Every sample getstimediff.py wrote to diffdata is the time between the
\* deletion of its key and the read that first missed it, |read - delete| in
\* milliseconds (spec 4.3).
DiffIsElapsed ==
    cpc \in {"done", "index_error"} =>
        \A i \in 1 .. Len(diffdata) : diffdata[i] = ElapsedMs(rlog[i], dellog[i])

\* Every row quartiles.py appends to cstick.dat summarises the samples of
\* this run's two logs, never the diffdata an earlier run left behind:
\* getstimediff.py opens diffdata for writing only after it parsed both logs.
LedgerFromThisRun ==
    \A r \in 1 .. Len(ledger) :
        RunSamples # <<>> /\ ledger[r] = QuartileRow(DataSize, RunSamples)

\* The experiment ends with exactly one new row in the ledger, summarising
\* one sample for each of the N keys (spec 8), unless a delete request
\* failed or a timestamp fell on an exact second and could not be parsed.
OneLedgerRow ==
    \/ <>[](Len(ledger) = 1 /\ Len(diffdata) = N)
    \/ <>(delpc = "crashed" \/ cpc = "parse_error")

=============================================================================
