---------------------------- MODULE LatencyStats ----------------------------
(***************************************************************************)
(* The conversions and reductions of the latency analysis scripts:        *)
(* how a timestamp is printed by str(datetime.now()) and parsed back by    *)
(* strptime, how getstimediff.py turns two timestamps into a sample, and   *)
(* how quartiles.py reduces the samples to one ledger row.  Timestamps are *)
(* microseconds since the epoch.                                           *)
(***************************************************************************)
EXTENDS Integers, Sequences, FiniteSets, TLC

USecPerSec == 1000000

AbsVal(x) == IF x < 0 THEN -x ELSE x

\* str(datetime) prints ".%f" only when the microsecond field is not zero,
\* and strptime(line, "%Y-%m-%d %H:%M:%S.%f") rejects a line without it.
Parses(us) == us % USecPerSec # 0

\* timedelta normalises to (days, seconds, microseconds) with
\* 0 <= microseconds < 10^6; .microseconds is the last field only.
TimedeltaMicroseconds(d) == d % USecPerSec

\* getstimediff.py: abs(elapsedtime.microseconds/1000), with python 2
\* integer division, for elapsedtime = times_read[i] - times_del[i].
DiffMs(r, d) == AbsVal(TimedeltaMicroseconds(r - d) \div 1000)

\* The sample the spec defines (4.3): |detect - write| in milliseconds.
ElapsedMs(r, d) == AbsVal(r - d) \div 1000

-----------------------------------------------------------------------------
\* 100 times np.percentile(s, p): linear interpolation between the order
\* statistics below and above the virtual index p * (n - 1) / 100 of the
\* sorted samples.  Scaling by 100 keeps every value an integer.
Percentile100(s, p) ==
    LET x    == SortSeq(s, LAMBDA a, b : a < b)
        n    == Len(s)
        r    == p * (n - 1)
        lo   == r \div 100
        hi   == IF lo + 1 < n THEN lo + 1 ELSE lo
        frac == r % 100
    IN  (100 - frac) * x[lo + 1] + frac * x[hi + 1]

\* quartiles.py processQuart: DATASIZE, the percentiles of
\* np.arange(0, 100, 25) and max(difflist), each scaled by 100.
QuartileRow(size, s) ==
    [size |-> size,
     q    |-> [k \in 1 .. 4 |-> Percentile100(s, 25 * (k - 1))],
     max  |-> 100 * (CHOOSE v \in {s[i] : i \in DOMAIN s} :
                         \A i \in DOMAIN s : s[i] <= v)]

=============================================================================
