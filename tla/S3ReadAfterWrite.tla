-------------------------- MODULE S3ReadAfterWrite --------------------------
(***************************************************************************)
(* The S3 read-after-write experiment of python/AWS_latency: makeobj.py    *)
(* PUTs testobj1 .. testobjNKeys and makes each public-read, while two     *)
(* readers run against the same bucket:                                   *)
(*   readTest.py    reads testobj1 .. testobjNRead in order, retrying the  *)
(*                  current key until a GET succeeds, all keys sharing one *)
(*                  budget of Budget GETs;                                *)
(*   readTest_ws.py sweeps testobj1 .. testobjNRead Rounds times, printing *)
(*                  for each key whether the GET succeeded.               *)
(* A PUT the bucket has taken becomes visible to GETs after some delay,   *)
(* which can end before makeobj.py prints its "Wrote" line (a GET issued  *)
(* before the PUT makes S3's read-after-write eventual): the set of       *)
(* visible keys grows towards the set of PUT keys.                        *)
(***************************************************************************)
EXTENDS Naturals, Sequences

CONSTANTS
    NKeys,      \* makeobj.py: range(1, 31)
    NRead,      \* readers: keys testobj1 .. testobj10 (i < 11, range(1, 11))
    Budget,     \* readTest.py: j < 10000
    Rounds,     \* readTest_ws.py: j < 100
    Faults      \* whether a PUT, or a GET of a visible key, may fail

ASSUME /\ NKeys \in Nat /\ NRead \in 1 .. NKeys
       /\ Budget \in Nat \ {0} /\ Rounds \in Nat \ {0} /\ Faults \in BOOLEAN

Keys == 1 .. NKeys

VARIABLES
    put,        \* keys whose PUT the bucket has taken (before the call returns)
    visible,    \* keys a GET returns
    mpc,        \* makeobj.py: position in main()
    mi,         \* makeobj.py: loop index i
    tpc,        \* readTest.py: "read" while its loop condition holds
    ti,         \* readTest.py: i, the key being read
    tj,         \* readTest.py: j, GETs issued
    tlog,       \* readTest.py: keys of its "Read testobj<i>" lines
    spc,        \* readTest_ws.py: position in main()
    sj,         \* readTest_ws.py: sweeps completed
    si,         \* readTest_ws.py: key of the current sweep
    slog        \* readTest_ws.py: its lines, [round, key, found]

storeVars  == <<put, visible>>
makerVars  == <<mpc, mi>>
readerVars == <<tpc, ti, tj, tlog>>
sweepVars  == <<spc, sj, si, slog>>
vars == <<storeVars, makerVars, readerVars, sweepVars>>

SweepLine == [round : 1 .. Rounds, key : 1 .. NRead, found : BOOLEAN]

TypeOK ==
    /\ put \subseteq Keys /\ visible \subseteq put
    /\ mpc \in {"put", "acl", "done", "crashed"} /\ mi \in Keys
    /\ tpc \in {"read", "done"} /\ ti \in 1 .. NRead + 1 /\ tj \in 0 .. Budget
    /\ tlog \in Seq(1 .. NRead)
    /\ spc \in {"read", "sleep", "done"} /\ sj \in 0 .. Rounds /\ si \in 1 .. NRead
    /\ slog \in Seq(SweepLine)

Init ==
    /\ put = {} /\ visible = {}
    /\ mpc = "put" /\ mi = 1
    /\ tpc = "read" /\ ti = 1 /\ tj = 0 /\ tlog = <<>>
    /\ spc = "read" /\ sj = 0 /\ si = 1 /\ slog = <<>>

\* Whether a GET of key k succeeds now: only a visible key can be read, and
\* with Faults even that GET may raise.
GetOutcomes(k) == IF k \in visible THEN ({TRUE} \cup IF Faults THEN {FALSE} ELSE {})
                                    ELSE {FALSE}

(***************************************************************************)
(* makeobj.py                                                              *)
(***************************************************************************)
\* k.set_contents_from_filename(DATAFIL) for k.key = 'testobj' + str(i).
MakePut ==
    /\ mpc = "put"
    /\ put' = put \cup {mi}
    /\ mpc' = "acl"
    /\ UNCHANGED <<visible, mi, readerVars, sweepVars>>

\* Mutant: the loop writes one key past range(1, 31).
MakeAclOverrun ==
    /\ mpc = "acl"
    /\ IF mi > NKeys THEN mpc' = "done" /\ UNCHANGED mi
                     ELSE mpc' = "put" /\ mi' = mi + 1
    /\ UNCHANGED <<storeVars, readerVars, sweepVars>>

\* k.set_acl('public-read'), the "Wrote" line, and the next i.
MakeAcl ==
    /\ mpc = "acl"
    /\ IF mi = NKeys THEN mpc' = "done" /\ UNCHANGED mi
                     ELSE mpc' = "put" /\ mi' = mi + 1
    /\ UNCHANGED <<storeVars, readerVars, sweepVars>>

\* A PUT or set_acl request raises; nothing catches it.
MakeCrash ==
    /\ Faults
    /\ mpc \in {"put", "acl"}
    /\ mpc' = "crashed"
    /\ UNCHANGED <<storeVars, mi, readerVars, sweepVars>>

\* The bucket makes a returned PUT visible to GETs.
Propagate(k) ==
    /\ k \in put \ visible
    /\ visible' = visible \cup {k}
    /\ UNCHANGED <<put, makerVars, readerVars, sweepVars>>

(***************************************************************************)
(* readTest.py: one iteration of while (i < 11 and j < 10000).  A GET that *)
(* raises is swallowed by the bare except and only costs budget.          *)
(***************************************************************************)
ReadTestGet ==
    /\ tpc = "read"
    /\ \E ok \in GetOutcomes(ti) :
         LET i2 == IF ok THEN ti + 1 ELSE ti
         IN  /\ tj' = tj + 1
             /\ ti' = i2
             /\ tlog' = IF ok THEN Append(tlog, ti) ELSE tlog
             /\ tpc' = IF i2 <= NRead /\ tj + 1 < Budget THEN "read" ELSE "done"
    /\ UNCHANGED <<storeVars, makerVars, sweepVars>>

(***************************************************************************)
(* readTest_ws.py: one GET of a sweep, printed as "Read" or "Could not    *)
(* find", and the time.sleep(5) that ends a sweep.                        *)
(***************************************************************************)
SweepGet ==
    /\ spc = "read"
    /\ \E ok \in GetOutcomes(si) :
         slog' = Append(slog, [round |-> sj + 1, key |-> si, found |-> ok])
    /\ IF si = NRead THEN spc' = "sleep" /\ UNCHANGED si
                     ELSE si' = si + 1 /\ UNCHANGED spc
    /\ UNCHANGED <<sj, storeVars, makerVars, readerVars>>

SweepSleep ==
    /\ spc = "sleep"
    /\ sj' = sj + 1
    /\ si' = 1
    /\ spc' = IF sj + 1 < Rounds THEN "read" ELSE "done"
    /\ UNCHANGED <<slog, storeVars, makerVars, readerVars>>

Maker == MakePut \/ MakeAcl

Next ==
    \/ Maker \/ MakeCrash
    \/ \E k \in Keys : Propagate(k)
    \/ ReadTestGet
    \/ SweepGet \/ SweepSleep

Spec == Init /\ [][Next]_vars

-----------------------------------------------------------------------------
\* When readTest.py leaves its loop it has at least polled every key, so a
\* key slow to appear costs only its own retries (spec 4.2: the poller has a
\* retry budget per item and goes on to the next item after a TimedOut).
\* readTest.py counts all GETs against one j < 10000.
ReaderPollsEveryKey == tpc = "done" => ti >= NRead

=============================================================================
