--------------------------- MODULE S3DeleteHarness ---------------------------
(***************************************************************************)
(* The S3 delete-visibility experiment of python/AWS_latency/readAfterWrite: *)
(* deleteWrite.py deletes testobj1 .. testobjN one every five seconds and   *)
(* logs the time after each delete; verRead.py reads testobj1 .. testobjN   *)
(* in the same order, each in a loop until a read raises, and logs the     *)
(* time of that first failure.  The bucket holds the objects makeobj.py    *)
(* wrote before the experiment.  A GET of a deleted key may still return   *)
(* the object for a while (eventual consistency): such a read changes no   *)
(* state, so only the failing read is an action.                           *)
(***************************************************************************)
EXTENDS Naturals, Sequences

CONSTANTS
    N,          \* keys deleted and read: range(1, 11) and j < 10
    NObjects,   \* keys makeobj.py wrote: range(1, 31)
    Sleep,      \* time.sleep(5) of deleteWrite.py, in ticks
    TickUs,     \* microseconds per tick
    Jitter,     \* microseconds within a tick at which datetime.now() may be read
    MaxTime,    \* bound on the ticks that pass while nobody sleeps
    DeleteFaults, \* whether a delete or list request may fail
    ReadFaults    \* whether a read may raise something other than a 404

ASSUME /\ N \in Nat \ {0} /\ NObjects \in Nat /\ N <= NObjects
       /\ Sleep \in Nat \ {0} /\ TickUs \in Nat \ {0} /\ MaxTime \in Nat
       /\ Jitter \subseteq 0 .. TickUs - 1 /\ Jitter # {}
       /\ DeleteFaults \in BOOLEAN /\ ReadFaults \in BOOLEAN

Keys == 1 .. NObjects

VARIABLES
    now,        \* clock, in ticks
    stored,     \* keys present in the bucket
    delpc,      \* deleteWrite.py: position in main()
    deli,       \* deleteWrite.py: loop index i
    wake,       \* deleteWrite.py: end of the current time.sleep(5)
    dellog,     \* lines of deltimes000, as microseconds
    rdpc,       \* verRead.py: position in main()
    rj,         \* verRead.py: loop index j
    rlog        \* lines of readtimes000, as microseconds

deleterVars == <<delpc, deli, wake, dellog>>
readerVars  == <<rdpc, rj, rlog>>
harnessVars == <<now, stored, deleterVars, readerVars>>

\* str(datetime.now()) at the current tick.
Stamps == {now * TickUs + j : j \in Jitter}

TypeOK ==
    /\ now \in 0 .. MaxTime + N * Sleep
    /\ stored \subseteq Keys
    /\ delpc \in {"delete", "stamp", "sleep", "purge", "done", "crashed"}
    /\ deli \in 1 .. N /\ wake \in 0 .. MaxTime + N * Sleep
    /\ rdpc \in {"read", "done"} /\ rj \in 1 .. N
    /\ dellog \in Seq(Nat) /\ rlog \in Seq(Nat)

HarnessInit ==
    /\ now = 0
    /\ stored = Keys
    /\ delpc = "delete" /\ deli = 1 /\ wake = 0 /\ dellog = <<>>
    /\ rdpc = "read" /\ rj = 1 /\ rlog = <<>>

Tick ==
    /\ now < MaxTime
    /\ now' = now + 1
    /\ UNCHANGED <<stored, deleterVars, readerVars>>

(***************************************************************************)
(* deleteWrite.py                                                          *)
(***************************************************************************)

\* Mutant: the key is built from the next index, 'testobj' + str(i + 1).
DeleterDeleteNextKey ==
    /\ delpc = "delete"
    /\ stored' = stored \ {deli + 1}
    /\ delpc' = "stamp"
    /\ UNCHANGED <<now, deli, wake, dellog, readerVars>>

\* k.key = 'testobj' + str(i); k.delete() takes effect in the bucket.
DeleterDelete ==
    /\ delpc = "delete"
    /\ stored' = stored \ {deli}
    /\ delpc' = "stamp"
    /\ UNCHANGED <<now, deli, wake, dellog, readerVars>>

\* k.delete() returns; the time is written to deltimes000 and the loop
\* sleeps five seconds.
DeleterStamp ==
    /\ delpc = "stamp"
    /\ \E t \in Stamps : dellog' = Append(dellog, t)
    /\ wake' = now + Sleep
    /\ delpc' = "sleep"
    /\ UNCHANGED <<now, stored, deli, readerVars>>

\* Mutant: the deletion loop runs one key past range(1, 11).
DeleterWakeOverrun ==
    /\ delpc = "sleep"
    /\ now' = IF now < wake THEN wake ELSE now
    /\ IF deli > N
         THEN delpc' = "purge" /\ UNCHANGED deli
         ELSE delpc' = "delete" /\ deli' = deli + 1
    /\ UNCHANGED <<stored, wake, dellog, readerVars>>

\* time.sleep(5) returns once the clock reaches wake.
DeleterWake ==
    /\ delpc = "sleep"
    /\ now' = IF now < wake THEN wake ELSE now
    /\ IF deli = N
         THEN delpc' = "purge" /\ UNCHANGED deli
         ELSE delpc' = "delete" /\ deli' = deli + 1
    /\ UNCHANGED <<stored, wake, dellog, readerVars>>

\* for k in bucket.list(): k.delete()
DeleterPurge ==
    /\ delpc = "purge"
    /\ stored' = {}
    /\ delpc' = "done"
    /\ UNCHANGED <<now, deli, wake, dellog, readerVars>>

\* A delete or list request fails: boto raises and nothing catches it.
DeleterCrash ==
    /\ DeleteFaults
    /\ delpc \in {"delete", "purge"}
    /\ delpc' = "crashed"
    /\ UNCHANGED <<now, stored, deli, wake, dellog, readerVars>>

(***************************************************************************)
(* verRead.py: the read of testobj<j> that raises.  The bare except        *)
(* catches a 404 of a deleted key and also any other error: a failed      *)
(* request or a failed write of the local file get_contents_to_filename   *)
(* makes.                                                                 *)
(***************************************************************************)
\* Mutant: the read loop stops one key early (while (j < 9)).
ReaderMissStopsEarly ==
    /\ rdpc = "read"
    /\ rj \notin stored \/ ReadFaults
    /\ \E t \in Stamps : rlog' = Append(rlog, t)
    /\ IF rj + 1 = N
         THEN rdpc' = "done" /\ UNCHANGED rj
         ELSE rj' = rj + 1 /\ UNCHANGED rdpc
    /\ UNCHANGED <<now, stored, deleterVars>>

ReaderMiss ==
    /\ rdpc = "read"
    /\ rj \notin stored \/ ReadFaults
    /\ \E t \in Stamps : rlog' = Append(rlog, t)
    /\ IF rj = N
         THEN rdpc' = "done" /\ UNCHANGED rj
         ELSE rj' = rj + 1 /\ UNCHANGED rdpc
    /\ UNCHANGED <<now, stored, deleterVars>>

Deleter == DeleterDelete \/ DeleterStamp \/ DeleterWake \/ DeleterPurge

HarnessNext ==
    \/ Tick
    \/ Deleter \/ DeleterCrash
    \/ ReaderMiss

-----------------------------------------------------------------------------
\* verRead.py logs the failure for key j only once deleteWrite.py's delete
\* of key j has taken effect: no other error is mistaken for a deletion.
DetectedAfterDelete ==
    \A k \in 1 .. Len(rlog) : k \notin stored

\* verRead.py leaves its read loop for every key (spec 4.2: a key that never
\* disappears must time out rather than be polled forever).
ReaderTerminates == <>(rdpc = "done")

=============================================================================
