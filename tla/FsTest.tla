------------------------------- MODULE FsTest -------------------------------
(***************************************************************************)
(* The NFS test suite python/prototest/fstest.py: initialize() remounts    *)
(* /mnt and recreates /mnt/testfs, then unittest runs the test methods of  *)
(* BasicTests in name order, going on after a failure.  Each test mounts   *)
(* /mnt with a plain mount(), works on files, unmounts, mounts again to    *)
(* check persistence and unmounts.  There is no setUp, tearDown or         *)
(* try/finally: an exception leaves /mnt as it is.                         *)
(*                                                                         *)
(* What a test does between two mount operations is abstracted to one      *)
(* "work" step that succeeds or fails: a shell command (_r) raising        *)
(* CalledProcessError or an assertion failing.  The server's file system   *)
(* is not modelled; the mount table of the client is.                      *)
(***************************************************************************)
EXTENDS Naturals, Sequences

CONSTANT Faults   \* whether shell commands and assertions may fail

ASSUME Faults \in BOOLEAN

M == "mount"
W == "work"
U == "umount"

\* Mutant: test_move_dir without its last umount().
TestsMissingUmount ==
    << <<W, M, W, U, M, W, U>>, <<M, W, U, M, W, U, W>>, <<M, W, U, M, W>>,
       <<M, W, U, M, W, U>>, <<M, W, U, M, W, U>>, <<W, M, W, U, M, W, U>>,
       <<M, W, U, M, W, U>>, <<W, M, W, U, M, W, U>> >>

\* The test methods in the order unittest runs them (sorted by name), each
\* as the sequence of its mount(), umount() and work steps.
Tests ==
    << <<W, M, W, U, M, W, U>>,      \* test_enlarge_file
       <<M, W, U, M, W, U, W>>,      \* test_hello
       <<M, W, U, M, W, U>>,         \* test_move_dir
       <<M, W, U, M, W, U>>,         \* test_move_file
       <<M, W, U, M, W, U>>,         \* test_rename_file
       <<W, M, W, U, M, W, U>>,      \* test_shrink_file
       <<M, W, U, M, W, U>>,         \* test_touch_and_delete
       <<W, M, W, U, M, W, U>> >>    \* test_write_random

NTests == Len(Tests)

VARIABLES
    mounted,    \* /proc/mounts has <server>:/vfs0 /mnt
    phase,      \* "init" (initialize()), "tests", "done" or "aborted"
    ipc,        \* step of initialize()
    t,          \* the test being run
    s,          \* its next step
    result      \* result of each test: "pending", "pass", "fail", "error",
                \* or "busy" (mount() found /mnt already mounted)

vars == <<mounted, phase, ipc, t, s, result>>

Results == {"pending", "pass", "fail", "error", "busy"}

TypeOK ==
    /\ mounted \in BOOLEAN
    /\ phase \in {"init", "tests", "done", "aborted"}
    /\ ipc \in {"remount", "clean", "umount"}
    /\ t \in 1 .. NTests /\ s \in 1 .. 7
    /\ result \in [1 .. NTests -> Results]

\* A shell command or assertion: it succeeds, or, with Faults, fails.
Outcomes == IF Faults THEN BOOLEAN ELSE {TRUE}

\* /mnt may still be mounted by an earlier run that died.
Init ==
    /\ mounted \in BOOLEAN
    /\ phase = "init" /\ ipc = "remount"
    /\ t = 1 /\ s = 1
    /\ result = [i \in 1 .. NTests |-> "pending"]

(***************************************************************************)
(* initialize(), called by main() before basetest.main(): an exception     *)
(* here ends the script before any test runs.                              *)
(***************************************************************************)
\* mount(True): umount -f if is_mounted(), then mount.
InitRemount ==
    /\ phase = "init" /\ ipc = "remount"
    /\ \E ok \in Outcomes :
         IF ok THEN mounted' = TRUE /\ ipc' = "clean" /\ UNCHANGED phase
               ELSE /\ mounted' \in {FALSE, mounted}  \* umount -f or mount failed
                    /\ phase' = "aborted" /\ UNCHANGED ipc
    /\ UNCHANGED <<t, s, result>>

\* rm -rf /mnt/testfs if it is a directory, then mkdir -p /mnt/testfs.
InitClean ==
    /\ phase = "init" /\ ipc = "clean"
    /\ \E ok \in Outcomes :
         IF ok THEN ipc' = "umount" /\ UNCHANGED phase
               ELSE phase' = "aborted" /\ UNCHANGED ipc
    /\ UNCHANGED <<mounted, t, s, result>>

\* umount().
InitUmount ==
    /\ phase = "init" /\ ipc = "umount"
    /\ \E ok \in Outcomes :
         IF ok THEN mounted' = FALSE /\ phase' = "tests"
               ELSE phase' = "aborted" /\ UNCHANGED mounted
    /\ UNCHANGED <<ipc, t, s, result>>

(***************************************************************************)
(* The test methods.                                                       *)
(***************************************************************************)
\* Mutant: the runner goes on past the last test method.
FinishOverrun(r) ==
    /\ result' = [result EXCEPT ![t] = r]
    /\ s' = 1
    /\ IF t > NTests THEN phase' = "done" /\ UNCHANGED t
                     ELSE t' = t + 1 /\ UNCHANGED phase

\* The current test ends with result r and unittest moves to the next one.
Finish(r) ==
    /\ result' = [result EXCEPT ![t] = r]
    /\ s' = 1
    /\ IF t = NTests THEN phase' = "done" /\ UNCHANGED t
                     ELSE t' = t + 1 /\ UNCHANGED phase

\* The current step succeeded: go on, or pass at the end of the method.
Advance ==
    IF s = Len(Tests[t]) THEN Finish("pass")
    ELSE s' = s + 1 /\ UNCHANGED <<t, phase, result>>

Step == Tests[t][s]

\* mount(): the mount command fails with "already mounted" when /mnt is
\* mounted ("busy"), or when the server cannot be reached; either raises
\* CalledProcessError, which unittest reports as an error.
TestMount ==
    /\ phase = "tests" /\ Step = M
    /\ IF mounted THEN Finish("busy") /\ UNCHANGED mounted
       ELSE \E ok \in Outcomes :
              IF ok THEN mounted' = TRUE /\ Advance
                    ELSE Finish("error") /\ UNCHANGED mounted
    /\ UNCHANGED ipc

\* A run of _r commands and assertions; a failing one ends the test.
TestWork ==
    /\ phase = "tests" /\ Step = W
    /\ \E ok \in Outcomes :
         IF ok THEN Advance ELSE Finish("fail")
    /\ UNCHANGED <<mounted, ipc>>

\* umount(): fails when /mnt is not mounted or is busy.
TestUmount ==
    /\ phase = "tests" /\ Step = U
    /\ \E ok \in Outcomes :
         IF ok /\ mounted THEN mounted' = FALSE /\ Advance
                          ELSE Finish("error") /\ UNCHANGED mounted
    /\ UNCHANGED ipc

Next ==
    \/ InitRemount \/ InitClean \/ InitUmount
    \/ TestMount \/ TestWork \/ TestUmount

Spec == Init /\ [][Next]_vars

-----------------------------------------------------------------------------
\* A test starts with /mnt mounted only if an earlier test ended early:
\* initialize() clears a mount left by an earlier run (mount(True)), and a
\* test method that runs to its end unmounts everything it mounted.
CleanBetweenTests ==
    (phase = "tests" /\ s = 1 /\ mounted)
        => \E u \in 1 .. t - 1 : result[u] \in {"fail", "error", "busy"}

\* No test fails because of the test before it: a plain mount() never
\* finds /mnt still mounted by a test that failed between its mount() and
\* umount().
TestsIndependent == \A u \in 1 .. NTests : result[u] # "busy"

=============================================================================
