---------------------------- MODULE MCWanHarness ----------------------------
(***************************************************************************)
(* WanHarness instantiated for TLC, with the refinement mapping onto       *)
(* WanVisibility.                                                          *)
(***************************************************************************)
EXTENDS WanHarness

\* The files whose write has returned, and the indexes the detector printed.
Abs == INSTANCE WanVisibility WITH
           written <- {f \in Files : WriteReturned(f)},
           seen <- [k \in 1 .. Len(dlog) |-> dlog[k].idx]

\* The detector of wan-test-remote.py, polling stat() while replication
\* delivers chunks out of order, reports files only in index order and only
\* after the producer's touch or dd for that file has returned.
ImplementsVisibility == Abs!Spec

=============================================================================
