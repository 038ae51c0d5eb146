---------------------------- MODULE WanVisibility ----------------------------
(***************************************************************************)
(* What a visibility benchmark promises, without sites, chunks or clocks: *)
(* items 0 .. N-1 are changed one after the other (a file written, an     *)
(* object deleted), and the detector reports them in the same order, each *)
(* only once its change has taken effect.  Both the WAN benchmark and the *)
(* S3 delete experiment are shown to implement it.                        *)
(***************************************************************************)
EXTENDS Naturals, Sequences, FiniteSets

CONSTANT N

VARIABLES
    written,    \* files whose write has returned
    seen        \* files reported by the detector, in report order

vars == <<written, seen>>

Init == written = {} /\ seen = <<>>

\* The next file in index order is written completely.
Write ==
    /\ Cardinality(written) < N
    /\ written' = written \cup {Cardinality(written)}
    /\ UNCHANGED seen

\* The next file in index order is reported, if it has been written.
Report ==
    /\ Len(seen) \in written
    /\ seen' = Append(seen, Len(seen))
    /\ UNCHANGED written

Spec == Init /\ [][Write \/ Report]_vars

=============================================================================
