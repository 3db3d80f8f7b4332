----------------------------- MODULE MCLoopRun -----------------------------
(* Small instances of LoopRun for TLC. *)
EXTENDS LoopRun, TLC

\* Processes differ in name only.
Symmetry == Permutations(Procs)

=============================================================================
