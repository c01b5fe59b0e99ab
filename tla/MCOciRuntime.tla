---------------------------- MODULE MCOciRuntime ----------------------------
(* Instances of OciRuntime for TLC.                                        *)
EXTENDS OciRuntime, TLC

\* Pids, fifos and invocations are interchangeable.
Symmetry == Permutations(Pids) \cup Permutations(Fifos) \cup Permutations(Calls)
=============================================================================
