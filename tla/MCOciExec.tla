----------------------------- MODULE MCOciExec ------------------------------
(* The instance of OciExec that TLC checks: two of the four namespaces.    *)
EXTENDS OciExec, TLC

MCOrder == <<"net", "ipc">>

\* Every way the mirror can go: the mounted file, the node's for want of one in
\* the rootfs, which the next exec finds there, and neither of them.
MCFiles == {[ctr |-> "mount", image |-> FALSE, node |-> FALSE],
            [ctr |-> "rootfs", image |-> FALSE, node |-> TRUE],
            [ctr |-> "empty", image |-> TRUE, node |-> FALSE]}

\* The invocations do not differ.
Symmetry == Permutations(Execs)
=============================================================================
