------------------------------- MODULE World --------------------------------
(***************************************************************************)
(* What the early boot (runAsInit up to the node agent) shares: the order  *)
(* of its parts, a kernel of which at most one feature does not work as it *)
(* should, and calls that fail now and then.                               *)
(***************************************************************************)
EXTENDS Naturals, Sequences, FiniteSets

CONSTANT MaxFaults  \* bound: how many different calls fail in one boot

ASSUME WorldAssumption == MaxFaults \in Nat

VARIABLES
    stage,   \* where runAsInit is
    kernel,  \* the feature that does not work, and in which way
    failed,  \* history: the calls <<where, what>> that failed
    verdict  \* per probe: what was printed, "none" before that

Right == <<"none", "none">>

Timed == {"ns", "netns", "mem", "cpu"}
Plain == {"shebang", "seccomp", "userns", "rootless", "usermap", "volume", "sandbox"}
Mac == {"signal", "file", "socket"}
Probes == Timed \cup Plain \cup Mac

WorldInit ==
    /\ stage = "mounts"
    /\ kernel = Right
    /\ failed = {}
    /\ verdict = [p \in Probes |-> "none"]

\* The order of runAsInit; "runtime" stands for the container-runtime phases.
runAsInit == <<"mounts", "fstab", "applet", "installed", "cgroup", "ns", "netns", "mem", "cpu",
               "shebang", "runtime", "seccomp", "signal", "file", "socket", "userns", "rootless",
               "usermap", "volume", "sandbox", "node">>

Following(s) == runAsInit[1 + CHOOSE i \in 1..(Len(runAsInit) - 1) : runAsInit[i] = s]

Proceed == stage' = Following(stage)

Stays == UNCHANGED <<stage, verdict>>

\* The probe prints its verdict, and the boot goes on whatever it is.
Concludes(p, v) == verdict' = [verdict EXCEPT ![p] = v] /\ Proceed

\* The call named w fails now.
Fails(w) == /\ Cardinality(failed \cup {w}) <= MaxFaults
            /\ failed' = failed \cup {w}

Works == UNCHANGED failed
=============================================================================
