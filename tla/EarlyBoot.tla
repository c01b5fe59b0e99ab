----------------------------- MODULE EarlyBoot ------------------------------
(***************************************************************************)
(* runAsInit from its first mount to the node agent: Mounts, KernelProbes, *)
(* SecurityProbes and MacProbes one after the other, on one kernel.        *)
(***************************************************************************)
EXTENDS KernelProbes, SecurityProbes, MacProbes

vars == <<stage, kernel, failed, verdict, mountVars, timedVars, probeVars, seen, macVars>>

Init ==
    /\ WorldInit /\ MountsInit /\ ProbesInit /\ MacInit
    /\ seen = <<>>

KernelFlaws == {<<p, "off">> : p \in Timed} \cup PlainFlaws \cup MacFlaws

\* probeKernel begins: the kernel shows what it can do from here on.
probeKernel ==
    /\ stage = "installed" /\ Proceed
    /\ kernel' \in {Right} \cup KernelFlaws
    /\ UNCHANGED <<failed, verdict, mountVars, timedVars, probeVars, seen, macVars>>

Next ==
    \/ MountsNext /\ UNCHANGED <<kernel, verdict, timedVars, probeVars, seen, macVars>>
    \/ probeKernel
    \/ ProbesNext /\ UNCHANGED <<kernel, seen, macVars>>
    \/ SecurityNext /\ UNCHANGED <<kernel, timedVars, probeVars, macVars>>
    \/ MacNext /\ UNCHANGED <<kernel, mountVars, timedVars, probeVars, seen>>

\* PID 1 does one thing after the other and never stops of itself; a child that
\* is started runs and ends (the memory hog, the busy loop and the other children
\* are all finite, but for the sandbox, which ends with its stdin).
Spec == Init /\ [][Next]_vars /\ WF_vars(Next)

-----------------------------------------------------------------------------
(* Properties.                                                             *)

\* The failures under which a probe may call a kernel right that is not: those
\* that look like what it hopes to see.
Misleading(p) ==
    CASE p = "mem" -> {<<"child", "start">>, <<"child", "slow">>, <<"child", "killed">>, <<"mount", "/proc">>}
      [] p = "cpu" -> {<<"cpu", "load">>}
      [] p = "seccomp" -> {<<"seccomp", "kill">>}
      [] p = "userns" -> {<<"userns", "name">>}
      [] p = "volume" -> {<<"volume", "noexec">>}
      [] p = "sandbox" -> {<<"sandbox", "name">>}
      [] p = "file" -> {<<"file", "tenant">>}
      [] p = "socket" -> {<<"socket", "tenant">>, <<"socket", "test">>}
      [] OTHER -> {}

\* A probe that prints ENFORCED, ISOLATED or OK is right about the kernel, unless
\* one of the failures it cannot tell from that happened; the signal probe alone
\* makes no access as tenant 0 (the last lines of every probe).
VerdictSound ==
    \A p \in Probes : verdict[p] = "yes" /\ kernel[1] = p =>
        failed \cap Misleading(p) # {} \/ kernel = <<"signal", "all">>

\* And a probe finds nothing wrong with a kernel on which all is right, when no
\* call fails: what an earlier probe did (the mode it switched, the cgroups it
\* made, the processes it left) does not spoil a later one.
RightKernelPasses ==
    stage = "node" /\ kernel = Right /\ failed = {} => \A p \in Probes : verdict[p] = "yes"

\* What early boot hands over to the node agent is fit for its pods: the
\* controllers of their limits are delegated, the MAC is permissive and nothing
\* is labelled, up to the failures named there (probeKernel and the MAC probes
\* leave both behind; nothing after them looks at either again).
NodeReady == LimitsDelegated /\ ModeRestored

\* The boot gets to the node agent, whatever fails on the way, unless PID 1
\* panics (in the branch of the applets: to the kubelet).
EarlyBootEnds == <>(stage \in {"node", "kubelet", "panic"})
=============================================================================
