---------------------------- MODULE KernelProbes ----------------------------
(***************************************************************************)
(* probeKernel: the tests of namespaces, the loopback of a network         *)
(* namespace, memory.max and cpu.max.  Each runs children of this binary   *)
(* under a time limit and draws a verdict from how they ended; two of them *)
(* also delegate the cgroup controllers that the pods' limits need.        *)
(***************************************************************************)
EXTENDS Mounts, TimedRun

VARIABLES
    cg,   \* the cgroup tree: delegated controllers, probe directories
    burn  \* cpuEnforcementTest: the results of the two runs

probeVars == <<cg, burn>>

ProbesInit ==
    /\ TimedInit
    /\ cg = [deleg |-> {}, dirs |-> {}, held |-> {}]
    /\ burn = [base |-> "none", throttled |-> "none"]

NoMounts == UNCHANGED mountVars

-----------------------------------------------------------------------------
(* cgroups.                                                                *)

HasCgroups == "/sys/fs/cgroup" \in mounted

\* probeCgroupV2: returns at a directory it cannot make, before it delegates
\* +memory; the directory is removed at the end.
probeCgroupV2 ==
    /\ stage = "cgroup"
    /\ \/ ~HasCgroups /\ UNCHANGED cg /\ Works
       \/ HasCgroups /\ UNCHANGED cg /\ Fails(<<"cgroup", "mkdir">>)
       \/ HasCgroups /\ UNCHANGED cg /\ Fails(<<"cgroup", "+memory">>)
       \/ HasCgroups /\ cg' = [cg EXCEPT !.deleg = @ \cup {"memory"}] /\ Works
    /\ Proceed
    /\ NoMounts /\ UNCHANGED <<timedVars, burn, verdict>>

\* The mount of the cgroup file system failed, and that of sysfs before it: its
\* directory is an ordinary one, where WriteFile makes ordinary files.
PlainDir == ~HasCgroups /\ "/sys" \notin mounted

WithDir(p) == [cg EXCEPT !.dirs = @ \cup {p}]
Delegated(c) == [cg EXCEPT !.deleg = @ \cup {c}]

\* A variant for mutation: +cpu is taken for delegated.
PrepareNoCpu(p) ==
    /\ p = "mem" => PlainDir \/ (HasCgroups /\ "memory" \in cg.deleg)
    /\ p = "cpu" => PlainDir \/ HasCgroups
    /\ cg' = IF p \in {"mem", "cpu"} THEN WithDir(p) ELSE cg

\* What a test does before it runs a child, where that succeeds: the delegation,
\* the directory and the limit, or the port it holds.
Prepare(p) ==
    /\ p = "mem" => PlainDir \/ (HasCgroups /\ "memory" \in cg.deleg)
    /\ p = "cpu" => PlainDir \/ HasCgroups
    /\ cg' = CASE p = "mem" -> WithDir(p)
               [] p = "cpu" -> [WithDir(p) EXCEPT !.deleg = IF HasCgroups THEN @ \cup {"cpu"} ELSE @]
               [] OTHER -> cg

\* The cgroup file system or a controller is missing, or a call fails: the test
\* is inconclusive.  The deferred Remove takes the directory away again.
CannotPrepare(p) ==
    \/ p = "mem" /\ ~PlainDir /\ "memory" \notin cg.deleg /\ UNCHANGED cg /\ Works
    \/ p = "cpu" /\ ~PlainDir /\ ~HasCgroups /\ UNCHANGED cg /\ Works
    \/ p \in {"netns", "mem"} /\ Fails(<<p, "prepare">>) /\ UNCHANGED cg
    \/ p = "cpu" /\ HasCgroups /\ Fails(<<p, "+cpu">>) /\ UNCHANGED cg
    \/ p = "cpu" /\ HasCgroups /\ Fails(<<p, "prepare">>) /\ cg' = Delegated("cpu")

Idle == call.st = "idle"

\* testNamespace (one kind for the seven), netnsIsolationTest, memEnforcementTest
\* and the first runBurn of cpuEnforcementTest.
TestStarts(p) ==
    /\ stage = p /\ p \in Timed /\ Idle /\ burn.base = "none"
    /\ \/ Prepare(p) /\ TimedStart("combined") /\ Stays /\ Works
       \/ CannotPrepare(p) /\ Concludes(p, "unknown") /\ UNCHANGED timedVars
    /\ NoMounts /\ UNCHANGED burn

\* The second runBurn, in the cgroup.
BurnAgain ==
    /\ stage = "cpu" /\ Idle /\ burn.base # "none" /\ burn.throttled = "none"
    /\ TimedStart("combined")
    /\ NoMounts /\ Stays /\ Works /\ UNCHANGED probeVars

\* The child is this binary, by /proc/self/exe; a namespace the kernel does not
\* have is refused by clone.
CanExec == stage = "runtime" \/ ("/proc" \in mounted /\ ~(stage = "ns" /\ kernel = <<"ns", "off">>))

ProbeExec ==
    /\ \/ CanExec /\ ExecDone
       \/ ExecFails /\ IF CanExec THEN Fails(<<"child", "start">>) ELSE Works
    /\ NoMounts /\ Stays /\ UNCHANGED probeVars

Joins == stage = "mem" \/ (stage = "cpu" /\ burn.base # "none")

\* memHog, cpuBurn: the child moves itself into the cgroup, or says it cannot.
ChildJoins ==
    /\ proc.st = "running" /\ Joins /\ proc.cg = "root"
    /\ \/ proc' = [proc EXCEPT !.cg = stage] /\ UNCHANGED call /\ Works
       \/ ChildExits("other") /\ Fails(<<"child", "join">>)
    /\ NoMounts /\ Stays /\ UNCHANGED probeVars

\* memHog is killed where the limit holds; a bind of the port that is held is
\* refused where the namespaces share their loopback.
Ending == CASE stage = "mem" -> IF PlainDir \/ kernel = <<"mem", "off">> THEN "good" ELSE "killed"
            [] stage = "netns" -> IF kernel = <<"netns", "off">> THEN "other" ELSE "good"
            [] OTHER -> "good"

ChildEnds ==
    /\ Joins => proc.cg = stage
    /\ \/ ChildExits(Ending) /\ Works
       \/ ChildExits("killed") /\ Fails(<<"child", "killed">>)
    /\ NoMounts /\ Stays /\ UNCHANGED probeVars

HelperStep ==
    /\ TimedNext
    /\ NoMounts /\ Stays /\ UNCHANGED probeVars

\* A process that outlived its helper stays in its cgroup, whose directory
\* cannot be removed then; nor can an ordinary directory with files in it.
Leftover ==
    CASE PlainDir -> cg.dirs
      [] proc.st \in {"running", "dying"} /\ proc.cg # "root" -> {proc.cg}
      [] OTHER -> {}
Removed(p) == [cg EXCEPT !.held = @ \cup Leftover, !.dirs = @ \ ({p} \ Leftover)]

\* What memEnforcementTest, netnsIsolationTest and testNamespace conclude:
\* any error counts as the kernel's kill of the child that asked for memory.
TestVerdict(p) ==
    CASE p = "mem" -> IF call.err # "none" THEN "yes" ELSE "no"
      [] p = "ns" -> IF call.err # "none" THEN "no" ELSE "yes"
      [] OTHER -> IF call.err # "none" THEN "unknown" ELSE IF proc.code = "good" THEN "yes" ELSE "no"

TestEnds(p) ==
    /\ stage = p /\ p \in {"ns", "netns", "mem"} /\ call.st = "returned"
    /\ Concludes(p, TestVerdict(p))
    /\ cg' = Removed(p)
    /\ call' = NoCall /\ proc' = NoProc
    /\ NoMounts /\ UNCHANGED <<burn, failed>>

Work == IF call.err = "none" /\ proc.code = "good" THEN "done" ELSE "failed"

BurnEnds ==
    /\ stage = "cpu" /\ call.st = "returned" /\ burn.throttled = "none"
    /\ burn' = IF burn.base = "none" THEN [burn EXCEPT !.base = Work]
               ELSE [burn EXCEPT !.throttled = Work]
    /\ cg' = IF burn.base = "none" THEN cg ELSE Removed("cpu")
    /\ call' = NoCall /\ proc' = NoProc
    /\ NoMounts /\ Stays /\ Works

\* cpuEnforcementTest: less than 35 of 100 parts of the work is throttled; on a
\* machine that is busy with something else the measure may be wrong.
cpuVerdict ==
    /\ stage = "cpu" /\ burn.throttled # "none"
    /\ LET throttled == IF PlainDir \/ kernel = <<"cpu", "off">> THEN "no" ELSE "yes"
       IN  IF "failed" \in {burn.base, burn.throttled} THEN Concludes("cpu", "unknown") /\ Works
           ELSE \/ Concludes("cpu", throttled) /\ Works
                \/ Concludes("cpu", IF throttled = "yes" THEN "no" ELSE "yes") /\ Fails(<<"cpu", "load">>)
    /\ burn' = [base |-> "none", throttled |-> "none"]
    /\ NoMounts /\ UNCHANGED <<timedVars, cg>>

-----------------------------------------------------------------------------
(* The container-runtime phases run their commands with runWithTimeoutEnv: *)
(* one such command stands for them (NodeBoot has their daemons).          *)

RuntimeStarts ==
    /\ stage = "runtime" /\ Idle
    /\ \/ TimedStart("env") /\ UNCHANGED stage
       \/ Proceed /\ UNCHANGED timedVars  \* pureGoMode
    /\ NoMounts /\ UNCHANGED <<probeVars, verdict, failed>>

RuntimeEnds ==
    /\ stage = "runtime" /\ call.st \in {"returned", "panic"}
    /\ IF call.st = "panic" THEN stage' = "panic" ELSE Proceed
    /\ call' = NoCall /\ proc' = NoProc
    /\ NoMounts /\ UNCHANGED <<probeVars, verdict, failed>>

ProbesNext ==
    \/ probeCgroupV2
    \/ \E p \in Timed : TestStarts(p) \/ TestEnds(p)
    \/ BurnAgain \/ BurnEnds \/ cpuVerdict
    \/ ProbeExec \/ ChildJoins \/ ChildEnds \/ HelperStep
    \/ RuntimeStarts \/ RuntimeEnds

-----------------------------------------------------------------------------
(* Properties.                                                             *)

\* When the pods start, the controllers their limits need are delegated, unless
\* the cgroup file system is missing or the call that delegates them failed or
\* was not reached (probeCgroupV2, cpuEnforcementTest; startPodContainer ignores
\* the errors of memory.max and cpu.max).
LimitsDelegated ==
    stage = "node" =>
        /\ "memory" \notin cg.deleg =>
              failed \cap {<<"mount", "/sys">>, <<"cgroup", "mkdir">>, <<"cgroup", "+memory">>} # {}
        /\ "cpu" \notin cg.deleg =>
              failed \cap {<<"mount", "/sys">>, <<"cpu", "+cpu">>} # {}

\* A command that ran out of time was sent SIGKILL, a test leaves its cgroup
\* behind only for a process that survived that, and PID 1 goes down only with
\* runWithTimeoutEnv and a command that took too long to start
\* (combinedOutputTimeout, runWithTimeoutEnv).
TimeoutHandled ==
    /\ call.st = "returned" /\ call.err = "timeout" => proc.signalled
    /\ cg.dirs \ {stage} \subseteq cg.held
    /\ cg.held # {} => failed \cap {<<"child", "slow">>, <<"mount", "/sys">>} # {}
    /\ call.st = "panic" => call.helper = "env" /\ <<"child", "slow exec">> \in failed
=============================================================================
