-------------------------- MODULE EarlyBootProofs ---------------------------
(***************************************************************************)
(* Proofs about EarlyBoot, for any number of failed calls, any fstab and   *)
(* any request of the kubelet: what the boot hands over to the node agent  *)
(* is fit for its pods, the time limits of the probes leave nothing behind *)
(* that is not accounted for, a verdict is true of the kernel, and no part *)
(* of a boot in which nothing fails spoils a later one.                    *)
(***************************************************************************)
EXTENDS EarlyBoot, TLAPS

-----------------------------------------------------------------------------
(* The inductive invariant.                                                *)

\* Where the boot can be; the probes have not begun in the first five places.
Unprobed == {"mounts", "fstab", "applet", "installed", "kubelet"}
Stages == Unprobed \cup Probes \cup {"cgroup", "runtime", "node", "panic"}

\* Place a comes before place b in runAsInit.
Before(a, b) == \E i, j \in 1..21 : i < j /\ runAsInit[i] = a /\ runAsInit[j] = b

Helpers == [helper : {"none", "combined", "env"},
            st : {"idle", "starting", "select", "grace", "returned", "panic"},
            err : {"none", "start", "status", "timeout"}, out : {"empty", "torn", "all"}]
Commands == [st : {"none", "forking", "running", "dying", "exited", "reaped"},
             cg : {"root", "mem", "cpu"}, code : {"good", "other", "killed"}, signalled : BOOLEAN]
Cgroups == [deleg : SUBSET {"memory", "cpu"}, dirs : SUBSET {"mem", "cpu"}, held : SUBSET {"mem", "cpu"}]
Macs == [mode : {"permissive", "enforcing"}, label : [Mac -> {0, 1, 2}]]
TestNames == {"cross", "same", "unconf", "perm"}
Mains == [at : Nat, tenant : {0, 1, 2}, passed : SUBSET TestNames, exit : {"none", "0", "2", "3", "signal"}]

TypeInv ==
    /\ stage \in Stages
    /\ call \in Helpers
    /\ proc \in Commands
    /\ cg \in Cgroups
    /\ burn \in [base : {"none", "done", "failed"}, throttled : {"none", "done", "failed"}]
    /\ mac \in Macs /\ main \in Mains
    /\ verdict \in [Probes -> {"none", "yes", "no", "unknown"}]
    /\ kernel \in {Right} \cup KernelFlaws

\* What is not mounted after its turn failed, and only the applets touch it again.
MountedInv ==
    /\ stage # "kubelet" => applet = NoApplet
    /\ stage = "mounts" => mstep \in 1..7
    /\ (stage = "mounts" /\ mstep > 6) \/ stage \notin {"mounts", "kubelet"} =>
          HasCgroups \/ <<"mount", "/sys">> \in failed
    /\ (stage = "mounts" /\ mstep > 1) \/ stage \notin {"mounts", "kubelet"} =>
          "/proc" \in mounted \/ <<"mount", "/proc">> \in failed

\* How far the helper and its command can be from each other.
HelperInv ==
    /\ call.st = "idle" => call = NoCall /\ proc = NoProc
    /\ call.st # "idle" => stage \in Timed \cup {"runtime"} /\ proc.st # "none"
    /\ stage \in Timed => call.helper # "env"
    /\ proc.st = "forking" => call.st \in {"starting", "select", "panic"}
    /\ proc.st = "forking" /\ call.helper = "combined" => call.st = "starting"
    /\ call.st = "starting" => proc.st = "forking"
    /\ call.st # "idle" => call.helper # "none"
    /\ call.st = "grace" => proc.signalled /\ <<"child", "slow">> \in failed
    /\ call.st = "returned" /\ call.err = "timeout" => proc.signalled
    /\ call.st = "returned" /\ proc.st \in {"running", "dying"} => <<"child", "slow">> \in failed
    /\ call.st = "panic" => call.helper = "env" /\ <<"child", "slow exec">> \in failed
    /\ call.st = "returned" /\ call.err = "timeout" => <<"child", "slow">> \in failed

\* The directory of a test is there while the test runs.
CgroupInv ==
    /\ burn.base = "none" => burn.throttled = "none"
    /\ burn.base # "none" => stage = "cpu"
    /\ burn.throttled # "none" => call.st = "idle"
    /\ "mem" \in cg.dirs => stage \notin Unprobed \cup {"cgroup", "ns", "netns"}
    /\ "cpu" \in cg.dirs => stage \notin Unprobed \cup {"cgroup", "ns", "netns", "mem"}
    /\ stage \in {"mem", "cpu"} /\ stage \in cg.dirs \ cg.held =>
          call.st # "idle" \/ (burn.base # "none" /\ burn.throttled = "none")
    /\ cg.dirs \ {stage} \subseteq cg.held
    /\ cg.held # {} => failed \cap {<<"child", "slow">>, <<"mount", "/sys">>} # {}

\* A controller that is not delegated after its turn was refused.
DelegatedInv ==
    /\ stage \notin Unprobed \cup {"cgroup"} /\ "memory" \notin cg.deleg =>
          failed \cap {<<"mount", "/sys">>, <<"cgroup", "mkdir">>, <<"cgroup", "+memory">>} # {}
    /\ \/ stage \notin Unprobed \cup {"cgroup", "ns", "netns", "mem", "cpu"}
       \/ stage = "cpu" /\ (call.st # "idle" \/ burn.base # "none")
       => "cpu" \in cg.deleg \/ failed \cap {<<"mount", "/sys">>, <<"cpu", "+cpu">>} # {}

Spoilt(kind, ops) == \E op \in ops \cup {"killed"} : <<kind, op>> \in failed

\* The last places of a script at which the label and the mode are set back, and
\* the first step after the label.
LabelBack == [file |-> 12, socket |-> 11]
Labelled == [file |-> 3, socket |-> 2]

\* The main at work, by its place in the script and the way it ended.
Within ==
    /\ \A k \in {"file", "socket"} : stage = k =>
          /\ main.at <= Labelled[k] => mac.label[k] = 0
          /\ main.at > LabelBack[k] => mac.label[k] = 0 \/ <<k, "label">> \in failed
          /\ main.exit = "2" => mac.label[k] = 0
    /\ stage = "socket" /\ main.at > 12 => mac.mode = "permissive" \/ <<"socket", "mode">> \in failed
    /\ stage = "socket" /\ main.exit = "2" => Spoilt("socket", {"label", "mode"})
    /\ stage \in Mac =>
          /\ main.exit = "signal" => <<stage, "killed">> \in failed
          /\ main.exit \in {"0", "3"} => main.at > Len(Script[stage])

\* And what the mains leave behind.
MacInv ==
    /\ stage \notin Mac => main = NoMain
    /\ main.at = 0 => main = NoMain
    /\ stage # "signal" \/ main.at = 0 => mac.label["signal"] = 0
    /\ \A k \in {"file", "socket"} :
          /\ stage # k /\ ~Before(k, stage) /\ stage # "panic" => mac.label[k] = 0
          /\ Before(k, stage) => mac.label[k] = 0 \/ Spoilt(k, {"label", "mode"})
    /\ Before("socket", stage) => mac.mode = "permissive" \/ Spoilt("socket", {"start", "mode", "label"})
    /\ Within

IInv == TypeInv /\ MountedInv /\ HelperInv /\ CgroupInv /\ DelegatedInv /\ MacInv

-----------------------------------------------------------------------------
(* The invariant of the verdicts.                                          *)

\* One of the failures happened that look like what the probe hopes to see.
Misled(p) == failed \cap Misleading(p) # {}

\* On the kernel that a test is about, the command of the test ends in a way that
\* tells, unless one of the failures happened that look the same.
TimedInv ==
    /\ call.st = "returned" /\ call.err # "timeout" => proc.st = "reaped"
    /\ call.st = "returned" /\ call.err = "status" => proc.code = "killed"
    /\ call.st = "returned" /\ call.err = "start" =>
          \/ <<"child", "start">> \in failed \/ <<"mount", "/proc">> \in failed
          \/ stage = "ns" /\ kernel = <<"ns", "off">>
    /\ stage = "ns" /\ kernel = <<"ns", "off">> =>
          /\ proc.st \in {"none", "forking", "reaped"}
          /\ call.st \in {"idle", "starting", "returned"}
          /\ call.st = "returned" => call.err # "none"
    /\ stage = "netns" /\ kernel = <<"netns", "off">> =>
          /\ proc.st = "exited" => proc.code # "good"
          /\ call.st = "returned" /\ call.err = "none" => proc.code # "good"
    /\ stage = "mem" /\ kernel = <<"mem", "off">> /\ proc.code = "killed" =>
          <<"child", "killed">> \in failed

\* What a plain probe has seen on the kernel it is about.
Shown == {"started", "none", "ERR", "argv0", "path", "exit0", "exit2", "exit3", "signal", "host", "new",
          "allowed", "EPERM", "other errno", "root", "user", "sandbox", "died",
          "closed", "reaped"}

SeenShebang == kernel = <<"shebang", "argv0">> /\ Len(seen) >= 4 => seen[4] # "path"

SeenSeccomp ==
    /\ kernel = <<"seccomp", "errno">> /\ Len(seen) >= 1 => seen[1] # "exit0"
    /\ kernel = <<"seccomp", "kill">> /\ Len(seen) >= 2 =>
          seen[2] # "signal" \/ <<"seccomp", "kill">> \in failed

SeenUserns ==
    /\ Len(seen) >= 1 => \/ seen[1] \in {"host", "ERR"} /\ "/proc" \notin mounted
                         \/ seen[1] = "host" \/ <<"userns", "name">> \in failed
    /\ kernel[1] = "userns" /\ Len(seen) >= 2 =>
          seen[2] # "exit0" \/ <<"userns", "name">> \in failed

SeenRootless ==
    /\ kernel = <<"rootless", "open">> /\ Len(seen) >= 2 => seen[2] # "EPERM"
    /\ kernel = <<"rootless", "no caps">> /\ Len(seen) >= 3 => seen[3] # "exit0"
    /\ kernel = <<"rootless", "host">> /\ Len(seen) >= 3 => seen[3] # "exit0"

SeenUsermap == kernel[1] = "usermap" /\ Len(seen) >= 2 => seen[2] # "exit0"

SeenVolume ==
    /\ kernel = <<"volume", "suid">> \/ "/proc" \notin mounted => (Len(seen) >= 3 => seen[3] # "root")
    /\ kernel = <<"volume", "nosuid">> /\ Len(seen) >= 4 => seen[4] # "user"
    /\ kernel = <<"volume", "noexec">> /\ Len(seen) >= 5 =>
          seen[5] # "none" \/ <<"volume", "noexec">> \in failed \/ "/proc" \notin mounted

SeenSandbox ==
    /\ "/proc" \notin mounted /\ Len(seen) >= 1 => seen[1] \notin {"host", "sandbox"}
    /\ kernel = <<"sandbox", "setns">> =>
          /\ Len(seen) >= 1 => seen[1] # "host"
          /\ Len(seen) >= 3 => seen[3] # "sandbox"
    /\ kernel = <<"sandbox", "newnet">> =>
          /\ Len(seen) >= 1 => seen[1] # "sandbox"
          /\ Len(seen) >= 2 => \/ seen[2] = "host" \/ <<"sandbox", "name">> \in failed
                               \/ "/proc" \notin mounted

SeenInv ==
    /\ seen \in Seq(Shown)
    /\ stage \notin Plain => seen = <<>>
    /\ stage \in Plain => Len(seen) <= Len(Steps[stage])
    /\ stage = "shebang" => SeenShebang
    /\ stage = "seccomp" => SeenSeccomp
    /\ stage = "userns" => SeenUserns
    /\ stage = "rootless" => SeenRootless
    /\ stage = "usermap" => SeenUsermap
    /\ stage = "volume" => SeenVolume
    /\ stage = "sandbox" => SeenSandbox

\* The mode, the label and the tenant under which each access of a main is made:
\* a main that is still running has passed all the steps that must not fail.
SignalMain ==
    /\ main.at \in 2..10 => mac.label["signal"] = 2
    /\ main.at \in 3..8 => mac.mode = "enforcing"
    /\ main.at \in 9..10 => mac.mode = "permissive"
    /\ main.at \in {4, 5, 8, 9} => main.tenant = 1
    /\ main.at \in {6, 7} => main.tenant = 2

KindMain(k, b) ==
    /\ main.at \in b..(b + 6) => mac.mode = "enforcing"
    /\ main.at \in (b + 1)..(b + 9) => mac.label[k] = 1
    /\ main.at \in (b + 7)..(b + 9) => mac.mode = "permissive" \/ <<k, "mode">> \in failed
    /\ main.at \in (b + 3)..(b + 4) => main.tenant = 1 \/ <<k, "tenant">> \in failed
    /\ main.at \in (b + 5)..(b + 6) => main.tenant = 0 \/ <<k, "tenant">> \in failed
    /\ main.at \in (b + 8)..(b + 9) => main.tenant = 2 \/ <<k, "tenant">> \in failed

ScriptInv ==
    main.exit = "none" =>
        /\ stage = "signal" => SignalMain
        /\ \A k \in {"file", "socket"} : stage = k => KindMain(k, Labelled[k])

\* A flaw of the kernel shows in the test that is about it.
PassedKind(k) ==
    /\ kernel = <<k, "off">> => "cross" \notin main.passed
    /\ kernel = <<k, "coarse">> /\ "same" \in main.passed => Misled(k)
    /\ kernel = <<k, "stuck">> /\ "perm" \in main.passed => Misled(k)
    /\ kernel = <<k, "all">> /\ k # "signal" /\ "unconf" \in main.passed => Misled(k)

PassedInv ==
    /\ stage \in Mac /\ main.exit = "0" => Tests(stage) \subseteq main.passed
    /\ \A k \in Mac : stage = k => PassedKind(k)

NoneYet == \A p \in Probes : verdict[p] # "none" => Before(p, stage) \/ stage = "panic"

VInv == TimedInv /\ SeenInv /\ ScriptInv /\ PassedInv /\ NoneYet /\ VerdictSound

-----------------------------------------------------------------------------
(* The invariant of a boot in which all is right.                          *)

\* Every probe so far found its feature right.
Passed == \A p \in Probes : Before(p, stage) => verdict[p] = "yes"

\* The command of a test ended the way the test hopes for.
TimedRight ==
    /\ stage \in Timed /\ proc.st \in {"exited", "reaped"} => proc.code = IF stage = "mem" THEN "killed" ELSE "good"
    /\ stage = "mem" /\ call.st = "returned" => call.err # "none"

BurnRight == burn.base # "failed" /\ burn.throttled # "failed"

\* What a plain probe sees on a kernel on which all is right.
Expected ==
    [shebang |-> <<"started", "started", "started", "path">>,
     seccomp |-> <<"exit0", "signal">>,
     userns |-> <<"host", "exit0">>,
     rootless |-> <<"started", "EPERM", "exit0">>,
     usermap |-> <<"started", "exit0">>,
     volume |-> <<"started", "started", "root", "user", "none">>,
     sandbox |-> <<"sandbox", "host", "sandbox", "closed", "reaped">>]

SeenRight == stage \in Plain => \A i \in 1..Len(seen) : seen[i] = Expected[stage][i]

\* A main has passed every test it made.
MainRight ==
    stage \in Mac =>
        /\ main.exit \in {"none", "0"}
        /\ main.exit = "none" => \A i \in 1..Len(Script[stage]) :
              i < main.at /\ Script[stage][i].op = "test" => Script[stage][i].arg \in main.passed

\* A boot on a right kernel in which nothing has failed so far.
RightSoFar == Passed /\ TimedRight /\ BurnRight /\ SeenRight /\ MainRight

RInv == kernel = Right /\ failed = {} => RightSoFar

-----------------------------------------------------------------------------
(* The order of the boot.                                                  *)

\* The places after which there is another one.
Going == (Unprobed \ {"kubelet"}) \cup Probes \cup {"cgroup", "runtime"}

LEMMA Distinct == \A i, j \in 1..21 : runAsInit[i] = runAsInit[j] => i = j
  BY DEF runAsInit

LEMMA Numbered == \A s \in Going : \E i \in 1..20 : runAsInit[i] = s
<1>1. /\ runAsInit[1] = "mounts" /\ runAsInit[2] = "fstab" /\ runAsInit[3] = "applet"
      /\ runAsInit[4] = "installed" /\ runAsInit[5] = "cgroup" /\ runAsInit[6] = "ns"
      /\ runAsInit[7] = "netns" /\ runAsInit[8] = "mem" /\ runAsInit[9] = "cpu"
      /\ runAsInit[10] = "shebang" /\ runAsInit[11] = "runtime" /\ runAsInit[12] = "seccomp"
      /\ runAsInit[13] = "signal" /\ runAsInit[14] = "file" /\ runAsInit[15] = "socket"
      /\ runAsInit[16] = "userns" /\ runAsInit[17] = "rootless" /\ runAsInit[18] = "usermap"
      /\ runAsInit[19] = "volume" /\ runAsInit[20] = "sandbox" /\ runAsInit[21] = "node"
  BY DEF runAsInit
<1> HIDE DEF runAsInit
<1> QED BY <1>1 DEF Going, Unprobed, Probes, Timed, Plain, Mac

LEMMA Follows == ASSUME NEW i \in 1..20 PROVE Following(runAsInit[i]) = runAsInit[i + 1]
<1>1. Len(runAsInit) = 21
  BY DEF runAsInit
<1>2. (CHOOSE j \in 1..(Len(runAsInit) - 1) : runAsInit[j] = runAsInit[i]) = i
  BY <1>1, Distinct
<1>3. 1 + i = i + 1
  OBVIOUS
<1> QED BY <1>2, <1>3, Zenon DEF Following

\* What comes after each place of runAsInit.
LEMMA After ==
    /\ Following("mounts") = "fstab" /\ Following("fstab") = "applet"
    /\ Following("applet") = "installed" /\ Following("installed") = "cgroup"
    /\ Following("cgroup") = "ns" /\ Following("ns") = "netns"
    /\ Following("netns") = "mem" /\ Following("mem") = "cpu"
    /\ Following("cpu") = "shebang" /\ Following("shebang") = "runtime"
    /\ Following("runtime") = "seccomp" /\ Following("seccomp") = "signal"
    /\ Following("signal") = "file" /\ Following("file") = "socket"
    /\ Following("socket") = "userns" /\ Following("userns") = "rootless"
    /\ Following("rootless") = "usermap" /\ Following("usermap") = "volume"
    /\ Following("volume") = "sandbox" /\ Following("sandbox") = "node"
  BY Follows DEF runAsInit

\* What is before the next place: what was before this one, and this one.
LEMMA BeforeNext ==
    ASSUME NEW s \in Going, NEW a
    PROVE  Before(a, Following(s)) <=> Before(a, s) \/ a = s
<1> PICK i \in 1..20 : runAsInit[i] = s
  BY Numbered
<1>1. Following(s) = runAsInit[i + 1]
  BY Follows
<1>2. \A j \in 1..21 : (runAsInit[j] = s => j = i) /\ (runAsInit[j] = Following(s) => j = i + 1)
  BY <1>1, Distinct
<1> QED BY <1>1, <1>2 DEF Before

LEMMA BeforeNothing == \A a : ~Before(a, "mounts") /\ ~Before(a, "kubelet") /\ ~Before(a, "panic")
<1>1. \A j \in 1..21 : runAsInit[j] = "mounts" => j = 1
  BY DEF runAsInit
<1>2. \A j \in 1..21 : runAsInit[j] \notin {"kubelet", "panic"}
  BY DEF runAsInit
<1> QED BY <1>1, <1>2 DEF Before

\* The probes and the MAC's mains come after the first places.
LEMMA BeforeEarly == 
    /\ \A p \in Probes : \A s \in Unprobed \cup {"cgroup"} : ~Before(p, s)
    /\ \A p \in Probes : Before(p, "node")
    /\ \A s : ~Before(s, s)
<1>1. ASSUME NEW p \in Probes, NEW s \in Unprobed \cup {"cgroup"} PROVE ~Before(p, s)
  <2>1. \A i \in 1..21 : runAsInit[i] \in Probes => i > 5
    BY DEF runAsInit, Probes, Timed, Plain, Mac
  <2>2. \A i \in 1..21 : runAsInit[i] \in Unprobed \cup {"cgroup"} => i <= 5
    BY DEF runAsInit, Unprobed
  <2> QED BY <2>1, <2>2 DEF Before
<1>2. ASSUME NEW s PROVE ~Before(s, s)
  <2> SUFFICES ASSUME NEW i \in 1..21, NEW j \in 1..21, i < j, runAsInit[i] = s, runAsInit[j] = s
               PROVE  FALSE
    BY Zenon DEF Before
  <2>1. i = j
    BY Distinct, Zenon
  <2> QED BY <2>1
<1>3. ASSUME NEW p \in Probes PROVE Before(p, "node")
  <2>1. runAsInit[21] = "node"
    BY DEF runAsInit
  <2>2. PICK i \in 1..20 : runAsInit[i] = p
    BY Numbered, Zenon DEF Going
  <2> QED BY <2>1, <2>2 DEF Before
<1> QED BY <1>1, <1>2, <1>3

-----------------------------------------------------------------------------
(* Calls that fail.                                                        *)

LEMMA FailsIs == ASSUME NEW w, Fails(w) PROVE failed' = failed \cup {w}
  BY DEF Fails

-----------------------------------------------------------------------------
(* The scripts of the mains, step by step.                                 *)

LEMMA SignalScript ==
    /\ Len(Script["signal"]) = 9
    /\ Script["signal"][1] = Must("label", 2) /\ Script["signal"][2] = Must("mode", "enforcing")
    /\ Script["signal"][3] = Must("tenant", 1) /\ Script["signal"][4] = Test("cross")
    /\ Script["signal"][5] = Must("tenant", 2) /\ Script["signal"][6] = Test("same")
    /\ Script["signal"][7] = Must("tenant", 1) /\ Script["signal"][8] = Must("mode", "permissive")
    /\ Script["signal"][9] = Test("perm")
  BY DEF Script, macProbeMain

\* The steps that the scripts of the file and the socket probe are made of.
StepSet == {Must("create", 0), Must("mode", "enforcing"), Must("label", 1),
            Test("cross"), Test("same"), Test("unconf"), Test("perm"),
            May("tenant", 0), May("tenant", 1), May("tenant", 2),
            May("mode", "permissive"), May("label", 0)}

LEMMA LabelledScript ==
    /\ Len(LabelledMain) = 11 /\ LabelledMain \in Seq(StepSet)
    /\ LabelledMain[1] = Test("cross") /\ LabelledMain[2] = May("tenant", 1)
    /\ LabelledMain[3] = Test("same") /\ LabelledMain[4] = May("tenant", 0)
    /\ LabelledMain[5] = Test("unconf") /\ LabelledMain[6] = May("mode", "permissive")
    /\ LabelledMain[7] = May("tenant", 2) /\ LabelledMain[8] = Test("perm")
    /\ LabelledMain[9] = May("label", 0) /\ LabelledMain[10] = May("mode", "permissive")
    /\ LabelledMain[11] = May("tenant", 0)
  BY DEF LabelledMain, StepSet

LEMMA FileScript ==
    /\ Len(Script["file"]) = 14
    /\ Script["file"][1] = Must("create", 0) /\ Script["file"][2] = Must("mode", "enforcing")
    /\ Script["file"][3] = Must("label", 1)
    /\ \A i \in 1..11 : Script["file"][3 + i] = LabelledMain[i]
<1> DEFINE h == <<Must("create", 0), Must("mode", "enforcing"), Must("label", 1)>>
<1>1. Must("create", 0) \in StepSet /\ Must("mode", "enforcing") \in StepSet /\ Must("label", 1) \in StepSet
  BY DEF StepSet
<1>2. h \in Seq(StepSet) /\ Len(h) = 3
      /\ h[1] = Must("create", 0) /\ h[2] = Must("mode", "enforcing") /\ h[3] = Must("label", 1)
  BY <1>1
<1>3. Script["file"] = h \o LabelledMain
  BY DEF Script, fileMacProbeMain
<1> HIDE DEF h
<1>4. /\ Len(h \o LabelledMain) = Len(h) + Len(LabelledMain)
      /\ \A i \in 1..Len(h) : (h \o LabelledMain)[i] = h[i]
      /\ \A i \in 1..Len(LabelledMain) : (h \o LabelledMain)[Len(h) + i] = LabelledMain[i]
  <2>1. h \in Seq(StepSet) /\ LabelledMain \in Seq(StepSet)
    BY <1>2, LabelledScript
  <2> QED BY <2>1, SMTT(30)
<1>5. Len(Script["file"]) = 3 + 11
  BY <1>2, <1>3, <1>4, LabelledScript
<1>6. \A i \in 1..3 : Script["file"][i] = h[i]
  BY <1>2, <1>3, <1>4
<1>7. \A i \in 1..11 : Script["file"][3 + i] = LabelledMain[i]
  BY <1>2, <1>3, <1>4, LabelledScript
<1> QED BY <1>2, <1>5, <1>6, <1>7

LEMMA SocketScript ==
    /\ Len(Script["socket"]) = 13
    /\ Script["socket"][1] = Must("mode", "enforcing") /\ Script["socket"][2] = Must("label", 1)
    /\ \A i \in 1..11 : Script["socket"][2 + i] = LabelledMain[i]
<1> DEFINE h == <<Must("mode", "enforcing"), Must("label", 1)>>
<1>1. Must("mode", "enforcing") \in StepSet /\ Must("label", 1) \in StepSet
  BY DEF StepSet
<1>2. h \in Seq(StepSet) /\ Len(h) = 2 /\ h[1] = Must("mode", "enforcing") /\ h[2] = Must("label", 1)
  BY <1>1
<1>3. Script["socket"] = h \o LabelledMain
  BY DEF Script, socketMacProbeMain
<1> HIDE DEF h
<1>4. /\ Len(h \o LabelledMain) = Len(h) + Len(LabelledMain)
      /\ \A i \in 1..Len(h) : (h \o LabelledMain)[i] = h[i]
      /\ \A i \in 1..Len(LabelledMain) : (h \o LabelledMain)[Len(h) + i] = LabelledMain[i]
  <2>1. h \in Seq(StepSet) /\ LabelledMain \in Seq(StepSet)
    BY <1>2, LabelledScript
  <2> QED BY <2>1, SMTT(30)
<1>5. Len(Script["socket"]) = 2 + 11
  BY <1>2, <1>3, <1>4, LabelledScript
<1>6. \A i \in 1..2 : Script["socket"][i] = h[i]
  BY <1>2, <1>3, <1>4
<1>7. \A i \in 1..11 : Script["socket"][2 + i] = LabelledMain[i]
  BY <1>2, <1>3, <1>4, LabelledScript
<1> QED BY <1>2, <1>5, <1>6, <1>7

-----------------------------------------------------------------------------
(* The invariant holds at first, and every step keeps it.                  *)

LEMMA InitIInv == Init => IInv
<1> SUFFICES ASSUME Init PROVE IInv
  OBVIOUS
<1> USE DEF Init, WorldInit, MountsInit, ProbesInit, MacInit, TimedInit
<1>1. TypeInv
  BY DEF TypeInv, Helpers, Commands, Cgroups, Macs, Mains, Stages, Unprobed, NoCall, NoProc, NoMain, Right
<1>2. MountedInv
  BY DEF MountedInv
<1>3. HelperInv
  BY DEF HelperInv, NoCall, NoProc, Timed
<1>4. CgroupInv /\ DelegatedInv
  BY DEF CgroupInv, DelegatedInv, Unprobed
<1>5. MacInv
  <2>1. \A k \in Mac : mac.label[k] = 0 /\ ~Before(k, stage)
    BY BeforeNothing
  <2> QED BY <2>1 DEF MacInv, Within, Mac, NoMain, Labelled, LabelBack
<1> QED BY <1>1, <1>2, <1>3, <1>4, <1>5 DEF IInv

\* The part of the boot before the probes changes the mounts only.
LEMMA MountsMoves ==
    ASSUME MountedInv, stage \in Stages, MountsNext
    PROVE  stage \in Unprobed /\ stage' \in Unprobed /\ failed \subseteq failed' /\ MountedInv'
<1> USE After DEF MountedInv, Proceed, Works, HasCgroups
<1>0. stage # "kubelet" => applet.cmd = "none"
  <2>1. NoApplet.cmd = "none"
    BY Zenon DEF NoApplet
  <2> QED BY <2>1
<1>1. CASE MountDefault
  <2>1. mstep \in 1..7 /\ stage = "mounts" /\ applet' = applet /\ Len(defaultMounts) = 7
        /\ defaultMounts[1] = "/proc" /\ defaultMounts[6] = "/sys/fs/cgroup"
    BY <1>1 DEF MountDefault, defaultMounts
  <2>2. /\ failed \subseteq failed' /\ mounted \subseteq mounted'
        /\ defaultMounts[mstep] \in mounted' \/ defaultMounts[mstep] = "/dev"
           \/ <<"mount", FaultOf(defaultMounts[mstep])>> \in failed'
    BY <1>1 DEF MountDefault, Fails
  <2>3. IF mstep < 7 THEN mstep' = mstep + 1 /\ stage' = stage ELSE stage' = "fstab"
    BY <1>1, <2>1 DEF MountDefault, Round
  <2>4. mstep = 1 => "/proc" \in mounted' \/ <<"mount", "/proc">> \in failed'
    BY <2>1, <2>2 DEF FaultOf
  <2>5. mstep = 6 => "/sys/fs/cgroup" \in mounted' \/ <<"mount", "/sys">> \in failed'
    BY <2>1, <2>2 DEF FaultOf
  <2> QED BY <2>1, <2>2, <2>3, <2>4, <2>5 DEF Unprobed
<1>2. CASE ReadFstab
  BY <1>2 DEF ReadFstab, Unprobed
<1>3. CASE MountSpec
  BY <1>3 DEF MountSpec, Round, Fails, Unprobed
<1>4. CASE InstallLink
  BY <1>4 DEF InstallLink, Round, Fails, Unprobed
<1>5. CASE KubeletCalls
  BY <1>5 DEF KubeletCalls, Unprobed
<1>6. CASE CallMount \/ CallUmount
  BY <1>6 DEF CallMount, CallUmount, Unprobed
<1>7. CASE MountCall \/ Umount \/ AppletEnds
  BY <1>0, <1>7 DEF MountCall, Umount, AppletEnds, Unprobed, Fails
<1> QED BY <1>1, <1>2, <1>3, <1>4, <1>5, <1>6, <1>7 DEF MountsNext

\* A step that leaves the machine alone, before the probes and out of them.
LEMMA MountsStep ==
    ASSUME IInv, MountsNext, UNCHANGED <<kernel, verdict, timedVars, probeVars, seen, macVars>>
    PROVE  IInv'
<1>1. stage \in Unprobed /\ stage' \in Unprobed /\ failed \subseteq failed' /\ MountedInv'
  BY MountsMoves DEF IInv, TypeInv
<1>2. TypeInv'
  BY <1>1 DEF IInv, TypeInv, Stages, timedVars, probeVars, macVars
<1>3. HelperInv'
  BY <1>1 DEF IInv, HelperInv, timedVars, Unprobed, Timed
<1>4. CgroupInv' /\ DelegatedInv'
  <2>1. UNCHANGED <<call, cg, burn>> /\ cg.dirs = {}
    BY <1>1 DEF IInv, CgroupInv, TypeInv, Cgroups, timedVars, probeVars
  <2>2. CgroupInv'
    BY <1>1, <2>1 DEF IInv, CgroupInv, Unprobed
  <2>3. DelegatedInv'
    BY <1>1, <2>1 DEF IInv, DelegatedInv, Unprobed
  <2> QED BY <2>2, <2>3
<1>5. MacInv'
  <2>1. \A k \in Mac : ~Before(k, stage) /\ ~Before(k, stage') /\ stage # k /\ stage' # k
    BY <1>1, BeforeEarly DEF Unprobed, Mac, Probes
  <2>2. stage \notin Mac /\ stage' \notin Mac /\ stage # "panic" /\ UNCHANGED <<mac, main>>
    BY <1>1 DEF Unprobed, Mac, macVars
  <2> QED BY <2>1, <2>2 DEF IInv, MacInv, Within, Mac
<1> QED BY <1>1, <1>2, <1>3, <1>4, <1>5 DEF IInv

LEMMA probeKernelStep == ASSUME IInv, probeKernel PROVE IInv'
<1>1. stage = "installed" /\ stage' = "cgroup"
      /\ UNCHANGED <<failed, verdict, mountVars, timedVars, probeVars, macVars>>
  BY After DEF probeKernel, Proceed
<1>2. TypeInv'
  BY <1>1 DEF IInv, TypeInv, Stages, timedVars, probeVars, macVars, probeKernel
<1>3. MountedInv'
  BY <1>1 DEF IInv, MountedInv, mountVars, HasCgroups
<1>4. HelperInv'
  BY <1>1 DEF IInv, HelperInv, timedVars, Timed
<1>5. CgroupInv' /\ DelegatedInv'
  BY <1>1 DEF IInv, CgroupInv, DelegatedInv, HelperInv, timedVars, probeVars, Unprobed, TypeInv, Cgroups
<1>6. MacInv'
  <2>1. \A k \in Mac : ~Before(k, stage) /\ ~Before(k, stage') /\ stage # k /\ stage' # k
    BY <1>1, BeforeEarly DEF Unprobed, Mac, Probes
  <2>2. stage \notin Mac /\ stage' \notin Mac /\ stage # "panic" /\ UNCHANGED <<mac, main>>
    BY <1>1 DEF Mac, macVars
  <2> QED BY <2>1, <2>2 DEF IInv, MacInv, Within, Mac
<1> QED BY <1>2, <1>3, <1>4, <1>5, <1>6 DEF IInv

\* How a step moves through runAsInit.
Moves == stage' = stage \/ (stage \in Going /\ stage' = Following(stage)) \/ stage' = "panic"

\* The places of a boot that is past the mounts.
LEMMA Late ==
    ASSUME stage \in Stages \ Unprobed, Moves
    PROVE  stage' \in Stages \ Unprobed
  BY After DEF Moves, Stages, Unprobed, Going, Probes, Timed, Plain, Mac

LEMMA MountedFrame ==
    ASSUME IInv, stage \notin Unprobed, Moves, failed \subseteq failed', UNCHANGED mountVars
    PROVE  MountedInv'
<1>1. stage' \notin Unprobed
  BY Late DEF IInv, TypeInv
<1> QED BY <1>1 DEF IInv, MountedInv, mountVars, HasCgroups, Unprobed

LEMMA MacFrame ==
    ASSUME IInv, stage \notin Mac, stage \notin Unprobed, Moves, failed \subseteq failed', UNCHANGED macVars
    PROVE  MacInv'
<1>1. UNCHANGED <<mac, main>> /\ main = NoMain /\ main.at = 0 /\ main.exit = "none"
  BY DEF IInv, MacInv, macVars, NoMain
<1>2. \A k \in Mac : Before(k, stage') => Before(k, stage)
  BY BeforeNext, BeforeNothing DEF Moves
<1>3. \A k \in Mac : stage = "panic" => ~Before(k, stage)
  BY BeforeNothing
<1>4. \A k \in Mac : stage' # "panic" => (Before(k, stage) => Before(k, stage'))
  BY BeforeNext DEF Moves
<1>5. stage = "panic" => stage' = "panic"
  BY DEF Moves, Going, Unprobed, Probes, Timed, Plain, Mac
<1>6. ASSUME NEW k \in {"file", "socket"}
      PROVE  /\ stage' # k /\ ~Before(k, stage') /\ stage' # "panic" => mac.label[k] = 0
             /\ stage' = k => mac.label[k] = 0
             /\ Before(k, stage') => mac.label[k] = 0 \/ Spoilt(k, {"label", "mode"})'
  <2>1. k \in Mac /\ stage # k
    BY DEF Mac
  <2>2. stage # "panic" /\ ~Before(k, stage) => mac.label[k] = 0
    BY <2>1 DEF IInv, MacInv
  <2>3. stage' = k => ~Before(k, stage) /\ stage # "panic"
    BY <1>4, <1>5, <2>1, BeforeEarly DEF Mac
  <2>4. Before(k, stage) => mac.label[k] = 0 \/ Spoilt(k, {"label", "mode"})'
    BY DEF IInv, MacInv, Spoilt
  <2> QED BY <1>2, <1>4, <1>5, <2>1, <2>2, <2>3, <2>4
<1>7. mac.label["signal"] = 0
  BY DEF IInv, MacInv, Mac
<1>8. Before("socket", stage') =>
          mac.mode = "permissive" \/ Spoilt("socket", {"start", "mode", "label"})'
  BY <1>2 DEF IInv, MacInv, Spoilt, Mac
<1> QED BY <1>1, <1>6, <1>7, <1>8 DEF MacInv, Within, Labelled, LabelBack

\* A helper or a command is at work only in the tests and in the runtime phases.
LEMMA AtWork ==
    ASSUME HelperInv, call.st # "idle" \/ proc.st # "none" PROVE stage \in Timed \cup {"runtime"}
<1>1. NoProc.st = "none"
  BY DEF NoProc
<1> QED BY <1>1 DEF HelperInv

LEMMA ProbesMoves ==
    ASSUME IInv, ProbesNext
    PROVE  /\ stage \in Timed \cup {"cgroup", "runtime"} /\ Moves
           /\ failed \subseteq failed' /\ UNCHANGED mountVars
<1> USE DEF Moves, Proceed, Stays, Works, Fails, NoMounts
<1>0. HelperInv /\ Timed \cup {"cgroup", "runtime"} \subseteq Going
  BY DEF IInv, Going, Probes
<1>1. CASE probeCgroupV2
  BY <1>0, <1>1 DEF probeCgroupV2
<1>2. ASSUME NEW p \in Timed, TestStarts(p) \/ TestEnds(p) PROVE stage = p /\ Moves /\ failed \subseteq failed' /\ UNCHANGED mountVars
  <2>1. CASE TestStarts(p)
    BY <1>0, <2>1 DEF TestStarts, Concludes, CannotPrepare
  <2>2. CASE TestEnds(p)
    BY <1>0, <2>2 DEF TestEnds, Concludes
  <2> QED BY <1>2, <2>1, <2>2
<1>3. CASE BurnAgain \/ BurnEnds
  BY <1>3 DEF BurnAgain, BurnEnds, Timed
<1>4. CASE cpuVerdict
  BY <1>0, <1>4 DEF cpuVerdict, Concludes, Timed
<1>5. CASE ProbeExec
  <2>1. proc.st = "forking"
    BY <1>5 DEF ProbeExec, ExecDone, ExecFails
  <2> QED BY <1>0, <1>5, <2>1, AtWork DEF ProbeExec, ExecDone
<1>6. CASE ChildJoins \/ ChildEnds
  <2>1. proc.st = "running"
    BY <1>6 DEF ChildJoins, ChildEnds, ChildExits
  <2> QED BY <1>0, <1>6, <2>1, AtWork DEF ChildJoins, ChildEnds
<1>7. CASE HelperStep
  <2>1. call.st # "idle"
    BY <1>7 DEF HelperStep, TimedNext, DoneReceived, TimerFires, GraceDone, GraceOver
  <2> QED BY <1>0, <1>7, <2>1, AtWork DEF HelperStep, TimedNext, DoneReceived, TimerFires, GraceDone, GraceOver
<1>8. CASE RuntimeStarts \/ RuntimeEnds
  BY <1>0, <1>8 DEF RuntimeStarts, RuntimeEnds
<1> QED BY <1>1, <1>2, <1>3, <1>4, <1>5, <1>6, <1>7, <1>8 DEF ProbesNext

\* The state that the tests and their helper work on.
HInv == HelperInv /\ CgroupInv /\ DelegatedInv
TInv == TypeInv /\ MountedInv /\ HInv

LEMMA NoneIs ==
    /\ NoProc.st = "none" /\ NoProc.cg = "root" /\ NoProc \in Commands
    /\ NoCall.st = "idle" /\ NoCall.helper = "none" /\ NoCall \in Helpers
  BY DEF NoProc, NoCall, Helpers, Commands

LEMMA probeCgroupV2Step ==
    ASSUME TInv, probeCgroupV2, UNCHANGED <<kernel, seen, macVars>>
    PROVE  TypeInv' /\ HInv'
<1>1. /\ stage = "cgroup" /\ stage' = "ns" /\ UNCHANGED <<call, proc, burn, verdict, mac, main>>
      /\ failed \subseteq failed' /\ call.st = "idle"
  BY After DEF probeCgroupV2, Proceed, timedVars, macVars, Fails, Works, TInv, HInv, HelperInv, Timed
<1>2. /\ cg'.dirs = cg.dirs /\ cg'.held = cg.held /\ cg' \in Cgroups
      /\ "memory" \notin cg'.deleg => 
          failed' \cap {<<"mount", "/sys">>, <<"cgroup", "mkdir">>, <<"cgroup", "+memory">>} # {}
  <2>1. CASE ~HasCgroups /\ UNCHANGED cg /\ Works
    BY <1>1, <2>1 DEF TInv, TypeInv, MountedInv, Works
  <2>2. CASE UNCHANGED cg /\ (Fails(<<"cgroup", "mkdir">>) \/ Fails(<<"cgroup", "+memory">>))
    BY <2>2 DEF Fails, TInv, TypeInv
  <2>3. CASE cg' = [cg EXCEPT !.deleg = @ \cup {"memory"}]
    BY <2>3 DEF TInv, TypeInv, Cgroups
  <2> QED BY <2>1, <2>2, <2>3 DEF probeCgroupV2
<1>3. TypeInv'
  BY <1>1, <1>2 DEF TInv, TypeInv, Stages, Probes, Timed
<1>4. HelperInv'
  BY <1>1, NoneIs DEF TInv, HInv, HelperInv, Timed
<1>5. CgroupInv'
  BY <1>1, <1>2 DEF TInv, HInv, CgroupInv, Unprobed, Cgroups
<1>6. DelegatedInv'
  BY <1>1, <1>2 DEF TInv, HInv, DelegatedInv, Unprobed
<1> QED BY <1>3, <1>4, <1>5, <1>6 DEF HInv

\* A command is being started: nothing of it is there yet.
LEMMA TimedStartIs ==
    ASSUME NEW h \in {"combined", "env"}, TimedStart(h)
    PROVE  /\ call.st = "idle" /\ proc.st = "none"
           /\ call' = [helper |-> h, st |-> IF h = "combined" THEN "starting" ELSE "select",
                       err |-> "none", out |-> "empty"]
           /\ proc' = [st |-> "forking", cg |-> "root", code |-> "good", signalled |-> FALSE]
  BY DEF TimedStart, NoCall, NoProc

LEMMA TestStartsStep ==
    ASSUME TInv, NEW p \in Timed, TestStarts(p), UNCHANGED <<kernel, seen, macVars>>
    PROVE  TypeInv' /\ HInv'
<1>0. /\ stage = p /\ call.st = "idle" /\ burn.base = "none" /\ burn.throttled = "none"
      /\ UNCHANGED <<mounted, burn, mac, main>> /\ p \notin Unprobed \cup {"cgroup"} /\ p \in Going
      /\ proc = NoProc
      /\ HasCgroups \/ <<"mount", "/sys">> \in failed
  BY DEF TestStarts, Idle, NoMounts, mountVars, macVars, TInv, HInv, CgroupInv, HelperInv, MountedInv, Timed, Unprobed, Going, Probes
<1>1. CASE Prepare(p) /\ TimedStart("combined") /\ Stays /\ Works
  <2>1. /\ call' = [helper |-> "combined", st |-> "starting", err |-> "none", out |-> "empty"]
        /\ proc' = [st |-> "forking", cg |-> "root", code |-> "good", signalled |-> FALSE]
        /\ UNCHANGED <<stage, verdict, failed>>
    BY <1>1, TimedStartIs DEF Stays, Works
  <2>2. /\ cg'.held = cg.held /\ cg.deleg \subseteq cg'.deleg
        /\ cg'.dirs = cg.dirs \cup (IF p \in {"mem", "cpu"} THEN {p} ELSE {})
        /\ p = "cpu" => "cpu" \in cg'.deleg \/ ~HasCgroups
        /\ cg' \in Cgroups
    BY <1>1 DEF Prepare, WithDir, TInv, TypeInv, Cgroups
  <2>3. TypeInv'
    BY <1>0, <2>1, <2>2 DEF TInv, TypeInv, Helpers, Commands
  <2>4. HelperInv'
    BY <1>0, <2>1 DEF TInv, HInv, HelperInv
  <2>5. CgroupInv'
    BY <1>0, <2>1, <2>2 DEF TInv, HInv, CgroupInv, Timed, Unprobed
  <2>6. DelegatedInv'
    BY <1>0, <2>1, <2>2 DEF TInv, HInv, DelegatedInv
  <2> QED BY <2>3, <2>4, <2>5, <2>6 DEF HInv
<1>2. CASE CannotPrepare(p) /\ Concludes(p, "unknown") /\ UNCHANGED timedVars
  <2>1. UNCHANGED <<call, proc>> /\ stage' = Following(p) /\ verdict' = [verdict EXCEPT ![p] = "unknown"]
    BY <1>0, <1>2 DEF Concludes, Proceed, timedVars
  <2>2. /\ cg'.held = cg.held /\ cg.deleg \subseteq cg'.deleg /\ cg'.dirs = cg.dirs
        /\ failed \subseteq failed'
        /\ p = "cpu" => "cpu" \in cg'.deleg \/ failed' \cap {<<"mount", "/sys">>, <<"cpu", "+cpu">>} # {}
        /\ cg' \in Cgroups
    <3>1. CASE \/ UNCHANGED cg /\ p # "cpu" /\ (Works \/ Fails(<<p, "prepare">>))
               \/ UNCHANGED cg /\ Works /\ ~HasCgroups
               \/ UNCHANGED cg /\ Fails(<<p, "+cpu">>)
      BY <1>0, <3>1 DEF Fails, Works, TInv, TypeInv
    <3>2. CASE p = "cpu" /\ Fails(<<p, "prepare">>) /\ cg' = Delegated("cpu")
      <4>1. cg'.held = cg.held /\ cg'.deleg = cg.deleg \cup {"cpu"} /\ cg'.dirs = cg.dirs /\ cg' \in Cgroups
        BY <3>2 DEF Delegated, TInv, TypeInv, Cgroups
      <4> QED BY <3>2, <4>1 DEF Fails
    <3> QED BY <1>2, <3>1, <3>2 DEF CannotPrepare
  <2>3. TypeInv'
    BY <1>0, <2>1, <2>2, After DEF TInv, TypeInv, Stages, Probes, Timed, Plain
  <2>4. HelperInv'
    BY <1>0, <2>1, <2>2, After, NoneIs DEF TInv, HInv, HelperInv, Timed
  <2>5. CgroupInv'
    BY <1>0, <2>1, <2>2, After DEF TInv, HInv, CgroupInv, Timed, Unprobed, Cgroups
  <2>6. DelegatedInv'
    BY <1>0, <2>1, <2>2, After DEF TInv, HInv, DelegatedInv, Timed, Unprobed
  <2> QED BY <2>3, <2>4, <2>5, <2>6 DEF HInv
<1> QED BY <1>1, <1>2 DEF TestStarts

\* A directory that the deferred Remove leaves is that of a process that outlived
\* its time, or an ordinary one because nothing was mounted.
LEMMA RemovedIs ==
    ASSUME TInv, call.st = "returned", stage \in Timed, NEW p, cg' = Removed(p)
    PROVE  /\ cg'.deleg = cg.deleg /\ cg.held \subseteq cg'.held /\ cg'.dirs \subseteq cg.dirs
           /\ p \in cg'.dirs => p \in cg'.held
           /\ cg' \in Cgroups
           /\ cg'.held # {} => failed \cap {<<"child", "slow">>, <<"mount", "/sys">>} # {}
<1>1. Leftover \in SUBSET {"mem", "cpu"}
  BY DEF Leftover, TInv, TypeInv, Cgroups, Commands
<1>2. Leftover # {} => failed \cap {<<"child", "slow">>, <<"mount", "/sys">>} # {}
  <2>1. CASE PlainDir
    BY <2>1 DEF PlainDir, TInv, MountedInv, Timed
  <2>2. CASE ~PlainDir
    BY <2>2 DEF Leftover, TInv, HInv, HelperInv
  <2> QED BY <2>1, <2>2
<1> DEFINE left == Leftover
<1>3. cg'.deleg = cg.deleg /\ cg'.held = cg.held \cup left /\ cg'.dirs = cg.dirs \ ({p} \ left)
      /\ cg' \in Cgroups
  <2> HIDE DEF left
  <2>1. left \in SUBSET {"mem", "cpu"}
    BY <1>1 DEF left
  <2> DEFINE gone == {p} \ left
             c == [cg EXCEPT !.held = cg.held \cup left]
  <2>2. c \in Cgroups /\ c.deleg = cg.deleg /\ c.held = cg.held \cup left /\ c.dirs = cg.dirs
    BY <2>1 DEF TInv, TypeInv, Cgroups
  <2>3. cg' = [c EXCEPT !.dirs = cg.dirs \ gone]
    BY DEF Removed, left
  <2> HIDE DEF c, gone
  <2>4. cg' \in Cgroups /\ cg'.deleg = c.deleg /\ cg'.held = c.held /\ cg'.dirs = cg.dirs \ gone
    BY <2>2, <2>3 DEF Cgroups
  <2> QED BY <2>2, <2>4 DEF gone
<1> HIDE DEF left
<1>4. left # {} => failed \cap {<<"child", "slow">>, <<"mount", "/sys">>} # {}
  BY <1>2 DEF left
<1> QED BY <1>3, <1>4 DEF TInv, HInv, CgroupInv

LEMMA TestEndsStep ==
    ASSUME TInv, NEW p \in Timed, TestEnds(p), UNCHANGED <<kernel, seen, macVars>>
    PROVE  TypeInv' /\ HInv'
<1>1. /\ stage = p /\ p \in {"ns", "netns", "mem"} /\ call.st = "returned" /\ stage' = Following(p)
      /\ verdict' = [verdict EXCEPT ![p] = TestVerdict(p)] /\ cg' = Removed(p)
      /\ call' = NoCall /\ proc' = NoProc /\ UNCHANGED <<burn, failed, mac, main>>
  BY DEF TestEnds, Concludes, Proceed, macVars
<1>2. burn.base = "none" /\ burn.throttled = "none"
  BY <1>1 DEF TInv, HInv, CgroupInv
<1>3. /\ cg'.deleg = cg.deleg /\ cg.held \subseteq cg'.held /\ cg'.dirs \subseteq cg.dirs
      /\ p \in cg'.dirs => p \in cg'.held
      /\ cg' \in Cgroups
      /\ cg'.held # {} => failed \cap {<<"child", "slow">>, <<"mount", "/sys">>} # {}
  BY <1>1, RemovedIs
<1>4. TestVerdict(p) \in {"yes", "no", "unknown"}
  BY DEF TestVerdict
<1>5. TypeInv'
  BY <1>1, <1>3, <1>4, NoneIs, After DEF TInv, TypeInv, Stages, Probes, Timed
<1>6. HelperInv'
  BY <1>1, NoneIs, After DEF HelperInv
<1>7. CgroupInv'
  BY <1>1, <1>2, <1>3, NoneIs, After DEF TInv, HInv, CgroupInv, Unprobed, Cgroups
<1>8. DelegatedInv'
  BY <1>1, <1>2, <1>3, NoneIs, After DEF TInv, HInv, DelegatedInv, Unprobed
<1> QED BY <1>5, <1>6, <1>7, <1>8 DEF HInv

LEMMA BurnAgainStep ==
    ASSUME TInv, BurnAgain, UNCHANGED <<kernel, seen, macVars>>
    PROVE  TypeInv' /\ HInv'
<1>1. /\ stage = "cpu" /\ burn.base # "none" /\ burn.throttled = "none"
      /\ call' = [helper |-> "combined", st |-> "starting", err |-> "none", out |-> "empty"]
      /\ proc' = [st |-> "forking", cg |-> "root", code |-> "good", signalled |-> FALSE]
      /\ UNCHANGED <<stage, verdict, failed, cg, burn, mac, main>>
  BY TimedStartIs DEF BurnAgain, Stays, Works, probeVars, macVars
<1>2. TypeInv'
  BY <1>1 DEF TInv, TypeInv, Helpers, Commands
<1>3. HelperInv'
  BY <1>1 DEF HelperInv, Timed
<1>4. CgroupInv'
  BY <1>1 DEF TInv, HInv, CgroupInv
<1>5. DelegatedInv'
  BY <1>1 DEF TInv, HInv, DelegatedInv
<1> QED BY <1>2, <1>3, <1>4, <1>5 DEF HInv

LEMMA BurnEndsStep ==
    ASSUME TInv, BurnEnds, UNCHANGED <<kernel, seen, macVars>>
    PROVE  TypeInv' /\ HInv'
<1>1. /\ stage = "cpu" /\ call.st = "returned" /\ burn.throttled = "none"
      /\ call' = NoCall /\ proc' = NoProc /\ UNCHANGED <<stage, verdict, failed, mac, main>>
  BY DEF BurnEnds, Stays, Works, macVars
<1>2. /\ burn'.base # "none" /\ burn' \in [base : {"none", "done", "failed"}, throttled : {"none", "done", "failed"}]
      /\ burn'.throttled = "none" <=> burn.base = "none"
  <2>1. Work \in {"done", "failed"}
    BY DEF Work
  <2> QED BY <1>1, <2>1 DEF BurnEnds, TInv, TypeInv
<1>3. /\ cg'.deleg = cg.deleg /\ cg.held \subseteq cg'.held /\ cg'.dirs \subseteq cg.dirs
      /\ burn.base # "none" => ("cpu" \in cg'.dirs => "cpu" \in cg'.held)
      /\ cg' \in Cgroups
      /\ cg'.held # {} => failed \cap {<<"child", "slow">>, <<"mount", "/sys">>} # {}
  <2>1. CASE burn.base = "none"
    BY <1>1, <2>1 DEF BurnEnds, TInv, HInv, CgroupInv, TypeInv
  <2>2. CASE burn.base # "none"
    <3>1. cg' = Removed("cpu") /\ stage \in Timed
      BY <1>1, <2>2 DEF BurnEnds, Timed
    <3> QED BY <1>1, <3>1, RemovedIs
  <2> QED BY <2>1, <2>2
<1>5. TypeInv'
  BY <1>1, <1>2, <1>3, NoneIs DEF TInv, TypeInv
<1>6. HelperInv'
  BY <1>1, NoneIs DEF HelperInv
<1>7. CgroupInv'
  BY <1>1, <1>2, <1>3, NoneIs DEF TInv, HInv, CgroupInv, Unprobed
<1>8. DelegatedInv'
  BY <1>1, <1>2, <1>3 DEF TInv, HInv, DelegatedInv, Unprobed
<1> QED BY <1>5, <1>6, <1>7, <1>8 DEF HInv

LEMMA cpuVerdictStep ==
    ASSUME TInv, cpuVerdict, UNCHANGED <<kernel, seen, macVars>>
    PROVE  TypeInv' /\ HInv'
<1>1. /\ stage = "cpu" /\ burn.throttled # "none" /\ burn.base # "none" /\ call.st = "idle"
      /\ stage' = "shebang" /\ UNCHANGED <<call, proc, cg, mac, main>>
      /\ burn' = [base |-> "none", throttled |-> "none"] /\ failed \subseteq failed'
  BY After DEF cpuVerdict, Concludes, Proceed, timedVars, macVars, Fails, Works, TInv, HInv, CgroupInv
<1>2. \E v \in {"yes", "no", "unknown"} : verdict' = [verdict EXCEPT !["cpu"] = v]
  BY Zenon DEF cpuVerdict, Concludes
<1>3. TypeInv'
  BY <1>1, <1>2 DEF TInv, TypeInv, Stages, Probes, Timed, Plain
<1>4. HelperInv'
  BY <1>1, NoneIs DEF TInv, HInv, HelperInv, Timed
<1>5. CgroupInv'
  BY <1>1 DEF TInv, HInv, CgroupInv, Unprobed, TypeInv, Cgroups
<1>6. DelegatedInv'
  BY <1>1 DEF TInv, HInv, DelegatedInv, Unprobed
<1> QED BY <1>3, <1>4, <1>5, <1>6 DEF HInv

\* A step of the command or of the helper, while the test waits for them.
LEMMA HelperFrame ==
    ASSUME TInv, call.st # "idle", call'.st # "idle", HelperInv', call' \in Helpers, proc' \in Commands,
           failed \subseteq failed', UNCHANGED <<stage, verdict, cg, burn, kernel, mac, main>>
    PROVE  TypeInv' /\ HInv'
<1>1. burn.throttled = "none"
  BY DEF TInv, HInv, CgroupInv
<1>2. TypeInv'
  BY DEF TInv, TypeInv
<1>3. CgroupInv'
  BY <1>1 DEF TInv, HInv, CgroupInv
<1>4. DelegatedInv'
  BY DEF TInv, HInv, DelegatedInv
<1> QED BY <1>2, <1>3, <1>4 DEF HInv

LEMMA ProbeExecStep ==
    ASSUME TInv, ProbeExec, UNCHANGED <<kernel, seen, macVars>>
    PROVE  TypeInv' /\ HInv'
<1>1. /\ proc.st = "forking" /\ UNCHANGED <<stage, verdict, cg, burn, mac, main>> /\ failed \subseteq failed'
      /\ call \in Helpers /\ proc \in Commands
  BY DEF ProbeExec, ExecDone, ExecFails, Stays, Works, Fails, probeVars, macVars, TInv, TypeInv
<1>2. call.st \in {"starting", "select", "panic"}
  BY <1>1 DEF TInv, HInv, HelperInv
<1>3. CASE ExecDone
  <2>1. /\ call'.st = IF call.st = "starting" THEN "select" ELSE call.st
        /\ call'.helper = call.helper /\ call'.err = call.err /\ call' \in Helpers
    BY <1>1, <1>3 DEF ExecDone, Helpers
  <2>2. proc'.st = "running" /\ (proc'.signalled <=> proc.signalled) /\ proc' \in Commands
    BY <1>1, <1>3 DEF ExecDone, Commands
  <2>3. HelperInv'
    BY <1>1, <1>2, <2>1, <2>2 DEF TInv, HInv, HelperInv
  <2> QED BY <1>1, <1>2, <2>1, <2>2, <2>3, HelperFrame
<1>4. CASE ExecFails
  <2>1. call'.st = "returned" /\ call'.err = "start" /\ call'.helper = call.helper /\ call' \in Helpers
    BY <1>1, <1>4 DEF ExecFails, Helpers
  <2>2. proc'.st = "reaped" /\ proc' \in Commands
    BY <1>1, <1>4 DEF ExecFails, Commands
  <2>3. HelperInv'
    BY <1>1, <1>2, <2>1, <2>2 DEF TInv, HInv, HelperInv
  <2> QED BY <1>1, <1>2, <2>1, <2>2, <2>3, HelperFrame
<1> QED BY <1>3, <1>4 DEF ProbeExec

LEMMA ChildStep ==
    ASSUME TInv, ChildJoins \/ ChildEnds, UNCHANGED <<kernel, seen, macVars>>
    PROVE  TypeInv' /\ HInv'
<1>1. /\ proc.st = "running" /\ UNCHANGED <<call, stage, verdict, cg, burn, mac, main>> /\ failed \subseteq failed'
      /\ call \in Helpers /\ proc \in Commands /\ call.st # "idle"
  BY NoneIs DEF ChildJoins, ChildEnds, ChildExits, Stays, Works, Fails, probeVars, macVars, TInv, HInv, HelperInv, TypeInv
<1>2. /\ proc'.st \in {"running", "exited"} /\ (proc'.signalled <=> proc.signalled) /\ proc' \in Commands
  <2>1. CASE ChildJoins /\ proc' = [proc EXCEPT !.cg = stage]
    <3>1. stage \in {"mem", "cpu"}
      BY <2>1 DEF ChildJoins, Joins
    <3> QED BY <1>1, <2>1, <3>1 DEF Commands
  <2>2. CASE ChildExits("other") \/ ChildExits(Ending) \/ ChildExits("killed")
    <3>1. Ending \in {"good", "other", "killed"}
      BY DEF Ending
    <3>2. PICK e \in {"good", "other", "killed"} : proc' = [proc EXCEPT !.st = "exited", !.code = e, !.cg = "root"]
      BY <2>2, <3>1 DEF ChildExits
    <3> QED BY <1>1, <3>2 DEF Commands
  <2> QED BY <2>1, <2>2 DEF ChildJoins, ChildEnds
<1>3. HelperInv'
  BY <1>1, <1>2 DEF TInv, HInv, HelperInv
<1> QED BY <1>1, <1>2, <1>3, HelperFrame

LEMMA HelperStepStep ==
    ASSUME TInv, HelperStep, UNCHANGED <<kernel, seen, macVars>>
    PROVE  TypeInv' /\ HInv'
<1>1. /\ UNCHANGED <<stage, verdict, cg, burn, mac, main>>
      /\ call \in Helpers /\ proc \in Commands
  BY DEF HelperStep, Stays, probeVars, macVars, TInv, TypeInv
<1>2. CASE DoneReceived
  <2>1. /\ call.st = "select" /\ call'.st = "returned" /\ call'.err \in {"none", "status"}
        /\ call'.helper = call.helper /\ call' \in Helpers /\ UNCHANGED failed
    BY <1>1, <1>2 DEF DoneReceived, Helpers, Works
  <2>2. proc'.st = "reaped" /\ proc' \in Commands
    BY <1>1, <1>2 DEF DoneReceived, Commands
  <2>3. HelperInv'
    BY <1>1, <2>1, <2>2 DEF TInv, HInv, HelperInv
  <2> QED BY <1>1, <2>1, <2>2, <2>3, HelperFrame
<1>3. CASE TimerFires
  <2>0. call.st = "select"
    BY <1>3 DEF TimerFires
  <2>1. CASE proc.st = "forking"
    <3>1. /\ call'.st = "panic" /\ call'.helper = call.helper /\ call' \in Helpers /\ UNCHANGED proc
          /\ failed' = failed \cup {<<"child", "slow exec">>}
      BY <1>1, <1>3, <2>1 DEF TimerFires, Fails, Helpers
    <3>2. call.helper = "env"
      BY <1>1, <2>0, <2>1 DEF TInv, HInv, HelperInv, Helpers
    <3>3. HelperInv'
      BY <1>1, <2>0, <2>1, <3>1, <3>2 DEF TInv, HInv, HelperInv
    <3> QED BY <1>1, <2>0, <3>1, <3>3, HelperFrame
  <2>2. CASE proc.st # "forking" /\ call.helper = "combined"
    <3>1. /\ call'.st = "grace" /\ call'.helper = call.helper /\ call' \in Helpers
          /\ failed' = failed \cup {<<"child", "slow">>}
      BY <1>1, <1>3, <2>2 DEF TimerFires, Fails, Helpers
    <3>2. proc' = [proc EXCEPT !.st = IF @ = "running" THEN "dying" ELSE @, !.signalled = TRUE]
      BY <1>3, <2>2 DEF TimerFires
    <3>3. proc'.st = (IF proc.st = "running" THEN "dying" ELSE proc.st) /\ proc'.signalled /\ proc' \in Commands
      BY <1>1, <3>2 DEF Commands
    <3>4. proc.st # "none"
      BY <2>0 DEF TInv, HInv, HelperInv
    <3>5. HelperInv'
      BY <1>1, <2>0, <2>2, <3>1, <3>3, <3>4 DEF TInv, HInv, HelperInv
    <3> QED BY <1>1, <2>0, <3>1, <3>3, <3>5, HelperFrame
  <2>3. CASE proc.st # "forking" /\ call.helper # "combined"
    <3>1. PICK o \in {"empty", "torn", "all"} :
              call' = [call EXCEPT !.st = "returned", !.err = "timeout", !.out = o]
      BY <1>3, <2>3 DEF TimerFires
    <3>2. /\ call'.st = "returned" /\ call'.err = "timeout" /\ call'.helper = call.helper /\ call' \in Helpers
      BY <1>1, <3>1 DEF Helpers
    <3>3. /\ failed' = failed \cup {<<"child", "slow">>}
          /\ proc' = [proc EXCEPT !.st = IF @ = "running" THEN "dying" ELSE "reaped", !.signalled = TRUE]
      BY <1>3, <2>3 DEF TimerFires, Fails
    <3>4. proc'.st = (IF proc.st = "running" THEN "dying" ELSE "reaped") /\ proc'.signalled /\ proc' \in Commands
      BY <1>1, <3>3 DEF Commands
    <3>5. HelperInv'
      BY <1>1, <2>0, <3>2, <3>3, <3>4 DEF TInv, HInv, HelperInv
    <3> QED BY <1>1, <2>0, <3>2, <3>3, <3>4, <3>5, HelperFrame
  <2> QED BY <2>1, <2>2, <2>3
<1>4. CASE GraceDone
  <2>1. /\ call.st = "grace" /\ call'.st = "returned" /\ call'.err = "timeout"
        /\ call'.helper = call.helper /\ call' \in Helpers /\ UNCHANGED failed
    BY <1>1, <1>4 DEF GraceDone, Helpers, Works
  <2>2. proc'.st = "reaped" /\ proc' \in Commands /\ (proc'.signalled <=> proc.signalled)
    BY <1>1, <1>4 DEF GraceDone, Commands
  <2>3. HelperInv'
    BY <1>1, <2>1, <2>2 DEF TInv, HInv, HelperInv
  <2> QED BY <1>1, <2>1, <2>2, <2>3, HelperFrame
<1>5. CASE GraceOver
  <2>1. PICK o \in {"empty", "torn"} :
              call' = [call EXCEPT !.st = "returned", !.err = "timeout", !.out = o]
    BY <1>5 DEF GraceOver
  <2>2. /\ call'.st = "returned" /\ call'.err = "timeout" /\ call'.helper = call.helper /\ call' \in Helpers
    BY <1>1, <2>1 DEF Helpers
  <2>3. call.st = "grace" /\ UNCHANGED proc /\ failed' = failed \cup {<<"child", "slow">>}
    BY <1>5 DEF GraceOver, Fails
  <2>4. HelperInv'
    BY <1>1, <2>2, <2>3 DEF TInv, HInv, HelperInv
  <2> QED BY <1>1, <2>2, <2>3, <2>4, HelperFrame
<1> QED BY <1>2, <1>3, <1>4, <1>5 DEF HelperStep, TimedNext

LEMMA RuntimeStep ==
    ASSUME TInv, RuntimeStarts \/ RuntimeEnds, UNCHANGED <<kernel, seen, macVars>>
    PROVE  TypeInv' /\ HInv'
<1>1. /\ stage = "runtime" /\ UNCHANGED <<verdict, cg, burn, failed, mac, main>>
      /\ stage' \in {"runtime", "seccomp", "panic"}
  BY After DEF RuntimeStarts, RuntimeEnds, Proceed, probeVars, macVars
<1>2. HelperInv' /\ call' \in Helpers /\ proc' \in Commands
  <2>1. CASE TimedStart("env") /\ UNCHANGED stage
    <3>1. /\ call' = [helper |-> "env", st |-> "select", err |-> "none", out |-> "empty"]
          /\ proc' = [st |-> "forking", cg |-> "root", code |-> "good", signalled |-> FALSE]
      BY <2>1, TimedStartIs
    <3> QED BY <1>1, <2>1, <3>1 DEF HelperInv, Helpers, Commands, Timed
  <2>2. CASE Idle /\ UNCHANGED timedVars
    BY <1>1, <2>2, NoneIs DEF TInv, TypeInv, HInv, HelperInv, Idle, timedVars, Timed
  <2>3. CASE call' = NoCall /\ proc' = NoProc
    BY <1>1, <2>3, NoneIs DEF HelperInv, Timed
  <2> QED BY <2>1, <2>2, <2>3 DEF RuntimeStarts, RuntimeEnds
<1>3. TypeInv'
  BY <1>1, <1>2 DEF TInv, TypeInv, Stages, Probes, Plain
<1>4. CgroupInv'
  BY <1>1 DEF TInv, HInv, CgroupInv, TypeInv, Cgroups, Unprobed
<1>5. DelegatedInv'
  BY <1>1 DEF TInv, HInv, DelegatedInv, Unprobed
<1> QED BY <1>2, <1>3, <1>4, <1>5 DEF HInv

LEMMA ProbesStep ==
    ASSUME IInv, ProbesNext, UNCHANGED <<kernel, seen, macVars>>
    PROVE  IInv'
<1>1. TInv
  BY DEF IInv, TInv, HInv
<1>2. TypeInv' /\ HInv'
  BY <1>1, probeCgroupV2Step, TestStartsStep, TestEndsStep, BurnAgainStep, BurnEndsStep, cpuVerdictStep,
     ProbeExecStep, ChildStep, HelperStepStep, RuntimeStep DEF ProbesNext
<1>3. stage \in Timed \cup {"cgroup", "runtime"} /\ Moves /\ failed \subseteq failed' /\ UNCHANGED mountVars
  BY ProbesMoves
<1>4. stage \notin Mac /\ stage \notin Unprobed
  BY <1>3 DEF Timed, Mac, Unprobed
<1>5. MountedInv' /\ MacInv'
  BY <1>3, <1>4, MountedFrame, MacFrame
<1> QED BY <1>2, <1>5 DEF IInv, HInv

\* A step that concerns neither the helper nor the cgroups, after the tests.
LEMMA QuietFrame ==
    ASSUME TInv, stage \in Plain \cup Mac, Moves, failed \subseteq failed', stage' # "panic",
           UNCHANGED <<call, proc, cg, burn>>
    PROVE  HInv' /\ stage' \in Stages
<1>1. /\ call.st = "idle" /\ stage' \notin Unprobed \cup {"cgroup"} \cup Timed
      /\ stage' \in Stages /\ stage \notin Unprobed \cup {"cgroup"} \cup Timed
  <2>1. stage \notin Unprobed \cup {"cgroup", "runtime"} \cup Timed
    BY DEF Unprobed, Timed, Plain, Mac
  <2>2. call.st = "idle"
    BY <2>1 DEF TInv, HInv, HelperInv
  <2>3. stage' = stage \/ stage' = Following(stage)
    BY DEF Moves
  <2>4. stage' \in Plain \cup Mac \cup {"runtime", "node"}
    BY <2>3, After DEF Plain, Mac
  <2> QED BY <2>1, <2>2, <2>4 DEF Stages, Probes, Unprobed, Timed, Plain, Mac
<1>2. HelperInv'
  BY <1>1 DEF TInv, HInv, HelperInv
<1>3. CgroupInv'
  BY <1>1 DEF TInv, HInv, CgroupInv, TypeInv, Cgroups, Timed
<1>4. DelegatedInv'
  BY <1>1 DEF TInv, HInv, DelegatedInv, Timed
<1> QED BY <1>1, <1>2, <1>3, <1>4 DEF HInv

LEMMA SecurityStep ==
    ASSUME IInv, SecurityNext, UNCHANGED <<kernel, timedVars, probeVars, macVars>>
    PROVE  IInv'
<1>1. /\ stage \in Plain /\ Moves /\ stage' # "panic" /\ failed \subseteq failed' /\ UNCHANGED mountVars
      /\ verdict' \in [Probes -> {"none", "yes", "no", "unknown"}]
  <2>1. CASE ProbeStep
    BY <2>1 DEF ProbeStep, Moves, Stays, Works, Fails, IInv, TypeInv, Plain
  <2>2. CASE ProbeEnds
    <3>1. stage \in Plain /\ stage' = Following(stage) /\ UNCHANGED <<failed, mountVars>>
      BY <2>2 DEF ProbeEnds, Concludes, Proceed, Works
    <3>2. \E v \in {"yes", "no", "unknown"} : verdict' = [verdict EXCEPT ![stage] = v]
      BY <2>2 DEF ProbeEnds, Concludes
    <3> QED BY <3>1, <3>2, After DEF Moves, Going, Probes, Plain, IInv, TypeInv
  <2> QED BY <2>1, <2>2 DEF SecurityNext
<1>2. TInv /\ UNCHANGED <<call, proc, cg, burn, mac, main>>
  BY DEF IInv, TInv, HInv, timedVars, probeVars, macVars
<1>3. HInv' /\ stage' \in Stages
  BY <1>1, <1>2, QuietFrame
<1>4. TypeInv'
  BY <1>1, <1>2, <1>3 DEF TInv, TypeInv
<1>5. stage \notin Mac /\ stage \notin Unprobed
  BY <1>1 DEF Plain, Mac, Unprobed
<1>6. MountedInv' /\ MacInv'
  BY <1>1, <1>5, MountedFrame, MacFrame
<1> QED BY <1>3, <1>4, <1>6 DEF IInv, HInv

-----------------------------------------------------------------------------
(* The MAC probes.                                                         *)

LEMMA NoMainIs == NoMain.at = 0 /\ NoMain.tenant = 0 /\ NoMain.passed = {} /\ NoMain.exit = "none"
  BY DEF NoMain

\* What the scripts have at each place.
SignalPlace(i, s) ==
    /\ s.op = "label" <=> i = 1
    /\ s.op = "mode" <=> i \in {2, 8}
    /\ s.op = "tenant" <=> i \in {3, 5, 7}
    /\ s.op = "test" <=> i \in {4, 6, 9}
    /\ s.op # "create"
    /\ i = 1 => s.arg = 2
    /\ i = 2 => s.arg = "enforcing"
    /\ i = 8 => s.arg = "permissive"
    /\ i \in {3, 7} => s.arg = 1
    /\ i = 5 => s.arg = 2
    /\ i = 4 => s.arg = "cross"
    /\ i = 6 => s.arg = "same"
    /\ i = 9 => s.arg = "perm"
    /\ s.must <=> s.op # "test"

LabelledPlace(i, s) ==
    /\ s.op = "label" <=> i = 9
    /\ s.op = "mode" <=> i \in {6, 10}
    /\ s.op = "tenant" <=> i \in {2, 4, 7, 11}
    /\ s.op = "test" <=> i \in {1, 3, 5, 8}
    /\ s.op # "create"
    /\ i = 9 => s.arg = 0
    /\ i \in {6, 10} => s.arg = "permissive"
    /\ i = 2 => s.arg = 1
    /\ i \in {4, 11} => s.arg = 0
    /\ i = 7 => s.arg = 2
    /\ i = 1 => s.arg = "cross"
    /\ i = 3 => s.arg = "same"
    /\ i = 5 => s.arg = "unconf"
    /\ i = 8 => s.arg = "perm"
    /\ ~s.must

LEMMA SignalSteps == ASSUME NEW i \in 1..9 PROVE SignalPlace(i, Script["signal"][i])
<1>1. i \in {1, 2, 3, 4, 5, 6, 7, 8, 9}
  OBVIOUS
<1> QED BY <1>1, SignalScript DEF Must, Test, SignalPlace

LEMMA LabelledSteps == ASSUME NEW i \in 1..11 PROVE LabelledPlace(i, LabelledMain[i])
<1>1. i \in {1, 2, 3, 4, 5, 6, 7, 8, 9, 10, 11}
  OBVIOUS
<1> QED BY <1>1, LabelledScript DEF May, Test, LabelledPlace

LEMMA FirstSteps ==
    ASSUME NEW k \in {"file", "socket"}
    PROVE  /\ Labelled[k] \in {2, 3} /\ LabelBack[k] = Labelled[k] + 9
           /\ Len(Script[k]) = Labelled[k] + 11
           /\ \A i \in 1..11 : Script[k][Labelled[k] + i] = LabelledMain[i]
           /\ Script[k][Labelled[k]] = Must("label", 1)
           /\ Script[k][Labelled[k] - 1] = Must("mode", "enforcing")
           /\ Labelled[k] = 3 => Script[k][1] = Must("create", 0)
<1>1. Labelled["file"] = 3 /\ Labelled["socket"] = 2 /\ LabelBack["file"] = 12 /\ LabelBack["socket"] = 11
  BY DEF Labelled, LabelBack
<1>2. CASE k = "file"
  BY <1>1, <1>2, FileScript
<1>3. CASE k = "socket"
  BY <1>1, <1>3, SocketScript
<1> QED BY <1>2, <1>3

\* The same for the whole script of the file and the socket probe.
KindPlace(b, i, s) ==
    /\ s.op = "label" <=> i \in {b, b + 9}
    /\ s.op = "mode" <=> i \in {b - 1, b + 6, b + 10}
    /\ s.op = "tenant" <=> i \in {b + 2, b + 4, b + 7, b + 11}
    /\ s.op = "test" <=> i \in {b + 1, b + 3, b + 5, b + 8}
    /\ s.op = "create" <=> i = b - 2
    /\ i = b => s.arg = 1
    /\ i = b + 9 => s.arg = 0
    /\ i = b - 1 => s.arg = "enforcing"
    /\ i \in {b + 6, b + 10} => s.arg = "permissive"
    /\ i = b + 2 => s.arg = 1
    /\ i \in {b + 4, b + 11} => s.arg = 0
    /\ i = b + 7 => s.arg = 2
    /\ i = b + 1 => s.arg = "cross"
    /\ i = b + 3 => s.arg = "same"
    /\ i = b + 5 => s.arg = "unconf"
    /\ i = b + 8 => s.arg = "perm"
    /\ s.must <=> i <= b

LEMMA KindSteps ==
    ASSUME NEW k \in {"file", "socket"}, NEW i \in 1..Len(Script[k])
    PROVE  KindPlace(Labelled[k], i, Script[k][i])
<1> DEFINE b == Labelled[k]
<1>1. b \in {2, 3} /\ i \in 1..(b + 11)
  BY FirstSteps
<1>2. CASE i > b
  <2> DEFINE j == i - b
  <2>1. j \in 1..11 /\ i = b + j
    <3> HIDE DEF b
    <3> QED BY <1>1, <1>2
  <2>2. Script[k][i] = LabelledMain[j] /\ LabelledPlace(j, LabelledMain[j])
    BY <2>1, FirstSteps, LabelledSteps
  <2> HIDE DEF j, b
  <2>3. KindPlace(b, i, LabelledMain[j])
    BY <1>1, <2>1, <2>2 DEF LabelledPlace, KindPlace
  <2> QED BY <2>2, <2>3 DEF b
<1>3. CASE i <= b
  <2>1. \/ i = b /\ Script[k][i] = Must("label", 1)
        \/ i = b - 1 /\ Script[k][i] = Must("mode", "enforcing")
        \/ i = b - 2 /\ Script[k][i] = Must("create", 0)
    <3>1. CASE b = 2
      <4>1. i = b \/ i = b - 1
        BY <1>1, <1>3, <3>1
      <4> QED BY <4>1, FirstSteps
    <3>2. CASE b = 3
      <4>1. i = b \/ i = b - 1 \/ (i = b - 2 /\ i = 1)
        BY <1>1, <1>3, <3>2
      <4> QED BY <3>2, <4>1, FirstSteps
    <3> QED BY <1>1, <3>1, <3>2
  <2> HIDE DEF b
  <2>2. KindPlace(b, i, Script[k][i])
    BY <1>1, <2>1 DEF Must, KindPlace
  <2> QED BY <2>2 DEF b
<1> QED BY <1>1, <1>2, <1>3

\* Every step of a script is one of five operations, with a value that fits it.
Fits(s) ==
    /\ s.op \in {"create", "label", "mode", "tenant", "test"}
    /\ s.op = "label" => s.arg \in {0, 1, 2}
    /\ s.op = "tenant" => s.arg \in {0, 1, 2}
    /\ s.op = "mode" => s.arg \in {"permissive", "enforcing"}
    /\ s.op = "test" => s.arg \in TestNames

LEMMA AllFit ==
    /\ \A i \in 1..9 : Fits(Script["signal"][i])
    /\ \A k \in {"file", "socket"} : \A i \in 1..Len(Script[k]) : Fits(Script[k][i])
<1>0. /\ Fits(Must("create", 0)) /\ Fits(Must("mode", "enforcing")) /\ Fits(Must("mode", "permissive"))
      /\ Fits(Must("label", 1)) /\ Fits(Must("label", 2)) /\ Fits(Must("tenant", 1)) /\ Fits(Must("tenant", 2))
      /\ Fits(May("tenant", 0)) /\ Fits(May("tenant", 1)) /\ Fits(May("tenant", 2))
      /\ Fits(May("mode", "permissive")) /\ Fits(May("label", 0))
      /\ Fits(Test("cross")) /\ Fits(Test("same")) /\ Fits(Test("unconf")) /\ Fits(Test("perm"))
  BY DEF Must, May, Test, Fits, TestNames
<1>1. ASSUME NEW i \in 1..9 PROVE Fits(Script["signal"][i])
  <2>1. i \in {1, 2, 3, 4, 5, 6, 7, 8, 9}
    OBVIOUS
  <2> QED BY <1>0, <2>1, SignalScript
<1>2. ASSUME NEW i \in 1..11 PROVE Fits(LabelledMain[i])
  <2>1. i \in {1, 2, 3, 4, 5, 6, 7, 8, 9, 10, 11}
    OBVIOUS
  <2> QED BY <1>0, <2>1, LabelledScript
<1>3. Fits(Must("create", 0)) /\ Fits(Must("mode", "enforcing")) /\ Fits(Must("label", 1))
  BY <1>0
<1>4. ASSUME NEW i \in 1..Len(Script["file"]) PROVE Fits(Script["file"][i])
  <2>1. i \in 1..14
    BY FileScript
  <2>2. CASE i > 3
    <3>1. i - 3 \in 1..11 /\ 3 + (i - 3) = i
      BY <2>1, <2>2
    <3>2. Script["file"][i] = LabelledMain[i - 3]
      BY <3>1, FileScript
    <3> QED BY <1>2, <3>1, <3>2
  <2>3. CASE i <= 3
    <3>1. i = 1 \/ i = 2 \/ i = 3
      BY <2>1, <2>3
    <3> QED BY <1>3, <3>1, FileScript
  <2> QED BY <2>1, <2>2, <2>3
<1>5. ASSUME NEW i \in 1..Len(Script["socket"]) PROVE Fits(Script["socket"][i])
  <2>1. i \in 1..13
    BY SocketScript
  <2>2. CASE i > 2
    <3>1. i - 2 \in 1..11 /\ 2 + (i - 2) = i
      BY <2>1, <2>2
    <3>2. Script["socket"][i] = LabelledMain[i - 2]
      BY <3>1, SocketScript
    <3> QED BY <1>2, <3>1, <3>2
  <2>3. CASE i <= 2
    <3>1. i = 1 \/ i = 2
      BY <2>1, <2>3
    <3> QED BY <1>3, <3>1, SocketScript
  <2> QED BY <2>1, <2>2, <2>3
<1> QED BY <1>1, <1>4, <1>5

LEMMA StepFits ==
    ASSUME main \in Mains, Running
    PROVE  /\ stage \in Mac /\ main.at \in 1..Len(Script[stage]) /\ main.exit = "none"
           /\ Fits(Step)
           /\ stage = "signal" => SignalPlace(main.at, Step) /\ main.at \in 1..9
           /\ stage \in {"file", "socket"} =>
                 KindPlace(Labelled[stage], main.at, Step) /\ main.at \in 1..(Labelled[stage] + 11)
<1>1. stage \in Mac /\ main.at \in Nat /\ main.at > 0 /\ main.exit = "none" /\ main.at <= Len(Script[stage])
  BY DEF Running, Mains
<1>2. CASE stage = "signal"
  <2>1. main.at \in 1..9 /\ main.at \in 1..Len(Script[stage])
    BY <1>1, <1>2, SignalScript
  <2>2. SignalPlace(main.at, Script["signal"][main.at]) /\ Fits(Script["signal"][main.at])
    BY <2>1, SignalSteps, AllFit
  <2> QED BY <1>1, <1>2, <2>1, <2>2 DEF Step
<1>3. CASE stage \in {"file", "socket"}
  <2>1. main.at \in 1..(Labelled[stage] + 11) /\ main.at \in 1..Len(Script[stage])
    <3>1. Len(Script[stage]) = Labelled[stage] + 11 /\ Labelled[stage] \in {2, 3}
      BY <1>3, FirstSteps
    <3> QED BY <1>1, <3>1
  <2>2. KindPlace(Labelled[stage], main.at, Script[stage][main.at]) /\ Fits(Script[stage][main.at])
    BY <1>3, <2>1, KindSteps, AllFit
  <2> QED BY <1>1, <1>3, <2>1, <2>2 DEF Step
<1> QED BY <1>1, <1>2, <1>3 DEF Mac

\* A main that is one step on, with another tenant, tests or exit status.
Onward(m, t, p, e) ==
    m \in Mains /\ m.at = main.at + 1 /\ m.tenant = t /\ m.passed = p /\ m.exit = e

LEMMA OneOn ==
    ASSUME main \in Mains, NEW t \in {0, 1, 2}, NEW p \in SUBSET TestNames,
           NEW e \in {"none", "0", "2", "3", "signal"}
    PROVE  /\ Onward([main EXCEPT !.at = @ + 1], main.tenant, main.passed, main.exit)
           /\ Onward([main EXCEPT !.at = @ + 1, !.tenant = t], t, main.passed, main.exit)
           /\ Onward([main EXCEPT !.at = @ + 1, !.passed = @ \cup p],
                     main.tenant, main.passed \cup p, main.exit)
           /\ Onward([main EXCEPT !.at = @ + 1, !.exit = e, !.passed = @ \cup p],
                     main.tenant, main.passed \cup p, e)
<1> DEFINE n == main.at + 1
           q == main.passed \cup p
           m1 == [main EXCEPT !.at = n]
           m2 == [m1 EXCEPT !.exit = e]
<1>1. n \in Nat /\ q \in SUBSET TestNames
  <2>1. main.at \in Nat /\ main.passed \in SUBSET TestNames
    BY DEF Mains
  <2> QED BY <2>1
<1> HIDE DEF n, q
<1>2. m1 \in Mains /\ m1.at = n /\ m1.tenant = main.tenant /\ m1.passed = main.passed /\ m1.exit = main.exit
  BY <1>1 DEF Mains
<1>3. m2 \in Mains /\ m2.at = n /\ m2.tenant = main.tenant /\ m2.passed = main.passed /\ m2.exit = e
  <2> HIDE DEF m1
  <2> QED BY <1>2 DEF Mains
<1>4. Onward([m1 EXCEPT !.tenant = t], t, main.passed, main.exit)
  <2> HIDE DEF m1
  <2> QED BY <1>2 DEF Mains, Onward, n
<1>5. Onward([m1 EXCEPT !.passed = q], main.tenant, q, main.exit)
  <2> HIDE DEF m1
  <2> QED BY <1>1, <1>2 DEF Mains, Onward, n
<1>6. Onward([m2 EXCEPT !.passed = q], main.tenant, q, e)
  <2> HIDE DEF m2
  <2> QED BY <1>1, <1>3 DEF Mains, Onward, n
<1>7. m1.passed = main.passed /\ m2.passed = main.passed
  BY <1>2, <1>3
<1>8. [main EXCEPT !.at = n, !.tenant = t] = [m1 EXCEPT !.tenant = t]
  BY DEF Mains
<1>9. [main EXCEPT !.at = n, !.passed = q] = [m1 EXCEPT !.passed = q]
  BY DEF Mains
<1>10. [main EXCEPT !.at = n, !.exit = e, !.passed = q] = [m2 EXCEPT !.passed = q]
  BY DEF Mains
<1>11. Onward(m1, main.tenant, main.passed, main.exit)
  BY <1>2 DEF Onward, n
<1> QED BY <1>4, <1>5, <1>6, <1>8, <1>9, <1>10, <1>11 DEF n, q

\* The tests that a step passes, by the outcome of the access.
Gained(outcome) == {t \in {Step.arg} : Step.op = "test" /\ Passes(stage, t, outcome)}

LEMMA GainedIs ==
    ASSUME main \in Mains, Running, NEW o
    PROVE  Gained(o) \in SUBSET TestNames /\ (Step.op # "test" => Gained(o) = {})
  BY StepFits DEF Gained, Fits

LEMMA MainStepIs ==
    ASSUME mac \in Macs, main \in Mains, MainStep
    PROVE  /\ Running /\ mac' \in Macs
           /\ Onward(main', IF Step.op = "tenant" THEN Step.arg ELSE main.tenant,
                     main.passed \cup Gained(IF Denied(stage, Subject) THEN "EPERM" ELSE "allowed"), "none")
           /\ mac'.mode = (IF Step.op = "mode" THEN Step.arg ELSE mac.mode)
           /\ \A k \in Mac : mac'.label[k] = IF Step.op = "label" /\ k = stage THEN Step.arg ELSE mac.label[k]
           /\ UNCHANGED <<failed, stage, verdict>>
<1> DEFINE o == IF Denied(stage, Subject) THEN "EPERM" ELSE "allowed"
           g == Gained(o)
           goal == /\ mac' \in Macs
                   /\ Onward(main', IF Step.op = "tenant" THEN Step.arg ELSE main.tenant, main.passed \cup g, "none")
                   /\ mac'.mode = (IF Step.op = "mode" THEN Step.arg ELSE mac.mode)
                   /\ \A k \in Mac : mac'.label[k] = IF Step.op = "label" /\ k = stage THEN Step.arg ELSE mac.label[k]
<1>1. Running /\ Fits(Step) /\ stage \in Mac /\ main.exit = "none" /\ UNCHANGED <<failed, stage, verdict>>
  BY StepFits DEF MainStep, Works, Stays
<1>2. g \in SUBSET TestNames /\ (Step.op # "test" => main.passed \cup g = main.passed)
  BY <1>1, GainedIs
<1>3. ASSUME Step.op = "tenant" PROVE goal
  <2>1. main' = [main EXCEPT !.at = @ + 1, !.tenant = Step.arg] /\ mac' = mac
    BY <1>3 DEF MainStep
  <2>2. Step.arg \in {0, 1, 2} /\ main.passed \in SUBSET TestNames
    BY <1>1, <1>3 DEF Fits, Mains
  <2>3. Onward(main', Step.arg, main.passed, main.exit)
    BY <2>1, <2>2, OneOn
  <2> HIDE DEF g
  <2> QED BY <1>1, <1>2, <1>3, <2>1, <2>3
<1>4. ASSUME Step.op \in {"mode", "label", "create"} PROVE goal
  <2>1. main' = [main EXCEPT !.at = @ + 1]
    BY <1>4 DEF MainStep
  <2>2. Onward(main', main.tenant, main.passed, main.exit)
    BY <2>1, OneOn DEF Mains
  <2>3. CASE Step.op = "mode"
    <3>1. mac' = [mac EXCEPT !.mode = Step.arg]
      BY <2>3 DEF MainStep
    <3>2. Step.arg \in {"permissive", "enforcing"}
      BY <1>1, <2>3 DEF Fits
    <3>3. mac' \in Macs /\ mac'.mode = Step.arg /\ mac'.label = mac.label
      BY <3>1, <3>2 DEF Macs
    <3> HIDE DEF g
    <3> QED BY <1>1, <1>2, <2>2, <2>3, <3>3
  <2>4. CASE Step.op = "label"
    <3> DEFINE a == Step.arg
               new == [mac.label EXCEPT ![stage] = a]
    <3>1. mac' = [mac EXCEPT !.label = new]
      BY <2>4 DEF MainStep
    <3>2. a \in {0, 1, 2} /\ mac.label \in [Mac -> {0, 1, 2}]
      BY <1>1, <2>4 DEF Fits, Macs
    <3>3. new \in [Mac -> {0, 1, 2}] /\ \A k \in Mac : new[k] = IF k = stage THEN a ELSE mac.label[k]
      <4> HIDE DEF a
      <4> QED BY <1>1, <3>2
    <3> HIDE DEF new
    <3>4. mac' \in Macs /\ mac'.label = new /\ mac'.mode = mac.mode
      BY <3>1, <3>3 DEF Macs
    <3> HIDE DEF g
    <3> QED BY <1>1, <1>2, <2>2, <2>4, <3>3, <3>4
  <2>5. CASE Step.op = "create"
    <3>1. mac' = mac
      BY <2>5 DEF MainStep
    <3> HIDE DEF g
    <3> QED BY <1>1, <1>2, <2>2, <2>5, <3>1
  <2> QED BY <1>4, <2>3, <2>4, <2>5
<1>5. ASSUME Step.op = "test" PROVE goal
  <2>1. main' = [main EXCEPT !.at = @ + 1, !.passed = @ \cup g] /\ mac' = mac
    <3>1. g = {t \in {Step.arg} : Passes(stage, t, o)}
      BY <1>5 DEF Gained
    <3> QED BY <1>5, <3>1 DEF MainStep
  <2> HIDE DEF g
  <2>2. Onward(main', main.tenant, main.passed \cup g, main.exit)
    BY <1>2, <2>1, OneOn
  <2> QED BY <1>1, <1>5, <2>1, <2>2
<1> QED BY <1>1, <1>3, <1>4, <1>5 DEF Fits

LEMMA MainStepFailsIs ==
    ASSUME main \in Mains, MainStepFails
    PROVE  /\ Running
           /\ Onward(main', main.tenant, main.passed \cup Gained("other"), IF Step.must THEN "2" ELSE "none")
           /\ failed' = failed \cup {<<stage, Step.op>>}
           /\ UNCHANGED <<mac, stage, verdict>>
<1> DEFINE g == Gained("other")
           e == IF Step.must THEN "2" ELSE main.exit
<1>1. /\ Running /\ UNCHANGED <<mac, stage, verdict>> /\ failed' = failed \cup {<<stage, Step.op>>}
  BY DEF MainStepFails, Stays, Fails
<1>2. main.exit = "none" /\ g \in SUBSET TestNames
  BY <1>1, StepFits, GainedIs
<1>3. main' = [main EXCEPT !.at = @ + 1, !.exit = e, !.passed = @ \cup g]
  BY DEF MainStepFails, Gained
<1>4. e \in {"none", "2"} /\ e = (IF Step.must THEN "2" ELSE "none")
  BY <1>2
<1> HIDE DEF g, e
<1>5. Onward(main', main.tenant, main.passed \cup g, e)
  BY <1>2, <1>3, <1>4, OneOn
<1> QED BY <1>1, <1>4, <1>5 DEF g

\* Where the mains are in the boot.
LEMMA MacOrder ==
    /\ \A s \in Mac : ~Before("socket", s) /\ ~Before(s, s)
    /\ ~Before("file", "signal") /\ Before("file", "socket")
<1>1. \A a : ~Before(a, a)
  BY BeforeEarly
<1>2. /\ \A i \in 1..21 : runAsInit[i] = "socket" => i = 15
      /\ \A i \in 1..21 : runAsInit[i] = "file" => i = 14
      /\ \A i \in 1..21 : runAsInit[i] = "signal" => i = 13
      /\ runAsInit[14] = "file" /\ runAsInit[15] = "socket"
  BY DEF runAsInit
<1> QED BY <1>1, <1>2 DEF Before, Mac

\* A step within a probe.
LEMMA WithinFrame ==
    ASSUME MacInv, stage \in Mac, stage' = stage, failed \subseteq failed', main'.at # 0,
           \A k \in Mac \ {stage} : mac'.label[k] = mac.label[k], Within'
    PROVE  MacInv'
<1>1. stage' \in Mac /\ ~Before("socket", stage') /\ stage' # "panic"
  BY MacOrder DEF Mac
<1>2. stage' # "signal" => mac'.label["signal"] = 0
  BY DEF MacInv, Mac
<1>3. ASSUME NEW k \in {"file", "socket"}
      PROVE  /\ stage' # k /\ ~Before(k, stage') => mac'.label[k] = 0
             /\ Before(k, stage') => mac'.label[k] = 0 \/ Spoilt(k, {"label", "mode"})'
  <2>1. CASE stage = k
    BY <2>1, MacOrder
  <2>2. CASE stage # k
    <3>1. mac'.label[k] = mac.label[k]
      BY <2>2 DEF Mac
    <3>2. Spoilt(k, {"label", "mode"}) => Spoilt(k, {"label", "mode"})'
      BY DEF Spoilt
    <3> QED BY <1>1, <2>2, <3>1, <3>2 DEF MacInv
  <2> QED BY <2>1, <2>2
<1> QED BY <1>1, <1>2, <1>3 DEF MacInv

\* A step of a main leaves the rest of the machine alone.
LEMMA MacRest ==
    ASSUME IInv, stage \in Mac, Moves, stage' # "panic", failed \subseteq failed',
           UNCHANGED <<kernel, mountVars, timedVars, probeVars>>,
           mac' \in Macs, main' \in Mains, MacInv',
           verdict' \in [Probes -> {"none", "yes", "no", "unknown"}]
    PROVE  IInv'
<1>1. TInv /\ UNCHANGED <<call, proc, cg, burn, kernel>>
  BY DEF IInv, TInv, HInv, timedVars, probeVars
<1>2. HInv' /\ stage' \in Stages
  BY <1>1, QuietFrame
<1>3. TypeInv'
  BY <1>1, <1>2 DEF TInv, TypeInv
<1>4. MountedInv'
  BY MountedFrame DEF Mac, Unprobed
<1> QED BY <1>2, <1>3, <1>4 DEF IInv, HInv

LEMMA MainStepStep ==
    ASSUME IInv, MainStep, UNCHANGED <<kernel, mountVars, timedVars, probeVars>>
    PROVE  IInv'
<1> DEFINE i == main.at
           s == Step
           b == Labelled[stage]
<1>1. mac \in Macs /\ main \in Mains /\ MacInv /\ Within
      /\ verdict \in [Probes -> {"none", "yes", "no", "unknown"}]
  BY DEF IInv, TypeInv, MacInv
<1>2. /\ Running /\ mac' \in Macs /\ main' \in Mains /\ main'.at = i + 1 /\ main'.exit = "none"
      /\ mac'.mode = (IF s.op = "mode" THEN s.arg ELSE mac.mode)
      /\ \A k \in Mac : mac'.label[k] = IF s.op = "label" /\ k = stage THEN s.arg ELSE mac.label[k]
      /\ UNCHANGED <<failed, stage, verdict>>
  BY <1>1, MainStepIs DEF Onward
<1>3. stage \in Mac /\ i \in Nat
  BY <1>1, <1>2, StepFits DEF Mains
<1>4. ASSUME stage \in {"file", "socket"}
      PROVE  /\ i + 1 <= b => mac'.label[stage] = 0
             /\ i + 1 > b + 9 => mac'.label[stage] = 0 \/ <<stage, "label">> \in failed
             /\ stage = "socket" /\ i + 1 > 12 => mac'.mode = "permissive" \/ <<"socket", "mode">> \in failed
             /\ LabelBack[stage] = b + 9
  <2>1. KindPlace(b, i, s) /\ i \in 1..(b + 11) /\ b \in {2, 3} /\ LabelBack[stage] = b + 9
    BY <1>1, <1>2, <1>4, StepFits, FirstSteps
  <2>2. stage = "socket" => b = 2
    BY DEF Labelled
  <2>3. /\ i <= b => mac.label[stage] = 0
        /\ i > b + 9 => mac.label[stage] = 0 \/ <<stage, "label">> \in failed
        /\ stage = "socket" /\ i > 12 => mac.mode = "permissive" \/ <<"socket", "mode">> \in failed
    BY <1>1, <1>4, <2>1 DEF Within
  <2>4. mac'.label[stage] = IF s.op = "label" THEN s.arg ELSE mac.label[stage]
    BY <1>2, <1>3
  <2> HIDE DEF i, s, b
  <2>5. i + 1 <= b => mac'.label[stage] = 0
    BY <1>3, <2>1, <2>3, <2>4 DEF KindPlace
  <2>6. i + 1 > b + 9 => mac'.label[stage] = 0 \/ <<stage, "label">> \in failed
    <3>1. CASE i = b + 9
      BY <2>1, <2>4, <3>1 DEF KindPlace
    <3>2. CASE i > b + 9
      BY <1>3, <2>1, <2>3, <2>4, <3>2 DEF KindPlace
    <3> QED BY <1>3, <2>1, <3>1, <3>2
  <2>7. stage = "socket" /\ i + 1 > 12 => mac'.mode = "permissive" \/ <<"socket", "mode">> \in failed
    <3> SUFFICES ASSUME stage = "socket", i + 1 > 12
                 PROVE  mac'.mode = "permissive" \/ <<"socket", "mode">> \in failed
      OBVIOUS
    <3>1. CASE i = 12
      BY <1>2, <2>1, <2>2, <3>1 DEF KindPlace
    <3>2. CASE i > 12
      BY <1>2, <1>3, <2>1, <2>2, <2>3, <3>2 DEF KindPlace
    <3> QED BY <1>3, <3>1, <3>2
  <2> QED BY <2>1, <2>5, <2>6, <2>7
<1>5. Within'
  BY <1>2, <1>3, <1>4 DEF Within
<1>6. main'.at # 0 /\ \A k \in Mac \ {stage} : mac'.label[k] = mac.label[k]
  BY <1>2, <1>3
<1>7. MacInv'
  BY <1>1, <1>2, <1>3, <1>5, <1>6, WithinFrame
<1>8. Moves /\ stage' # "panic"
  BY <1>2, <1>3 DEF Moves, Mac
<1> QED BY <1>1, <1>2, <1>3, <1>7, <1>8, MacRest

LEMMA MainStepFailsStep ==
    ASSUME IInv, MainStepFails, UNCHANGED <<kernel, mountVars, timedVars, probeVars>>
    PROVE  IInv'
<1> DEFINE i == main.at
           s == Step
           b == Labelled[stage]
<1>1. mac \in Macs /\ main \in Mains /\ MacInv /\ Within
      /\ verdict \in [Probes -> {"none", "yes", "no", "unknown"}]
  BY DEF IInv, TypeInv, MacInv
<1>2. /\ Running /\ main' \in Mains /\ main'.at = i + 1 /\ main'.exit = (IF s.must THEN "2" ELSE "none")
      /\ failed' = failed \cup {<<stage, s.op>>}
      /\ UNCHANGED <<mac, stage, verdict>>
  BY <1>1, MainStepFailsIs DEF Onward
<1>3. stage \in Mac /\ i \in Nat
  BY <1>1, <1>2, StepFits DEF Mains
<1>4. ASSUME stage \in {"file", "socket"}
      PROVE  /\ i + 1 <= b => mac.label[stage] = 0
             /\ i + 1 > b + 9 => mac.label[stage] = 0 \/ <<stage, "label">> \in failed'
             /\ stage = "socket" /\ i + 1 > 12 => mac.mode = "permissive" \/ <<"socket", "mode">> \in failed'
             /\ LabelBack[stage] = b + 9
             /\ s.must => mac.label[stage] = 0
             /\ stage = "socket" /\ s.must => <<"socket", "label">> \in failed' \/ <<"socket", "mode">> \in failed'
  <2>1. KindPlace(b, i, s) /\ i \in 1..(b + 11) /\ b \in {2, 3} /\ LabelBack[stage] = b + 9
    BY <1>1, <1>2, <1>4, StepFits, FirstSteps
  <2>2. stage = "socket" => b = 2
    BY DEF Labelled
  <2>3. /\ i <= b => mac.label[stage] = 0
        /\ i > b + 9 => mac.label[stage] = 0 \/ <<stage, "label">> \in failed
        /\ stage = "socket" /\ i > 12 => mac.mode = "permissive" \/ <<"socket", "mode">> \in failed
    BY <1>1, <1>4, <2>1 DEF Within
  <2>4. failed \subseteq failed' /\ <<stage, s.op>> \in failed'
    BY <1>2
  <2> HIDE DEF i, s, b
  <2>5. i + 1 <= b => mac.label[stage] = 0
    BY <1>3, <2>1, <2>3
  <2>6. i + 1 > b + 9 => mac.label[stage] = 0 \/ <<stage, "label">> \in failed'
    <3>1. CASE i = b + 9
      BY <2>1, <2>4, <3>1 DEF KindPlace
    <3>2. CASE i > b + 9
      BY <2>3, <2>4, <3>2
    <3> QED BY <1>3, <2>1, <3>1, <3>2
  <2>7. stage = "socket" /\ i + 1 > 12 => mac.mode = "permissive" \/ <<"socket", "mode">> \in failed'
    <3> SUFFICES ASSUME stage = "socket", i + 1 > 12
                 PROVE  mac.mode = "permissive" \/ <<"socket", "mode">> \in failed'
      OBVIOUS
    <3>1. CASE i = 12
      BY <2>1, <2>2, <2>4, <3>1 DEF KindPlace
    <3>2. CASE i > 12
      BY <2>3, <2>4, <3>2
    <3> QED BY <1>3, <3>1, <3>2
  <2>8. s.must => mac.label[stage] = 0
    BY <2>1, <2>3 DEF KindPlace
  <2>9. stage = "socket" /\ s.must => <<"socket", "label">> \in failed' \/ <<"socket", "mode">> \in failed'
    <3> SUFFICES ASSUME stage = "socket", s.must
                 PROVE  <<"socket", "label">> \in failed' \/ <<"socket", "mode">> \in failed'
      OBVIOUS
    <3>1. i = b \/ i = b - 1
      BY <2>1, <2>2 DEF KindPlace
    <3>2. s.op \in {"label", "mode"}
      BY <2>1, <3>1 DEF KindPlace
    <3> QED BY <2>4, <3>2
  <2> QED BY <2>1, <2>5, <2>6, <2>7, <2>8, <2>9
<1>5. Within'
  <2>1. main'.exit # "signal" /\ main'.exit \notin {"0", "3"} /\ (main'.exit = "2" => s.must)
    BY <1>2
  <2>2. stage' = "socket" /\ main'.exit = "2" => Spoilt("socket", {"label", "mode"})'
    BY <1>2, <1>4, <2>1 DEF Spoilt
  <2> HIDE DEF s
  <2> QED BY <1>2, <1>3, <1>4, <2>1, <2>2 DEF Within
<1>6. main'.at # 0 /\ failed \subseteq failed' /\ \A k \in Mac \ {stage} : mac'.label[k] = mac.label[k]
  BY <1>2, <1>3
<1>7. MacInv'
  BY <1>1, <1>2, <1>3, <1>5, <1>6, WithinFrame
<1>8. Moves /\ stage' # "panic"
  BY <1>2, <1>3 DEF Moves, Mac
<1> QED BY <1>1, <1>2, <1>3, <1>6, <1>7, <1>8, MacRest

\* The main ends, by itself or killed.
LEMMA MainEndsStep ==
    ASSUME IInv, MainKilled \/ MainExits, UNCHANGED <<kernel, mountVars, timedVars, probeVars>>
    PROVE  IInv'
<1>1. mac \in Macs /\ main \in Mains /\ MacInv /\ Within
      /\ verdict \in [Probes -> {"none", "yes", "no", "unknown"}]
  BY DEF IInv, TypeInv, MacInv
<1>2. /\ stage \in Mac /\ main.at > 0 /\ UNCHANGED <<mac, stage, verdict>> /\ failed \subseteq failed'
      /\ \E e \in {"signal", "0", "3"} : main' = [main EXCEPT !.exit = e]
      /\ main' = [main EXCEPT !.exit = "signal"] => <<stage, "killed">> \in failed' \/ main.at > Len(Script[stage])
      /\ \/ main' = [main EXCEPT !.exit = "signal"] /\ <<stage, "killed">> \in failed'
         \/ \E e \in {"0", "3"} : main' = [main EXCEPT !.exit = e] /\ main.at > Len(Script[stage])
  <2>1. CASE MainKilled
    BY <2>1, FailsIs DEF MainKilled, Running, Stays
  <2>2. CASE MainExits
    <3>1. /\ stage \in Mac /\ main.at > Len(Script[stage]) /\ UNCHANGED <<mac, stage, verdict, failed>>
          /\ \E e \in {"0", "3"} : main' = [main EXCEPT !.exit = e]
      BY <2>2 DEF MainExits, Stays, Works
    <3>2. main.at > 0
      <4>1. Len(Script[stage]) \in {9, 13, 14}
        BY <3>1, SignalScript, FileScript, SocketScript DEF Mac
      <4> QED BY <1>1, <3>1, <4>1 DEF Mains
    <3> QED BY <3>1, <3>2
  <2> QED BY <2>1, <2>2
<1>3. /\ main' \in Mains /\ main'.at = main.at /\ main'.exit \in {"signal", "0", "3"}
      /\ main'.exit = "signal" => <<stage, "killed">> \in failed'
      /\ main'.exit \in {"0", "3"} => main.at > Len(Script[stage])
  BY <1>1, <1>2 DEF Mains
<1>4. Within'
  BY <1>1, <1>2, <1>3 DEF Within
<1>5. main'.at # 0 /\ \A k \in Mac \ {stage} : mac'.label[k] = mac.label[k]
  BY <1>1, <1>2, <1>3 DEF Mains
<1>6. MacInv'
  BY <1>1, <1>2, <1>4, <1>5, WithinFrame
<1>7. Moves /\ stage' # "panic"
  BY <1>2 DEF Moves, Mac
<1>8. mac' \in Macs
  BY <1>1, <1>2
<1> QED BY <1>1, <1>2, <1>3, <1>6, <1>7, <1>8, MacRest

\* The probe is over: the boot goes on with what its main left behind.
LEMMA LeftBehind ==
    ASSUME MacInv, stage \in Mac, stage' = Following(stage), failed \subseteq failed', main' = NoMain,
           mac'.label["signal"] = 0, mac'.mode = mac.mode,
           \A k \in {"file", "socket"} : mac'.label[k] = mac.label[k],
           \A k \in {"file", "socket"} : stage = k => mac.label[k] = 0 \/ Spoilt(k, {"label", "mode"})',
           stage = "socket" => mac.mode = "permissive" \/ Spoilt("socket", {"start", "mode", "label"})'
    PROVE  MacInv'
<1>1. stage \in Going /\ stage' \in {"file", "socket", "userns"}
  BY After DEF Going, Probes, Mac
<1>2. \A a : Before(a, stage') <=> Before(a, stage) \/ a = stage
  BY <1>1, BeforeNext
<1>3. \A k \in Mac : ~Before("socket", stage)
  BY MacOrder
<1>4. ASSUME NEW k \in {"file", "socket"}
      PROVE  /\ ~Before(k, stage') => mac'.label[k] = 0
             /\ Before(k, stage') => mac'.label[k] = 0 \/ Spoilt(k, {"label", "mode"})'
  <2>1. Spoilt(k, {"label", "mode"}) => Spoilt(k, {"label", "mode"})'
    BY DEF Spoilt
  <2>2. stage # "panic"
    BY DEF Mac
  <2>3. ~Before(k, stage) /\ stage # k => mac.label[k] = 0
    BY <2>2 DEF MacInv
  <2>4. Before(k, stage) => mac.label[k] = 0 \/ Spoilt(k, {"label", "mode"})'
    BY <2>1 DEF MacInv
  <2> QED BY <1>2, <2>3, <2>4
<1>5. Before("socket", stage') => stage = "socket"
  BY <1>2, <1>3, MacOrder
<1>6. \A k \in {"file", "socket"} : stage' = k => ~Before(k, stage')
  BY BeforeEarly
<1>7. Within'
  BY <1>1, <1>4, <1>6, NoMainIs DEF Within, Labelled, LabelBack
<1> QED BY <1>1, <1>4, <1>5, <1>7 DEF MacInv

LEMMA MainStartsStep ==
    ASSUME IInv, MainStarts, UNCHANGED <<kernel, mountVars, timedVars, probeVars>>
    PROVE  IInv'
<1>1. mac \in Macs /\ main \in Mains /\ MacInv /\ Within
      /\ verdict \in [Probes -> {"none", "yes", "no", "unknown"}]
  BY DEF IInv, TypeInv, MacInv
<1>2. stage \in Mac /\ main.at = 0 /\ main = NoMain /\ mac' = mac /\ mac.label["signal"] = 0
  BY <1>1 DEF MainStarts, MacInv
<1>3. CASE main' = [NoMain EXCEPT !.at = 1] /\ Stays /\ Works
  <2>1. main' \in Mains /\ main'.at = 1 /\ main'.exit = "none"
    BY <1>3 DEF NoMain, Mains
  <2>2. UNCHANGED <<stage, verdict, failed>>
    BY <1>3 DEF Stays, Works
  <2>3. Within'
    BY <1>1, <1>2, <2>1, <2>2, NoMainIs DEF Within, Labelled, LabelBack
  <2>4. MacInv'
    BY <1>1, <1>2, <2>1, <2>2, <2>3, WithinFrame
  <2>5. Moves /\ stage' # "panic"
    BY <1>2, <2>2 DEF Moves, Mac
  <2> QED BY <1>1, <1>2, <2>1, <2>2, <2>4, <2>5, MacRest
<1>4. CASE UNCHANGED main /\ Concludes(stage, "no") /\ Fails(<<stage, "start">>)
  <2>1. /\ stage' = Following(stage) /\ failed' = failed \cup {<<stage, "start">>}
        /\ verdict' = [verdict EXCEPT ![stage] = "no"] /\ main' = NoMain
    BY <1>2, <1>4, FailsIs DEF Concludes, Proceed
  <2>2. stage \in {"file", "socket"} => mac.label[stage] = 0
    BY <1>1, <1>2 DEF Within, Labelled
  <2>3. stage = "socket" => Spoilt("socket", {"start", "mode", "label"})'
    BY <2>1 DEF Spoilt
  <2>4. MacInv'
    BY <1>1, <1>2, <2>1, <2>2, <2>3, LeftBehind
  <2>5. Moves /\ stage' # "panic"
    BY <1>2, <2>1, After DEF Moves, Mac, Going, Probes
  <2>6. verdict' \in [Probes -> {"none", "yes", "no", "unknown"}]
    BY <1>1, <2>1
  <2> QED BY <1>1, <1>2, <2>1, <2>4, <2>5, <2>6, MacRest
<1> QED BY <1>3, <1>4 DEF MainStarts

LEMMA MainReapedStep ==
    ASSUME IInv, MainReaped, UNCHANGED <<kernel, mountVars, timedVars, probeVars>>
    PROVE  IInv'
<1>1. mac \in Macs /\ main \in Mains /\ MacInv /\ Within
      /\ verdict \in [Probes -> {"none", "yes", "no", "unknown"}]
  BY DEF IInv, TypeInv, MacInv
<1>2. /\ stage \in Mac /\ main.exit \in {"0", "2", "3", "signal"} /\ failed' = failed
      /\ stage' = Following(stage) /\ main' = NoMain
      /\ mac' = (IF stage = "signal" THEN [mac EXCEPT !.label["signal"] = 0] ELSE mac)
  BY <1>1 DEF MainReaped, Concludes, Proceed, Works, Mains
<1>3. verdict' \in [Probes -> {"none", "yes", "no", "unknown"}]
  BY <1>1 DEF MainReaped, Concludes
<1>4. /\ mac' \in Macs /\ mac'.mode = mac.mode /\ mac'.label["signal"] = 0
      /\ \A k \in {"file", "socket"} : mac'.label[k] = mac.label[k]
  <2>1. CASE stage = "signal"
    <3> DEFINE new == [mac.label EXCEPT !["signal"] = 0]
    <3>1. mac' = [mac EXCEPT !.label = new]
      BY <1>2, <2>1
    <3>2. new \in [Mac -> {0, 1, 2}] /\ new["signal"] = 0 /\ \A k \in {"file", "socket"} : new[k] = mac.label[k]
      BY <1>1 DEF Macs, Mac
    <3> HIDE DEF new
    <3> QED BY <1>1, <3>1, <3>2 DEF Macs
  <2>2. CASE stage # "signal"
    BY <1>1, <1>2, <2>2 DEF MacInv
  <2> QED BY <2>1, <2>2
<1>5. ASSUME NEW k \in {"file", "socket"}, stage = k
      PROVE  /\ mac.label[k] = 0 \/ Spoilt(k, {"label", "mode"})'
             /\ k = "socket" => mac.mode = "permissive" \/ Spoilt("socket", {"start", "mode", "label"})'
  <2>1. CASE main.exit \in {"0", "3"}
    <3>1. main.at > Len(Script[stage]) /\ Len(Script[stage]) = Labelled[stage] + 11
          /\ Labelled[stage] \in {2, 3} /\ LabelBack[stage] = Labelled[stage] + 9 /\ main.at \in Nat
      BY <1>1, <1>2, <1>5, <2>1, FirstSteps DEF Within, Mains
    <3>2. main.at > LabelBack[stage] /\ main.at > 12
      BY <3>1
    <3> QED BY <1>1, <1>2, <1>5, <3>2 DEF Within, Spoilt
  <2>2. CASE main.exit = "2"
    BY <1>1, <1>2, <1>5, <2>2 DEF Within, Spoilt
  <2>3. CASE main.exit = "signal"
    BY <1>1, <1>2, <1>5, <2>3 DEF Within, Spoilt
  <2> QED BY <1>2, <2>1, <2>2, <2>3
<1>6. MacInv'
  BY <1>1, <1>2, <1>4, <1>5, LeftBehind
<1>7. Moves /\ stage' # "panic"
  BY <1>2, After DEF Moves, Mac, Going, Probes
<1>8. main' \in Mains
  BY <1>2 DEF NoMain, Mains
<1> QED BY <1>2, <1>3, <1>4, <1>6, <1>7, <1>8, MacRest

LEMMA MacStep ==
    ASSUME IInv, MacNext, UNCHANGED <<kernel, mountVars, timedVars, probeVars, seen>>
    PROVE  IInv'
  BY MainStartsStep, MainStepStep, MainStepFailsStep, MainEndsStep, MainReapedStep DEF MacNext

-----------------------------------------------------------------------------
(* What the boot hands over.                                               *)

LEMMA Inductive == ASSUME IInv, [Next]_vars PROVE IInv'
<1>1. CASE Next
  BY <1>1, MountsStep, probeKernelStep, ProbesStep, SecurityStep, MacStep DEF Next
<1>2. CASE UNCHANGED vars
  <2>1. UNCHANGED <<stage, kernel, failed, verdict, mountVars, timedVars, probeVars, macVars>>
    BY <1>2 DEF vars
  <2>2. TypeInv'
    BY <2>1 DEF IInv, TypeInv, timedVars, probeVars, macVars
  <2>3. MountedInv' /\ HelperInv' /\ CgroupInv' /\ DelegatedInv'
    <3>1. MountedInv'
      BY <2>1 DEF IInv, MountedInv, HasCgroups, mountVars
    <3>2. HelperInv'
      BY <2>1 DEF IInv, HelperInv, timedVars
    <3>3. CgroupInv'
      BY <2>1 DEF IInv, CgroupInv, timedVars, probeVars
    <3>4. DelegatedInv'
      BY <2>1 DEF IInv, DelegatedInv, timedVars, probeVars
    <3> QED BY <3>1, <3>2, <3>3, <3>4
  <2>4. MacInv'
    BY <2>1 DEF IInv, MacInv, Within, Spoilt, macVars
  <2> QED BY <2>2, <2>3, <2>4 DEF IInv
<1> QED BY <1>1, <1>2

\* The invariant on which the theorems rest, of every boot.
LEMMA Invariant == Spec => []IInv
  BY InitIInv, Inductive, PTL DEF Spec

\* However many calls fail or run out of time: a command that ran out of time was
\* sent SIGKILL, a cgroup is left behind only for a process that survived that or
\* where there is no cgroup file system, and PID 1 panics only in
\* runWithTimeoutEnv (combinedOutputTimeout, runWithTimeoutEnv).
THEOREM TimeoutsHandled == Spec => []TimeoutHandled
<1>1. IInv => TimeoutHandled
  BY DEF IInv, HelperInv, CgroupInv, TimeoutHandled
<1> QED BY <1>1, Invariant, PTL

\* However many calls fail: what early boot hands over to the node agent is fit
\* for its pods, up to the failures named in LimitsDelegated and ModeRestored
\* (probeCgroupV2, cpuEnforcementTest, and the clean-up of the three MAC probes).
THEOREM NodeIsReady == Spec => []NodeReady
<1>1. IInv => LimitsDelegated
  <2> SUFFICES ASSUME IInv, stage = "node" PROVE LimitsDelegated
    BY DEF LimitsDelegated
  <2>1. stage \notin Unprobed \cup {"cgroup", "ns", "netns", "mem", "cpu"}
    BY DEF Unprobed
  <2> QED BY <2>1 DEF IInv, DelegatedInv, LimitsDelegated
<1>2. IInv => ModeRestored
  <2> SUFFICES ASSUME IInv, stage = "node" PROVE ModeRestored
    BY DEF ModeRestored
  <2>1. Before("file", stage) /\ Before("socket", stage) /\ stage # "signal"
    BY BeforeEarly DEF Probes, Mac
  <2>2. /\ mac.mode = "permissive" \/ Spoilt("socket", {"start", "mode", "label"})
        /\ mac.label["signal"] = 0
        /\ \A k \in {"file", "socket"} : mac.label[k] = 0 \/ Spoilt(k, {"label", "mode"})
    BY <2>1 DEF IInv, MacInv
  <2> QED BY <2>2 DEF ModeRestored, Spoilt, Mac
<1> QED BY <1>1, <1>2, Invariant, PTL DEF NodeReady

-----------------------------------------------------------------------------
(* The verdicts.                                                           *)

LEMMA InitVInv == Init => VInv
<1> SUFFICES ASSUME Init PROVE VInv
  OBVIOUS
<1> USE DEF Init, WorldInit, MountsInit, ProbesInit, MacInit, TimedInit
<1>1. stage \notin Timed /\ stage \notin Plain /\ stage \notin Mac
      /\ stage \notin {"ns", "netns", "mem", "cpu", "signal", "file", "socket"}
  BY DEF Timed, Plain, Mac
<1>2. TimedInv
  BY <1>1 DEF TimedInv, NoCall, NoProc
<1>3. SeenInv
  BY <1>1 DEF SeenInv, Plain
<1>4. ScriptInv /\ PassedInv
  BY <1>1 DEF ScriptInv, PassedInv, Mac
<1>5. NoneYet /\ VerdictSound
  BY DEF NoneYet, VerdictSound
<1> QED BY <1>2, <1>3, <1>4, <1>5 DEF VInv

\* A flaw that is known to be there: the kernel's.
LEMMA KernelIs ==
    ASSUME kernel \in {Right} \cup KernelFlaws
    PROVE  /\ kernel = Right \/ kernel[1] \in Probes
           /\ \A k \in Mac : kernel[1] = k =>
                 \E f \in {"off", "coarse", "stuck", "all"} : kernel = <<k, f>>
           /\ \A p \in Timed : kernel[1] = p => kernel = <<p, "off">>
           /\ \A p \in Plain : kernel[1] = p => kernel \in PlainFlaws
           /\ Right[1] = "none" /\ Right[1] \notin Probes
<1>1. Right[1] = "none" /\ Right[1] \notin Probes
  BY DEF Right, Probes, Timed, Plain, Mac
<1>2. CASE kernel = Right
  BY <1>1, <1>2 DEF Probes
<1>3. CASE \E p \in Timed : kernel = <<p, "off">>
  BY <1>1, <1>3 DEF Probes, Timed, Plain, Mac
<1>4. CASE kernel \in PlainFlaws
  <2>1. \E p \in Plain : \E f : kernel = <<p, f>>
    BY <1>4, Zenon DEF Plain, PlainFlaws
  <2>2. kernel[1] \in Plain
    BY <2>1
  <2> QED BY <1>1, <1>4, <2>2 DEF Probes, Timed, Plain, Mac
<1>5. CASE kernel \in MacFlaws
  <2>1. PICK k \in Mac, f \in {"off", "coarse", "stuck", "all"} : kernel = <<k, f>>
    BY <1>5 DEF MacFlaws
  <2> QED BY <1>1, <2>1 DEF Probes, Timed, Plain, Mac
<1> QED BY <1>2, <1>3, <1>4, <1>5 DEF KernelFlaws

LEMMA PlainIs ==
    ASSUME kernel \in {Right} \cup KernelFlaws
    PROVE  /\ kernel[1] = "shebang" => kernel = <<"shebang", "argv0">>
           /\ kernel[1] = "seccomp" => kernel = <<"seccomp", "errno">> \/ kernel = <<"seccomp", "kill">>
           /\ kernel[1] = "userns" => kernel = <<"userns", "off">> \/ kernel = <<"userns", "same">>
           /\ kernel[1] = "rootless" => \/ kernel = <<"rootless", "open">>
                                        \/ kernel = <<"rootless", "no caps">> \/ kernel = <<"rootless", "host">>
           /\ kernel[1] = "usermap" => kernel = <<"usermap", "off">>
           /\ kernel[1] = "volume" => \/ kernel = <<"volume", "suid">>
                                      \/ kernel = <<"volume", "nosuid">> \/ kernel = <<"volume", "noexec">>
           /\ kernel[1] = "sandbox" => kernel = <<"sandbox", "setns">> \/ kernel = <<"sandbox", "newnet">>
<1> DEFINE Flaw(p, f) == \/ p = "shebang" /\ f = "argv0"
                         \/ p = "seccomp" /\ f \in {"errno", "kill"}
                         \/ p = "userns" /\ f \in {"off", "same"}
                         \/ p = "rootless" /\ f \in {"open", "no caps", "host"}
                         \/ p = "usermap" /\ f = "off"
                         \/ p = "volume" /\ f \in {"suid", "nosuid", "noexec"}
                         \/ p = "sandbox" /\ f \in {"setns", "newnet"}
<1>1. CASE kernel \in PlainFlaws
  <2>1. \E p, f : kernel = <<p, f>> /\ Flaw(p, f)
    BY <1>1, Zenon DEF PlainFlaws
  <2>2. PICK p, f : kernel = <<p, f>> /\ Flaw(p, f)
    BY <2>1
  <2>3. kernel[1] = p
    BY <2>2
  <2> QED BY <2>2, <2>3
<1>2. CASE kernel \notin PlainFlaws
  BY <1>2, KernelIs DEF Plain
<1> QED BY <1>1, <1>2

\* A step that gives no verdict, and one that gives the verdict of a probe.
LEMMA VerdictFrame ==
    ASSUME VerdictSound, failed \subseteq failed', UNCHANGED <<kernel, verdict>>
    PROVE  VerdictSound'
  BY DEF VerdictSound

LEMMA VerdictGiven ==
    ASSUME VerdictSound, failed \subseteq failed', UNCHANGED kernel, NEW p \in Probes, NEW v,
           verdict' = [verdict EXCEPT ![p] = v], verdict \in [Probes -> {"none", "yes", "no", "unknown"}],
           v = "yes" /\ kernel[1] = p => failed' \cap Misleading(p) # {} \/ kernel = <<"signal", "all">>
    PROVE  VerdictSound'
<1> SUFFICES ASSUME NEW q \in Probes, verdict'[q] = "yes", kernel[1] = q
             PROVE  failed' \cap Misleading(q) # {} \/ kernel = <<"signal", "all">>
  BY DEF VerdictSound
<1>1. CASE q = p
  BY <1>1
<1>2. CASE q # p
  BY <1>2 DEF VerdictSound
<1> QED BY <1>1, <1>2

LEMMA NoneYetFrame ==
    ASSUME NoneYet, UNCHANGED verdict, Moves
    PROVE  NoneYet'
<1> SUFFICES ASSUME NEW q \in Probes, verdict[q] # "none" PROVE Before(q, stage') \/ stage' = "panic"
  BY DEF NoneYet
<1>1. Before(q, stage) \/ stage = "panic"
  BY DEF NoneYet
<1>2. stage = "panic" => stage \notin Going
  BY DEF Going, Unprobed, Probes, Timed, Plain, Mac
<1> QED BY <1>1, <1>2, BeforeNext DEF Moves

LEMMA NoneYetGiven ==
    ASSUME NoneYet, stage \in Probes, NEW v, verdict' = [verdict EXCEPT ![stage] = v],
           verdict \in [Probes -> {"none", "yes", "no", "unknown"}], stage' = Following(stage)
    PROVE  NoneYet'
<1> SUFFICES ASSUME NEW q \in Probes, verdict'[q] # "none" PROVE Before(q, stage')
  BY DEF NoneYet
<1>1. q = stage \/ verdict[q] # "none"
  OBVIOUS
<1>2. q = stage \/ Before(q, stage) \/ stage = "panic"
  BY <1>1 DEF NoneYet
<1>3. stage # "panic" /\ stage \in Going
  BY DEF Probes, Timed, Plain, Mac, Going
<1> QED BY <1>2, <1>3, BeforeNext

-----------------------------------------------------------------------------
(* The tests under a time limit.                                           *)

LEMMA TimedExec ==
    ASSUME IInv, TimedInv, ProbeExec, UNCHANGED kernel
    PROVE  TimedInv'
<1>1. /\ proc.st = "forking" /\ UNCHANGED <<stage, kernel>> /\ failed \subseteq failed'
      /\ call \in Helpers /\ proc \in Commands
  BY DEF ProbeExec, ExecDone, ExecFails, Stays, Works, Fails, IInv, TypeInv
<1>2. call.st \in {"starting", "select", "panic"} /\ stage \in Timed \cup {"runtime"}
      /\ (stage \in Timed => call.st = "starting")
  BY <1>1 DEF IInv, HelperInv, Timed, Helpers
<1>3. CASE CanExec /\ ExecDone
  <2>1. call'.st = (IF call.st = "starting" THEN "select" ELSE call.st) /\ call'.err = call.err
    BY <1>1, <1>3 DEF ExecDone, Helpers
  <2>2. proc'.st = "running" /\ proc'.code = proc.code
    BY <1>1, <1>3 DEF ExecDone, Commands
  <2>3. ~(stage = "ns" /\ kernel = <<"ns", "off">>)
    BY <1>3 DEF CanExec
  <2> QED BY <1>1, <1>2, <2>1, <2>2, <2>3 DEF TimedInv
<1>4. CASE ExecFails /\ IF CanExec THEN Fails(<<"child", "start">>) ELSE Works
  <2>1. call'.st = "returned" /\ call'.err = "start"
    BY <1>1, <1>4 DEF ExecFails, Helpers
  <2>2. proc'.st = "reaped" /\ proc'.code = proc.code
    BY <1>1, <1>4 DEF ExecFails, Commands
  <2>3. \/ <<"child", "start">> \in failed' \/ <<"mount", "/proc">> \in failed'
        \/ stage = "ns" /\ kernel = <<"ns", "off">>
    <3>1. CASE CanExec
      BY <1>4, <3>1 DEF Fails
    <3>2. CASE ~CanExec
      <4>1. "/proc" \in mounted \/ <<"mount", "/proc">> \in failed
        BY <1>2 DEF IInv, MountedInv, Timed
      <4> QED BY <1>1, <3>2, <4>1 DEF CanExec
    <3> QED BY <3>1, <3>2
  <2> QED BY <1>1, <1>2, <2>1, <2>2, <2>3 DEF TimedInv
<1> QED BY <1>3, <1>4 DEF ProbeExec

LEMMA TimedChild ==
    ASSUME IInv, TimedInv, ChildJoins \/ ChildEnds, UNCHANGED kernel
    PROVE  TimedInv'
<1>1. /\ proc.st = "running" /\ UNCHANGED <<call, stage, kernel>> /\ failed \subseteq failed'
      /\ call \in Helpers /\ proc \in Commands /\ call.st # "idle"
  BY NoneIs DEF ChildJoins, ChildEnds, ChildExits, Stays, Works, Fails, IInv, HelperInv, TypeInv
<1>2. call.st = "returned" => call.err = "timeout"
  BY <1>1 DEF IInv, HelperInv, TimedInv
<1>3. CASE proc' = [proc EXCEPT !.cg = stage]
  <2>1. proc'.st = proc.st /\ proc'.code = proc.code
    BY <1>1, <1>3 DEF Commands
  <2> QED BY <1>1, <2>1 DEF TimedInv
<1>4. ASSUME NEW e, ChildExits(e), e \in {"good", "other", "killed"},
             stage = "netns" /\ kernel = <<"netns", "off">> => e # "good",
             stage = "mem" /\ kernel = <<"mem", "off">> /\ e = "killed" => <<"child", "killed">> \in failed'
      PROVE  TimedInv'
  <2>1. proc'.st = "exited" /\ proc'.code = e
    BY <1>1, <1>4 DEF ChildExits, Commands
  <2> QED BY <1>1, <1>2, <1>4, <2>1 DEF TimedInv
<1>5. ChildExits(Ending) => TimedInv'
  <2>1. Ending \in {"good", "other", "killed"} /\ (stage = "netns" /\ kernel = <<"netns", "off">> => Ending # "good")
        /\ (stage = "mem" /\ kernel = <<"mem", "off">> => Ending # "killed")
    BY DEF Ending
  <2> QED BY <1>4, <2>1
<1>6. ChildExits("killed") /\ Fails(<<"child", "killed">>) => TimedInv'
  BY <1>4, FailsIs
<1>7. ChildExits("other") /\ Joins => TimedInv'
  BY <1>4
<1> QED BY <1>3, <1>5, <1>6, <1>7 DEF ChildJoins, ChildEnds

LEMMA TimedHelper ==
    ASSUME IInv, TimedInv, HelperStep, UNCHANGED kernel
    PROVE  TimedInv'
<1>1. /\ UNCHANGED <<stage, kernel>> /\ call \in Helpers /\ proc \in Commands
  BY DEF HelperStep, Stays, IInv, TypeInv
<1>0. failed \subseteq failed'
  BY DEF HelperStep, TimedNext, DoneReceived, TimerFires, GraceDone, GraceOver, Works, Fails
<1>2. CASE DoneReceived
  <2>1. /\ call.st = "select" /\ call'.st = "returned"
        /\ call'.err = (IF proc.code # "killed" THEN "none" ELSE "status")
    BY <1>1, <1>2 DEF DoneReceived, Helpers
  <2>2. proc.st = "exited" /\ proc'.st = "reaped" /\ proc'.code = proc.code
    BY <1>1, <1>2 DEF DoneReceived, Commands
  <2> QED BY <1>0, <1>1, <2>1, <2>2 DEF TimedInv
<1>3. CASE TimerFires
  <2>1. call.st = "select"
    BY <1>3 DEF TimerFires
  <2>2. ~(stage = "ns" /\ kernel = <<"ns", "off">>)
    BY <2>1 DEF TimedInv
  <2>3. /\ call'.st \in {"panic", "grace", "returned"} /\ (call'.st = "returned" => call'.err = "timeout")
    <3>1. CASE proc.st = "forking"
      BY <1>1, <1>3, <3>1 DEF TimerFires, Helpers
    <3>2. CASE proc.st # "forking" /\ call.helper = "combined"
      BY <1>1, <1>3, <3>2 DEF TimerFires, Helpers
    <3>3. CASE proc.st # "forking" /\ call.helper # "combined"
      <4>1. PICK o \in {"empty", "torn", "all"} :
              call' = [call EXCEPT !.st = "returned", !.err = "timeout", !.out = o]
        BY <1>3, <3>3 DEF TimerFires
      <4> QED BY <1>1, <4>1 DEF Helpers
    <3> QED BY <3>1, <3>2, <3>3
  <2>4. proc'.code = proc.code /\ (proc'.st = "exited" => proc.st = "exited")
    <3>1. \/ proc' = proc
          \/ proc' = [proc EXCEPT !.st = IF @ = "running" THEN "dying" ELSE @, !.signalled = TRUE]
          \/ proc' = [proc EXCEPT !.st = IF @ = "running" THEN "dying" ELSE "reaped", !.signalled = TRUE]
      BY <1>3 DEF TimerFires
    <3> QED BY <1>1, <3>1 DEF Commands
  <2> QED BY <1>0, <1>1, <2>2, <2>3, <2>4 DEF TimedInv
<1>4. CASE GraceDone \/ GraceOver
  <2>1. /\ call.st = "grace" /\ call'.st = "returned" /\ call'.err = "timeout"
    <3>1. \E o \in {"empty", "torn", "all"} :
              call' = [call EXCEPT !.st = "returned", !.err = "timeout", !.out = o]
      BY <1>4 DEF GraceDone, GraceOver
    <3> QED BY <1>1, <1>4, <3>1 DEF Helpers, GraceDone, GraceOver
  <2>2. ~(stage = "ns" /\ kernel = <<"ns", "off">>)
    BY <2>1 DEF TimedInv
  <2>3. proc'.code = proc.code /\ (proc'.st = "exited" => proc.st = "exited")
    BY <1>1, <1>4 DEF GraceDone, GraceOver, Commands
  <2> QED BY <1>0, <1>1, <2>1, <2>2, <2>3 DEF TimedInv
<1> QED BY <1>2, <1>3, <1>4 DEF HelperStep, TimedNext

LEMMA TimedStep ==
    ASSUME IInv, IInv', TimedInv, ProbesNext, UNCHANGED kernel
    PROVE  TimedInv'
<1>1. CASE ProbeExec \/ ChildJoins \/ ChildEnds \/ HelperStep
  BY <1>1, TimedExec, TimedChild, TimedHelper
<1>2. ASSUME call'.st = "idle" PROVE TimedInv'
  <2>1. HelperInv'
    BY DEF IInv
  <2> QED BY <1>2, <2>1 DEF HelperInv, TimedInv, NoProc, NoCall
<1>3. ASSUME NEW h \in {"combined", "env"}, TimedStart(h), h = "env" => stage' = "runtime" PROVE TimedInv'
  <2>1. /\ call' = [helper |-> h, st |-> IF h = "combined" THEN "starting" ELSE "select",
                       err |-> "none", out |-> "empty"]
        /\ proc' = [st |-> "forking", cg |-> "root", code |-> "good", signalled |-> FALSE]
    BY <1>3, TimedStartIs
  <2>2. call'.st \in {"starting", "select"} /\ (call'.st = "select" => stage' = "runtime")
        /\ proc'.st = "forking" /\ proc'.code = "good"
    BY <1>3, <2>1
  <2> QED BY <2>2 DEF TimedInv
<1>4. CASE probeCgroupV2 \/ cpuVerdict
  <2>1. UNCHANGED call /\ call.st = "idle"
    BY <1>4 DEF probeCgroupV2, cpuVerdict, timedVars, IInv, HelperInv, CgroupInv, Timed
  <2> QED BY <1>2, <2>1
<1>5. ASSUME NEW p \in Timed, TestStarts(p) \/ TestEnds(p) PROVE TimedInv'
  <2>1. CASE TestStarts(p)
    <3>1. CASE TimedStart("combined")
      BY <1>3, <3>1
    <3>2. CASE UNCHANGED timedVars
      BY <1>2, <2>1, <3>2 DEF TestStarts, Idle, timedVars
    <3> QED BY <2>1, <3>1, <3>2 DEF TestStarts
  <2>2. CASE TestEnds(p)
    BY <1>2, <2>2, NoneIs DEF TestEnds
  <2> QED BY <1>5, <2>1, <2>2
<1>6. CASE BurnAgain
  BY <1>3, <1>6 DEF BurnAgain
<1>7. CASE BurnEnds \/ RuntimeEnds
  BY <1>2, <1>7, NoneIs DEF BurnEnds, RuntimeEnds
<1>8. CASE RuntimeStarts
  <2>1. CASE TimedStart("env") /\ UNCHANGED stage
    BY <1>3, <1>8, <2>1 DEF RuntimeStarts
  <2>2. CASE UNCHANGED timedVars
    BY <1>2, <1>8, <2>2 DEF RuntimeStarts, Idle, timedVars
  <2> QED BY <1>8, <2>1, <2>2 DEF RuntimeStarts
<1> QED BY <1>1, <1>4, <1>5, <1>6, <1>7, <1>8 DEF ProbesNext

\* What misleads each probe.
LEMMA MisleadingIs ==
    /\ Misleading("mem") = {<<"child", "start">>, <<"child", "slow">>, <<"child", "killed">>, <<"mount", "/proc">>}
    /\ Misleading("cpu") = {<<"cpu", "load">>}
    /\ Misleading("seccomp") = {<<"seccomp", "kill">>}
    /\ Misleading("userns") = {<<"userns", "name">>}
    /\ Misleading("volume") = {<<"volume", "noexec">>}
    /\ Misleading("sandbox") = {<<"sandbox", "name">>}
    /\ Misleading("file") = {<<"file", "tenant">>}
    /\ Misleading("socket") = {<<"socket", "tenant">>, <<"socket", "test">>}
  BY DEF Misleading

LEMMA ProbesVerdicts ==
    ASSUME IInv, TimedInv, NoneYet, VerdictSound, ProbesNext, UNCHANGED kernel
    PROVE  NoneYet' /\ VerdictSound'
<1>0. /\ failed \subseteq failed' /\ Moves /\ verdict \in [Probes -> {"none", "yes", "no", "unknown"}]
      /\ kernel \in {Right} \cup KernelFlaws
  BY ProbesMoves DEF IInv, TypeInv
<1>1. ASSUME UNCHANGED verdict PROVE NoneYet' /\ VerdictSound'
  BY <1>0, <1>1, VerdictFrame, NoneYetFrame
<1>2. ASSUME NEW v, stage \in Timed, Concludes(stage, v),
             v = "yes" /\ kernel = <<stage, "off">> => \E w \in failed' : w \in Misleading(stage)
      PROVE  NoneYet' /\ VerdictSound'
  <2>1. stage \in Probes /\ verdict' = [verdict EXCEPT ![stage] = v] /\ stage' = Following(stage)
    BY <1>2 DEF Concludes, Proceed, Probes
  <2>2. kernel[1] = stage => kernel = <<stage, "off">>
    BY <1>0, <1>2, KernelIs
  <2>3. NoneYet'
    BY <1>0, <2>1, NoneYetGiven
  <2>4. v = "yes" /\ kernel[1] = stage => failed' \cap Misleading(stage) # {}
    BY <1>2, <2>2
  <2> HIDE DEF Concludes
  <2>5. VerdictSound'
    BY <1>0, <2>1, <2>4, VerdictGiven
  <2> QED BY <2>3, <2>5
<1>3. ASSUME NEW p \in Timed, TestStarts(p) PROVE NoneYet' /\ VerdictSound'
  <2>1. CASE Stays
    BY <1>1, <2>1 DEF Stays
  <2>2. CASE Concludes(p, "unknown")
    <3>1. stage = p
      BY <1>3 DEF TestStarts
    <3> QED BY <1>2, <2>2, <3>1
  <2> QED BY <1>3, <2>1, <2>2 DEF TestStarts
<1>4. ASSUME NEW p \in Timed, TestEnds(p) PROVE NoneYet' /\ VerdictSound'
  <2>1. /\ stage = p /\ p \in {"ns", "netns", "mem"} /\ call.st = "returned" /\ failed' = failed
        /\ Concludes(p, TestVerdict(p))
    BY <1>4 DEF TestEnds
  <2>2. ASSUME TestVerdict(p) = "yes", kernel = <<p, "off">> PROVE \E w \in failed : w \in Misleading(p)
    <3>1. CASE p = "ns"
      BY <2>1, <2>2, <3>1 DEF TimedInv, TestVerdict
    <3>2. CASE p = "netns"
      BY <2>1, <2>2, <3>2 DEF TimedInv, TestVerdict
    <3>3. CASE p = "mem"
      <4>1. call.err # "none"
        BY <2>2, <3>3 DEF TestVerdict
      <4>2. CASE call.err = "status"
        <5>1. <<"child", "killed">> \in failed
          BY <2>1, <2>2, <3>3, <4>2 DEF TimedInv
        <5> QED BY <3>3, <5>1, MisleadingIs
      <4>3. CASE call.err = "start"
        <5>1. <<"child", "start">> \in failed \/ <<"mount", "/proc">> \in failed
          BY <2>1, <3>3, <4>3 DEF TimedInv
        <5> QED BY <3>3, <5>1, MisleadingIs
      <4>4. CASE call.err = "timeout"
        <5>1. <<"child", "slow">> \in failed
          BY <2>1, <4>4 DEF IInv, HelperInv
        <5> QED BY <3>3, <5>1, MisleadingIs
      <4>5. call.err \in {"none", "start", "status", "timeout"}
        BY DEF IInv, TypeInv, Helpers
      <4> QED BY <4>1, <4>2, <4>3, <4>4, <4>5
    <3> QED BY <2>1, <3>1, <3>2, <3>3
  <2> QED BY <1>2, <2>1, <2>2
<1>5. CASE cpuVerdict
  <2>1. stage = "cpu" /\ stage \in Timed
    BY <1>5 DEF cpuVerdict, Timed
  <2>2. CASE Concludes("cpu", "unknown")
    BY <1>2, <2>1, <2>2
  <2>3. CASE Concludes("cpu", IF PlainDir \/ kernel = <<"cpu", "off">> THEN "no" ELSE "yes")
    BY <1>2, <2>1, <2>3
  <2>4. CASE \E v \in {"yes", "no"} : Concludes("cpu", v) /\ Fails(<<"cpu", "load">>)
    <3>1. <<"cpu", "load">> \in failed' /\ <<"cpu", "load">> \in Misleading("cpu")
      BY <2>4, MisleadingIs DEF Fails
    <3> QED BY <1>2, <2>1, <2>4, <3>1
  <2> QED BY <1>5, <2>2, <2>3, <2>4, Zenon DEF cpuVerdict
<1>6. CASE ~\E p \in Timed : TestStarts(p) \/ TestEnds(p)
  BY <1>1, <1>5, <1>6 DEF ProbesNext, probeCgroupV2, BurnAgain, BurnEnds, ProbeExec, ChildJoins, ChildEnds,
     HelperStep, RuntimeStarts, RuntimeEnds, Stays
<1> QED BY <1>3, <1>4, <1>6

-----------------------------------------------------------------------------
(* The probes that judge by what they saw.                                 *)

LEMMA StepsAre ==
    /\ Len(Steps["shebang"]) = 4 /\ Len(Steps["seccomp"]) = 2 /\ Len(Steps["userns"]) = 2
    /\ Len(Steps["rootless"]) = 3 /\ Len(Steps["usermap"]) = 2 /\ Len(Steps["volume"]) = 5
    /\ Len(Steps["sandbox"]) = 5
    /\ Steps["shebang"][4] = "run"
    /\ Steps["seccomp"][1] = "errno" /\ Steps["seccomp"][2] = "kill"
    /\ Steps["userns"][1] = "name" /\ Steps["userns"][2] = "child"
    /\ Steps["rootless"][2] = "base" /\ Steps["rootless"][3] = "userns"
    /\ Steps["usermap"][2] = "child"
    /\ Steps["volume"][3] = "control" /\ Steps["volume"][4] = "nosuid" /\ Steps["volume"][5] = "noexec"
    /\ Steps["sandbox"][1] = "hold" /\ Steps["sandbox"][2] = "name" /\ Steps["sandbox"][3] = "join"
    /\ Steps["sandbox"][4] = "close" /\ Steps["sandbox"][5] = "wait"
  BY DEF Steps

LEMMA ShowsIs ==
    /\ Shows("shebang", "run") = (IF Flawed("argv0") THEN "argv0" ELSE "path")
    /\ Shows("seccomp", "errno") = seccompProbeChild("errno")
    /\ Shows("seccomp", "kill") = seccompProbeChild("kill")
    /\ Shows("userns", "name") = "host" /\ Shows("sandbox", "name") = "host"
    /\ Shows("userns", "child") = IF Flawed("off") THEN "none"
            ELSE usernsProbeChild(IF Flawed("same") THEN "host" ELSE "new", seen[1])
    /\ Shows("rootless", "base") = unshareErrno
    /\ Shows("rootless", "userns") = rootlessProbeUserns
    /\ Shows("usermap", "child") = usermapProbeChild
    /\ \A s \in {"control", "nosuid", "noexec"} : Shows("volume", s) = execAsUnprivReportEuid(s)
    /\ Shows("sandbox", "hold") = sandboxProbeHold
    /\ Shows("sandbox", "join") = sandboxProbeJoin(seen[1])
    /\ Shows("sandbox", "close") = "closed" /\ Shows("sandbox", "wait") = "reaped"
<1>1. Shows("shebang", "run") = (IF Flawed("argv0") THEN "argv0" ELSE "path")
  BY DEF Shows
<1>2. Shows("seccomp", "errno") = seccompProbeChild("errno") /\ Shows("seccomp", "kill") = seccompProbeChild("kill")
  BY DEF Shows
<1>3. Shows("userns", "name") = "host" /\ Shows("sandbox", "name") = "host"
  BY DEF Shows
<1>4. Shows("userns", "child") = IF Flawed("off") THEN "none"
            ELSE usernsProbeChild(IF Flawed("same") THEN "host" ELSE "new", seen[1])
  BY DEF Shows
<1>5. Shows("rootless", "base") = unshareErrno /\ Shows("rootless", "userns") = rootlessProbeUserns
  BY DEF Shows
<1>6. Shows("usermap", "child") = usermapProbeChild
  BY DEF Shows
<1>7. \A s \in {"control", "nosuid", "noexec"} : Shows("volume", s) = execAsUnprivReportEuid(s)
  BY DEF Shows
<1>8. Shows("sandbox", "hold") = sandboxProbeHold /\ Shows("sandbox", "join") = sandboxProbeJoin(seen[1])
  BY DEF Shows
<1>9. Shows("sandbox", "close") = "closed" /\ Shows("sandbox", "wait") = "reaped"
  BY DEF Shows
<1> QED BY <1>1, <1>2, <1>3, <1>4, <1>5, <1>6, <1>7, <1>8, <1>9

LEMMA MishapsAre ==
    /\ \A s \in {"errno", "kill"} : Mishaps("seccomp", s) = {"none", "exit2", "signal"}
    /\ Mishaps("userns", "name") = {"ERR"} /\ Mishaps("sandbox", "name") = {"ERR"}
    /\ Mishaps("sandbox", "hold") = {"none", "died"}
    /\ Mishaps("rootless", "base") = {"other errno"}
    /\ Mishaps("sandbox", "join") = {"none", "host"}
    /\ Mishaps("shebang", "run") = {"none"} /\ Mishaps("userns", "child") = {"none"}
    /\ Mishaps("rootless", "userns") = {"none"} /\ Mishaps("usermap", "child") = {"none"}
    /\ \A s \in {"control", "nosuid", "noexec"} : Mishaps("volume", s) = {"none"}
<1>1. \A s \in {"errno", "kill"} : Mishaps("seccomp", s) = {"none", "exit2", "signal"}
  BY DEF Mishaps
<1>2. Mishaps("userns", "name") = {"ERR"} /\ Mishaps("sandbox", "name") = {"ERR"}
  BY DEF Mishaps
<1>3. Mishaps("sandbox", "hold") = {"none", "died"} /\ Mishaps("rootless", "base") = {"other errno"}
  BY DEF Mishaps
<1>4. Mishaps("sandbox", "join") = {"none", "host"}
  BY DEF Mishaps
<1>5. /\ Mishaps("shebang", "run") = {"none"} /\ Mishaps("userns", "child") = {"none"}
      /\ Mishaps("rootless", "userns") = {"none"} /\ Mishaps("usermap", "child") = {"none"}
  BY DEF Mishaps
<1>6. \A s \in {"control", "nosuid", "noexec"} : Mishaps("volume", s) = {"none"}
  BY DEF Mishaps
<1> QED BY <1>1, <1>2, <1>3, <1>4, <1>5, <1>6

\* All that a step may show is in Shown.
LEMMA ShowsFits ==
    ASSUME NEW p, NEW s, Len(seen) > 0 => seen[1] \in Shown,
           s = "join" => Len(seen) > 0
    PROVE  Shows(p, s) \in Shown /\ Mishaps(p, s) \subseteq Shown
<1>1. Mishaps(p, s) \subseteq Shown
  BY DEF Mishaps, Shown
<1>2. Shows(p, s) \in Shown
  <2>1. seccompProbeChild(s) \in Shown /\ unshareErrno \in Shown /\ rootlessProbeUserns \in Shown
        /\ usermapProbeChild \in Shown /\ sandboxProbeHold \in Shown
        /\ usernsProbeChild(IF Flawed("same") THEN "host" ELSE "new", seen[1]) \in Shown
        /\ (s = "join" => sandboxProbeJoin(seen[1]) \in Shown)
    BY DEF seccompProbeChild, unshareErrno, rootlessProbeUserns, usermapProbeChild, sandboxProbeHold,
           usernsProbeChild, sandboxProbeJoin, Shown
  <2>2. s \in {"control", "nosuid", "noexec"} => execAsUnprivReportEuid(s) \in Shown
    BY DEF execAsUnprivReportEuid, Shown
  <2>3. "argv0" \in Shown /\ "path" \in Shown /\ "host" \in Shown /\ "none" \in Shown /\ "started" \in Shown
        /\ "closed" \in Shown /\ "reaped" \in Shown
    BY DEF Shown
  <2> QED BY <2>1, <2>2, <2>3 DEF Shows
<1> QED BY <1>1, <1>2

LEMMA NeedsAre ==
    /\ NeedsProc("volume", "control") /\ NeedsProc("volume", "nosuid") /\ NeedsProc("volume", "noexec")
    /\ NeedsProc("sandbox", "hold") /\ NeedsProc("sandbox", "name") /\ NeedsProc("userns", "name")
    /\ NeedsProc("userns", "child")
  BY DEF NeedsProc

\* What a probe sees next is o.
Saw(o) ==
    \/ Works /\ "/proc" \notin mounted /\ NeedsProc(stage, Now) /\ o = WithoutProc(stage, Now)
    \/ Works /\ ~("/proc" \notin mounted /\ NeedsProc(stage, Now)) /\ o = Shows(stage, Now)
    \/ failed' = failed \cup {<<stage, Now>>} /\ o \in Mishaps(stage, Now)

LEMMA ProbeStepIs ==
    ASSUME SeenInv, ProbeStep
    PROVE  /\ stage \in Plain /\ Len(seen) \in Nat /\ Len(seen) < Len(Steps[stage])
           /\ UNCHANGED <<stage, verdict, mountVars>> /\ failed \subseteq failed'
           /\ seen' \in Seq(Shown) /\ Len(seen') = Len(seen) + 1
           /\ \A i \in 1..Len(seen) : seen'[i] = seen[i]
           /\ Saw(seen'[Len(seen) + 1])
<1>1. /\ stage \in Plain /\ Len(seen) < Len(Steps[stage]) /\ UNCHANGED <<stage, verdict, mountVars>>
      /\ failed \subseteq failed' /\ seen \in Seq(Shown)
  BY DEF ProbeStep, Stays, Works, Fails, SeenInv
<1>2. \E o : Saw(o) /\ seen' = Append(seen, o)
  BY DEF ProbeStep, Saw, Fails
<1>3. PICK o : Saw(o) /\ seen' = Append(seen, o)
  BY <1>2
<1>4. Now = "join" => Len(seen) > 0
  <2>1. \A p \in Plain : Steps[p][1] # "join"
    BY DEF Steps, Plain
  <2>2. Len(seen) = 0 => Now # "join"
    BY <1>1, <2>1 DEF Now
  <2> QED BY <1>1, <2>2
<1>5. o \in Shown
  <2>1. Len(seen) > 0 => seen[1] \in Shown
    BY <1>1
  <2>2. Shows(stage, Now) \in Shown /\ Mishaps(stage, Now) \subseteq Shown
    BY <1>4, <2>1, ShowsFits
  <2>3. WithoutProc(stage, Now) \in Shown
    BY DEF WithoutProc, Shown
  <2> QED BY <1>3, <2>2, <2>3 DEF Saw
<1>6. seen' \in Seq(Shown) /\ Len(seen') = Len(seen) + 1 /\ seen'[Len(seen) + 1] = o
      /\ (\A i \in 1..Len(seen) : seen'[i] = seen[i]) /\ Len(seen) \in Nat
  BY <1>1, <1>3, <1>5
<1> QED BY <1>1, <1>3, <1>6

LEMMA SeenStep ==
    ASSUME SeenInv, ProbeStep, UNCHANGED kernel, kernel \in {Right} \cup KernelFlaws
    PROVE  SeenInv'
<1> DEFINE n == Len(seen)
           o == seen'[n + 1]
<1>1. /\ stage \in Plain /\ n \in Nat /\ n < Len(Steps[stage])
      /\ UNCHANGED <<stage, mounted>> /\ failed \subseteq failed'
      /\ seen' \in Seq(Shown) /\ Len(seen') = n + 1
      /\ \A i \in 1..n : seen'[i] = seen[i]
      /\ Saw(o) /\ Now = Steps[stage][n + 1]
  BY ProbeStepIs DEF mountVars, Now
<1>2. Len(Steps[stage]) \in Nat
  BY <1>1, StepsAre DEF Plain
<1> HIDE DEF n, o
<1>3. ASSUME stage = "shebang", kernel = <<"shebang", "argv0">>, n + 1 = 4 PROVE o # "path"
  <2>1. Now = "run"
    BY <1>1, <1>3, StepsAre
  <2> QED BY <1>1, <1>3, <2>1, ShowsIs, MishapsAre DEF Saw, Flawed, WithoutProc
<1>4. ASSUME stage = "seccomp"
      PROVE  /\ kernel = <<"seccomp", "errno">> /\ n + 1 = 1 => o # "exit0"
             /\ kernel = <<"seccomp", "kill">> /\ n + 1 = 2 => o # "signal" \/ <<"seccomp", "kill">> \in failed'
  <2>1. (n + 1 = 1 => Now = "errno") /\ (n + 1 = 2 => Now = "kill")
    BY <1>1, <1>4, StepsAre
  <2>2. ASSUME kernel = <<"seccomp", "errno">>, Now = "errno" PROVE o # "exit0"
    BY <1>1, <1>4, <2>2, ShowsIs, MishapsAre DEF Saw, Flawed, WithoutProc, seccompProbeChild
  <2>3. ASSUME kernel = <<"seccomp", "kill">>, Now = "kill" PROVE o # "signal" \/ <<"seccomp", "kill">> \in failed'
    BY <1>1, <1>4, <2>3, ShowsIs, MishapsAre DEF Saw, Flawed, WithoutProc, seccompProbeChild
  <2> QED BY <2>1, <2>2, <2>3
<1>5. ASSUME stage = "userns"
      PROVE  /\ n + 1 = 1 => \/ o \in {"host", "ERR"} /\ "/proc" \notin mounted
                             \/ o = "host" \/ <<"userns", "name">> \in failed'
             /\ kernel[1] = "userns" /\ n + 1 = 2 => o # "exit0" \/ <<"userns", "name">> \in failed'
  <2>1. (n + 1 = 1 => Now = "name") /\ (n + 1 = 2 => Now = "child")
    BY <1>1, <1>5, StepsAre
  <2>2. ASSUME Now = "name" PROVE \/ o \in {"host", "ERR"} /\ "/proc" \notin mounted
                             \/ o = "host" \/ <<"userns", "name">> \in failed'
    BY <1>1, <1>5, <2>2, ShowsIs, MishapsAre DEF Saw, WithoutProc
  <2>3. ASSUME Now = "child", kernel[1] = "userns", n + 1 = 2
        PROVE  o # "exit0" \/ <<"userns", "name">> \in failed'
    <3>1. kernel = <<"userns", "off">> \/ kernel = <<"userns", "same">>
      BY <2>3, PlainIs
    <3>2. \/ "/proc" \notin mounted \/ seen[1] = "host" \/ <<"userns", "name">> \in failed
      <4>1. Len(seen) >= 1
        BY <2>3 DEF n
      <4> QED BY <1>5, <4>1 DEF SeenInv, SeenUserns
    <3>3. CASE Works /\ "/proc" \notin mounted /\ o = WithoutProc(stage, Now)
      BY <2>3, <3>3 DEF WithoutProc
    <3>4. CASE Works /\ "/proc" \in mounted /\ o = Shows(stage, Now)
      BY <1>1, <1>5, <2>3, <3>1, <3>2, <3>4, ShowsIs DEF Flawed, usernsProbeChild
    <3>5. CASE o \in Mishaps(stage, Now)
      BY <1>5, <2>3, <3>5, MishapsAre
    <3> QED BY <1>1, <1>5, <2>3, <3>3, <3>4, <3>5, NeedsAre DEF Saw
  <2> QED BY <2>1, <2>2, <2>3
<1>6. ASSUME stage = "rootless"
      PROVE  /\ kernel = <<"rootless", "open">> /\ n + 1 = 2 => o # "EPERM"
             /\ kernel = <<"rootless", "no caps">> /\ n + 1 = 3 => o # "exit0"
             /\ kernel = <<"rootless", "host">> /\ n + 1 = 3 => o # "exit0"
  <2>1. (n + 1 = 2 => Now = "base") /\ (n + 1 = 3 => Now = "userns")
    BY <1>1, <1>6, StepsAre
  <2>2. ASSUME kernel = <<"rootless", "open">>, Now = "base" PROVE o # "EPERM"
    BY <1>1, <1>6, <2>2, ShowsIs, MishapsAre DEF Saw, Flawed, WithoutProc, unshareErrno
  <2>3. ASSUME kernel = <<"rootless", "no caps">> \/ kernel = <<"rootless", "host">>, Now = "userns" PROVE o # "exit0"
    BY <1>1, <1>6, <2>3, ShowsIs, MishapsAre DEF Saw, Flawed, WithoutProc, rootlessProbeUserns
  <2> QED BY <2>1, <2>2, <2>3
<1>7. ASSUME stage = "usermap", kernel[1] = "usermap", n + 1 = 2 PROVE o # "exit0"
  <2>1. Now = "child"
    BY <1>1, <1>7, StepsAre
  <2>2. kernel = <<"usermap", "off">>
    BY <1>7, PlainIs
  <2> QED BY <1>1, <1>7, <2>1, <2>2, ShowsIs, MishapsAre DEF Saw, Flawed, WithoutProc, usermapProbeChild
<1>8. ASSUME stage = "volume"
      PROVE  /\ kernel = <<"volume", "suid">> \/ "/proc" \notin mounted => (n + 1 = 3 => o # "root")
             /\ kernel = <<"volume", "nosuid">> /\ n + 1 = 4 => o # "user"
             /\ kernel = <<"volume", "noexec">> /\ n + 1 = 5 =>
                   o # "none" \/ <<"volume", "noexec">> \in failed' \/ "/proc" \notin mounted
  <2>1. (n + 1 = 3 => Now = "control") /\ (n + 1 = 4 => Now = "nosuid") /\ (n + 1 = 5 => Now = "noexec")
    BY <1>1, <1>8, StepsAre
  <2>2. ASSUME kernel = <<"volume", "suid">> \/ "/proc" \notin mounted, Now = "control" PROVE o # "root"
    BY <1>1, <1>8, <2>2, ShowsIs, MishapsAre, NeedsAre DEF Saw, Flawed, WithoutProc, execAsUnprivReportEuid
  <2>3. ASSUME kernel = <<"volume", "nosuid">>, Now = "nosuid" PROVE o # "user"
    BY <1>1, <1>8, <2>3, ShowsIs, MishapsAre DEF Saw, Flawed, WithoutProc, execAsUnprivReportEuid
  <2>4. ASSUME kernel = <<"volume", "noexec">>, Now = "noexec"
        PROVE  o # "none" \/ <<"volume", "noexec">> \in failed' \/ "/proc" \notin mounted
    BY <1>1, <1>8, <2>4, ShowsIs, MishapsAre DEF Saw, Flawed, WithoutProc, execAsUnprivReportEuid
  <2> QED BY <2>1, <2>2, <2>3, <2>4
<1>9. ASSUME stage = "sandbox"
      PROVE  /\ n + 1 = 1 =>
                /\ "/proc" \notin mounted => o \notin {"host", "sandbox"}
                /\ kernel = <<"sandbox", "setns">> => o # "host"
                /\ kernel = <<"sandbox", "newnet">> => o # "sandbox"
             /\ kernel = <<"sandbox", "setns">> /\ n + 1 = 3 => o # "sandbox"
             /\ n + 1 = 2 => o = "host" \/ <<"sandbox", "name">> \in failed' \/ "/proc" \notin mounted
  <2>1. (n + 1 = 1 => Now = "hold") /\ (n + 1 = 2 => Now = "name") /\ (n + 1 = 3 => Now = "join")
    BY <1>1, <1>9, StepsAre
  <2>2. ASSUME Now = "hold"
        PROVE  /\ "/proc" \notin mounted => o \notin {"host", "sandbox"}
               /\ kernel = <<"sandbox", "setns">> => o # "host"
               /\ kernel = <<"sandbox", "newnet">> => o # "sandbox"
    <3>1. CASE o = WithoutProc("sandbox", "hold") \/ o \in {"none", "died"}
      BY <3>1 DEF WithoutProc
    <3>2. CASE "/proc" \in mounted /\ o = sandboxProbeHold
      BY <1>9, <3>2 DEF Flawed, sandboxProbeHold
    <3> QED BY <1>1, <1>9, <2>2, <3>1, <3>2, ShowsIs, MishapsAre, NeedsAre DEF Saw
  <2>3. ASSUME Now = "join", kernel = <<"sandbox", "setns">> PROVE o # "sandbox"
    BY <1>1, <1>9, <2>3, ShowsIs, MishapsAre DEF Saw, Flawed, WithoutProc, sandboxProbeJoin
  <2>4. ASSUME Now = "name" PROVE o = "host" \/ <<"sandbox", "name">> \in failed' \/ "/proc" \notin mounted
    BY <1>1, <1>9, <2>4, ShowsIs, MishapsAre DEF Saw
  <2> QED BY <2>1, <2>2, <2>3, <2>4
<1>10. \A k \in 1..5 : k <= Len(seen') =>
          \/ k <= Len(seen) /\ seen'[k] = seen[k]
          \/ n + 1 = k /\ seen'[k] = o
  BY <1>1 DEF n, o
<1>11. seen' \in Seq(Shown) /\ Len(seen') <= Len(Steps[stage']) /\ Len(seen') \in Nat /\ Len(seen) \in Nat
  BY <1>1, <1>2 DEF n
<1>12. CASE stage = "shebang"
  BY <1>1, <1>3, <1>10, <1>11, <1>12 DEF SeenInv, SeenShebang
<1>13. CASE stage = "seccomp"
  BY <1>1, <1>4, <1>10, <1>11, <1>13 DEF SeenInv, SeenSeccomp
<1>14. CASE stage = "userns"
  BY <1>1, <1>5, <1>10, <1>11, <1>14 DEF SeenInv, SeenUserns
<1>15. CASE stage = "rootless"
  <2>1. Len(seen') >= 2 => (Len(seen) >= 2 /\ seen'[2] = seen[2]) \/ (n + 1 = 2 /\ seen'[2] = o)
    BY <1>10, <1>11
  <2>2. Len(seen') >= 3 => (Len(seen) >= 3 /\ seen'[3] = seen[3]) \/ (n + 1 = 3 /\ seen'[3] = o)
    BY <1>10, <1>11
  <2>3. SeenRootless
    BY <1>15 DEF SeenInv
  <2>4. SeenRootless'
    BY <1>6, <1>15, <2>1, <2>2, <2>3, Zenon DEF SeenRootless
  <2> QED BY <1>1, <1>11, <1>15, <2>4 DEF SeenInv
<1>16. CASE stage = "usermap"
  BY <1>1, <1>7, <1>10, <1>11, <1>16 DEF SeenInv, SeenUsermap
<1>17. CASE stage = "volume"
  BY <1>1, <1>8, <1>10, <1>11, <1>17 DEF SeenInv, SeenVolume
<1>18. CASE stage = "sandbox"
  BY <1>1, <1>9, <1>10, <1>11, <1>18 DEF SeenInv, SeenSandbox
<1> QED BY <1>1, <1>12, <1>13, <1>14, <1>15, <1>16, <1>17, <1>18 DEF Plain

\* The verdict of such a probe.
LEMMA SeenVerdict ==
    ASSUME SeenInv, stage \in Plain, Len(seen) = Len(Steps[stage]), Judge(stage), kernel[1] = stage,
           kernel \in {Right} \cup KernelFlaws
    PROVE  failed \cap Misleading(stage) # {}
<1>0. Len(seen) \in Nat
  BY DEF SeenInv
<1>1. CASE stage = "shebang"
  BY <1>0, <1>1, StepsAre, PlainIs DEF SeenInv, SeenShebang, Judge, probeShebang
<1>2. CASE stage = "seccomp"
  BY <1>0, <1>2, StepsAre, PlainIs, MisleadingIs DEF SeenInv, SeenSeccomp, Judge, runSeccompProbe
<1>3. CASE stage = "userns"
  BY <1>0, <1>3, StepsAre, MisleadingIs DEF SeenInv, SeenUserns, Judge, runUsernsProbe
<1>4. CASE stage = "rootless"
  <2>1. Len(seen) = 3 /\ seen[2] = "EPERM" /\ seen[3] = "exit0"
    BY <1>4, StepsAre DEF Judge, rootlessProbeUnpriv
  <2>2. \/ kernel = <<"rootless", "open">>
        \/ kernel = <<"rootless", "no caps">> \/ kernel = <<"rootless", "host">>
    BY <1>4, PlainIs
  <2>3. /\ kernel = <<"rootless", "open">> => seen[2] # "EPERM"
        /\ kernel = <<"rootless", "no caps">> => seen[3] # "exit0"
        /\ kernel = <<"rootless", "host">> => seen[3] # "exit0"
    <3>1. Len(seen) >= 2 /\ Len(seen) >= 3
      BY <2>1
    <3>2. SeenRootless
      BY <1>4 DEF SeenInv
    <3> QED BY <3>1, <3>2, Zenon DEF SeenRootless
  <2> QED BY <2>1, <2>2, <2>3
<1>5. CASE stage = "usermap"
  BY <1>0, <1>5, StepsAre DEF SeenInv, SeenUsermap, Judge, usermapProbeUnpriv
<1>6. CASE stage = "volume"
  <2>1. Len(seen) = 5 /\ seen[3] = "root" /\ seen[4] = "user" /\ seen[5] = "none"
    BY <1>6, StepsAre DEF Judge, runVolumeProbe
  <2>2. kernel = <<"volume", "suid">> \/ kernel = <<"volume", "nosuid">> \/ kernel = <<"volume", "noexec">>
    BY <1>6, PlainIs
  <2>3. /\ kernel # <<"volume", "suid">> /\ "/proc" \in mounted
        /\ kernel # <<"volume", "nosuid">>
        /\ kernel = <<"volume", "noexec">> => <<"volume", "noexec">> \in failed
    <3>1. Len(seen) >= 3 /\ Len(seen) >= 4 /\ Len(seen) >= 5
      BY <2>1
    <3>2. SeenVolume
      BY <1>6 DEF SeenInv
    <3> QED BY <2>1, <3>1, <3>2, Zenon DEF SeenVolume
  <2> QED BY <1>6, <2>2, <2>3, MisleadingIs
<1>7. CASE stage = "sandbox"
  <2>1. Len(seen) = 5 /\ seen[3] = seen[1] /\ seen[1] \in {"host", "sandbox"} /\ seen[1] # seen[2]
    BY <1>7, StepsAre DEF Judge, runSandboxNetnsProbe
  <2>2. kernel = <<"sandbox", "setns">> \/ kernel = <<"sandbox", "newnet">>
    BY <1>7, PlainIs
  <2>3. /\ "/proc" \in mounted
        /\ kernel = <<"sandbox", "setns">> => seen[1] # "host" /\ seen[3] # "sandbox"
        /\ kernel = <<"sandbox", "newnet">> =>
              seen[1] # "sandbox" /\ (seen[2] = "host" \/ <<"sandbox", "name">> \in failed)
    <3>1. Len(seen) >= 1 /\ Len(seen) >= 2 /\ Len(seen) >= 3
      BY <2>1
    <3>2. SeenSandbox
      BY <1>7 DEF SeenInv
    <3>3. "/proc" \in mounted
      BY <2>1, <3>1, <3>2, Zenon DEF SeenSandbox
    <3> QED BY <3>1, <3>2, <3>3, Zenon DEF SeenSandbox
  <2> QED BY <1>7, <2>1, <2>2, <2>3, MisleadingIs
<1> QED BY <1>1, <1>2, <1>3, <1>4, <1>5, <1>6, <1>7 DEF Plain

LEMMA SecurityVerdicts ==
    ASSUME IInv, SeenInv, NoneYet, VerdictSound, SecurityNext, UNCHANGED kernel
    PROVE  SeenInv' /\ NoneYet' /\ VerdictSound'
<1>0. /\ verdict \in [Probes -> {"none", "yes", "no", "unknown"}]
      /\ kernel \in {Right} \cup KernelFlaws
  BY DEF IInv, TypeInv
<1>1. CASE ProbeStep
  <2>1. UNCHANGED <<stage, verdict>> /\ failed \subseteq failed'
    BY <1>1, ProbeStepIs
  <2>2. Moves
    BY <2>1 DEF Moves
  <2> QED BY <1>0, <1>1, <2>1, <2>2, SeenStep, VerdictFrame, NoneYetFrame
<1>2. CASE ProbeEnds
  <2> DEFINE v == IF SetupFailed THEN "unknown" ELSE IF Judge(stage) THEN "yes" ELSE "no"
  <2>1. /\ stage \in Plain /\ stage \in Probes /\ stage' = Following(stage) /\ seen' = <<>> /\ failed' = failed
        /\ verdict' = [verdict EXCEPT ![stage] = v]
        /\ SetupFailed \/ Len(seen) = Len(Steps[stage])
    BY <1>2 DEF ProbeEnds, Concludes, Proceed, Works, Probes
  <2>2. v = "yes" => Judge(stage) /\ Len(seen) = Len(Steps[stage])
    BY <2>1
  <2> HIDE DEF v
  <2>3. v = "yes" /\ kernel[1] = stage => failed' \cap Misleading(stage) # {}
    BY <1>0, <2>1, <2>2, SeenVerdict
  <2>4. NoneYet'
    BY <1>0, <2>1, NoneYetGiven
  <2>5. VerdictSound'
    BY <1>0, <2>1, <2>3, VerdictGiven
  <2>6. SeenInv'
    <3>1. Len(seen') = 0 /\ seen' \in Seq(Shown) /\ seen' = <<>>
      BY <2>1
    <3>2. stage' \in Plain => Len(Steps[stage']) >= 0
      BY StepsAre DEF Plain
    <3>3. ~(Len(seen') >= 1) /\ ~(Len(seen') >= 2) /\ ~(Len(seen') >= 3) /\ ~(Len(seen') >= 4) /\ ~(Len(seen') >= 5)
      BY <3>1
    <3>4. SeenShebang' /\ SeenSeccomp' /\ SeenUserns' /\ SeenRootless' /\ SeenUsermap' /\ SeenVolume' /\ SeenSandbox'
      BY <3>3, Zenon DEF SeenShebang, SeenSeccomp, SeenUserns, SeenRootless, SeenUsermap, SeenVolume, SeenSandbox
    <3> QED BY <3>1, <3>2, <3>4 DEF SeenInv
  <2> QED BY <2>4, <2>5, <2>6
<1> QED BY <1>1, <1>2 DEF SecurityNext

-----------------------------------------------------------------------------
(* The MAC probes.                                                         *)

LEMMA DeniedIs ==
    ASSUME NEW k, NEW subject
    PROVE  /\ \A f : kernel = <<k, f>> =>
                 (Denied(k, subject) <=> /\ f # "off" /\ mac.label[k] # 0
                                         /\ mac.mode = "enforcing" \/ f = "stuck"
                                         /\ subject # mac.label[k] \/ f = "coarse"
                                         /\ subject # 0 \/ f = "all")
           /\ k \in Mac /\ kernel = Right =>
                 (Denied(k, subject) <=> /\ mac.label[k] # 0 /\ mac.mode = "enforcing"
                                         /\ subject # mac.label[k] /\ subject # 0)
<1>1. ASSUME NEW f, kernel = <<k, f>>
      PROVE  Denied(k, subject) <=> /\ f # "off" /\ mac.label[k] # 0
                                    /\ mac.mode = "enforcing" \/ f = "stuck"
                                    /\ subject # mac.label[k] \/ f = "coarse"
                                    /\ subject # 0 \/ f = "all"
  <2>1. kernel[1] = k /\ kernel[2] = f
    BY <1>1
  <2> QED BY <2>1, Zenon DEF Denied
<1>2. ASSUME k \in Mac, kernel = Right
      PROVE  Denied(k, subject) <=> /\ mac.label[k] # 0 /\ mac.mode = "enforcing"
                                    /\ subject # mac.label[k] /\ subject # 0
  <2>1. kernel[1] # k
    BY <1>2 DEF Right, Mac
  <2> QED BY <2>1 DEF Denied
<1> QED BY <1>1, <1>2

\* Between two mains there is nothing to say.
LEMMA NothingRunsNext == main' = NoMain => ScriptInv' /\ PassedInv'
<1> SUFFICES ASSUME main' = NoMain PROVE ScriptInv' /\ PassedInv'
  OBVIOUS
<1>1. main'.at = 0 /\ main'.passed = {} /\ main'.exit = "none"
  BY NoMainIs
<1>2. ASSUME NEW k \in {"file", "socket"} PROVE KindMain(k, Labelled[k])'
  <2> DEFINE b == Labelled[k]
  <2>1. b \in {2, 3}
    BY FirstSteps
  <2> HIDE DEF b
  <2>2. KindMain(k, b)'
    BY <1>1, <2>1 DEF KindMain, b
  <2> QED BY <2>2 DEF b
<1>3. SignalMain'
  BY <1>1 DEF SignalMain
<1>4. ScriptInv'
  BY <1>2, <1>3 DEF ScriptInv
<1>5. PassedInv'
  BY <1>1 DEF PassedInv, PassedKind
<1> QED BY <1>4, <1>5

LEMMA ScriptStep ==
    ASSUME IInv, ScriptInv, MainStep
    PROVE  ScriptInv'
<1> DEFINE i == main.at
           s == Step
<1>1. mac \in Macs /\ main \in Mains
  BY DEF IInv, TypeInv
<1>2. /\ Running /\ main'.at = i + 1
      /\ main'.tenant = (IF s.op = "tenant" THEN s.arg ELSE main.tenant)
      /\ mac'.mode = (IF s.op = "mode" THEN s.arg ELSE mac.mode)
      /\ \A k \in Mac : mac'.label[k] = IF s.op = "label" /\ k = stage THEN s.arg ELSE mac.label[k]
      /\ UNCHANGED <<failed, stage>>
  BY <1>1, MainStepIs DEF Onward
<1>3. stage \in Mac /\ i \in Nat /\ main.exit = "none"
  BY <1>1, <1>2, StepFits DEF Mains
<1>4. CASE stage = "signal"
  <2>1. SignalPlace(i, s) /\ i \in 1..9 /\ SignalMain
    BY <1>1, <1>2, <1>3, <1>4, StepFits DEF ScriptInv
  <2>2. mac'.label["signal"] = IF s.op = "label" THEN s.arg ELSE mac.label["signal"]
    BY <1>2, <1>4 DEF Mac
  <2> HIDE DEF i, s
  <2>3. SignalMain'
    <3>1. i + 1 \in 2..10 => mac'.label["signal"] = 2
      BY <2>1, <2>2 DEF SignalPlace, SignalMain, i
    <3>2. /\ i + 1 \in 3..8 => mac'.mode = "enforcing"
          /\ i + 1 \in 9..10 => mac'.mode = "permissive"
      BY <1>2, <2>1 DEF SignalPlace, SignalMain, i
    <3>3. /\ i + 1 \in {4, 5, 8, 9} => main'.tenant = 1
          /\ i + 1 \in {6, 7} => main'.tenant = 2
      BY <1>2, <2>1 DEF SignalPlace, SignalMain, i
    <3> QED BY <1>2, <3>1, <3>2, <3>3 DEF SignalMain
  <2> QED BY <1>2, <1>4, <2>3 DEF ScriptInv
<1>5. CASE stage \in {"file", "socket"}
  <2> DEFINE b == Labelled[stage]
  <2>1. KindPlace(b, i, s) /\ i \in 1..(b + 11) /\ b \in {2, 3} /\ KindMain(stage, b)
    BY <1>1, <1>2, <1>3, <1>5, StepFits, FirstSteps DEF ScriptInv
  <2>2. mac'.label[stage] = IF s.op = "label" THEN s.arg ELSE mac.label[stage]
    BY <1>2, <1>3
  <2> HIDE DEF i, s, b
  <2>3. /\ i + 1 \in b..(b + 6) => mac'.mode = "enforcing"
        /\ i + 1 \in (b + 7)..(b + 9) => mac'.mode = "permissive" \/ <<stage, "mode">> \in failed
    BY <1>2, <2>1 DEF KindPlace, KindMain, i
  <2>4. i + 1 \in (b + 1)..(b + 9) => mac'.label[stage] = 1
    BY <2>1, <2>2 DEF KindPlace, KindMain, i
  <2>5. /\ i + 1 \in (b + 3)..(b + 4) => main'.tenant = 1 \/ <<stage, "tenant">> \in failed
        /\ i + 1 \in (b + 5)..(b + 6) => main'.tenant = 0 \/ <<stage, "tenant">> \in failed
        /\ i + 1 \in (b + 8)..(b + 9) => main'.tenant = 2 \/ <<stage, "tenant">> \in failed
    BY <1>2, <2>1 DEF KindPlace, KindMain, i
  <2>6. KindMain(stage, b)'
    BY <1>2, <2>3, <2>4, <2>5 DEF KindMain, b
  <2> QED BY <1>2, <1>5, <2>6 DEF ScriptInv, b
<1> QED BY <1>3, <1>4, <1>5 DEF Mac

LEMMA ScriptStepFails ==
    ASSUME IInv, ScriptInv, MainStepFails
    PROVE  ScriptInv'
<1> DEFINE i == main.at
           s == Step
<1>1. mac \in Macs /\ main \in Mains
  BY DEF IInv, TypeInv
<1>2. /\ Running /\ main'.at = i + 1 /\ main'.exit = (IF s.must THEN "2" ELSE "none")
      /\ main'.tenant = main.tenant
      /\ failed' = failed \cup {<<stage, s.op>>}
      /\ UNCHANGED <<mac, stage>>
  BY <1>1, MainStepFailsIs DEF Onward
<1>3. stage \in Mac /\ i \in Nat /\ main.exit = "none" /\ failed \subseteq failed' /\ <<stage, s.op>> \in failed'
  BY <1>1, <1>2, StepFits DEF Mains
<1> SUFFICES ASSUME ~s.must PROVE ScriptInv'
  BY <1>2 DEF ScriptInv
<1>4. CASE stage = "signal"
  <2>1. SignalPlace(i, s) /\ i \in 1..9 /\ SignalMain
    BY <1>1, <1>2, <1>3, <1>4, StepFits DEF ScriptInv
  <2> HIDE DEF i, s
  <2>2. SignalMain'
    BY <1>2, <2>1 DEF SignalPlace, SignalMain, i
  <2> QED BY <1>2, <1>4, <2>2 DEF ScriptInv
<1>5. CASE stage \in {"file", "socket"}
  <2> DEFINE b == Labelled[stage]
  <2>1. KindPlace(b, i, s) /\ i \in 1..(b + 11) /\ b \in {2, 3} /\ KindMain(stage, b)
    BY <1>1, <1>2, <1>3, <1>5, StepFits, FirstSteps DEF ScriptInv
  <2> HIDE DEF i, s, b
  <2>2. i > b
    BY <2>1 DEF KindPlace
  <2>3. /\ i + 1 \in b..(b + 6) => mac.mode = "enforcing"
        /\ i + 1 \in (b + 1)..(b + 9) => mac.label[stage] = 1
    BY <2>1, <2>2 DEF KindMain, i
  <2>4. i + 1 \in (b + 7)..(b + 9) => mac.mode = "permissive" \/ <<stage, "mode">> \in failed'
    BY <1>3, <2>1 DEF KindPlace, KindMain, i
  <2>5. /\ i + 1 \in (b + 3)..(b + 4) => main.tenant = 1 \/ <<stage, "tenant">> \in failed'
        /\ i + 1 \in (b + 5)..(b + 6) => main.tenant = 0 \/ <<stage, "tenant">> \in failed'
        /\ i + 1 \in (b + 8)..(b + 9) => main.tenant = 2 \/ <<stage, "tenant">> \in failed'
    BY <1>3, <2>1 DEF KindPlace, KindMain, i
  <2>6. KindMain(stage, b)'
    BY <1>2, <2>3, <2>4, <2>5 DEF KindMain, b
  <2> QED BY <1>2, <1>5, <2>6 DEF ScriptInv, b
<1> QED BY <1>3, <1>4, <1>5 DEF Mac

\* A main may have another tenant than the script has it, but not that of the
\* signal probe.
Astray == stage # "signal" /\ <<stage, "tenant">> \in failed

\* Where each test is, and under what it is made.
LEMMA TestPlace ==
    ASSUME IInv, ScriptInv, Running, Step.op = "test"
    PROVE  /\ Step.arg = "same" => /\ mac.label[stage] = main.tenant \/ Astray
                                   /\ mac.label[stage] \in {1, 2} /\ mac.mode = "enforcing"
           /\ Step.arg = "perm" => /\ \/ mac.label[stage] # main.tenant /\ main.tenant # 0
                                      \/ Astray
                                   /\ mac.label[stage] \in {1, 2}
                                   /\ mac.mode = "permissive" \/ <<stage, "mode">> \in failed
           /\ Step.arg = "unconf" => /\ main.tenant = 0 \/ Astray
                                     /\ mac.label[stage] \in {1, 2} /\ mac.mode = "enforcing"
                                     /\ stage # "signal"
           /\ Step.arg = "cross" => /\ mac.label[stage] \in {1, 2} /\ mac.mode = "enforcing"
                                    /\ Subject # mac.label[stage] /\ Subject # 0
<1> DEFINE i == main.at
           s == Step
<1>1. /\ stage \in Mac /\ main \in Mains /\ main.exit = "none"
  BY StepFits DEF IInv, TypeInv
<1>2. CASE stage = "signal"
  <2>1. SignalPlace(i, s) /\ i \in 1..9 /\ SignalMain
    BY <1>1, <1>2, StepFits DEF ScriptInv
  <2> HIDE DEF i, s
  <2>2. /\ s.arg = "same" => i = 6
        /\ s.arg = "perm" => i = 9
        /\ s.arg = "cross" => i = 4
        /\ s.arg # "unconf"
    <3>1. i \in {4, 6, 9}
      BY <2>1 DEF SignalPlace, s
    <3> QED BY <2>1, <3>1 DEF SignalPlace
  <2>3. /\ i = 6 => main.tenant = 2 /\ mac.label["signal"] = 2 /\ mac.mode = "enforcing"
        /\ i = 9 => main.tenant = 1 /\ mac.label["signal"] = 2 /\ mac.mode = "permissive"
        /\ i = 4 => main.tenant = 1 /\ mac.label["signal"] = 2 /\ mac.mode = "enforcing"
    BY <2>1 DEF SignalMain, i
  <2>4. Subject = main.tenant
    BY <1>2 DEF Subject
  <2> QED BY <1>2, <2>2, <2>3, <2>4 DEF s
<1>3. CASE stage \in {"file", "socket"}
  <2> DEFINE b == Labelled[stage]
  <2>1. KindPlace(b, i, s) /\ i \in 1..(b + 11) /\ b \in {2, 3} /\ KindMain(stage, b)
    BY <1>1, <1>3, StepFits, FirstSteps DEF ScriptInv
  <2> HIDE DEF i, s, b
  <2>2. /\ s.arg = "same" => i = b + 3
        /\ s.arg = "perm" => i = b + 8
        /\ s.arg = "cross" => i = b + 1
        /\ s.arg = "unconf" => i = b + 5
    <3>1. i \in {b + 1, b + 3, b + 5, b + 8}
      BY <2>1 DEF KindPlace, s
    <3> QED BY <2>1, <3>1 DEF KindPlace
  <2>3. /\ i = b + 3 => (main.tenant = 1 \/ <<stage, "tenant">> \in failed) /\ mac.label[stage] = 1 /\ mac.mode = "enforcing"
        /\ i = b + 8 => /\ main.tenant = 2 \/ <<stage, "tenant">> \in failed
                        /\ mac.label[stage] = 1
                        /\ mac.mode = "permissive" \/ <<stage, "mode">> \in failed
        /\ i = b + 1 => mac.label[stage] = 1 /\ mac.mode = "enforcing"
        /\ i = b + 5 => (main.tenant = 0 \/ <<stage, "tenant">> \in failed) /\ mac.label[stage] = 1 /\ mac.mode = "enforcing"
    BY <2>1 DEF KindMain, i
  <2>4. s.arg = "cross" => Subject = 2
    BY <1>3 DEF Subject, s
  <2> QED BY <1>3, <2>2, <2>3, <2>4 DEF s, Astray
<1> QED BY <1>1, <1>2, <1>3 DEF Mac

\* A test that a kernel with a flaw must fail was passed: something failed.
LEMMA PassedTold ==
    ASSUME IInv, ScriptInv, Running, Step.op = "test", NEW o,
           \/ o = (IF Denied(stage, Subject) THEN "EPERM" ELSE "allowed")
           \/ o = "other" /\ <<stage, "test">> \in failed',
           failed \subseteq failed', Passes(stage, Step.arg, o)
    PROVE  /\ Step.arg = "cross" => kernel # <<stage, "off">>
           /\ Step.arg = "same" /\ kernel = <<stage, "coarse">> => failed' \cap Misleading(stage) # {}
           /\ Step.arg = "perm" /\ kernel = <<stage, "stuck">> => failed' \cap Misleading(stage) # {}
           /\ Step.arg = "unconf" /\ kernel = <<stage, "all">> => failed' \cap Misleading(stage) # {}
<1>1. stage \in Mac
  BY DEF Running
<1>2. Astray => failed' \cap Misleading(stage) # {}
  BY <1>1, MisleadingIs DEF Astray, Mac
<1>3. CASE o = (IF Denied(stage, Subject) THEN "EPERM" ELSE "allowed")
  <2>1. /\ Step.arg = "cross" => Denied(stage, Subject)
        /\ Step.arg # "cross" => ~Denied(stage, main.tenant)
    BY <1>3 DEF Passes, Subject
  <2>2. Step.arg = "cross" => kernel # <<stage, "off">>
    BY <2>1, DeniedIs
  <2>3. Step.arg = "same" /\ kernel = <<stage, "coarse">> => Astray
    <3> SUFFICES ASSUME Step.arg = "same", kernel = <<stage, "coarse">>, ~Astray PROVE FALSE
      OBVIOUS
    <3>1. mac.label[stage] = main.tenant /\ mac.label[stage] \in {1, 2} /\ mac.mode = "enforcing"
      BY TestPlace
    <3>2. mac.label[stage] # 0 /\ main.tenant # 0
      BY <3>1
    <3> QED BY <2>1, <3>1, <3>2, DeniedIs
  <2>4. Step.arg = "perm" /\ kernel = <<stage, "stuck">> => Astray
    <3> SUFFICES ASSUME Step.arg = "perm", kernel = <<stage, "stuck">>, ~Astray PROVE FALSE
      OBVIOUS
    <3>1. mac.label[stage] # main.tenant /\ main.tenant # 0 /\ mac.label[stage] \in {1, 2}
      BY TestPlace
    <3>2. mac.label[stage] # 0
      BY <3>1
    <3> QED BY <2>1, <3>1, <3>2, DeniedIs
  <2>5. Step.arg = "unconf" /\ kernel = <<stage, "all">> => Astray
    <3> SUFFICES ASSUME Step.arg = "unconf", kernel = <<stage, "all">>, ~Astray PROVE FALSE
      OBVIOUS
    <3>1. main.tenant = 0 /\ mac.label[stage] \in {1, 2} /\ mac.mode = "enforcing"
      BY TestPlace
    <3>2. mac.label[stage] # 0 /\ main.tenant # mac.label[stage]
      BY <3>1
    <3> QED BY <2>1, <3>1, <3>2, DeniedIs
  <2> QED BY <1>2, <2>2, <2>3, <2>4, <2>5
<1>4. CASE o = "other" /\ <<stage, "test">> \in failed'
  <2>1. Step.arg # "cross" /\ stage = "socket"
    BY <1>4 DEF Passes
  <2>2. failed' \cap Misleading(stage) # {}
    BY <1>4, <2>1, MisleadingIs
  <2> QED BY <2>1, <2>2
<1> QED BY <1>3, <1>4

\* What a step adds to the tests passed does not hide a flaw.
LEMMA PassedStep ==
    ASSUME IInv, ScriptInv, PassedInv, MainStep \/ MainStepFails, UNCHANGED kernel
    PROVE  PassedInv'
<1>1. mac \in Macs /\ main \in Mains
  BY DEF IInv, TypeInv
<1>2. \E o : /\ Running /\ main'.passed = main.passed \cup Gained(o)
             /\ main'.exit \in {"none", "2"} /\ stage' = stage /\ failed \subseteq failed'
             /\ Step.op = "test" => \/ o = (IF Denied(stage, Subject) THEN "EPERM" ELSE "allowed")
                                    \/ o = "other" /\ <<stage, "test">> \in failed'
  <2>1. CASE MainStep
    <3>1. /\ Running /\ UNCHANGED <<failed, stage>> /\ main'.exit = "none"
          /\ main'.passed = main.passed \cup Gained(IF Denied(stage, Subject) THEN "EPERM" ELSE "allowed")
      BY <1>1, <2>1, MainStepIs DEF Onward
    <3> QED BY <3>1
  <2>2. CASE MainStepFails
    <3>1. /\ Running /\ main'.passed = main.passed \cup Gained("other")
          /\ main'.exit = (IF Step.must THEN "2" ELSE "none")
          /\ failed' = failed \cup {<<stage, Step.op>>} /\ stage' = stage
      BY <1>1, <2>2, MainStepFailsIs DEF Onward
    <3>2. main'.exit \in {"none", "2"} /\ failed \subseteq failed' /\ <<stage, Step.op>> \in failed'
      BY <3>1
    <3> QED BY <3>1, <3>2
  <2> QED BY <2>1, <2>2
<1>3. PICK o : /\ Running /\ main'.passed = main.passed \cup Gained(o)
               /\ main'.exit \in {"none", "2"} /\ stage' = stage /\ failed \subseteq failed'
               /\ Step.op = "test" => \/ o = (IF Denied(stage, Subject) THEN "EPERM" ELSE "allowed")
                                      \/ o = "other" /\ <<stage, "test">> \in failed'
  BY <1>2
<1>4. stage \in Mac /\ PassedKind(stage)
  BY <1>3 DEF Running, PassedInv
<1>5. ASSUME NEW t \in Gained(o) PROVE t = Step.arg /\ Step.op = "test" /\ Passes(stage, Step.arg, o)
  BY <1>5 DEF Gained
<1>6. /\ "cross" \in Gained(o) => kernel # <<stage, "off">>
      /\ "same" \in Gained(o) /\ kernel = <<stage, "coarse">> => failed' \cap Misleading(stage) # {}
      /\ "perm" \in Gained(o) /\ kernel = <<stage, "stuck">> => failed' \cap Misleading(stage) # {}
      /\ "unconf" \in Gained(o) /\ kernel = <<stage, "all">> => failed' \cap Misleading(stage) # {}
  BY <1>3, <1>5, PassedTold
<1>7. Misled(stage) => failed' \cap Misleading(stage) # {}
  BY <1>3 DEF Misled
<1> DEFINE k == stage
<1>8. /\ kernel = <<k, "off">> => "cross" \notin main'.passed
      /\ kernel = <<k, "coarse">> /\ "same" \in main'.passed => failed' \cap Misleading(k) # {}
      /\ kernel = <<k, "stuck">> /\ "perm" \in main'.passed => failed' \cap Misleading(k) # {}
      /\ kernel = <<k, "all">> /\ k # "signal" /\ "unconf" \in main'.passed => failed' \cap Misleading(k) # {}
  BY <1>3, <1>4, <1>6, <1>7, Zenon DEF PassedKind
<1>9. PassedKind(stage)'
  BY <1>3, <1>8, Zenon DEF PassedKind, Misled
<1> QED BY <1>3, <1>9 DEF PassedInv

LEMMA ScriptIs ==
    ASSUME NEW k \in Mac
    PROVE  DOMAIN Script[k] = 1..Len(Script[k]) /\ Len(Script[k]) \in Nat
<1>1. CASE k = "signal"
  BY <1>1 DEF Script, macProbeMain
<1>2. CASE k \in {"file", "socket"}
  <2>1. Script[k] \in Seq(StepSet)
    <3>1. LabelledMain \in Seq(StepSet)
      BY LabelledScript
    <3>2. Must("create", 0) \in StepSet /\ Must("mode", "enforcing") \in StepSet /\ Must("label", 1) \in StepSet
      BY DEF StepSet
    <3>3. CASE k = "file"
      <4> DEFINE h == <<Must("create", 0), Must("mode", "enforcing"), Must("label", 1)>>
      <4>1. h \in Seq(StepSet)
        BY <3>2
      <4>2. Script["file"] = h \o LabelledMain
        BY DEF Script, fileMacProbeMain
      <4> HIDE DEF h
      <4> QED BY <3>1, <3>3, <4>1, <4>2
    <3>4. CASE k = "socket"
      <4> DEFINE h == <<Must("mode", "enforcing"), Must("label", 1)>>
      <4>1. h \in Seq(StepSet)
        BY <3>2
      <4>2. Script["socket"] = h \o LabelledMain
        BY DEF Script, socketMacProbeMain
      <4> HIDE DEF h
      <4> QED BY <3>1, <3>4, <4>1, <4>2
    <3> QED BY <1>2, <3>3, <3>4
  <2> QED BY <2>1
<1> QED BY <1>1, <1>2 DEF Mac

LEMMA TestsAre ==
    ASSUME NEW k \in Mac
    PROVE  /\ "cross" \in Tests(k) /\ "same" \in Tests(k) /\ "perm" \in Tests(k)
           /\ k # "signal" => "unconf" \in Tests(k)
<1>1. ASSUME NEW i \in DOMAIN Script[k], Script[k][i].op = "test" PROVE Script[k][i].arg \in Tests(k)
  BY <1>1, Zenon DEF Tests
<1>2. CASE k = "signal"
  <2>1. DOMAIN Script["signal"] = 1..9
    BY DEF Script, macProbeMain
  <2>2. /\ Script["signal"][4] = Test("cross") /\ Script["signal"][6] = Test("same")
        /\ Script["signal"][9] = Test("perm")
    BY SignalScript
  <2>3. 4 \in DOMAIN Script[k] /\ 6 \in DOMAIN Script[k] /\ 9 \in DOMAIN Script[k]
    BY <1>2, <2>1
  <2> QED BY <1>1, <1>2, <2>2, <2>3 DEF Test
<1>3. CASE k \in {"file", "socket"}
  <2> DEFINE b == Labelled[k]
  <2>1. b \in {2, 3} /\ \A i \in 1..11 : Script[k][b + i] = LabelledMain[i]
    BY <1>3, FirstSteps
  <2>2. DOMAIN Script[k] = 1..(b + 11)
    <3>1. DOMAIN Script[k] = 1..Len(Script[k])
      BY ScriptIs
    <3>2. Len(Script[k]) = b + 11
      BY <1>3, FirstSteps
    <3> QED BY <3>1, <3>2
  <2> HIDE DEF b
  <2>3. /\ b + 1 \in DOMAIN Script[k] /\ b + 3 \in DOMAIN Script[k]
        /\ b + 5 \in DOMAIN Script[k] /\ b + 8 \in DOMAIN Script[k]
    <3>1. b \in Nat
      BY <2>1
    <3>2. /\ b + 1 \in 1..(b + 11) /\ b + 3 \in 1..(b + 11)
          /\ b + 5 \in 1..(b + 11) /\ b + 8 \in 1..(b + 11)
      BY <3>1
    <3> QED BY <2>2, <3>2
  <2>4. /\ Script[k][b + 1] = Test("cross") /\ Script[k][b + 3] = Test("same")
        /\ Script[k][b + 5] = Test("unconf") /\ Script[k][b + 8] = Test("perm")
    BY <2>1, LabelledScript
  <2> QED BY <1>1, <2>3, <2>4 DEF Test
<1> QED BY <1>2, <1>3 DEF Mac

LEMMA MacVerdicts ==
    ASSUME IInv, ScriptInv, PassedInv, NoneYet, VerdictSound, MacNext, UNCHANGED kernel
    PROVE  ScriptInv' /\ PassedInv' /\ NoneYet' /\ VerdictSound'
<1>0. /\ verdict \in [Probes -> {"none", "yes", "no", "unknown"}] /\ mac \in Macs /\ main \in Mains
      /\ kernel \in {Right} \cup KernelFlaws
  BY DEF IInv, TypeInv
<1>1. stage \in Mac /\ stage \in Probes
  BY DEF MacNext, MainStarts, MainStep, MainStepFails, MainKilled, MainExits, MainReaped, Running, Probes
<1>2. ASSUME Stays, failed \subseteq failed' PROVE NoneYet' /\ VerdictSound'
  <2>1. Moves /\ UNCHANGED verdict
    BY <1>2 DEF Moves, Stays
  <2> QED BY <1>2, <2>1, VerdictFrame, NoneYetFrame
<1>3. main' = NoMain => ScriptInv' /\ PassedInv'
  BY NothingRunsNext
<1>4. CASE MainStep \/ MainStepFails
  <2>1. Stays /\ failed \subseteq failed'
    BY <1>4 DEF MainStep, MainStepFails, Works, Fails
  <2> QED BY <1>2, <1>4, <2>1, ScriptStep, ScriptStepFails, PassedStep
<1>5. CASE MainKilled \/ MainExits
  <2>1. /\ Stays /\ stage' = stage /\ failed \subseteq failed'
        /\ \E e \in {"signal", "0", "3"} : /\ main' = [main EXCEPT !.exit = e]
                                           /\ e = "0" => Tests(stage) \subseteq main.passed
    BY <1>5 DEF MainKilled, MainExits, Stays, Works, Fails
  <2>2. /\ main'.exit \in {"signal", "0", "3"} /\ main'.passed = main.passed
        /\ main'.exit = "0" => Tests(stage) \subseteq main.passed
    BY <1>0, <2>1 DEF Mains
  <2>3. ScriptInv'
    BY <2>2 DEF ScriptInv
  <2>4. PassedKind(stage)'
    <3>1. Misled(stage) => failed' \cap Misleading(stage) # {}
      BY <2>1 DEF Misled
    <3>2. PassedKind(stage)
      BY <1>1 DEF PassedInv
    <3> QED BY <2>1, <2>2, <3>1, <3>2, Zenon DEF PassedKind, Misled
  <2>5. PassedInv'
    BY <2>1, <2>2, <2>4 DEF PassedInv
  <2> QED BY <1>2, <2>1, <2>3, <2>5
<1>6. CASE MainStarts
  <2>1. CASE main' = [NoMain EXCEPT !.at = 1] /\ Stays /\ Works
    <3>1. main'.at = 1 /\ main'.passed = {} /\ main'.exit = "none"
      BY <2>1 DEF NoMain
    <3>2. failed \subseteq failed' /\ stage' = stage
      BY <2>1 DEF Works, Stays
    <3>3. ASSUME NEW k \in {"file", "socket"} PROVE KindMain(k, Labelled[k])'
      <4> DEFINE b == Labelled[k]
      <4>1. b \in {2, 3}
        BY FirstSteps
      <4> HIDE DEF b
      <4>2. KindMain(k, b)'
        BY <3>1, <4>1 DEF KindMain, b
      <4> QED BY <4>2 DEF b
    <3>4. SignalMain'
      BY <3>1 DEF SignalMain
    <3>5. ScriptInv'
      BY <3>3, <3>4 DEF ScriptInv
    <3>6. PassedInv'
      BY <3>1 DEF PassedInv, PassedKind
    <3> QED BY <1>2, <2>1, <3>2, <3>5, <3>6
  <2>2. CASE UNCHANGED main /\ Concludes(stage, "no") /\ Fails(<<stage, "start">>)
    <3>1. main' = NoMain
      BY <1>6, <2>2 DEF MainStarts, IInv, MacInv
    <3>2. /\ verdict' = [verdict EXCEPT ![stage] = "no"] /\ stage' = Following(stage)
          /\ failed \subseteq failed'
      BY <2>2 DEF Concludes, Proceed, Fails
    <3>3. NoneYet'
      BY <1>0, <1>1, <3>2, NoneYetGiven
    <3>4. VerdictSound'
      BY <1>0, <1>1, <3>2, VerdictGiven
    <3> QED BY <1>3, <3>1, <3>3, <3>4
  <2> QED BY <1>6, <2>1, <2>2 DEF MainStarts
<1>7. CASE MainReaped
  <2> DEFINE v == IF main.exit = "0" THEN "yes" ELSE "no"
  <2>1. /\ main' = NoMain /\ failed' = failed
        /\ verdict' = [verdict EXCEPT ![stage] = v] /\ stage' = Following(stage)
    BY <1>7 DEF MainReaped, Concludes, Proceed, Works
  <2>2. ASSUME main.exit = "0", kernel[1] = stage
        PROVE  failed' \cap Misleading(stage) # {} \/ kernel = <<"signal", "all">>
    <3>1. Tests(stage) \subseteq main.passed /\ PassedKind(stage)
      BY <1>1, <2>2 DEF PassedInv
    <3>2. PICK f \in {"off", "coarse", "stuck", "all"} : kernel = <<stage, f>>
      BY <1>0, <1>1, <2>2, KernelIs
    <3>3. /\ "cross" \in main.passed /\ "same" \in main.passed /\ "perm" \in main.passed
          /\ stage # "signal" => "unconf" \in main.passed
      BY <1>1, <3>1, TestsAre
    <3>4. Misled(stage) \/ (stage = "signal" /\ f = "all")
      BY <3>1, <3>2, <3>3, Zenon DEF PassedKind
    <3> QED BY <2>1, <3>2, <3>4 DEF Misled
  <2>3. v = "yes" => main.exit = "0"
    OBVIOUS
  <2> HIDE DEF v
  <2>4. NoneYet'
    BY <1>0, <1>1, <2>1, NoneYetGiven
  <2>5. VerdictSound'
    BY <1>0, <1>1, <2>1, <2>2, <2>3, VerdictGiven
  <2> QED BY <1>3, <2>1, <2>4, <2>5
<1> QED BY <1>4, <1>5, <1>6, <1>7 DEF MacNext

-----------------------------------------------------------------------------
(* All the parts together.                                                 *)

\* What the other parts of the boot leave alone.
LEMMA TimedRest ==
    ASSUME IInv, IInv', TimedInv, UNCHANGED timedVars, stage \notin Timed \cup {"runtime"}
    PROVE  TimedInv'
<1>1. call.st = "idle"
  BY DEF IInv, HelperInv
<1>2. call'.st = "idle" /\ HelperInv'
  BY <1>1 DEF timedVars, IInv
<1> QED BY <1>2 DEF HelperInv, TimedInv, NoProc, NoCall

LEMMA MacOthers ==
    ASSUME IInv, IInv', stage \notin Mac, UNCHANGED macVars PROVE ScriptInv' /\ PassedInv'
<1>1. main' = NoMain
  BY DEF IInv, MacInv, macVars
<1>2. main' = NoMain => ScriptInv' /\ PassedInv'
  BY NothingRunsNext
<1> QED BY <1>1, <1>2

LEMMA SeenOthers ==
    ASSUME SeenInv, stage \notin Plain, UNCHANGED seen PROVE SeenInv'
<1>1. Len(seen') = 0 /\ seen' \in Seq(Shown) /\ seen' = <<>>
  BY DEF SeenInv
<1>2. stage' \in Plain => Len(Steps[stage']) >= 0
  BY StepsAre DEF Plain
<1>3. ~(Len(seen') >= 1) /\ ~(Len(seen') >= 2) /\ ~(Len(seen') >= 3) /\ ~(Len(seen') >= 4) /\ ~(Len(seen') >= 5)
  BY <1>1
<1>4. SeenShebang' /\ SeenSeccomp' /\ SeenUserns' /\ SeenRootless' /\ SeenUsermap' /\ SeenVolume' /\ SeenSandbox'
  BY <1>3, Zenon DEF SeenShebang, SeenSeccomp, SeenUserns, SeenRootless, SeenUsermap, SeenVolume, SeenSandbox
<1> QED BY <1>1, <1>2, <1>4 DEF SeenInv

LEMMA VerdictsInductive == ASSUME IInv, IInv', VInv, [Next]_vars PROVE VInv'
<1> USE DEF VInv
<1>1. CASE MountsNext /\ UNCHANGED <<kernel, verdict, timedVars, probeVars, seen, macVars>>
  <2>1. stage \in Unprobed /\ stage' \in Unprobed /\ failed \subseteq failed'
    BY <1>1, MountsMoves DEF IInv, TypeInv
  <2>2. stage \notin Timed \cup {"runtime"} /\ stage \notin Plain /\ stage \notin Mac /\ stage # "panic"
    BY <2>1 DEF Unprobed, Timed, Plain, Mac
  <2>3. \A p \in Probes : verdict[p] = "none"
    BY <2>1, <2>2, BeforeEarly DEF NoneYet
  <2>4. NoneYet' /\ VerdictSound'
    BY <1>1, <2>3 DEF NoneYet, VerdictSound
  <2> QED BY <1>1, <2>2, <2>4, TimedRest, MacOthers, SeenOthers
<1>2. CASE probeKernel
  <2>1. /\ stage = "installed" /\ UNCHANGED <<verdict, timedVars, seen, macVars>>
    BY <1>2 DEF probeKernel
  <2>2. stage \in Unprobed /\ stage \notin Timed \cup {"runtime"} /\ stage \notin Plain /\ stage \notin Mac /\ stage # "panic"
    BY <2>1 DEF Unprobed, Timed, Plain, Mac
  <2>3. \A p \in Probes : verdict[p] = "none"
    BY <2>2, BeforeEarly DEF NoneYet
  <2>4. NoneYet' /\ VerdictSound'
    BY <2>1, <2>3 DEF NoneYet, VerdictSound
  <2> QED BY <2>1, <2>2, <2>4, TimedRest, MacOthers, SeenOthers
<1>3. CASE ProbesNext /\ UNCHANGED <<kernel, seen, macVars>>
  <2>1. stage \in Timed \cup {"cgroup", "runtime"}
    BY <1>3, ProbesMoves
  <2>2. stage \notin Plain /\ stage \notin Mac
    BY <2>1 DEF Timed, Plain, Mac
  <2> QED BY <1>3, <2>2, TimedStep, ProbesVerdicts, MacOthers, SeenOthers
<1>4. CASE SecurityNext /\ UNCHANGED <<kernel, timedVars, probeVars, macVars>>
  <2>1. stage \in Plain
    BY <1>4 DEF SecurityNext, ProbeStep, ProbeEnds
  <2>2. stage \notin Timed \cup {"runtime"} /\ stage \notin Mac
    BY <2>1 DEF Timed, Plain, Mac
  <2> QED BY <1>4, <2>2, SecurityVerdicts, TimedRest, MacOthers
<1>5. CASE MacNext /\ UNCHANGED <<kernel, mountVars, timedVars, probeVars, seen>>
  <2>1. stage \in Mac
    BY <1>5 DEF MacNext, MainStarts, MainStep, MainStepFails, MainKilled, MainExits, MainReaped, Running
  <2>2. stage \notin Timed \cup {"runtime"} /\ stage \notin Plain
    BY <2>1 DEF Timed, Plain, Mac
  <2> QED BY <1>5, <2>2, MacVerdicts, TimedRest, SeenOthers
<1>6. CASE UNCHANGED vars
  <2>1. /\ UNCHANGED <<stage, kernel, failed, verdict, timedVars, mountVars, seen, macVars>>
        /\ UNCHANGED <<call, proc, mounted, mac, main>>
    BY <1>6 DEF vars, timedVars, mountVars, macVars
  <2>2. TimedInv'
    BY <2>1 DEF TimedInv
  <2>5. NoneYet'
    <3>1. \A p : Before(p, stage') = Before(p, stage)
      BY <2>1
    <3> QED BY <2>1, <3>1 DEF NoneYet
  <2>6. VerdictSound'
    BY <2>1 DEF VerdictSound
  <2>3. SeenInv'
    <3>1. /\ SeenShebang' <=> SeenShebang
          /\ SeenSeccomp' <=> SeenSeccomp
          /\ SeenUsermap' <=> SeenUsermap
          /\ SeenRootless' <=> SeenRootless
      BY <2>1 DEF SeenShebang, SeenSeccomp, SeenUsermap, SeenRootless
    <3>2. SeenUserns' <=> SeenUserns
      BY <2>1 DEF SeenUserns
    <3>3. SeenVolume' <=> SeenVolume
      BY <2>1 DEF SeenVolume
    <3>4. SeenSandbox' <=> SeenSandbox
      BY <2>1 DEF SeenSandbox
    <3> QED BY <2>1, <3>1, <3>2, <3>3, <3>4 DEF SeenInv
  <2>4. ScriptInv' /\ PassedInv'
    BY <2>1 DEF ScriptInv, SignalMain, KindMain, PassedInv, PassedKind, Misled
  <2> QED BY <2>2, <2>3, <2>4, <2>5, <2>6
<1> QED BY <1>1, <1>2, <1>3, <1>4, <1>5, <1>6 DEF Next

\* On any kernel with at most one feature that does not work, and however many
\* calls fail: a probe that prints ENFORCED, ISOLATED or OK is right about the
\* kernel, but for the failures named in Misleading (the last lines of every
\* probe).
THEOREM VerdictsSound == Spec => []VerdictSound
<1>1. Init => IInv /\ VInv
  BY InitIInv, InitVInv
<1>2. IInv /\ VInv /\ [Next]_vars => (IInv /\ VInv)'
  BY Inductive, VerdictsInductive
<1>3. IInv /\ VInv => VerdictSound
  BY DEF VInv
<1> QED BY <1>1, <1>2, <1>3, PTL DEF Spec

-----------------------------------------------------------------------------
(* A right kernel.                                                         *)

LEMMA PassedFrame ==
    ASSUME Passed, UNCHANGED verdict,
           \/ stage' = stage \/ stage' = "panic"
           \/ stage' = Following(stage) /\ stage \in Going /\ stage \notin Probes
    PROVE  Passed'
<1> SUFFICES ASSUME NEW p \in Probes, Before(p, stage') PROVE verdict[p] = "yes"
  BY DEF Passed
<1>1. stage' # "panic"
  BY BeforeNothing
<1>2. CASE stage' = stage
  BY <1>2 DEF Passed
<1>3. CASE stage' = Following(stage) /\ stage \in Going /\ stage \notin Probes
  BY <1>3, BeforeNext DEF Passed
<1> QED BY <1>1, <1>2, <1>3

LEMMA PassedGiven ==
    ASSUME Passed, stage \in Probes, verdict' = [verdict EXCEPT ![stage] = "yes"],
           verdict \in [Probes -> {"none", "yes", "no", "unknown"}], stage' = Following(stage)
    PROVE  Passed'
<1> SUFFICES ASSUME NEW p \in Probes, Before(p, stage') PROVE verdict'[p] = "yes"
  BY DEF Passed
<1>1. stage \in Going
  BY DEF Going
<1>2. Before(p, stage) \/ p = stage
  BY <1>1, BeforeNext
<1> QED BY <1>2 DEF Passed

\* Where no probe is at work there is little to say.
LEMMA IdleRight ==
    ASSUME main' = NoMain, seen' = <<>>
    PROVE  SeenRight' /\ MainRight'
<1>1. main'.at = 0 /\ main'.exit = "none"
  BY NoMainIs
<1>2. ~\E i \in 1..Len(seen') : TRUE
  OBVIOUS
<1>3. SeenRight'
  BY <1>2 DEF SeenRight
<1>4. \A i \in 1..Len(Script[stage']) : ~(i < main'.at)
  BY <1>1
<1>5. MainRight'
  BY <1>1, <1>4 DEF MainRight
<1> QED BY <1>3, <1>5

\* Before the probes.
LEMMA EarlyRight ==
    ASSUME IInv', SeenInv', (stage \in Unprobed \cup {"cgroup"})' PROVE RightSoFar'
<1>1. stage' \notin Timed /\ stage' \notin Plain /\ stage' \notin Mac /\ stage' # "cpu" /\ stage' # "mem"
  BY DEF Unprobed, Timed, Plain, Mac
<1>2. main' = NoMain /\ seen' = <<>>
  BY <1>1 DEF IInv, MacInv, SeenInv
<1>3. BurnRight'
  BY <1>1 DEF IInv, CgroupInv, BurnRight
<1>4. Passed'
  BY BeforeEarly DEF Passed
<1>5. TimedRight'
  BY <1>1 DEF TimedRight
<1> QED BY <1>2, <1>3, <1>4, <1>5, IdleRight DEF RightSoFar

\* What a boot in which nothing failed has to work with.
LEMMA AtHand ==
    ASSUME IInv, failed = {}, stage \notin Unprobed \cup {"cgroup"}
    PROVE  "/proc" \in mounted /\ HasCgroups /\ ~PlainDir /\ "memory" \in cg.deleg
<1>1. stage \notin {"mounts", "kubelet"}
  BY DEF Unprobed
<1> QED BY <1>1 DEF IInv, MountedInv, DelegatedInv, PlainDir

LEMMA NoFailure == ASSUME failed' = {}, NEW w PROVE ~Fails(w)
  BY FailsIs

\* A test that returned returned what it hopes for.
LEMMA Returned ==
    ASSUME IInv, TimedInv, TimedRight, kernel = Right, failed = {}, stage \in Timed, call.st = "returned"
    PROVE  /\ proc.code = (IF stage = "mem" THEN "killed" ELSE "good")
           /\ call.err # "none" <=> stage = "mem"
<1>1. kernel # <<"ns", "off">>
  BY DEF Right
<1>2. call.err # "timeout"
  BY DEF IInv, HelperInv
<1>3. proc.st = "reaped" /\ call.err # "start"
  BY <1>1, <1>2 DEF TimedInv
<1>4. proc.code = (IF stage = "mem" THEN "killed" ELSE "good")
  BY <1>3 DEF TimedRight
<1>5. stage # "mem" => call.err # "status"
  BY <1>4 DEF TimedInv
<1>6. call.err \in {"none", "start", "status", "timeout"}
  BY DEF IInv, TypeInv, Helpers
<1> QED BY <1>2, <1>3, <1>4, <1>5, <1>6 DEF TimedRight

\* A command that is started, runs and ends.
LEMMA TimedRightExec ==
    ASSUME IInv, TimedRight, kernel = Right, failed = {}, failed' = {}, stage \in Timed, ProbeExec
    PROVE  TimedRight'
<1>1. CanExec
  <2>1. stage \notin Unprobed \cup {"cgroup"} /\ kernel # <<"ns", "off">>
    BY DEF Unprobed, Timed, Right
  <2> QED BY <2>1, AtHand DEF CanExec
<1>2. ExecDone /\ stage' = stage
  BY <1>1, NoFailure DEF ProbeExec, Stays
<1>3. proc'.st = "running"
  BY <1>2 DEF ExecDone, IInv, TypeInv, Commands
<1>4. call'.st # "returned"
  <2>1. call.st \in {"starting", "select", "panic"} /\ call \in Helpers
    BY <1>2 DEF ExecDone, IInv, HelperInv, TypeInv
  <2> QED BY <1>2, <2>1 DEF ExecDone, Helpers
<1> QED BY <1>2, <1>3, <1>4 DEF TimedRight

LEMMA TimedRightChild ==
    ASSUME IInv, TimedInv, TimedRight, kernel = Right, failed = {}, failed' = {}, stage \in Timed, ChildJoins \/ ChildEnds
    PROVE  TimedRight'
<1>1. /\ stage' = stage /\ call' = call /\ proc.st = "running" /\ proc \in Commands
  BY NoFailure DEF ChildJoins, ChildEnds, ChildExits, Stays, IInv, TypeInv
<1>2. call.st # "returned"
  BY <1>1 DEF IInv, HelperInv
<1>3. CASE proc' = [proc EXCEPT !.cg = stage]
  <2>1. proc'.st = "running"
    BY <1>1, <1>3 DEF Commands
  <2> QED BY <1>1, <1>2, <2>1 DEF TimedRight
<1>4. CASE ChildExits(Ending)
  <2>1. proc'.code = Ending
    BY <1>1, <1>4 DEF ChildExits, Commands
  <2>2. ~PlainDir
    BY AtHand DEF Unprobed, Timed
  <2>3. Ending = (IF stage = "mem" THEN "killed" ELSE "good")
    BY <2>2 DEF Ending, Right
  <2> QED BY <1>1, <1>2, <2>1, <2>3 DEF TimedRight
<1> QED BY <1>3, <1>4, NoFailure DEF ChildJoins, ChildEnds

LEMMA TimedRightHelper ==
    ASSUME IInv, TimedInv, TimedRight, failed = {}, failed' = {}, stage \in Timed, HelperStep
    PROVE  TimedRight'
<1>1. /\ stage' = stage /\ proc \in Commands /\ call \in Helpers
  BY DEF HelperStep, Stays, IInv, TypeInv
<1>2. call.st # "grace"
  BY DEF IInv, HelperInv
<1>3. DoneReceived
  BY <1>2, NoFailure DEF HelperStep, TimedNext, TimerFires, GraceDone, GraceOver
<1>4. proc.st = "exited" /\ proc'.st = "reaped" /\ proc'.code = proc.code
  BY <1>1, <1>3 DEF DoneReceived, Commands
<1>5. call'.err = (IF proc.code # "killed" THEN "none" ELSE "status")
  BY <1>1, <1>3 DEF DoneReceived, Helpers
<1>6. proc.code = (IF stage = "mem" THEN "killed" ELSE "good")
  BY <1>4 DEF TimedRight
<1> QED BY <1>1, <1>4, <1>5, <1>6 DEF TimedRight

LEMMA ProbesRight ==
    ASSUME IInv, IInv', TimedInv, SeenInv, RightSoFar, kernel = Right, failed = {}, failed' = {},
           ProbesNext, UNCHANGED <<kernel, seen, macVars>>
    PROVE  RightSoFar'
<1>0. /\ stage \in Timed \cup {"cgroup", "runtime"} /\ Moves /\ stage \notin Plain /\ stage \notin Mac
      /\ verdict \in [Probes -> {"none", "yes", "no", "unknown"}]
      /\ burn \in [base : {"none", "done", "failed"}, throttled : {"none", "done", "failed"}]
  BY ProbesMoves DEF Timed, Plain, Mac, IInv, TypeInv
<1>1. SeenRight' /\ MainRight'
  <2>1. main' = NoMain /\ seen' = <<>>
    BY <1>0 DEF IInv, MacInv, SeenInv, macVars
  <2> QED BY <2>1, IdleRight
<1>2. Timed \subseteq Probes /\ Timed \cup {"cgroup", "runtime"} \subseteq Going /\ "cgroup" \notin Probes /\ "runtime" \notin Probes
  BY DEF Probes, Timed, Plain, Mac, Going
<1>3. ASSUME call'.st = "idle" PROVE TimedRight'
  <2>1. proc' = NoProc
    BY <1>3 DEF IInv, HelperInv
  <2> QED BY <1>3, <2>1, NoneIs DEF TimedRight
<1>4. ASSUME NEW h, TimedStart(h) PROVE TimedRight'
  <2>1. proc'.st = "forking" /\ call'.st # "returned"
    BY <1>4 DEF TimedStart, NoProc, NoCall
  <2> QED BY <2>1 DEF TimedRight
<1>5. CASE probeCgroupV2
  <2>1. stage = "cgroup" /\ Proceed /\ UNCHANGED <<timedVars, burn, verdict>>
    BY <1>5 DEF probeCgroupV2
  <2>2. call'.st = "idle"
    BY <2>1 DEF IInv, HelperInv, timedVars, Timed
  <2>3. Passed' /\ BurnRight'
    BY <1>2, <2>1, PassedFrame DEF RightSoFar, BurnRight, Proceed
  <2> QED BY <1>1, <1>3, <2>2, <2>3 DEF RightSoFar
<1>6. ASSUME NEW p \in Timed, TestStarts(p) PROVE RightSoFar'
  <2>0. stage = p /\ stage \notin Unprobed \cup {"cgroup"}
    BY <1>6 DEF TestStarts, Timed, Unprobed
  <2>1. ~CannotPrepare(p)
    BY <2>0, AtHand, NoFailure DEF CannotPrepare
  <2>2. TimedStart("combined") /\ Stays /\ UNCHANGED burn
    BY <1>6, <2>1 DEF TestStarts
  <2>3. Passed' /\ BurnRight'
    BY <2>2, PassedFrame DEF RightSoFar, BurnRight, Stays
  <2> QED BY <1>1, <1>4, <2>2, <2>3 DEF RightSoFar
<1>7. ASSUME NEW p \in Timed, TestEnds(p) PROVE RightSoFar'
  <2>1. /\ stage = p /\ p \in {"ns", "netns", "mem"} /\ call.st = "returned"
        /\ Concludes(p, TestVerdict(p)) /\ call' = NoCall /\ UNCHANGED burn
    BY <1>7 DEF TestEnds
  <2>2. TestVerdict(p) = "yes"
    BY <2>1, Returned DEF TestVerdict, RightSoFar
  <2>3. Passed' /\ BurnRight'
    BY <1>0, <1>2, <2>1, <2>2, PassedGiven DEF RightSoFar, BurnRight, Concludes, Proceed
  <2> QED BY <1>1, <1>3, <2>1, <2>3, NoneIs DEF RightSoFar
<1>8. CASE BurnAgain
  <2>1. TimedStart("combined") /\ Stays /\ UNCHANGED burn
    BY <1>8 DEF BurnAgain, probeVars
  <2>2. Passed' /\ BurnRight'
    BY <2>1, PassedFrame DEF RightSoFar, BurnRight, Stays
  <2> QED BY <1>1, <1>4, <2>1, <2>2 DEF RightSoFar
<1>9. CASE BurnEnds
  <2>1. stage = "cpu" /\ call.st = "returned" /\ Stays /\ call' = NoCall /\ stage \in Timed
    BY <1>9 DEF BurnEnds, Timed
  <2>2. Work = "done"
    BY <2>1, Returned DEF Work, RightSoFar
  <2>3. burn' = [burn EXCEPT !.base = "done"] \/ burn' = [burn EXCEPT !.throttled = "done"]
    BY <1>9, <2>2 DEF BurnEnds
  <2>4. BurnRight'
    BY <1>0, <2>3 DEF BurnRight, RightSoFar
  <2>5. Passed'
    BY <2>1, PassedFrame DEF RightSoFar, Stays
  <2> QED BY <1>1, <1>3, <2>1, <2>4, <2>5, NoneIs DEF RightSoFar
<1>10. CASE cpuVerdict
  <2>1. /\ stage = "cpu" /\ stage \in Timed /\ UNCHANGED call
        /\ burn' = [base |-> "none", throttled |-> "none"] /\ burn.throttled # "none"
    BY <1>10 DEF cpuVerdict, Timed, timedVars
  <2>2. ~PlainDir /\ kernel # <<"cpu", "off">> /\ "failed" \notin {burn.base, burn.throttled}
    BY <2>1, AtHand DEF Unprobed, Right, RightSoFar, BurnRight
  <2>3. Concludes("cpu", "yes")
    BY <1>10, <2>2, NoFailure, Zenon DEF cpuVerdict
  <2>4. Passed' /\ BurnRight'
    BY <1>0, <1>2, <2>1, <2>3, PassedGiven DEF RightSoFar, BurnRight, Concludes, Proceed
  <2>5. call'.st = "idle"
    BY <2>1 DEF IInv, CgroupInv
  <2> QED BY <1>1, <1>3, <2>4, <2>5 DEF RightSoFar
<1>11. CASE ProbeExec \/ ChildJoins \/ ChildEnds \/ HelperStep
  <2>1. Stays /\ UNCHANGED probeVars
    BY <1>11 DEF ProbeExec, ChildJoins, ChildEnds, HelperStep
  <2>2. Passed' /\ BurnRight'
    BY <2>1, PassedFrame DEF RightSoFar, BurnRight, Stays, probeVars
  <2>3. TimedRight'
    <3>1. CASE stage \in Timed
      BY <1>11, <3>1, TimedRightExec, TimedRightChild, TimedRightHelper DEF RightSoFar
    <3>2. CASE stage \notin Timed
      BY <2>1, <3>2 DEF TimedRight, Stays, Timed
    <3> QED BY <3>1, <3>2
  <2> QED BY <1>1, <2>2, <2>3 DEF RightSoFar
<1>12. CASE RuntimeStarts \/ RuntimeEnds
  <2>1. stage = "runtime" /\ stage' \in {"runtime", "seccomp", "panic"} /\ UNCHANGED <<probeVars, verdict>>
    BY <1>12, After DEF RuntimeStarts, RuntimeEnds, Proceed
  <2>2. stage' = stage \/ stage' = "panic" \/ stage' = Following(stage)
    BY <1>12 DEF RuntimeStarts, RuntimeEnds, Proceed
  <2>3. Passed' /\ BurnRight'
    BY <1>2, <2>1, <2>2, PassedFrame DEF RightSoFar, BurnRight, probeVars
  <2>4. TimedRight'
    BY <2>1 DEF TimedRight, Timed
  <2> QED BY <1>1, <2>3, <2>4 DEF RightSoFar
<1> QED BY <1>5, <1>6, <1>7, <1>8, <1>9, <1>10, <1>11, <1>12 DEF ProbesNext

\* What each step of a plain probe shows on a right kernel.
LEMMA ShowsRight ==
    ASSUME kernel = Right, stage \in Plain, SeenRight, Len(seen) \in Nat, Len(seen) < Len(Steps[stage])
    PROVE  Shows(stage, Now) = Expected[stage][Len(seen) + 1]
<1> DEFINE n == Len(seen)
<1>0. \A f : ~Flawed(f)
  BY DEF Flawed, Right, Plain
<1>1. n \in 0..4
  <2>1. Len(Steps[stage]) \in 2..5
    BY StepsAre DEF Plain
  <2>2. \A a \in Nat, b \in 2..5 : a < b => a \in 0..4
    OBVIOUS
  <2> QED BY <2>1, <2>2, Zenon
<1>2. n >= 1 => seen[1] = Expected[stage][1]
  BY <1>1 DEF SeenRight
<1> HIDE DEF n
<1>3. CASE stage = "shebang"
  <2>1. n \in 0..3
    BY <1>1, <1>3, StepsAre DEF n
  <2>2. Shows("shebang", "self") = "started" /\ Shows("shebang", "symlink") = "started"
        /\ Shows("shebang", "script") = "started" /\ Shows("shebang", "run") = "path"
    BY <1>0, Zenon DEF Shows
  <2> QED BY <1>3, <2>1, <2>2 DEF Now, n, Steps, Expected
<1>4. CASE stage = "seccomp"
  <2>1. n \in 0..1
    BY <1>1, <1>4, StepsAre DEF n
  <2>2. Shows("seccomp", "errno") = "exit0" /\ Shows("seccomp", "kill") = "signal"
    BY <1>0, ShowsIs DEF seccompProbeChild
  <2> QED BY <1>4, <2>1, <2>2 DEF Now, n, Steps, Expected
<1>5. CASE stage = "userns"
  <2>1. n \in 0..1
    BY <1>1, <1>5, StepsAre DEF n
  <2>2. Shows("userns", "name") = "host"
    BY ShowsIs
  <2>3. n = 1 => Shows("userns", "child") = "exit0"
    <3>1. n = 1 => seen[1] = "host"
      BY <1>2, <1>5 DEF Expected
    <3> QED BY <1>0, <3>1, ShowsIs DEF usernsProbeChild
  <2> QED BY <1>5, <2>1, <2>2, <2>3 DEF Now, n, Steps, Expected
<1>6. CASE stage = "rootless"
  <2>1. n \in 0..2
    BY <1>1, <1>6, StepsAre DEF n
  <2>2. Shows("rootless", "unpriv") = "started"
    BY Zenon DEF Shows
  <2>3. Shows("rootless", "base") = "EPERM" /\ Shows("rootless", "userns") = "exit0"
    BY <1>0, ShowsIs DEF unshareErrno, rootlessProbeUserns
  <2> QED BY <1>6, <2>1, <2>2, <2>3 DEF Now, n, Steps, Expected
<1>7. CASE stage = "usermap"
  <2>1. n \in 0..1
    BY <1>1, <1>7, StepsAre DEF n
  <2>2. Shows("usermap", "unpriv") = "started"
    BY Zenon DEF Shows
  <2>3. Shows("usermap", "child") = "exit0"
    BY <1>0, ShowsIs DEF usermapProbeChild
  <2> QED BY <1>7, <2>1, <2>2, <2>3 DEF Now, n, Steps, Expected
<1>8. CASE stage = "volume"
  <2>1. n \in 0..4
    BY <1>1
  <2>2. Shows("volume", "mounts") = "started" /\ Shows("volume", "copies") = "started"
    BY Zenon DEF Shows
  <2>3. /\ Shows("volume", "control") = "root" /\ Shows("volume", "nosuid") = "user"
        /\ Shows("volume", "noexec") = "none"
    BY <1>0, ShowsIs DEF execAsUnprivReportEuid
  <2> QED BY <1>8, <2>1, <2>2, <2>3 DEF Now, n, Steps, Expected
<1>9. CASE stage = "sandbox"
  <2>1. n \in 0..4
    BY <1>1, <1>9, StepsAre DEF n
  <2>2. Shows("sandbox", "hold") = "sandbox" /\ Shows("sandbox", "name") = "host"
    BY <1>0, ShowsIs DEF sandboxProbeHold
  <2>3. n = 2 => Shows("sandbox", "join") = "sandbox"
    <3>1. n = 2 => seen[1] = "sandbox"
      BY <1>2, <1>9 DEF Expected
    <3> QED BY <1>0, <3>1, ShowsIs DEF sandboxProbeJoin
  <2>4. Now = Steps["sandbox"][n + 1]
    BY <1>9 DEF Now, n
  <2>5. /\ Expected["sandbox"][1] = "sandbox" /\ Expected["sandbox"][2] = "host"
        /\ Expected["sandbox"][3] = "sandbox" /\ Expected["sandbox"][4] = "closed"
        /\ Expected["sandbox"][5] = "reaped"
    BY DEF Expected
  <2>6. n + 1 \in {1, 2, 3, 4, 5} /\ (n + 1 = 3 => n = 2)
    BY <2>1
  <2>7. Shows("sandbox", "close") = "closed" /\ Shows("sandbox", "wait") = "reaped"
    BY ShowsIs
  <2> QED BY <1>9, <2>2, <2>3, <2>4, <2>5, <2>6, <2>7, StepsAre DEF n
<1> QED BY <1>3, <1>4, <1>5, <1>6, <1>7, <1>8, <1>9 DEF Plain

\* And what the probe makes of it.
LEMMA JudgeRight ==
    ASSUME stage \in Plain, SeenRight, Len(seen) = Len(Steps[stage])
    PROVE  Judge(stage)
<1> DEFINE e == Expected[stage]
<1>1. \A i \in 1..Len(Steps[stage]) : seen[i] = e[i]
  BY DEF SeenRight
<1>2. CASE stage = "shebang"
  BY <1>1, <1>2, StepsAre DEF Judge, probeShebang, Expected
<1>3. CASE stage = "seccomp"
  BY <1>1, <1>3, StepsAre DEF Judge, runSeccompProbe, Expected
<1>4. CASE stage = "userns"
  BY <1>1, <1>4, StepsAre DEF Judge, runUsernsProbe, Expected
<1>5. CASE stage = "rootless"
  BY <1>1, <1>5, StepsAre DEF Judge, rootlessProbeUnpriv, Expected
<1>6. CASE stage = "usermap"
  BY <1>1, <1>6, StepsAre DEF Judge, usermapProbeUnpriv, Expected
<1>7. CASE stage = "volume"
  BY <1>1, <1>7, StepsAre DEF Judge, runVolumeProbe, Expected
<1>8. CASE stage = "sandbox"
  BY <1>1, <1>8, StepsAre DEF Judge, runSandboxNetnsProbe, Expected
<1> QED BY <1>2, <1>3, <1>4, <1>5, <1>6, <1>7, <1>8 DEF Plain

LEMMA SetupRight ==
    ASSUME stage \in Plain, SeenRight, SeenInv PROVE ~SetupFailed
<1> SUFFICES ASSUME NEW i \in DOMAIN seen, seen[i] = "none", <<stage, Steps[stage][i]>> \in Setup PROVE FALSE
  BY DEF SetupFailed
<1>1. i \in 1..Len(seen) /\ Len(seen) <= Len(Steps[stage]) /\ Len(seen) \in Nat
  BY DEF SeenInv
<1>2. Expected[stage][i] = "none"
  BY <1>1 DEF SeenRight
<1>3. i \in 1..5 /\ i <= Len(Steps[stage])
  BY <1>1, StepsAre DEF Plain
<1>4. stage = "volume" /\ i = 5
  <2>1. CASE stage = "shebang"
    BY <1>2, <1>3, <2>1, StepsAre DEF Expected
  <2>2. CASE stage \in {"seccomp", "userns", "usermap"}
    BY <1>2, <1>3, <2>2, StepsAre DEF Expected
  <2>3. CASE stage \in {"rootless", "sandbox"}
    BY <1>2, <1>3, <2>3, StepsAre DEF Expected
  <2>4. CASE stage = "volume"
    BY <1>2, <1>3, <2>4 DEF Expected
  <2> QED BY <2>1, <2>2, <2>3, <2>4 DEF Plain
<1>5. <<"volume", "noexec">> \notin Setup
  BY DEF Setup
<1> QED BY <1>4, <1>5, StepsAre

LEMMA SecurityRight ==
    ASSUME IInv, IInv', SeenInv, RightSoFar, kernel = Right, failed = {}, failed' = {},
           SecurityNext, UNCHANGED <<kernel, timedVars, probeVars, macVars>>
    PROVE  RightSoFar'
<1>0. stage \in Plain /\ verdict \in [Probes -> {"none", "yes", "no", "unknown"}]
  BY DEF SecurityNext, ProbeStep, ProbeEnds, IInv, TypeInv
<1>1. stage \notin Timed /\ stage \notin Mac /\ stage \notin Unprobed \cup {"cgroup"} /\ stage # "runtime" /\ stage \in Probes
  BY <1>0 DEF Plain, Timed, Mac, Unprobed, Probes
<1>2. main' = NoMain
  BY <1>1 DEF IInv, MacInv, macVars
<1>3. BurnRight'
  BY DEF RightSoFar, BurnRight, probeVars
<1>4. TimedRight'
  <2>1. call.st = "idle"
    BY <1>1 DEF IInv, HelperInv
  <2>2. call'.st = "idle"
    BY <2>1 DEF timedVars
  <2>3. proc' = NoProc
    BY <2>2 DEF IInv, HelperInv
  <2> QED BY <2>2, <2>3, NoneIs DEF TimedRight
<1>5. CASE ProbeStep
  <2>1. /\ Len(seen) \in Nat /\ Len(seen) < Len(Steps[stage]) /\ UNCHANGED <<stage, verdict>>
        /\ Len(seen') = Len(seen) + 1 /\ \A i \in 1..Len(seen) : seen'[i] = seen[i]
        /\ Saw(seen'[Len(seen) + 1])
    BY <1>5, ProbeStepIs
  <2>2. "/proc" \in mounted
    BY <1>1, AtHand
  <2>3. failed' # failed \cup {<<stage, Now>>}
    OBVIOUS
  <2>4. seen'[Len(seen) + 1] = Shows(stage, Now)
    BY <2>1, <2>2, <2>3, Zenon DEF Saw
  <2>5. seen'[Len(seen) + 1] = Expected[stage][Len(seen) + 1]
    BY <1>0, <2>1, <2>4, ShowsRight DEF RightSoFar
  <2>6. \A i \in 1..Len(seen') : seen'[i] = Expected[stage][i]
    <3> SUFFICES ASSUME NEW i \in 1..Len(seen') PROVE seen'[i] = Expected[stage][i]
      OBVIOUS
    <3>1. i \in 1..Len(seen) \/ i = Len(seen) + 1
      BY <2>1
    <3>2. \A j \in 1..Len(seen) : seen[j] = Expected[stage][j]
      BY <1>0 DEF RightSoFar, SeenRight
    <3> QED BY <2>1, <2>5, <3>1, <3>2
  <2>7. SeenRight' /\ MainRight'
    BY <1>1, <2>1, <2>6 DEF SeenRight, MainRight
  <2>8. Passed'
    BY <2>1, PassedFrame DEF RightSoFar
  <2> QED BY <1>3, <1>4, <2>7, <2>8 DEF RightSoFar
<1>6. CASE ProbeEnds
  <2>1. ~SetupFailed
    BY <1>0, SetupRight DEF RightSoFar
  <2>2. Judge(stage)
    BY <1>0, <1>6, <2>1, JudgeRight DEF ProbeEnds, RightSoFar
  <2>3. verdict' = [verdict EXCEPT ![stage] = "yes"] /\ stage' = Following(stage) /\ seen' = <<>>
    BY <1>6, <2>1, <2>2 DEF ProbeEnds, Concludes, Proceed
  <2>4. Passed'
    BY <1>0, <1>1, <2>3, PassedGiven DEF RightSoFar
  <2> QED BY <1>2, <1>3, <1>4, <2>3, <2>4, IdleRight DEF RightSoFar
<1> QED BY <1>5, <1>6 DEF SecurityNext

\* Every test of a main is passed.
LEMMA TestRight ==
    ASSUME IInv, ScriptInv, Running, Step.op = "test", kernel = Right, failed = {}
    PROVE  Passes(stage, Step.arg, IF Denied(stage, Subject) THEN "EPERM" ELSE "allowed")
<1>1. stage \in Mac /\ Step.arg \in TestNames
  <2>1. main \in Mains
    BY DEF IInv, TypeInv
  <2> QED BY <2>1, StepFits DEF Fits
<1>2. ~Astray /\ <<stage, "mode">> \notin failed
  BY DEF Astray
<1>3. \A s : Denied(stage, s) <=> /\ mac.label[stage] # 0 /\ mac.mode = "enforcing"
                                  /\ s # mac.label[stage] /\ s # 0
  BY <1>1, DeniedIs
<1>4. CASE Step.arg = "cross"
  <2>1. mac.label[stage] \in {1, 2} /\ mac.mode = "enforcing" /\ Subject # mac.label[stage] /\ Subject # 0
    BY <1>4, TestPlace
  <2>2. Denied(stage, Subject)
    BY <1>3, <2>1
  <2> QED BY <1>4, <2>2 DEF Passes
<1>5. CASE Step.arg # "cross"
  <2>1. Subject = main.tenant
    BY <1>5 DEF Subject
  <2>2. ~(mac.label[stage] # 0 /\ mac.mode = "enforcing" /\ main.tenant # mac.label[stage] /\ main.tenant # 0)
    <3>1. CASE Step.arg = "same"
      BY <1>2, <3>1, TestPlace
    <3>2. CASE Step.arg = "unconf"
      BY <1>2, <3>2, TestPlace
    <3>3. CASE Step.arg = "perm"
      BY <1>2, <3>3, TestPlace
    <3> QED BY <1>1, <1>5, <3>1, <3>2, <3>3 DEF TestNames
  <2>3. ~Denied(stage, Subject)
    BY <1>3, <2>1, <2>2
  <2> QED BY <1>5, <2>3 DEF Passes
<1> QED BY <1>4, <1>5

LEMMA MainRightStep ==
    ASSUME IInv, ScriptInv, MainRight, kernel = Right, failed = {}, MainStep
    PROVE  MainRight'
<1> DEFINE o == IF Denied(stage, Subject) THEN "EPERM" ELSE "allowed"
           i == main.at
<1>1. mac \in Macs /\ main \in Mains
  BY DEF IInv, TypeInv
<1>2. /\ Running /\ stage' = stage
      /\ main'.at = i + 1 /\ main'.exit = "none" /\ main'.passed = main.passed \cup Gained(o)
  BY <1>1, MainStepIs DEF Onward
<1>3. Step.op = "test" => Step.arg \in Gained(o)
  BY <1>2, TestRight DEF Gained
<1>4. i \in Nat /\ stage \in Mac /\ main.exit = "none"
  BY <1>1, <1>2 DEF Running, Mains
<1> HIDE DEF o
<1>5. ASSUME NEW j \in 1..Len(Script[stage]), j < i + 1, Script[stage][j].op = "test"
      PROVE  Script[stage][j].arg \in main'.passed
  <2>1. j \in Int /\ (j < i \/ j = i)
    BY <1>4, <1>5
  <2>2. CASE j < i
    BY <1>2, <1>4, <1>5, <2>2 DEF MainRight
  <2>3. CASE j = i
    BY <1>2, <1>3, <1>5, <2>3 DEF Step
  <2> QED BY <2>1, <2>2, <2>3
<1> HIDE DEF i
<1> QED BY <1>2, <1>5 DEF MainRight

\* The tests of a script that has been gone through.
LEMMA AllPassed ==
    ASSUME NEW k \in Mac, NEW n \in Nat, n > Len(Script[k]), NEW S,
           \A i \in 1..Len(Script[k]) : i < n /\ Script[k][i].op = "test" => Script[k][i].arg \in S
    PROVE  Tests(k) \subseteq S
<1>1. DOMAIN Script[k] = 1..Len(Script[k]) /\ Len(Script[k]) \in Nat
  BY ScriptIs
<1>2. \A i \in 1..Len(Script[k]) : i < n
  BY <1>1
<1>3. \A i \in DOMAIN Script[k] : Script[k][i].op = "test" => Script[k][i].arg \in S
  BY <1>1, <1>2
<1> QED BY <1>3, Zenon DEF Tests

LEMMA MacRight ==
    ASSUME IInv, IInv', SeenInv, ScriptInv, RightSoFar, kernel = Right, failed = {}, failed' = {},
           MacNext, UNCHANGED <<kernel, timedVars, probeVars, seen>>
    PROVE  RightSoFar'
<1>0. stage \in Mac /\ verdict \in [Probes -> {"none", "yes", "no", "unknown"}] /\ main \in Mains
  BY DEF MacNext, MainStarts, MainStep, MainStepFails, MainKilled, MainExits, MainReaped, Running, IInv, TypeInv
<1>1. /\ stage \notin Timed /\ stage \notin Plain /\ stage \notin Unprobed \cup {"cgroup"}
      /\ stage # "runtime" /\ stage \in Probes
  BY <1>0 DEF Plain, Timed, Mac, Unprobed, Probes
<1>2. seen' = <<>>
  BY <1>1 DEF SeenInv
<1>3. BurnRight'
  BY DEF RightSoFar, BurnRight, probeVars
<1>4. TimedRight'
  <2>1. call.st = "idle"
    BY <1>1 DEF IInv, HelperInv
  <2>2. call'.st = "idle"
    BY <2>1 DEF timedVars
  <2>3. proc' = NoProc
    BY <2>2 DEF IInv, HelperInv
  <2> QED BY <2>2, <2>3, NoneIs DEF TimedRight
<1>5. ASSUME Stays, MainRight' PROVE RightSoFar'
  <2>1. SeenRight'
    BY <1>1, <1>5 DEF Stays, SeenRight
  <2>2. Passed'
    BY <1>5, PassedFrame DEF RightSoFar, Stays
  <2> QED BY <1>3, <1>4, <1>5, <2>1, <2>2 DEF RightSoFar
<1>6. CASE MainStarts
  <2>1. main' = [NoMain EXCEPT !.at = 1] /\ Stays
    BY <1>6, NoFailure DEF MainStarts
  <2>2. main'.at = 1 /\ main'.exit = "none"
    BY <2>1 DEF NoMain
  <2>3. \A j \in 1..Len(Script[stage']) : ~(j < main'.at)
    BY <2>2
  <2>4. MainRight'
    BY <2>2, <2>3 DEF MainRight
  <2> QED BY <1>5, <2>1, <2>4
<1>7. CASE MainStep
  <2>1. Stays /\ MainRight'
    BY <1>7, MainRightStep DEF RightSoFar, MainStep
  <2> QED BY <1>5, <2>1
<1>8. ~MainStepFails /\ ~MainKilled
  BY NoFailure DEF MainStepFails, MainKilled
<1>9. CASE MainExits
  <2>1. main.at > Len(Script[stage]) /\ main.exit = "none" /\ main.at \in Nat /\ Stays
    BY <1>0, <1>9 DEF MainExits, Mains
  <2>2. Tests(stage) \subseteq main.passed
    BY <1>0, <2>1, AllPassed DEF RightSoFar, MainRight
  <2>3. main' = [main EXCEPT !.exit = "0"]
    BY <1>9, <2>2 DEF MainExits
  <2>4. main'.exit = "0"
    BY <1>0, <2>3 DEF Mains
  <2>5. MainRight'
    BY <2>4 DEF MainRight
  <2> QED BY <1>5, <2>1, <2>5
<1>10. CASE MainReaped
  <2>1. main.exit = "0"
    BY <1>0, <1>10 DEF MainReaped, RightSoFar, MainRight
  <2>2. verdict' = [verdict EXCEPT ![stage] = "yes"] /\ stage' = Following(stage) /\ main' = NoMain
    BY <1>10, <2>1 DEF MainReaped, Concludes, Proceed
  <2>3. Passed'
    BY <1>0, <1>1, <2>2, PassedGiven DEF RightSoFar
  <2> QED BY <1>2, <1>3, <1>4, <2>2, <2>3, IdleRight DEF RightSoFar
<1> QED BY <1>6, <1>7, <1>8, <1>9, <1>10 DEF MacNext

LEMMA RightInductive == ASSUME IInv, IInv', VInv, VInv', RInv, [Next]_vars PROVE RInv'
<1> SUFFICES ASSUME kernel' = Right, failed' = {} PROVE RightSoFar'
  BY DEF RInv
<1> USE DEF VInv
<1>1. CASE MountsNext /\ UNCHANGED <<kernel, verdict, timedVars, probeVars, seen, macVars>>
  <2>1. stage' \in Unprobed
    BY <1>1, MountsMoves DEF IInv, TypeInv
  <2> QED BY <2>1, EarlyRight
<1>2. CASE probeKernel
  <2>1. stage' = "cgroup"
    BY <1>2, After DEF probeKernel, Proceed
  <2> QED BY <2>1, EarlyRight
<1>3. ASSUME failed \subseteq failed', kernel' = kernel
      PROVE  kernel = Right /\ failed = {} /\ RightSoFar
  BY <1>3 DEF RInv
<1>4. CASE ProbesNext /\ UNCHANGED <<kernel, seen, macVars>>
  <2>1. failed \subseteq failed'
    BY <1>4, ProbesMoves
  <2> QED BY <1>3, <1>4, <2>1, ProbesRight
<1>5. CASE SecurityNext /\ UNCHANGED <<kernel, timedVars, probeVars, macVars>>
  <2>1. failed \subseteq failed'
    BY <1>5 DEF SecurityNext, ProbeStep, ProbeEnds, Works, Fails
  <2> QED BY <1>3, <1>5, <2>1, SecurityRight
<1>6. CASE MacNext /\ UNCHANGED <<kernel, mountVars, timedVars, probeVars, seen>>
  <2>1. failed \subseteq failed'
    BY <1>6 DEF MacNext, MainStarts, MainStep, MainStepFails, MainKilled, MainExits, MainReaped, Works, Fails
  <2> QED BY <1>3, <1>6, <2>1, MacRight
<1>7. CASE UNCHANGED vars
  <2>1. /\ UNCHANGED <<stage, kernel, failed, verdict, seen, main, call, proc, burn>>
    BY <1>7 DEF vars, timedVars, probeVars, macVars
  <2>2. RightSoFar
    BY <1>3, <2>1
  <2>3. Passed'
    BY <2>1, <2>2, PassedFrame DEF RightSoFar
  <2>4. TimedRight' /\ BurnRight'
    BY <2>1, <2>2 DEF RightSoFar, TimedRight, BurnRight
  <2>5. SeenRight'
    BY <2>1, <2>2 DEF RightSoFar, SeenRight
  <2>6. MainRight'
    BY <2>1, <2>2 DEF RightSoFar, MainRight
  <2> QED BY <2>3, <2>4, <2>5, <2>6 DEF RightSoFar
<1> QED BY <1>1, <1>2, <1>4, <1>5, <1>6, <1>7 DEF Next

\* On a kernel on which all is right, in a boot in which no call fails: every
\* probe says so, whatever the ones before it left behind (the last lines of
\* every probe, and the clean-up of those that change the kernel's state).
THEOREM RightKernelIsTold == Spec => []RightKernelPasses
<1>1. Init => IInv /\ VInv
  BY InitIInv, InitVInv
<1>2. Init => RInv
  <2> SUFFICES ASSUME Init PROVE RightSoFar
    BY DEF RInv
  <2>1. stage = "mounts" /\ burn.base = "none" /\ burn.throttled = "none"
    BY DEF Init, WorldInit, ProbesInit
  <2>2. stage \notin Timed /\ stage \notin Plain /\ stage \notin Mac /\ stage # "mem"
    BY <2>1 DEF Timed, Plain, Mac
  <2> QED BY <2>1, <2>2, BeforeNothing DEF RightSoFar, Passed, TimedRight, BurnRight, SeenRight, MainRight
<1>3. IInv /\ VInv /\ RInv /\ [Next]_vars => (IInv /\ VInv /\ RInv)'
  BY Inductive, VerdictsInductive, RightInductive
<1>4. RInv => RightKernelPasses
  BY BeforeEarly DEF RInv, RightSoFar, Passed, RightKernelPasses
<1> QED BY <1>1, <1>2, <1>3, <1>4, PTL DEF Spec
=============================================================================
