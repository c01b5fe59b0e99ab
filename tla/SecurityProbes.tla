--------------------------- MODULE SecurityProbes ---------------------------
(***************************************************************************)
(* The probes of #! scripts, seccomp filters, user namespaces, volumes and *)
(* joined network namespaces.  Each sets something up, runs children of    *)
(* this binary without a time limit, and judges by what it saw of them:    *)
(* an exit code, the way they died, or the one line they printed.  All of  *)
(* them end by themselves but the sandbox, which reads its stdin until the *)
(* probe closes it.                                                        *)
(***************************************************************************)
EXTENDS Mounts

VARIABLE seen  \* what the current probe saw so far, one entry per step

\* The features of a kernel these probes are about, and how each may be wrong.
PlainFlaws ==
    {<<"shebang", "argv0">>, <<"seccomp", "errno">>, <<"seccomp", "kill">>,
     <<"userns", "off">>, <<"userns", "same">>,
     <<"rootless", "open">>, <<"rootless", "no caps">>, <<"rootless", "host">>, <<"usermap", "off">>,
     <<"volume", "suid">>, <<"volume", "nosuid">>, <<"volume", "noexec">>,
     <<"sandbox", "setns">>, <<"sandbox", "newnet">>}

\* A variant for mutation: the sandbox is waited for before its stdin is closed.
StepsWaitFirst ==
    [shebang |-> <<"self", "symlink", "script", "run">>,
     seccomp |-> <<"errno", "kill">>,
     userns |-> <<"name", "child">>,
     rootless |-> <<"unpriv", "base", "userns">>,
     usermap |-> <<"unpriv", "child">>,
     volume |-> <<"mounts", "copies", "control", "nosuid", "noexec">>,
     sandbox |-> <<"hold", "name", "join", "wait", "close">>]

\* The steps of a probe; where a step of the setup fails it goes no further.
\* The last two of the sandbox are the deferred ones.
Steps ==
    [shebang |-> <<"self", "symlink", "script", "run">>,
     seccomp |-> <<"errno", "kill">>,
     userns |-> <<"name", "child">>,
     rootless |-> <<"unpriv", "base", "userns">>,
     usermap |-> <<"unpriv", "child">>,
     volume |-> <<"mounts", "copies", "control", "nosuid", "noexec">>,
     sandbox |-> <<"hold", "name", "join", "close", "wait">>]

Setup == {<<"shebang", "self">>, <<"shebang", "symlink">>, <<"shebang", "script">>,
          <<"rootless", "unpriv">>, <<"usermap", "unpriv">>,
          <<"volume", "mounts">>, <<"volume", "copies">>, <<"sandbox", "hold">>}

Now == Steps[stage][Len(seen) + 1]

\* What needs /proc: the path of this binary, by which children are started and
\* copies made, and the names of namespaces.
NeedsProc(p, s) ==
    <<p, s>> \notin {<<"shebang", "symlink">>, <<"shebang", "script">>, <<"volume", "mounts">>,
                     <<"sandbox", "close">>, <<"sandbox", "wait">>}

WithoutProc(p, s) == IF s = "name" THEN "ERR" ELSE "none"

\* What the children show on this kernel when nothing fails: usernsProbeChild
\* ends with 0 if its namespace has a name other than its parent's.
Flawed(f) == kernel = <<stage, f>>

seccompProbeChild(mode) ==
    IF Flawed(mode) THEN "exit3" ELSE IF mode = "errno" THEN "exit0" ELSE "signal"

usernsProbeChild(name, parent) == IF name \notin {parent, "ERR"} THEN "exit0" ELSE "exit3"

unshareErrno == IF Flawed("open") THEN "allowed" ELSE "EPERM"

rootlessProbeUserns == IF Flawed("no caps") \/ Flawed("host") THEN "exit3" ELSE "exit0"

usermapProbeChild == IF Flawed("off") THEN "exit3" ELSE "exit0"

\* The user the setuid copy on a volume runs as; nobody where it cannot be run.
execAsUnprivReportEuid(volume) ==
    CASE volume = "control" -> IF Flawed("suid") THEN "user" ELSE "root"
      [] volume = "nosuid" -> IF Flawed("nosuid") THEN "root" ELSE "user"
      [] volume = "noexec" -> IF Flawed("noexec") THEN "root" ELSE "none"

sandboxProbeHold == IF Flawed("newnet") THEN "host" ELSE "sandbox"

\* The sandbox reads its stdin: only an end of file lets it go.
SandboxHolds ==
    /\ stage = "sandbox" /\ Len(seen) > 0
    /\ seen[1] # "died" /\ "closed" \notin {seen[i] : i \in DOMAIN seen}
sandboxProbeJoin(sandbox) == IF Flawed("setns") THEN "host" ELSE sandbox

Shows(p, s) ==
    CASE <<p, s>> = <<"shebang", "run">> -> IF Flawed("argv0") THEN "argv0" ELSE "path"
      [] p = "seccomp" -> seccompProbeChild(s)
      [] s = "name" -> "host"
      [] <<p, s>> = <<"userns", "child">> ->
            IF Flawed("off") THEN "none"
            ELSE usernsProbeChild(IF Flawed("same") THEN "host" ELSE "new", seen[1])
      [] <<p, s>> = <<"rootless", "base">> -> unshareErrno
      [] <<p, s>> = <<"rootless", "userns">> -> rootlessProbeUserns
      [] <<p, s>> = <<"usermap", "child">> -> usermapProbeChild
      [] p = "volume" /\ s \in {"control", "nosuid", "noexec"} -> execAsUnprivReportEuid(s)
      [] s = "hold" -> sandboxProbeHold
      [] s = "join" -> sandboxProbeJoin(seen[1])
      [] s = "close" -> "closed"
      [] s = "wait" -> "reaped"
      [] OTHER -> "started"

\* What it shows when something fails: nothing of a child that does not start or
\* dies early, a signal, the error text for a name, the host's name where setns
\* moved a thread other than the one /proc/self stands for.
Mishaps(p, s) ==
    CASE p = "seccomp" -> {"none", "exit2", "signal"}
      [] s = "name" -> {"ERR"}
      [] s = "hold" -> {"none", "died"}
      [] <<p, s>> = <<"rootless", "base">> -> {"other errno"}
      [] <<p, s>> = <<"sandbox", "join">> -> {"none", "host"}
      [] s \in {"close", "wait"} -> {}
      [] OTHER -> {"none"}

SetupFailed == \E i \in DOMAIN seen : seen[i] = "none" /\ <<stage, Steps[stage][i]>> \in Setup

\* A step of the probe; sandbox.Wait returns only when the sandbox has ended.
ProbeStep ==
    /\ stage \in Plain /\ Len(seen) < Len(Steps[stage]) /\ ~SetupFailed
    /\ Now = "wait" => ~SandboxHolds
    /\ \/ /\ Works
          /\ seen' = Append(seen, IF "/proc" \notin mounted /\ NeedsProc(stage, Now) THEN WithoutProc(stage, Now)
                                  ELSE Shows(stage, Now))
       \/ \E o \in Mishaps(stage, Now) : seen' = Append(seen, o) /\ Fails(<<stage, Now>>)
    /\ Stays /\ UNCHANGED mountVars

\* A variant for mutation: any error of the second seccomp child is taken for a
\* kill, and the control on an ordinary volume is left out.
JudgeLax(p) ==
    CASE p = "seccomp" -> seen[1] = "exit0" /\ seen[2] # "exit0"
      [] p = "volume" -> seen[4] = "user" /\ seen[5] = "none"
      [] OTHER -> TRUE

\* The verdicts: the last lines of the probes.
probeShebang == seen[4] = "path"
runSeccompProbe == seen[1] = "exit0" /\ seen[2] = "signal"
runUsernsProbe == seen[2] = "exit0"
rootlessProbeUnpriv == seen[2] = "EPERM" /\ seen[3] = "exit0"
usermapProbeUnpriv == seen[2] = "exit0"
runVolumeProbe == seen[3] = "root" /\ seen[4] = "user" /\ seen[5] = "none"
runSandboxNetnsProbe == seen[3] = seen[1] /\ seen[1] \in {"host", "sandbox"} /\ seen[1] # seen[2]

Judge(p) ==
    CASE p = "shebang" -> probeShebang
      [] p = "seccomp" -> runSeccompProbe
      [] p = "userns" -> runUsernsProbe
      [] p = "rootless" -> rootlessProbeUnpriv
      [] p = "usermap" -> usermapProbeUnpriv
      [] p = "volume" -> runVolumeProbe
      [] p = "sandbox" -> runSandboxNetnsProbe

\* The probe returns with its verdict.
ProbeEnds ==
    /\ stage \in Plain /\ (SetupFailed \/ Len(seen) = Len(Steps[stage]))
    /\ Concludes(stage, IF SetupFailed THEN "unknown" ELSE IF Judge(stage) THEN "yes" ELSE "no")
    /\ seen' = <<>>
    /\ Works /\ UNCHANGED mountVars

SecurityNext == ProbeStep \/ ProbeEnds
=============================================================================
