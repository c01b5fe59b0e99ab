------------------------------ MODULE NodeBoot ------------------------------
(***************************************************************************)
(* PID 1 of an asterkube node and the daemons it starts: runAsInit with    *)
(* the container-runtime phases (zeroCContainerdTest on a zero-C image,    *)
(* containerdPhase2, kubeletPhase and apiserverPhase otherwise), the       *)
(* cluster join (joinFromBundle, bootArgsJoin), the decision to stay up,   *)
(* serveForever and gracefulShutdown.                                      *)
(*                                                                         *)
(* PID 1 runs its phases one after the other in a single goroutine: `pc'   *)
(* is the call it is in.  The daemons run beside it and may open their     *)
(* socket, register the node or exit between any two of its steps.  All    *)
(* the containerds are given the same --root and the same --address, so    *)
(* they share one socket file, which a killed daemon leaves behind.        *)
(***************************************************************************)
EXTENDS FiniteSets

CONSTANTS
    None,
    Faults  \* "setup": a step of a setup function fails or is too slow;
            \* "die": a daemon exits on its own

ASSUME FaultsAssumption == Faults \subseteq {"setup", "die"}

VARIABLES
    boot,           \* what the image and the kernel command line ask for
    pc,             \* the call PID 1 is in
    proc,           \* per daemon: the process started for it
    sock,           \* the containerd that made /run/containerd/containerd.sock
    registered,     \* the kubelets whose log says the node is registered
    liveProcs,      \* persist_linux.go: the processes kept alive
    clusterJoined,  \* join_bundle_linux.go
    acpi,           \* the shutdown signal: who can catch it, was it sent
    failed          \* history: the daemons whose setup returned on an error
                    \* after it had started them

vars == <<boot, pc, proc, sock, registered, liveProcs, clusterJoined, acpi, failed>>

-----------------------------------------------------------------------------
(* Values.                                                                 *)

\* The daemons by the function that starts them: zeroCContainerdTest,
\* startContainerdDaemon, startStaticContainerd; kubeletPhase,
\* apiserverPhase, and the join's kubelet.
Containerds == {"demo", "runtime", "joinCd"}
Kubelets == {"standalone", "apiserver", "joinKubelet"}
Daemons == Containerds \cup Kubelets

\* joinFromBundle is preferred to bootArgsJoin.
Boots == [pureGo : BOOLEAN, persist : BOOLEAN, join : {"none", "bundle", "args"}]

PCs == {"phases", "demoWait", "demoVersion", "runtimeWait", "runtimeVersion",
        "kubelet", "kubeletWatch", "apiserver", "apiserverWatch",
        "serveWindow", "agent", "join", "joinContainerd", "joinSocket",
        "joinKubelet", "joinWatch", "decide", "notify", "arm", "wait",
        "sigterm", "sigkill", "off"}

\* From "decide" on, PID 1 starts nothing any more.
Settled == {"decide", "notify", "arm", "wait", "sigterm", "sigkill", "off"}

ProcStates == {"none", "run", "serving", "dead"}

\* signal.Notify was called, the kernel watches the button, it was pressed, the
\* signal is in the channel.
Acpi == [notified : BOOLEAN, armed : BOOLEAN, pressed : BOOLEAN, sig : BOOLEAN]

TypeOK ==
    /\ boot \in Boots
    /\ pc \in PCs
    /\ proc \in [Daemons -> ProcStates]
    /\ sock \in Containerds \cup {None}
    /\ registered \subseteq Kubelets
    /\ liveProcs \subseteq Daemons
    /\ clusterJoined \in BOOLEAN
    /\ acpi \in Acpi
    /\ failed \subseteq Daemons

-----------------------------------------------------------------------------
(* Helpers.                                                                *)

Running(d) == proc[d] \in {"run", "serving"}

\* os/exec: Start makes the process, Kill ends it.
Started(d) == [proc EXCEPT ![d] = "run"]
Killed(ds) == [d \in Daemons |-> IF d \in ds /\ proc[d] # "none" THEN "dead" ELSE proc[d]]

\* A step of a setup function may fail.
Fails == "setup" \in Faults

Goto(l) == pc' = l

\* powerOff: "off" is where PID 1 asks the kernel to power down, and stays.
PowerOff == Goto("off")

\* keepAlive(cmd): the callers have started cmd, so cmd.Process is set.
keepAlive(ds) == liveProcs' = liveProcs \cup ds

\* nodeIsLive(): only Cmd.Wait sets ProcessState, and no caller of keepAlive
\* calls it, so a registered process counts whether it runs or not.
nodeIsLive == liveProcs # {}

\* The socket file is there and the daemon behind it answers.
Answers == sock # None /\ proc[sock] = "serving"

Init ==
    /\ boot \in Boots
    /\ pc = "phases"
    /\ proc = [d \in Daemons |-> "none"]
    /\ sock = None
    /\ registered = {}
    /\ liveProcs = {}
    /\ clusterJoined = FALSE
    /\ acpi = [notified |-> FALSE, armed |-> FALSE, pressed |-> FALSE, sig |-> FALSE]
    /\ failed = {}

-----------------------------------------------------------------------------
(* zeroCContainerdTest: static containerd on a zero-C image.               *)

\* No containerd in the image, a dynamic one, no log file, or Start fails.
ZeroCSkip ==
    /\ pc = "phases" /\ boot.pureGo
    /\ Goto("agent")
    /\ UNCHANGED <<boot, proc, sock, registered, liveProcs, clusterJoined, acpi, failed>>

ZeroCStart ==
    /\ pc = "phases" /\ boot.pureGo
    /\ proc' = Started("demo")
    /\ Goto("demoWait")
    /\ UNCHANGED <<boot, sock, registered, liveProcs, clusterJoined, acpi, failed>>

\* The poll of the socket finds the file.
ZeroCSocket ==
    /\ pc = "demoWait" /\ sock # None
    /\ Goto("demoVersion")
    /\ UNCHANGED <<boot, proc, sock, registered, liveProcs, clusterJoined, acpi, failed>>

\* A variant for mutation: the daemon is torn down in the persistent case too.
ZeroCDeferAlwaysKills ==
    /\ proc' = Killed({"demo"})
    /\ Goto("agent")

\* The deferred function: without ASTERKUBE_PERSIST the daemon is killed.
ZeroCDefer ==
    /\ proc' = IF boot.persist THEN proc ELSE Killed({"demo"})
    /\ Goto("agent")

\* The socket never appears, or `ctr version' fails.
ZeroCFail ==
    /\ \/ pc = "demoWait" /\ sock = None
       \/ pc = "demoVersion"
    /\ Fails \/ proc["demo"] = "dead"
    /\ ZeroCDefer
    /\ failed' = IF boot.persist THEN failed \cup {"demo"} ELSE failed
    /\ UNCHANGED <<boot, sock, registered, liveProcs, clusterJoined, acpi>>

\* `ctr version' answers; ctrImportAndRun changes nothing kept here.
ZeroCDone ==
    /\ pc = "demoVersion" /\ Answers
    /\ keepAlive(IF boot.persist THEN {"demo"} ELSE {})
    /\ ZeroCDefer
    /\ UNCHANGED <<boot, sock, registered, clusterJoined, acpi, failed>>

-----------------------------------------------------------------------------
(* runContainerRuntimeTests: containerd and the kubelets from the virtio-fs *)
(* share (containerdPhase2 and what it calls).                             *)

RuntimeSkip ==
    /\ pc = "phases" /\ ~boot.pureGo
    /\ Goto("agent")
    /\ UNCHANGED <<boot, proc, sock, registered, liveProcs, clusterJoined, acpi, failed>>

\* startContainerdDaemon registers the daemon as soon as it is started.
RuntimeStart ==
    /\ pc = "phases" /\ ~boot.pureGo
    /\ proc' = Started("runtime")
    /\ keepAlive({"runtime"})
    /\ Goto("runtimeWait")
    /\ UNCHANGED <<boot, sock, registered, clusterJoined, acpi, failed>>

RuntimeSocket ==
    /\ pc = "runtimeWait" /\ sock # None
    /\ Goto("runtimeVersion")
    /\ UNCHANGED <<boot, proc, sock, registered, liveProcs, clusterJoined, acpi, failed>>

RuntimeFail ==
    /\ \/ pc = "runtimeWait" /\ sock = None
       \/ pc = "runtimeVersion"
    /\ Fails \/ proc["runtime"] = "dead"
    /\ Goto("agent")
    /\ UNCHANGED <<boot, proc, sock, registered, liveProcs, clusterJoined, acpi, failed>>

\* `ctr version' answers; ctrImportAndRun and criPhase keep no state here.
RuntimeDone ==
    /\ pc = "runtimeVersion" /\ Answers
    /\ Goto("kubelet")
    /\ UNCHANGED <<boot, proc, sock, registered, liveProcs, clusterJoined, acpi, failed>>

\* kubeletPhase: skipped, or the kubelet is started, watched for at most 75 s
\* and killed when the function returns.
KubeletStart ==
    /\ pc = "kubelet"
    /\ \/ /\ Goto("apiserver")
          /\ UNCHANGED proc
       \/ /\ proc' = Started("standalone")
          /\ Goto("kubeletWatch")
    /\ UNCHANGED <<boot, sock, registered, liveProcs, clusterJoined, acpi, failed>>

KubeletDone ==
    /\ pc = "kubeletWatch"
    /\ proc' = Killed({"standalone"})
    /\ Goto("apiserver")
    /\ UNCHANGED <<boot, sock, registered, liveProcs, clusterJoined, acpi, failed>>

\* apiserverPhase: skipped, or the kubelet is started.
ApiserverStart ==
    /\ pc = "apiserver"
    /\ \/ /\ Goto("agent")
          /\ UNCHANGED proc
       \/ /\ proc' = Started("apiserver")
          /\ Goto("apiserverWatch")
    /\ UNCHANGED <<boot, sock, registered, liveProcs, clusterJoined, acpi, failed>>

\* The log says the node is registered: the serve window opens.
ApiserverRegistered ==
    /\ pc = "apiserverWatch" /\ "apiserver" \in registered
    /\ Goto("serveWindow")
    /\ UNCHANGED <<boot, proc, sock, registered, liveProcs, clusterJoined, acpi, failed>>

\* 75 s pass; the log was last read before the registration.
ApiserverDeadline ==
    /\ pc = "apiserverWatch"
    /\ proc' = Killed({"apiserver"})
    /\ Goto("agent")
    /\ UNCHANGED <<boot, sock, registered, liveProcs, clusterJoined, acpi, failed>>

ApiserverKept ==
    /\ pc = "serveWindow"
    /\ keepAlive({"apiserver"})
    /\ Goto("agent")
    /\ UNCHANGED <<boot, proc, sock, registered, clusterJoined, acpi, failed>>

\* The probes, runNodeAgent and probeOutboundTCP start no daemon.
NodeAgent ==
    /\ pc = "agent"
    /\ Goto("join")
    /\ UNCHANGED <<boot, proc, sock, registered, liveProcs, clusterJoined, acpi, failed>>

-----------------------------------------------------------------------------
(* joinFromBundle and bootArgsJoin.                                        *)

\* No bundle and no apiserver on the command line.
JoinNone ==
    /\ pc = "join" /\ boot.join = "none"
    /\ Goto("decide")
    /\ UNCHANGED <<boot, proc, sock, registered, liveProcs, clusterJoined, acpi, failed>>

\* writeBootstrapKubeconfig returns an error: no trust anchor, no answer from the
\* apiserver, or a CA that does not match the hash of the command line.
BootstrapFails == boot.join = "args" /\ Fails

\* eth0, resolver, CNI, runc; bootArgsJoin returns here when there is no token
\* or no bootstrap kubeconfig.
JoinPrepare ==
    /\ pc = "join" /\ boot.join # "none"
    /\ \/ Goto("joinContainerd")
       \/ BootstrapFails /\ Goto("decide")
    /\ UNCHANGED <<boot, proc, sock, registered, liveProcs, clusterJoined, acpi, failed>>

\* startStaticContainerd: the log file, then Start.
JoinContainerd ==
    /\ pc = "joinContainerd"
    /\ \/ /\ Fails
          /\ Goto("decide")
          /\ UNCHANGED proc
       \/ /\ proc' = Started("joinCd")
          /\ Goto("joinSocket")
    /\ UNCHANGED <<boot, sock, registered, liveProcs, clusterJoined, acpi, failed>>

\* It returns the daemon and true as soon as the socket file exists.
JoinSocket ==
    /\ pc = "joinSocket" /\ sock # None
    /\ Goto("joinKubelet")
    /\ UNCHANGED <<boot, proc, sock, registered, liveProcs, clusterJoined, acpi, failed>>

\* A variant for mutation: the polls are not bounded.
JoinNoSocketPolls ==
    /\ pc = "joinSocket" /\ sock = None
    /\ UNCHANGED vars

\* 100 polls find no file: the daemon is killed.
JoinNoSocket ==
    /\ pc = "joinSocket" /\ sock = None
    /\ Fails \/ proc["joinCd"] = "dead"
    /\ proc' = Killed({"joinCd"})
    /\ Goto("decide")
    /\ UNCHANGED <<boot, sock, registered, liveProcs, clusterJoined, acpi, failed>>

\* The kubelet's log file, then Start; on an error the caller just returns.
JoinKubelet ==
    /\ pc = "joinKubelet"
    /\ \/ /\ Fails
          /\ Goto("decide")
          /\ failed' = failed \cup {"joinCd"}
          /\ UNCHANGED proc
       \/ /\ proc' = Started("joinKubelet")
          /\ Goto("joinWatch")
          /\ UNCHANGED failed
    /\ UNCHANGED <<boot, sock, registered, liveProcs, clusterJoined, acpi>>

\* A variant for mutation: the containerd of the join is not registered.
JoinRegisteredKubeletOnly ==
    /\ pc = "joinWatch" /\ "joinKubelet" \in registered
    /\ clusterJoined' = TRUE
    /\ keepAlive({"joinKubelet"})
    /\ Goto("decide")
    /\ UNCHANGED <<boot, proc, sock, registered, acpi, failed>>

JoinRegistered ==
    /\ pc = "joinWatch" /\ "joinKubelet" \in registered
    /\ clusterJoined' = TRUE
    /\ keepAlive({"joinCd", "joinKubelet"})
    /\ Goto("decide")
    /\ UNCHANGED <<boot, proc, sock, registered, acpi, failed>>

\* A variant for mutation: containerd is forgotten.
JoinDeadlineKubeletOnly ==
    /\ pc = "joinWatch"
    /\ proc' = Killed({"joinKubelet"})
    /\ Goto("decide")
    /\ UNCHANGED <<boot, sock, registered, liveProcs, clusterJoined, acpi, failed>>

\* 75 s pass without the line in the log: both daemons are killed.
JoinDeadline ==
    /\ pc = "joinWatch"
    /\ proc' = Killed({"joinCd", "joinKubelet"})
    /\ Goto("decide")
    /\ UNCHANGED <<boot, sock, registered, liveProcs, clusterJoined, acpi, failed>>

-----------------------------------------------------------------------------
(* Staying up and going down.                                              *)

Decide ==
    /\ pc = "decide"
    /\ IF nodeIsLive \/ boot.persist THEN Goto("notify") ELSE PowerOff
    /\ UNCHANGED <<boot, proc, sock, registered, liveProcs, clusterJoined, acpi, failed>>

\* A variant for mutation: the monitor is armed with no channel to signal.
NotifyArmsOnly ==
    /\ pc = "notify"
    /\ acpi' = [acpi EXCEPT !.armed = TRUE]
    /\ Goto("arm")
    /\ UNCHANGED <<boot, proc, sock, registered, liveProcs, clusterJoined, failed>>

\* serveForever: first the channel, then the kernel's power-button monitor.
Notify ==
    /\ pc = "notify"
    /\ acpi' = [acpi EXCEPT !.notified = TRUE]
    /\ Goto("arm")
    /\ UNCHANGED <<boot, proc, sock, registered, liveProcs, clusterJoined, failed>>

\* Best effort: without the kernel extension the prctl fails.
ArmACPIShutdown ==
    /\ pc = "arm"
    /\ \/ acpi' = [acpi EXCEPT !.armed = TRUE]
       \/ Fails /\ UNCHANGED acpi
    /\ Goto("wait")
    /\ UNCHANGED <<boot, proc, sock, registered, liveProcs, clusterJoined, failed>>

\* s := <-sigs, then gracefulShutdown's first loop.
Sigterm ==
    /\ pc = "wait" /\ acpi.sig
    /\ Goto("sigterm")
    /\ UNCHANGED <<boot, proc, sock, registered, liveProcs, clusterJoined, acpi, failed>>

\* 3 s pass.
DrainOver ==
    /\ pc = "sigterm"
    /\ Goto("sigkill")
    /\ UNCHANGED <<boot, proc, sock, registered, liveProcs, clusterJoined, acpi, failed>>

\* A variant for mutation: stragglers are not killed.
DrainOnlyPowerOff ==
    /\ pc = "sigkill"
    /\ PowerOff
    /\ UNCHANGED <<boot, proc, sock, registered, liveProcs, clusterJoined, acpi, failed>>

\* The second loop, Sync and powerOff.
SigkillPowerOff ==
    /\ pc = "sigkill"
    /\ proc' = Killed(liveProcs)
    /\ PowerOff
    /\ UNCHANGED <<boot, sock, registered, liveProcs, clusterJoined, acpi, failed>>

-----------------------------------------------------------------------------
(* The daemons and the power button.                                       *)

\* A containerd serves once it has locked its --root, which another one may
\* hold; it replaces the socket file.
ContainerdServes(d) ==
    /\ proc[d] = "run" /\ pc # "off"
    /\ \A e \in Containerds : proc[e] # "serving"
    /\ proc' = [proc EXCEPT ![d] = "serving"]
    /\ sock' = d
    /\ UNCHANGED <<boot, pc, registered, liveProcs, clusterJoined, acpi, failed>>

\* A kubelet registers the node once its runtime endpoint answers.
KubeletRegisters(k) ==
    /\ proc[k] = "run" /\ pc # "off" /\ Answers
    /\ proc' = [proc EXCEPT ![k] = "serving"]
    /\ registered' = registered \cup {k}
    /\ UNCHANGED <<boot, pc, sock, liveProcs, clusterJoined, acpi, failed>>

\* A daemon exits: on its own, or because of the SIGTERM.
DaemonDies(d) ==
    /\ Running(d) /\ pc # "off"
    /\ \/ "die" \in Faults
       \/ pc = "sigterm" /\ d \in liveProcs
    /\ proc' = Killed({d})
    /\ UNCHANGED <<boot, pc, sock, registered, liveProcs, clusterJoined, acpi, failed>>

\* The power button: a SIGINT to PID 1 once the monitor is armed, which reaches
\* the channel only if PID 1 asked for it.
PowerButton ==
    /\ acpi.armed /\ ~acpi.pressed /\ pc # "off"
    /\ acpi' = [acpi EXCEPT !.pressed = TRUE, !.sig = acpi.sig \/ acpi.notified]
    /\ UNCHANGED <<boot, pc, proc, sock, registered, liveProcs, clusterJoined, failed>>

\* A SIGTERM or SIGINT sent to PID 1 directly.
DirectSignal ==
    /\ acpi.notified /\ ~acpi.sig /\ pc # "off"
    /\ acpi' = [acpi EXCEPT !.sig = TRUE]
    /\ UNCHANGED <<boot, pc, proc, sock, registered, liveProcs, clusterJoined, failed>>

-----------------------------------------------------------------------------
(* The specification.                                                      *)

Demo == ZeroCSkip \/ ZeroCStart \/ ZeroCSocket \/ ZeroCFail \/ ZeroCDone

Runtime ==
    \/ RuntimeSkip \/ RuntimeStart \/ RuntimeSocket \/ RuntimeFail \/ RuntimeDone
    \/ KubeletStart \/ KubeletDone
    \/ ApiserverStart \/ ApiserverRegistered \/ ApiserverDeadline \/ ApiserverKept

Join ==
    \/ JoinNone \/ JoinPrepare \/ JoinContainerd \/ JoinSocket \/ JoinNoSocket
    \/ JoinKubelet \/ JoinRegistered \/ JoinDeadline

Serve == Decide \/ Notify \/ ArmACPIShutdown \/ Sigterm \/ DrainOver \/ SigkillPowerOff

\* A step of PID 1.
runAsInit == Demo \/ Runtime \/ NodeAgent \/ Join \/ Serve

Environment ==
    \/ \E d \in Containerds : ContainerdServes(d)
    \/ \E k \in Kubelets : KubeletRegisters(k)
    \/ \E d \in Daemons : DaemonDies(d)
    \/ PowerButton
    \/ DirectSignal

Next == runAsInit \/ Environment

Spec == Init /\ [][Next]_vars

\* PID 1 is scheduled, and a containerd that can get its lock opens its socket
\* or exits.  Nothing is assumed of the kubelets or of the power button.
FairSpec ==
    /\ Spec
    /\ WF_vars(runAsInit)
    /\ \A d \in Containerds : WF_vars(ContainerdServes(d))

-----------------------------------------------------------------------------
(* Properties.                                                             *)

\* The daemons that nobody supervises: running, and not in liveProcs.
Orphans == {d \in Daemons : Running(d) /\ d \notin liveProcs}

\* Once PID 1 has decided what to do, every daemon it started and that still
\* runs is in liveProcs: the phases kill what they do not register.  The only
\* exceptions are the demo's containerd under ASTERKUBE_PERSIST and the join's
\* containerd, when the rest of their setup failed.
Supervised ==
    pc \in Settled => Orphans \subseteq failed \cap {"demo", "joinCd"}

\* When the machine is off, because no node came up or after gracefulShutdown,
\* no other daemon was still running.
OffMeansStopped ==
    pc = "off" => \A d \in Daemons \ failed : ~Running(d)

\* The banner of serveForever and the list of gracefulShutdown agree.  A join
\* that is claimed was registered by the join's kubelet and both its daemons are
\* kept; of a join that is not, also one whose kubelet registered just when the
\* 75 s were over, neither daemon counts as a live node.
JoinedIsKept ==
    /\ clusterJoined => /\ "joinKubelet" \in registered
                        /\ {"joinCd", "joinKubelet"} \subseteq liveProcs
                        /\ proc["joinCd"] # "none" /\ proc["joinKubelet"] # "none"
    /\ ~clusterJoined => "joinCd" \notin liveProcs /\ "joinKubelet" \notin liveProcs

\* keepAlive: a registered process is never torn down by a later phase of the
\* boot; PID 1 kills it only on the way down.
KeptAlive ==
    [][ \A d \in liveProcs' :
            Running(d) /\ ~Running(d)' /\ pc' # pc => pc = "sigkill" ]_vars

\* nodeIsLive: without ASTERKUBE_PERSIST the node stays up only when at least
\* one registered process is still running at that moment.
StaysUpMeansRunning ==
    [][ pc = "decide" /\ pc' = "notify" /\ ~boot.persist
            => \E d \in liveProcs : Running(d) ]_vars

\* startStaticContainerd waits for the API socket of the daemon it started: the
\* join goes on only when the socket file is that daemon's.
JoinHasContainerd ==
    [][ pc = "joinSocket" /\ pc' = "joinKubelet" => sock = "joinCd" ]_vars

\* The boot comes to an end: the node serves or is powered off.
BootSettles == <>(pc \in {"wait", "off"})

\* A power-button press always ends with the machine off, at whatever point of
\* serveForever it comes.
PressPowersOff == acpi.pressed ~> pc = "off"
=============================================================================
